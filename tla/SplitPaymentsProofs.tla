------------------------- MODULE SplitPaymentsProofs -------------------------
(***************************************************************************)
(* Theorems about SplitPayments, for any number of handlers, guests,       *)
(* requests and faults: Doinsport comes before the money, the money of a   *)
(* share is taken once, a checkout that fails leaves nothing behind, and   *)
(* money is conserved, the rows keep their types.  Until the part on money *)
(* tasks and shares are known by their fields, and amounts need no type.   *)
(***************************************************************************)
EXTENDS SplitPayments, Sums, TLAPS

-----------------------------------------------------------------------------
(***************************************************************************)
(* Doinsport first.  Until it accepts, no handler is past the call that    *)
(* asks, nothing of the shares exists and nothing was captured.            *)
(***************************************************************************)
EarlyPc == {"idle", "claim", "party", "reopen", "authorize", "voidOpen", "insertPayment",
            "voidOrphan", "revert", "guarantee", "guaranteeRow", "legacy", "void",
            "cancelPayment", "releaseEntirely", "markReleased", "fail", "review"}

EarlyTask == [op : {"none", "checkout"}, pc : EarlyPc, kind : {"WALLET_RESERVE", "CARD_OFF_SESSION"},
              share : {0}, answer : {"none"}, todo : {{}}, amount : {0}]

NotAccepted == bill.writes /\ legacy \in {"free", "taken"}

NothingSold ==
    /\ task \in [Procs -> EarlyTask]
    /\ booking \in {"CHECKOUT_PENDING", "PAYMENT_PENDING", "FAILED", "MANUAL_REVIEW"}
    /\ organizer \in [intent : IntentStatus \ {"succeeded"}, answer : Answer, payment : PaymentStatus]
    /\ \A s \in Guests : shares[s].status = "absent" /\ shares[s].taken = 0

LegacyInv == legacy \in {"free", "ours", "taken", "canceled"} /\ (NotAccepted => NothingSold)

\* The first state satisfies the invariant.
LEMMA LegacyStart == Init => LegacyInv
BY DEF Init, LegacyInv, NotAccepted, NothingSold, Idle, EarlyTask, EarlyPc, IntentStatus, Answer, PaymentStatus

\* A handler that moves among the early calls keeps the type of the tasks.
LEMMA EarlyMoves ==
    ASSUME NothingSold, NEW p \in Procs
    PROVE  /\ \A pc \in EarlyPc : Goto(p, pc) => task' \in [Procs -> EarlyTask]
           /\ Done(p) => task' \in [Procs -> EarlyTask]
           /\ \A k \in {"WALLET_RESERVE", "CARD_OFF_SESSION"} :
                Become(p, [Idle EXCEPT !.op = "checkout", !.pc = "claim", !.kind = k])
                    => task' \in [Procs -> EarlyTask]
<1>1. task[p] \in EarlyTask  BY DEF NothingSold
<1>2. \A pc \in EarlyPc : [task[p] EXCEPT !.pc = pc] \in EarlyTask  BY <1>1 DEF EarlyTask
<1>3. Idle \in EarlyTask  BY DEF Idle, EarlyTask, EarlyPc
<1>4. \A k \in {"WALLET_RESERVE", "CARD_OFF_SESSION"} :
        [Idle EXCEPT !.op = "checkout", !.pc = "claim", !.kind = k] \in EarlyTask
  BY DEF Idle, EarlyTask, EarlyPc
<1> QED  BY <1>2, <1>3, <1>4 DEF NothingSold, Goto, Done, Become

\* What the calls to Stripe leave of the organizer's payment.
LEMMA OrganizerEarly ==
    ASSUME NothingSold
    PROVE  /\ \A a \in Answer : Asked(organizer, a) \in
                [intent : IntentStatus \ {"succeeded"}, answer : Answer, payment : PaymentStatus]
           /\ Canceled(organizer) \in
                [intent : IntentStatus \ {"succeeded"}, answer : Answer, payment : PaymentStatus]
           /\ \A s \in PaymentStatus : [organizer EXCEPT !.payment = s] \in
                [intent : IntentStatus \ {"succeeded"}, answer : Answer, payment : PaymentStatus]
<1>1. \A a \in Answer : IntentFor(a) \in IntentStatus \ {"succeeded"}
  BY DEF IntentFor, IntentStatus, Answer
<1> QED  BY <1>1 DEF NothingSold, Asked, Canceled, IntentStatus

\* No step takes an acceptance back.
LEMMA AcceptedStays ==
    ASSUME LegacyInv, NEW p \in Procs, Handle(p) \/ Start(p)
    PROVE  legacy' \in {"free", "ours", "taken", "canceled"} /\ (NotAccepted' => NotAccepted)
BY DEF LegacyInv, NotAccepted, Handle, Start, Claim, CheckParty, Reopen, Revert, Authorize, VoidOpen, VoidOrphan,
   InsertPayment, ReserveCredits, RefuseCredits, InsertGuarantee, LegacyAccepts, LegacyCollides,
   VoidAuthorization, CancelPayment, ReleaseEntirely, MarkReleased, FailBooking, Review, Capture,
   CaptureFailed, RecordSuccess, Confirm, CreateShares, Invite, ClaimShare, Debit, AuthorizeShare,
   InsertShare, CaptureShare, ShareFailed, RecordShare, Catch, MarkPaid, FindGuarantee, ReleaseAmount,
   Reread, FindHold, ReduceHold, ReleaseHold, MarkGuarantee, FindUnpaid, Cover, FindRemaining, TakeHold,
   ChargeSavedMethod, CaptureCharge, FailGuarantee, Consume, CancelClaim, CancelLegacy, CancelDone,
   Fault, LostAcceptance, LostCapture, StartCheckout, StartPay, StartRegularise, StartCancel,
   OnlyShares, OnlyPledge, club

\* Before the acceptance only the calls of EarlyPc run.
LEMMA OnlyEarly ==
    ASSUME NothingSold, NEW p \in Procs, Handle(p)
    PROVE  \/ Claim(p) \/ CheckParty(p) \/ Reopen(p) \/ Revert(p) \/ Authorize(p) \/ VoidOpen(p)
           \/ VoidOrphan(p) \/ InsertPayment(p) \/ ReserveCredits(p) \/ RefuseCredits(p)
           \/ InsertGuarantee(p) \/ LegacyAccepts(p) \/ LegacyCollides(p) \/ VoidAuthorization(p)
           \/ CancelPayment(p) \/ ReleaseEntirely(p) \/ MarkReleased(p) \/ FailBooking(p) \/ Review(p)
           \/ Fault(p) \/ LostAcceptance(p)
<1>1. task[p].pc \in EarlyPc  BY DEF NothingSold, EarlyTask
<1> QED
  BY <1>1 DEF At, EarlyPc, Handle, Capture, CaptureFailed, RecordSuccess, Confirm, CreateShares, Invite, ClaimShare,
     Debit, AuthorizeShare, InsertShare, CaptureShare, ShareFailed, RecordShare, Catch, MarkPaid, FindGuarantee,
     ReleaseAmount, Reread, FindHold, ReduceHold, ReleaseHold, MarkGuarantee, FindUnpaid, Cover, FindRemaining,
     TakeHold, ChargeSavedMethod, CaptureCharge, FailGuarantee, Consume, CancelClaim, CancelLegacy, CancelDone,
     LostCapture, Faulty

\* A step that leaves the booking unaccepted sells nothing.
LEMMA EarlyHandled ==
    ASSUME LegacyInv, NEW p \in Procs, Handle(p), NotAccepted'
    PROVE  NothingSold'
<1>0. NotAccepted /\ NothingSold  BY AcceptedStays DEF LegacyInv
<1>p. task[p].pc \in EarlyPc  BY <1>0 DEF NothingSold, EarlyTask
<1> USE <1>0, EarlyMoves
<1>1. CASE Claim(p)
  BY <1>1 DEF Claim, NothingSold, EarlyPc, payers
<1>2. CASE CheckParty(p)
  <2>1. task' \in [Procs -> EarlyTask]  BY <1>2 DEF CheckParty, EarlyPc
  <2> QED  BY <1>2, <2>1 DEF CheckParty, NothingSold, club, payers
<1>3. CASE Reopen(p) \/ Revert(p) \/ FailBooking(p) \/ Review(p)
  <2>1. task' \in [Procs -> EarlyTask]  BY <1>3 DEF Reopen, Revert, FailBooking, Review
  <2> QED  BY <1>3, <2>1 DEF Reopen, Revert, FailBooking, Review, NothingSold, payers
<1>4. CASE Authorize(p)
  <2>1. PICK a \in Answers(organizer, Answer \ {"none"}) :
          /\ organizer' = Asked(organizer, a)
          /\ Goto(p, CASE a = "requires_capture" -> "insertPayment"
                       [] a = "requires_action"  -> "voidOpen"
                       [] a = "failed"           -> "reopen"
                       [] OTHER                  -> "revert")
    BY <1>4 DEF Authorize
  <2>2. a \in Answer  BY DEF Answers, Answer, NothingSold
  <2>3. task' \in [Procs -> EarlyTask]
    <3>1. (CASE a = "requires_capture" -> "insertPayment"
             [] a = "requires_action"  -> "voidOpen"
             [] a = "failed"           -> "reopen"
             [] OTHER                  -> "revert") \in EarlyPc
      BY DEF EarlyPc
    <3> QED  BY <2>1, <3>1
  <2> QED  BY <1>4, <2>1, <2>2, <2>3, OrganizerEarly DEF Authorize, NothingSold, payers
<1>5. CASE VoidOpen(p) \/ VoidOrphan(p) \/ VoidAuthorization(p)
  <2>1. task' \in [Procs -> EarlyTask]  BY <1>5 DEF VoidOpen, VoidOrphan, VoidAuthorization, EarlyPc
  <2> QED  BY <1>5, <2>1, OrganizerEarly DEF VoidOpen, VoidOrphan, VoidAuthorization, NothingSold, payers
<1>6. CASE InsertPayment(p) \/ CancelPayment(p)
  <2>1. task' \in [Procs -> EarlyTask]  BY <1>6 DEF InsertPayment, CancelPayment, EarlyPc
  <2>2. "AUTHORIZED" \in PaymentStatus /\ "CANCELED" \in PaymentStatus  BY DEF PaymentStatus
  <2> QED  BY <1>6, <2>1, <2>2, OrganizerEarly DEF InsertPayment, CancelPayment, NothingSold, payers
<1>7. CASE ReserveCredits(p) \/ RefuseCredits(p) \/ ReleaseEntirely(p) \/ MarkReleased(p)
  <2>1. task' \in [Procs -> EarlyTask]
    BY <1>7 DEF ReserveCredits, RefuseCredits, ReleaseEntirely, MarkReleased, EarlyPc
  <2> QED  BY <1>7, <2>1 DEF ReserveCredits, RefuseCredits, ReleaseEntirely, MarkReleased, NothingSold, club, payers
<1>8. CASE InsertGuarantee(p)
  <2>1. AfterGuarantee \in EarlyPc  BY DEF AfterGuarantee, NotAccepted, EarlyPc
  <2>2. task' \in [Procs -> EarlyTask]  BY <1>8, <2>1 DEF InsertGuarantee
  <2> QED  BY <1>8, <2>2 DEF InsertGuarantee, NothingSold, club, payers
<1>9. CASE LegacyAccepts(p) \/ LostAcceptance(p)
  BY <1>9 DEF LegacyAccepts, LostAcceptance, NotAccepted
<1>10. CASE LegacyCollides(p)
  <2>1. task' \in [Procs -> EarlyTask]  BY <1>10 DEF LegacyCollides, EarlyPc
  <2> QED  BY <1>10, <2>1 DEF LegacyCollides, NothingSold, payers
<1>11. CASE Fault(p)
  <2>1. Handler(task[p].pc) \in EarlyPc  BY <1>p DEF Handler, EarlyPc
  <2>2. task' \in [Procs -> EarlyTask]  BY <1>11, <2>1 DEF Fault, Raise
  <2> QED  BY <1>11, <2>2 DEF Fault, NothingSold, club, payers
<1> QED  BY <1>0, <1>1, <1>2, <1>3, <1>4, <1>5, <1>6, <1>7, <1>8, <1>9, <1>10, <1>11, OnlyEarly

\* No share can be paid, covered or canceled before the booking is sold.
LEMMA EarlyStarted ==
    ASSUME LegacyInv, NEW p \in Procs, Start(p), NotAccepted'
    PROVE  NothingSold'
<1>0. NotAccepted /\ NothingSold  BY AcceptedStays DEF LegacyInv
<1>1. StartCheckout(p)  BY <1>0 DEF Start, StartPay, StartRegularise, StartCancel, NothingSold
<1>2. task' \in [Procs -> EarlyTask]  BY <1>0, <1>1, EarlyMoves DEF StartCheckout
<1> QED  BY <1>0, <1>1, <1>2 DEF StartCheckout, NothingSold, club, payers

\* Every step keeps the invariant.
LEMMA LegacyStep == LegacyInv /\ [Next]_vars => LegacyInv'
<1>1. ASSUME LegacyInv, NEW p \in Procs, Handle(p) \/ Start(p)  PROVE LegacyInv'
  BY <1>1, AcceptedStays, EarlyHandled, EarlyStarted DEF LegacyInv
<1>2. ASSUME LegacyInv, UNCHANGED vars  PROVE LegacyInv'
  BY <1>2 DEF vars, LegacyInv, NotAccepted, NothingSold
<1> QED  BY <1>1, <1>2 DEF Next

\* With LEGACY_WRITE_ENABLED no money moves, the organizer's or a guest's,
\* before Doinsport accepted the booking, whatever handlers race and whichever
\* calls fail.
THEOREM SplitLegacyFirst == Spec => []LegacyBeforeMoney
<1>1. LegacyInv => LegacyBeforeMoney
  BY DEF LegacyInv, NotAccepted, NothingSold, LegacyBeforeMoney
<1> QED  BY <1>1, LegacyStart, LegacyStep, PTL DEF Spec

-----------------------------------------------------------------------------
(***************************************************************************)
(* A share is taken once.  One checkout holds the claim of the booking, so *)
(* the shares are created once; a guest's payment holds the claim of the   *)
(* share; a share that may be claimed was never taken.                     *)
(***************************************************************************)
TaskFields == {"op", "pc", "kind", "share", "answer", "todo", "amount"}
ShareFields == {"status", "intent", "answer", "payment", "taken"}

Shape ==
    /\ bill \in [writes : LegacyModes, guests : Parties, fee : Fees, allocation : Allocations]
    /\ DOMAIN task = Procs /\ \A p \in Procs : DOMAIN task[p] = TaskFields
    /\ DOMAIN shares = Guests /\ \A s \in Guests : DOMAIN shares[s] = ShareFields

\* the calls of a checkout that holds the claim, and those that follow the sale
Held == {"party", "reopen", "authorize", "voidOpen", "insertPayment", "voidOrphan", "revert",
         "guarantee", "guaranteeRow", "legacy", "void", "cancelPayment", "releaseEntirely",
         "markReleased", "fail", "review", "capture", "captureFailed", "recordSuccess", "confirm"}
Making == {"createShares", "invite"}
Canceling == {"cancelLegacy", "cancelDone"}
\* the calls of a payment that holds its share, and those before the money is taken
Trying == {"debit", "authorizeShare", "insertShare", "captureShare", "shareFailed", "catch"}
Paying == Trying \cup {"recordShare", "markPaid"}

Unsold == {"CHECKOUT_PENDING", "PAYMENT_PENDING", "FAILED", "MANUAL_REVIEW"}

OnePass ==
    \A p \in Procs :
        /\ task[p].pc \in Held => booking = "PAYMENT_PENDING"
        /\ task[p].pc \in (Held \ {"party", "reopen"}) \cup Making => bill.guests \in Guests
        /\ task[p].pc \in Making \cup Canceling => booking \notin Unsold
        /\ \A q \in Procs : {task[p].pc, task[q].pc} \subseteq Held \cup Making => p = q

Blank(s) == shares[s].status = "absent" /\ shares[s].taken = 0

\* a share nobody was told of
Unknown(s) ==
    /\ shares[s].taken = 0 /\ shares[s].status \in {"OPEN", "COVERED_BY_ORGANIZER"}
    /\ \A q \in Procs : task[q].pc \in PayPc => task[q].share # s

SharesInOrder ==
    /\ booking \in Unsold \/ (\E p \in Procs : task[p].pc = "createShares") => \A s \in Guests : Blank(s)
    /\ \A s \in Guests :
        /\ shares[s].status # "absent" => bill.guests \in Guests /\ s <= bill.guests
        /\ shares[s].status \in {"absent", "OPEN", "INVITED"} => shares[s].taken = 0
        /\ shares[s].taken \in {0, DueBy(s)}

HandlersInOrder ==
    \A p \in Procs :
        /\ task[p].todo \subseteq {s \in Guests : shares[s].status # "absent"}
        /\ task[p].pc = "invite" =>
            /\ task[p].share \in 1..bill.guests
            /\ \A s \in task[p].share..bill.guests : Unknown(s)
        /\ task[p].pc \in PayPc => task[p].share \in Guests /\ shares[task[p].share].status # "absent"
        /\ task[p].pc \in Paying =>
            /\ shares[task[p].share].status \in {"PAYMENT_PENDING", "COVERED_BY_ORGANIZER"}
            /\ \A q \in Procs \ {p} : task[q].pc \in Paying => task[q].share # task[p].share
        /\ task[p].pc \in Trying => shares[task[p].share].taken = 0

TakenInv == Shape /\ OnePass /\ SharesInOrder /\ HandlersInOrder

\* Each share of the bill is a number of cents.
LEMMA DueTyped ==
    ASSUME Shape, bill.guests \in Guests, NEW s \in Guests, s <= bill.guests
    PROVE  DueBy(s) \in Nat
<1> DEFINE parts == bill.guests + 1
<1>1. parts \in Nat \ {0} /\ s + 1 \in 1..parts  BY SplitAssumption DEF Guests
<1>2. bill.fee \in Nat /\ Price \in Nat  BY SplitAssumption DEF Shape
<1> HIDE DEF parts
<1>3. ASSUME NEW total \in Nat  PROVE splitEvenly(total, parts) \in [1..parts -> Nat]
  <2>1. total \div parts \in Nat  BY <1>1, <1>3
  <2> QED  BY <2>1 DEF splitEvenly
<1>4. feeAmounts(bill.fee, parts, bill.allocation) \in [1..parts -> Nat]  BY <1>2, <1>3 DEF feeAmounts
<1>5. computeSplitShares(Price, parts, bill.fee, bill.allocation) \in [1..parts -> Nat]
  <2>0. splitEvenly(Price, parts) \in [1..parts -> Nat]  BY <1>2, <1>3
  <2>1. ASSUME NEW i \in 1..parts
        PROVE  splitEvenly(Price, parts)[i] + feeAmounts(bill.fee, parts, bill.allocation)[i] \in Nat
    <3>1. splitEvenly(Price, parts)[i] \in Nat  BY <2>0
    <3>2. feeAmounts(bill.fee, parts, bill.allocation)[i] \in Nat  BY <1>4
    <3> QED  BY <3>1, <3>2
  <2> QED  BY <2>1 DEF computeSplitShares
<1> QED  BY <1>1, <1>5 DEF DueBy, Due, parts

\* The first state satisfies the invariant.
LEMMA TakenStart == Init => TakenInv
BY DEF Init, TakenInv, Shape, OnePass, SharesInOrder, HandlersInOrder, Idle, TaskFields, ShareFields, Held, Making,
   Canceling, Trying, Paying, PayPc, Unsold, Blank

\* A handler that becomes something else leaves the others alone.
LEMMA Becoming ==
    ASSUME Shape, NEW p \in Procs, NEW t, DOMAIN t = TaskFields, Become(p, t)
    PROVE  /\ DOMAIN task' = Procs /\ \A q \in Procs : DOMAIN task'[q] = TaskFields
           /\ task'[p] = t /\ \A q \in Procs \ {p} : task'[q] = task[q]
BY DEF Shape, Become

\* The next call of a handler, and the end of a handler.
LEMMA Going ==
    ASSUME Shape, NEW p \in Procs, NEW pc, Goto(p, pc)
    PROVE  /\ DOMAIN task' = Procs /\ \A q \in Procs : DOMAIN task'[q] = TaskFields
           /\ task'[p].pc = pc /\ task'[p].share = task[p].share /\ task'[p].todo = task[p].todo
           /\ \A q \in Procs \ {p} : task'[q] = task[q]
<1>1. DOMAIN [task[p] EXCEPT !.pc = pc] = TaskFields  BY DEF Shape
<1>2. /\ [task[p] EXCEPT !.pc = pc].pc = pc /\ [task[p] EXCEPT !.pc = pc].share = task[p].share
      /\ [task[p] EXCEPT !.pc = pc].todo = task[p].todo
  BY DEF Shape, TaskFields
<1> QED  BY <1>1, <1>2, Becoming DEF Goto

LEMMA Ending ==
    ASSUME Shape, NEW p \in Procs, Done(p)
    PROVE  /\ DOMAIN task' = Procs /\ \A q \in Procs : DOMAIN task'[q] = TaskFields
           /\ task'[p].pc = "idle" /\ task'[p].todo = {}
           /\ \A q \in Procs \ {p} : task'[q] = task[q]
BY Becoming DEF Done, Idle, TaskFields

\* A handler that writes none of the booking, the bill and the shares: it keeps
\* the claim it has, and takes none.
LEMMA Moving ==
    ASSUME TakenInv, NEW p \in Procs, UNCHANGED <<bill, booking, shares>>,
           DOMAIN task' = Procs, \A q \in Procs : DOMAIN task'[q] = TaskFields,
           \A q \in Procs \ {p} : task'[q] = task[q],
           task'[p].todo \subseteq {s \in Guests : shares[s].status # "absent"},
           task'[p].pc \notin Making,
           task'[p].pc \in Held =>
                task[p].pc \in Held /\ (task'[p].pc \notin {"party", "reopen"} => bill.guests \in Guests),
           task'[p].pc \in Canceling => task[p].pc \in Canceling,
           task'[p].pc \in PayPc => task[p].pc \in PayPc /\ task'[p].share = task[p].share,
           task'[p].pc \in Paying => task[p].pc \in Paying,
           task'[p].pc \in Trying => task[p].pc \in Trying
    PROVE  TakenInv'
<1> USE DEF TakenInv
<1>1. Shape'  BY DEF Shape
<1>2. OnePass'  BY DEF OnePass, Held, Making
<1>3. \A s \in Guests : DueBy(s)' = DueBy(s)  BY DEF DueBy, Due
<1>4. SharesInOrder'  BY <1>3 DEF SharesInOrder, Blank, Making
<1>5. \A s \in Guests : Unknown(s) => Unknown(s)'  BY DEF Unknown
<1>6. HandlersInOrder'
  <2> SUFFICES ASSUME NEW q \in Procs
               PROVE  /\ task'[q].todo \subseteq {s \in Guests : shares[s].status # "absent"}
                      /\ task'[q].pc = "invite" =>
                            /\ task'[q].share \in 1..bill.guests
                            /\ \A s \in task'[q].share..bill.guests : Unknown(s)'
                      /\ task'[q].pc \in PayPc =>
                            task'[q].share \in Guests /\ shares[task'[q].share].status # "absent"
                      /\ task'[q].pc \in Paying =>
                            /\ shares[task'[q].share].status \in {"PAYMENT_PENDING", "COVERED_BY_ORGANIZER"}
                            /\ \A r \in Procs \ {q} : task'[r].pc \in Paying => task'[r].share # task'[q].share
                      /\ task'[q].pc \in Trying => shares[task'[q].share].taken = 0
    BY DEF HandlersInOrder
  <2>1. \A r \in Procs : task'[r].pc \in Paying => task[r].pc \in Paying /\ task'[r].share = task[r].share
    BY DEF Paying, Trying, PayPc
  <2>2. \A r \in Procs : task'[r].pc \in PayPc => task[r].pc \in PayPc /\ task'[r].share = task[r].share
    OBVIOUS
  <2>3. task'[q].pc = "invite" => q # p  BY DEF Making
  <2>4. CASE q = p  BY <2>1, <2>2, <2>3, <2>4 DEF HandlersInOrder, Paying, Trying, PayPc
  <2>5. CASE q # p
    <3>1. \A s \in Guests : s \in task[q].share..bill.guests /\ task[q].pc = "invite" => Unknown(s)'
      BY <1>5 DEF HandlersInOrder
    <3>2. task[q].pc = "invite" => task[q].share \in 1..bill.guests /\ bill.guests \in Guests
      BY DEF HandlersInOrder, OnePass, Making
    <3>3. task[q].pc = "invite" => task[q].share..bill.guests \subseteq Guests
      BY <3>2, SplitAssumption DEF Guests
    <3> QED  BY <2>1, <2>2, <2>5, <3>1, <3>2, <3>3 DEF HandlersInOrder
  <2> QED  BY <2>4, <2>5
<1> QED  BY <1>1, <1>2, <1>4, <1>6

\* The next call.
LEMMA Stepping ==
    ASSUME TakenInv, NEW p \in Procs, NEW pc, Goto(p, pc), UNCHANGED <<bill, booking, shares>>,
           pc \notin Making,
           pc \in Held => task[p].pc \in Held /\ (pc \notin {"party", "reopen"} => bill.guests \in Guests),
           pc \in Canceling => task[p].pc \in Canceling,
           pc \in PayPc => task[p].pc \in PayPc,
           pc \in Paying => task[p].pc \in Paying,
           pc \in Trying => task[p].pc \in Trying
    PROVE  TakenInv'
<1>1. task[p].todo \subseteq {s \in Guests : shares[s].status # "absent"}  BY DEF TakenInv, HandlersInOrder
<1>2. Shape  BY DEF TakenInv
<1> QED  BY <1>1, <1>2, Going, Moving

\* The end of a handler, whatever its last answer.
LEMMA Finishing ==
    ASSUME TakenInv, NEW p \in Procs, Done(p), UNCHANGED <<bill, booking, shares>>
    PROVE  TakenInv'
<1>1. Shape  BY DEF TakenInv
<1>2. "idle" \notin Making \cup Held \cup Canceling \cup PayPc \cup Paying \cup Trying
  BY DEF Making, Held, Canceling, PayPc, Paying, Trying
<1> QED  BY <1>1, <1>2, Ending, Moving

\* A handler that becomes another task in the middle of a payment or of the
\* regularisation.
LEMMA Changing ==
    ASSUME TakenInv, NEW p \in Procs, NEW t, Become(p, t), UNCHANGED <<bill, booking, shares>>,
           DOMAIN t = TaskFields, t.share = task[p].share,
           t.todo \subseteq {s \in Guests : shares[s].status # "absent"},
           t.pc \notin Making \cup Held \cup Canceling,
           t.pc \in PayPc => task[p].pc \in PayPc,
           t.pc \in Paying => task[p].pc \in Paying,
           t.pc \in Trying => task[p].pc \in Trying
    PROVE  TakenInv'
<1>1. Shape  BY DEF TakenInv
<1> QED  BY <1>1, Becoming, Moving

\* The calls of a checkout between the claim and the confirmation.
LEMMA CheckoutKeeps ==
    ASSUME TakenInv, NEW p \in Procs,
           \/ CheckParty(p) \/ Authorize(p) \/ VoidOpen(p) \/ VoidOrphan(p) \/ InsertPayment(p)
           \/ ReserveCredits(p) \/ RefuseCredits(p) \/ InsertGuarantee(p) \/ LegacyAccepts(p)
           \/ LegacyCollides(p) \/ VoidAuthorization(p) \/ CancelPayment(p) \/ ReleaseEntirely(p)
           \/ MarkReleased(p) \/ Capture(p) \/ CaptureFailed(p) \/ RecordSuccess(p)
    PROVE  TakenInv'
<1>1. UNCHANGED <<bill, booking, shares>> /\ task[p].pc \in Held
  BY DEF CheckParty, Authorize, VoidOpen, VoidOrphan, InsertPayment, ReserveCredits, RefuseCredits, InsertGuarantee,
     LegacyAccepts, LegacyCollides, VoidAuthorization, CancelPayment, ReleaseEntirely, MarkReleased, Capture,
     CaptureFailed, RecordSuccess, At, Held, club, payers
<1>2. task[p].pc \notin {"party", "reopen"} => bill.guests \in Guests  BY <1>1 DEF TakenInv, OnePass
<1>3. \/ Done(p)
      \/ \E pc \in Held : Goto(p, pc) /\ (pc \notin {"party", "reopen"} => bill.guests \in Guests)
  <2>1. CASE CheckParty(p)  BY <2>1 DEF CheckParty, Held
  <2>2. CASE Authorize(p)
    <3>1. PICK a \in Answers(organizer, Answer \ {"none"}) :
            Goto(p, CASE a = "requires_capture" -> "insertPayment"
                      [] a = "requires_action"  -> "voidOpen"
                      [] a = "failed"           -> "reopen"
                      [] OTHER                  -> "revert")
      BY <2>2 DEF Authorize
    <3>2. (CASE a = "requires_capture" -> "insertPayment"
             [] a = "requires_action"  -> "voidOpen"
             [] a = "failed"           -> "reopen"
             [] OTHER                  -> "revert") \in Held
      BY DEF Held
    <3> QED  BY <1>2, <2>2, <3>1, <3>2 DEF Authorize, At
  <2>3. CASE InsertGuarantee(p)
    <3>1. AfterGuarantee \in Held  BY DEF AfterGuarantee, Held
    <3> QED  BY <1>2, <2>3, <3>1 DEF InsertGuarantee, At
  <2> QED
    BY <1>2, <2>1, <2>2, <2>3 DEF VoidOpen, VoidOrphan, InsertPayment, ReserveCredits, RefuseCredits,
       LegacyAccepts, LegacyCollides, VoidAuthorization, CancelPayment, ReleaseEntirely, MarkReleased, Capture,
       CaptureFailed, RecordSuccess, At, Held
<1>4. \A pc \in Held : pc \notin Making \cup Canceling \cup PayPc \cup Paying \cup Trying
  BY DEF Held, Making, Canceling, PayPc, Paying, Trying
<1> QED  BY <1>1, <1>3, <1>4, Stepping, Finishing

\* Exceptions: the catch blocks keep the claim they hold, and only a payment
\* that took no money reopens its share.
LEMMA FaultKeeps ==
    ASSUME TakenInv, "recordShare" \notin FaultPoints, NEW p \in Procs,
           Fault(p) \/ LostAcceptance(p) \/ LostCapture(p)
    PROVE  TakenInv'
<1>1. UNCHANGED <<bill, booking, shares>> /\ Raise(p) /\ task[p].pc # "recordShare"
  BY DEF Fault, LostAcceptance, LostCapture, Faulty, At, club, payers
<1>2. CASE Handler(task[p].pc) = "idle"  BY <1>1, <1>2, Finishing DEF Raise
<1>3. CASE task[p].pc \in {"authorize", "voidOrphan", "voidOpen", "insertPayment", "legacy", "capture"}
  <2>1. Handler(task[p].pc) \in {"revert", "reopen", "voidOrphan", "review", "captureFailed"}
    BY <1>3 DEF Handler
  <2>2. task[p].pc \in Held /\ bill.guests \in Guests  BY <1>3 DEF TakenInv, OnePass, Held
  <2> QED  BY <1>1, <2>1, <2>2, Stepping DEF Raise, Held, Making, Canceling, PayPc, Paying, Trying
<1>4. CASE task[p].pc \in {"debit", "authorizeShare", "insertShare", "captureShare", "shareFailed"}
  <2>1. Handler(task[p].pc) = "catch"  BY <1>4 DEF Handler
  <2>2. task[p].pc \in Trying /\ task[p].pc \in Paying /\ task[p].pc \in PayPc
    BY <1>4 DEF Trying, Paying, PayPc
  <2> QED  BY <1>1, <2>1, <2>2, Stepping DEF Raise, Held, Making, Canceling, PayPc, Paying, Trying
<1> QED  BY <1>1, <1>2, <1>3, <1>4 DEF Handler

\* The guarantee follows the payment; the regularisation charges the organizer.
LEMMA PledgeKeeps ==
    ASSUME TakenInv, NEW p \in Procs,
           \/ FindGuarantee(p) \/ ReleaseAmount(p) \/ Reread(p) \/ FindHold(p) \/ ReduceHold(p)
           \/ ReleaseHold(p) \/ MarkGuarantee(p) \/ FindRemaining(p) \/ TakeHold(p)
           \/ ChargeSavedMethod(p) \/ CaptureCharge(p) \/ FailGuarantee(p) \/ Consume(p) \/ CancelLegacy(p)
    PROVE  TakenInv'
<1>1. UNCHANGED <<bill, booking, shares>>
  BY DEF FindGuarantee, ReleaseAmount, Reread, FindHold, ReduceHold, ReleaseHold, MarkGuarantee, FindRemaining,
     TakeHold, ChargeSavedMethod, CaptureCharge, FailGuarantee, Consume, CancelLegacy, OnlyPledge, club, payers
<1> DEFINE After == {"releaseAmount", "reread", "findHold", "reduceHold", "releaseHold", "markGuarantee"}
           Charging == {"takeHold", "charge", "captureCharge", "failGuarantee", "consume"}
<1>2. After \cap (Making \cup Held \cup Canceling \cup Paying \cup Trying) = {}
      /\ Charging \cap (Making \cup Held \cup Canceling \cup PayPc \cup Paying \cup Trying) = {}
      /\ After \subseteq PayPc
  BY DEF Making, Held, Canceling, PayPc, Paying, Trying
<1>3. CASE FindGuarantee(p) \/ ReleaseAmount(p) \/ FindHold(p) \/ ReduceHold(p) \/ ReleaseHold(p)
  <2>1. task[p].pc \in PayPc
    BY <1>3 DEF FindGuarantee, ReleaseAmount, FindHold, ReduceHold, ReleaseHold, At, PayPc
  <2>2. Done(p) \/ \E pc \in After : Goto(p, pc)
    BY <1>3 DEF FindGuarantee, ReleaseAmount, FindHold, ReduceHold, ReleaseHold
  <2> QED  BY <1>1, <1>2, <2>1, <2>2, Stepping, Finishing
<1>4. CASE TakeHold(p) \/ ChargeSavedMethod(p) \/ CaptureCharge(p)
  <2>1. Done(p) \/ \E pc \in Charging : Goto(p, pc)
    BY <1>4 DEF TakeHold, ChargeSavedMethod, CaptureCharge
  <2> QED  BY <1>1, <1>2, <2>1, Stepping, Finishing
<1>5. CASE MarkGuarantee(p) \/ FailGuarantee(p) \/ Consume(p)
  BY <1>1, <1>5, Finishing DEF MarkGuarantee, FailGuarantee, Consume
<1>6. CASE Reread(p)
  <2> DEFINE t == [task[p] EXCEPT !.amount = guarantee.remaining,
                     !.pc = IF guarantee.kind = "WALLET_RESERVE" THEN "findHold" ELSE "markGuarantee"]
  <2>1. DOMAIN t = TaskFields /\ t.share = task[p].share /\ t.todo = task[p].todo /\ t.pc \in After
    BY DEF TakenInv, Shape, TaskFields
  <2>2. Become(p, t) /\ task[p].pc \in PayPc  BY <1>6 DEF Reread, At, PayPc
  <2>3. task[p].todo \subseteq {s \in Guests : shares[s].status # "absent"}  BY DEF TakenInv, HandlersInOrder
  <2> HIDE DEF t
  <2> QED  BY <1>1, <1>2, <2>1, <2>2, <2>3, Changing
<1>7. CASE FindRemaining(p)
  <2> DEFINE t == [task[p] EXCEPT !.amount = guarantee.remaining,
                     !.pc = IF guarantee.kind = "WALLET_RESERVE" THEN "takeHold" ELSE "charge"]
  <2>1. DOMAIN t = TaskFields /\ t.share = task[p].share /\ t.todo = task[p].todo /\ t.pc \in Charging
    BY DEF TakenInv, Shape, TaskFields
  <2>2. Done(p) \/ Become(p, t)  BY <1>7 DEF FindRemaining
  <2>3. task[p].todo \subseteq {s \in Guests : shares[s].status # "absent"}  BY DEF TakenInv, HandlersInOrder
  <2> HIDE DEF t
  <2> QED  BY <1>1, <1>2, <2>1, <2>2, <2>3, Changing, Finishing
<1>8. CASE CancelLegacy(p)
  BY <1>1, <1>8, Stepping, Finishing DEF CancelLegacy, At, Making, Held, Canceling, PayPc, Paying, Trying
<1> QED  BY <1>3, <1>4, <1>5, <1>6, <1>7, <1>8

\* Requests: only a payment has a share, one that was offered to a guest.
LEMMA StartKeeps ==
    ASSUME TakenInv, NEW p \in Procs, Start(p)
    PROVE  TakenInv'
<1>1. Shape  BY DEF TakenInv
<1>2. CASE StartCheckout(p) \/ StartRegularise(p) \/ StartCancel(p)
  <2>1. PICK t : /\ Become(p, t) /\ DOMAIN t = TaskFields
                 /\ t.pc \in {"claim", "findUnpaid", "cancelClaim"} /\ t.todo = {}
    <3>1. CASE StartCheckout(p)
      <4>1. PICK k : Become(p, [Idle EXCEPT !.op = "checkout", !.pc = "claim", !.kind = k])
        BY <3>1 DEF StartCheckout
      <4> DEFINE t == [Idle EXCEPT !.op = "checkout", !.pc = "claim", !.kind = k]
      <4>2. DOMAIN t = TaskFields /\ t.pc = "claim" /\ t.todo = {}  BY DEF Idle, TaskFields
      <4> HIDE DEF t
      <4> QED  BY <4>1, <4>2 DEF t
    <3>2. CASE StartRegularise(p)
      <4> DEFINE t == [Idle EXCEPT !.op = "regularise", !.pc = "findUnpaid"]
      <4>1. DOMAIN t = TaskFields /\ t.pc = "findUnpaid" /\ t.todo = {}  BY DEF Idle, TaskFields
      <4>2. Become(p, t)  BY <3>2 DEF StartRegularise
      <4> HIDE DEF t
      <4> QED  BY <4>1, <4>2
    <3>3. CASE StartCancel(p)
      <4> DEFINE t == [Idle EXCEPT !.op = "cancel", !.pc = "cancelClaim"]
      <4>1. DOMAIN t = TaskFields /\ t.pc = "cancelClaim" /\ t.todo = {}  BY DEF Idle, TaskFields
      <4>2. Become(p, t)  BY <3>3 DEF StartCancel
      <4> HIDE DEF t
      <4> QED  BY <4>1, <4>2
    <3> QED  BY <1>2, <3>1, <3>2, <3>3
  <2>2. t.pc \notin Making \cup Held \cup Canceling \cup PayPc \cup Paying \cup Trying
    BY <2>1 DEF Making, Held, Canceling, PayPc, Paying, Trying
  <2>3. UNCHANGED <<bill, booking, shares>>
    BY <1>2 DEF StartCheckout, StartRegularise, StartCancel, club, payers
  <2> QED  BY <1>1, <2>1, <2>2, <2>3, Becoming, Moving
<1>3. CASE StartPay(p)
  <2>1. PICK s \in Guests : /\ shares[s].status = "INVITED"
                            /\ Become(p, [Idle EXCEPT !.op = "pay", !.pc = "claimShare", !.share = s])
    BY <1>3 DEF StartPay
  <2> DEFINE t == [Idle EXCEPT !.op = "pay", !.pc = "claimShare", !.share = s]
  <2>2. DOMAIN t = TaskFields /\ t.pc = "claimShare" /\ t.share = s /\ t.todo = {}
    BY DEF Idle, TaskFields
  <2>3. UNCHANGED <<bill, booking, shares>>  BY <1>3 DEF StartPay, club, payers
  <2> HIDE DEF t
  <2>4. /\ DOMAIN task' = Procs /\ \A q \in Procs : DOMAIN task'[q] = TaskFields
        /\ task'[p] = t /\ \A q \in Procs \ {p} : task'[q] = task[q]
    BY <1>1, <2>1, <2>2, Becoming DEF t
  <2>5. "claimShare" \notin Making \cup Held \cup Canceling \cup Paying \cup Trying
    BY DEF Making, Held, Canceling, Paying, Trying
  <2>6. Shape'  BY <1>1, <2>3, <2>4 DEF Shape
  <2>7. OnePass'  BY <2>2, <2>3, <2>4, <2>5 DEF TakenInv, OnePass
  <2>8. \A r \in Guests : DueBy(r)' = DueBy(r)  BY <2>3 DEF DueBy, Due
  <2>9. SharesInOrder'  BY <2>2, <2>3, <2>4, <2>8 DEF TakenInv, SharesInOrder, Blank
  <2>10. \A r \in Guests : Unknown(r) => r # s /\ Unknown(r)'
    BY <2>1, <2>2, <2>3, <2>4 DEF Unknown
  <2>11. HandlersInOrder'
    <3>1. \A q \in Procs : task[q].pc = "invite" =>
            task[q].share..bill.guests \subseteq Guests
      BY SplitAssumption DEF TakenInv, OnePass, HandlersInOrder, Making, Guests
    <3>2. \A q \in Procs : task'[q].pc = "invite" =>
            /\ task'[q].share \in 1..bill.guests
            /\ \A r \in task'[q].share..bill.guests : Unknown(r)'
      BY <2>2, <2>4, <2>10, <3>1 DEF TakenInv, HandlersInOrder
    <3> QED  BY <2>1, <2>2, <2>3, <2>4, <2>5, <3>2 DEF TakenInv, HandlersInOrder
  <2> QED  BY <2>6, <2>7, <2>9, <2>11 DEF TakenInv
<1> QED  BY <1>2, <1>3 DEF Start

\* The status of the booking: the claim, its end, the sale and the cancellation.
LEMMA BookingKeeps ==
    ASSUME TakenInv, NEW p \in Procs,
           \/ Claim(p) \/ Reopen(p) \/ Revert(p) \/ FailBooking(p) \/ Review(p) \/ Confirm(p)
           \/ CancelClaim(p) \/ CancelDone(p)
    PROVE  TakenInv'
<1>1. UNCHANGED <<bill, shares>>
  BY DEF Claim, Reopen, Revert, FailBooking, Review, Confirm, CancelClaim, CancelDone, payers
<1>2. Shape  BY DEF TakenInv
<1>3. \/ Done(p) \/ Goto(p, "party") \/ Goto(p, "createShares") \/ Goto(p, "cancelLegacy") \/ Goto(p, "cancelDone")
  BY DEF Claim, Reopen, Revert, FailBooking, Review, Confirm, CancelClaim, CancelDone
<1>4. /\ DOMAIN task' = Procs /\ \A q \in Procs : DOMAIN task'[q] = TaskFields
      /\ task'[p].pc \in {"idle", "party", "createShares", "cancelLegacy", "cancelDone"}
      /\ task'[p].todo \subseteq task[p].todo
      /\ \A q \in Procs \ {p} : task'[q] = task[q]
  BY <1>2, <1>3, Going, Ending
<1>5. Shape'  BY <1>1, <1>2, <1>4 DEF Shape
<1>6. /\ task'[p].pc = "party" => Claim(p) /\ booking = "CHECKOUT_PENDING" /\ booking' = "PAYMENT_PENDING"
      /\ task'[p].pc = "createShares" => Confirm(p) /\ booking' = "CONFIRMED"
      /\ task'[p].pc \in Canceling =>
            CancelClaim(p) /\ booking = "CONFIRMED" /\ booking' = "CANCEL_PENDING"
  BY <1>2, Going, Ending DEF Claim, Reopen, Revert, FailBooking, Review, Confirm, CancelClaim, CancelDone, Canceling
<1>7. /\ Claim(p) => booking' = booking \/ (booking = "CHECKOUT_PENDING" /\ booking' = "PAYMENT_PENDING")
      /\ Reopen(p) \/ Revert(p) \/ FailBooking(p) \/ Review(p) =>
            task[p].pc \in Held /\ booking = "PAYMENT_PENDING" /\ booking' \in Unsold /\ task'[p].pc = "idle"
      /\ Confirm(p) => task[p].pc = "confirm" /\ booking = "PAYMENT_PENDING" /\ booking' = "CONFIRMED"
                       /\ task'[p].pc = "createShares" /\ bill.guests \in Guests
      /\ CancelClaim(p) => booking' = booking \/ (booking = "CONFIRMED" /\ booking' = "CANCEL_PENDING")
      /\ CancelDone(p) => booking \notin Unsold /\ booking' = "CANCELED"
  BY <1>2, Going, Ending
  DEF Claim, Reopen, Revert, FailBooking, Review, Confirm, CancelClaim, CancelDone, TakenInv, OnePass, At, Held,
      Unsold, Canceling
<1>8. OnePass'
  BY <1>1, <1>4, <1>6, <1>7 DEF TakenInv, OnePass, Held, Making, Canceling, Unsold
<1>9. \A s \in Guests : DueBy(s)' = DueBy(s)  BY <1>1 DEF DueBy, Due
<1>10. booking' \in Unsold => booking \in Unsold
  BY <1>7 DEF Unsold
<1>11. SharesInOrder'
  <2>1. task'[p].pc = "createShares" => \A s \in Guests : Blank(s)
    BY <1>6, <1>7 DEF TakenInv, SharesInOrder, Unsold
  <2> QED  BY <1>1, <1>4, <1>9, <1>10, <2>1 DEF TakenInv, SharesInOrder, Blank
<1>12. HandlersInOrder'
  <2>1. task'[p].pc \notin PayPc \cup Paying \cup Trying \cup {"invite"}
    BY <1>4 DEF PayPc, Paying, Trying
  <2>2. \A s \in Guests : Unknown(s) => Unknown(s)'  BY <1>1, <1>4, <2>1 DEF Unknown
  <2>3. \A q \in Procs : task[q].pc = "invite" => task[q].share..bill.guests \subseteq Guests
    BY SplitAssumption DEF TakenInv, OnePass, HandlersInOrder, Making, Guests
  <2>4. \A q \in Procs : task'[q].pc = "invite" =>
          /\ task'[q].share \in 1..bill.guests
          /\ \A s \in task'[q].share..bill.guests : Unknown(s)'
    BY <1>4, <2>1, <2>2, <2>3 DEF TakenInv, HandlersInOrder
  <2> QED  BY <1>1, <1>4, <2>1, <2>4 DEF TakenInv, HandlersInOrder
<1> QED  BY <1>5, <1>8, <1>11, <1>12 DEF TakenInv

\* A handler that writes one share: it is the only one that pays this share,
\* or it leaves the money and the claim as they are.
LEMMA Writing ==
    ASSUME TakenInv, NEW p \in Procs, NEW s \in Guests, UNCHANGED <<bill, booking>>,
           shares[s].status # "absent", DOMAIN shares' = Guests, DOMAIN shares'[s] = ShareFields,
           \A r \in Guests \ {s} : shares'[r] = shares[r],
           shares'[s].status # "absent", shares'[s].status \in {"OPEN", "INVITED"} => shares'[s].taken = 0,
           shares'[s].taken \in {0, DueBy(s)},
           \A q \in Procs \ {p} : task[q].pc \in Paying /\ task[q].share = s =>
                shares'[s].status \in {"PAYMENT_PENDING", "COVERED_BY_ORGANIZER"} /\ shares'[s].taken = shares[s].taken,
           Unknown(s) => shares'[s].status = "COVERED_BY_ORGANIZER" /\ shares'[s].taken = 0,
           DOMAIN task' = Procs, \A q \in Procs : DOMAIN task'[q] = TaskFields,
           \A q \in Procs \ {p} : task'[q] = task[q],
           task'[p].todo \subseteq {r \in Guests : shares[r].status # "absent"},
           task'[p].pc \notin Making \cup Held \cup Canceling,
           task'[p].pc \in PayPc => task[p].pc \in PayPc /\ task[p].share = s /\ task'[p].share = s,
           task'[p].pc \in Paying =>
                /\ shares'[s].status \in {"PAYMENT_PENDING", "COVERED_BY_ORGANIZER"}
                /\ \A q \in Procs \ {p} : task[q].pc \in Paying => task[q].share # s,
           task'[p].pc \in Trying => shares'[s].taken = 0
    PROVE  TakenInv'
<1>2. Shape'  BY DEF TakenInv, Shape
<1>3. OnePass'  BY DEF TakenInv, OnePass, Making, Held
<1>4. \A r \in Guests : DueBy(r)' = DueBy(r)  BY DEF DueBy, Due
<1>5. booking \notin Unsold /\ \A q \in Procs : task[q].pc # "createShares"
  BY DEF TakenInv, SharesInOrder, Blank
<1>6. SharesInOrder'
  <2>1. ~(booking' \in Unsold \/ \E q \in Procs : task'[q].pc = "createShares")  BY <1>5 DEF Making
  <2>2. ASSUME NEW r \in Guests
        PROVE  /\ shares'[r].status # "absent" => bill.guests \in Guests /\ r <= bill.guests
               /\ shares'[r].status \in {"absent", "OPEN", "INVITED"} => shares'[r].taken = 0
               /\ shares'[r].taken \in {0, DueBy(r)}
    BY DEF TakenInv, SharesInOrder
  <2> QED  BY <1>4, <2>1, <2>2 DEF SharesInOrder
<1>7. \A r \in Guests : Unknown(r) => Unknown(r)'
  BY DEF Unknown
<1>8. \A q \in Procs : task[q].pc = "invite" => task[q].share..bill.guests \subseteq Guests
  BY SplitAssumption DEF TakenInv, OnePass, HandlersInOrder, Making, Guests
<1>9. \A q \in Procs : task'[q].pc = "invite" =>
        /\ task'[q].share \in 1..bill.guests
        /\ \A r \in task'[q].share..bill.guests : Unknown(r)'
  BY <1>7, <1>8 DEF TakenInv, HandlersInOrder, Making
<1>10. ASSUME NEW q \in Procs
       PROVE  /\ task'[q].todo \subseteq {r \in Guests : shares'[r].status # "absent"}
              /\ task'[q].pc \in PayPc => task'[q].share \in Guests /\ shares'[task'[q].share].status # "absent"
  <2>1. {r \in Guests : shares[r].status # "absent"} \subseteq {r \in Guests : shares'[r].status # "absent"}
    OBVIOUS
  <2>2. CASE q = p  BY <2>1, <2>2 DEF TakenInv, HandlersInOrder
  <2>3. CASE q # p  BY <2>1, <2>3 DEF TakenInv, HandlersInOrder
  <2> QED  BY <2>2, <2>3
<1>11. Paying \subseteq PayPc /\ Trying \subseteq Paying  BY DEF PayPc, Paying, Trying
<1>12. ASSUME NEW q \in Procs, task'[q].pc \in Paying
       PROVE  /\ shares'[task'[q].share].status \in {"PAYMENT_PENDING", "COVERED_BY_ORGANIZER"}
              /\ \A r \in Procs \ {q} : task'[r].pc \in Paying => task'[r].share # task'[q].share
              /\ task'[q].pc \in Trying => shares'[task'[q].share].taken = 0
  <2>1. CASE q = p  BY <1>11, <1>12, <2>1
  <2>2. CASE q # p
    <3>1. task[q].pc \in Paying /\ task'[q] = task[q] /\ task[q].share \in Guests
      BY <1>11, <1>12, <2>2 DEF TakenInv, HandlersInOrder
    <3>2. /\ shares[task[q].share].status \in {"PAYMENT_PENDING", "COVERED_BY_ORGANIZER"}
          /\ \A r \in Procs \ {q} : task[r].pc \in Paying => task[r].share # task[q].share
          /\ task[q].pc \in Trying => shares[task[q].share].taken = 0
      BY <3>1 DEF TakenInv, HandlersInOrder
    <3>3. task'[p].pc \in Paying => task'[p].share # task[q].share
      BY <1>11, <2>2, <3>1
    <3> QED  BY <2>2, <3>1, <3>2, <3>3
  <2> QED  BY <2>1, <2>2
<1>13. HandlersInOrder'
  BY <1>9, <1>10, <1>11, <1>12 DEF HandlersInOrder
<1> QED  BY <1>2, <1>3, <1>6, <1>13 DEF TakenInv

\* The payment of a share: the claim, the debit or the card, the end.
LEMMA PaymentKeeps ==
    ASSUME TakenInv, NEW p \in Procs,
           \/ ClaimShare(p) \/ Debit(p) \/ AuthorizeShare(p) \/ InsertShare(p) \/ CaptureShare(p)
           \/ ShareFailed(p) \/ RecordShare(p) \/ Catch(p) \/ MarkPaid(p)
    PROVE  TakenInv'
<1> DEFINE s == task[p].share
           PayPcs == {"debit", "authorizeShare", "insertShare", "captureShare", "shareFailed", "recordShare",
                      "catch", "markPaid", "findGuarantee"}
<1>1. Shape /\ task[p].todo \subseteq {r \in Guests : shares[r].status # "absent"}
  BY DEF TakenInv, HandlersInOrder
<1>2. UNCHANGED <<bill, booking>>
  BY DEF ClaimShare, Debit, AuthorizeShare, InsertShare, CaptureShare, ShareFailed, RecordShare, Catch, MarkPaid,
     OnlyShares, club
<1>3. task[p].pc \in {"claimShare"} \cup Paying /\ task[p].pc \in PayPc
  BY DEF ClaimShare, Debit, AuthorizeShare, InsertShare, CaptureShare, ShareFailed, RecordShare, Catch, MarkPaid,
     At, PayPc, Paying, Trying
<1>4. s \in Guests /\ shares[s].status # "absent" /\ DOMAIN shares[s] = ShareFields /\ ~Unknown(s)
  BY <1>3 DEF TakenInv, Shape, HandlersInOrder, Unknown
<1>5. DueBy(s) \in Nat /\ shares[s].taken \in {0, DueBy(s)}
  BY <1>1, <1>4, DueTyped DEF TakenInv, SharesInOrder
<1>6. PayPcs \cap (Making \cup Held \cup Canceling) = {} /\ PayPcs \subseteq PayPc
  BY DEF Making, Held, Canceling, PayPc
<1>7. ASSUME NEW row, shares' = [shares EXCEPT ![s] = row], DOMAIN row = ShareFields,
             row.status # "absent", row.status \in {"OPEN", "INVITED"} => row.taken = 0,
             row.taken \in {0, DueBy(s)},
             \A q \in Procs \ {p} : task[q].pc \in Paying => task[q].share # s,
             DOMAIN task' = Procs, \A q \in Procs : DOMAIN task'[q] = TaskFields,
             \A q \in Procs \ {p} : task'[q] = task[q],
             task'[p].todo \subseteq task[p].todo,
             task'[p].pc = "idle" \/ (task'[p].pc \in PayPcs /\ task'[p].share = s),
             task'[p].pc \in Paying => row.status \in {"PAYMENT_PENDING", "COVERED_BY_ORGANIZER"},
             task'[p].pc \in Trying => row.taken = 0
      PROVE  TakenInv'
  <2>1. PICK r \in Guests : r = s  BY <1>4
  <2>2. "idle" \notin PayPc \cup Paying \cup Making \cup Held \cup Canceling
    BY DEF PayPc, Paying, Trying, Making, Held, Canceling
  <2>3. task'[p].pc \notin Making \cup Held \cup Canceling  BY <1>6, <1>7, <2>2
  <2>4. task'[p].pc \in PayPc => task[p].pc \in PayPc /\ task[p].share = r /\ task'[p].share = r
    BY <1>3, <1>7, <2>1, <2>2
  <2>5. /\ shares[r].status # "absent" /\ shares' = [shares EXCEPT ![r] = row]
        /\ row.taken \in {0, DueBy(r)} /\ ~Unknown(r)
    BY <1>3, <1>4, <1>7, <2>1 DEF DueBy, Unknown
  <2>6. \A q \in Procs \ {p} : task[q].pc \in Paying => task[q].share # r
    BY <1>7, <2>1
  <2>7. task'[p].todo \subseteq {i \in Guests : shares[i].status # "absent"}  BY <1>1, <1>7
  <2>8. /\ DOMAIN shares' = Guests /\ shares'[r] = row /\ \A i \in Guests \ {r} : shares'[i] = shares[i]
    BY <1>1, <2>5 DEF Shape
  <2> HIDE DEF s, PayPcs
  <2> QED  BY <1>2, <1>7, <2>3, <2>4, <2>5, <2>6, <2>7, <2>8, Writing
<1>8. task[p].pc \in Paying =>
        /\ \A q \in Procs \ {p} : task[q].pc \in Paying => task[q].share # s
        /\ shares[s].status \in {"PAYMENT_PENDING", "COVERED_BY_ORGANIZER"}
        /\ task[p].pc \in Trying => shares[s].taken = 0
  BY DEF TakenInv, HandlersInOrder
<1>9. ASSUME NEW pc \in PayPcs, Goto(p, pc)
      PROVE  /\ DOMAIN task' = Procs /\ \A q \in Procs : DOMAIN task'[q] = TaskFields
             /\ task'[p].pc = pc /\ task'[p].share = s /\ task'[p].todo = task[p].todo
             /\ \A q \in Procs \ {p} : task'[q] = task[q]
  BY <1>1, <1>9, Going
<1>10. ASSUME Done(p)
       PROVE  /\ DOMAIN task' = Procs /\ \A q \in Procs : DOMAIN task'[q] = TaskFields
              /\ task'[p].pc = "idle" /\ task'[p].todo = {} /\ \A q \in Procs \ {p} : task'[q] = task[q]
  BY <1>1, <1>10, Ending
<1>11. "idle" \notin Paying \cup Trying /\ Trying \subseteq Paying
       /\ "markPaid" \notin Trying /\ "recordShare" \notin Trying /\ "findGuarantee" \notin Paying
  BY DEF Paying, Trying
<1>20. UNCHANGED shares /\ (Done(p) \/ \E pc \in {"catch"} : Goto(p, pc)) /\ task[p].pc \in Trying \cup {"claimShare", "markPaid"}
       /\ (task[p].pc \in {"claimShare", "markPaid"} => Done(p)) => TakenInv'
  <2>1. "catch" \in PayPc \cap Paying \cap Trying \cap PayPcs  BY DEF PayPc, Paying, Trying
  <2>2. Trying \cap {"claimShare", "markPaid"} = {}  BY DEF Trying
  <2>3. ASSUME UNCHANGED shares, task[p].pc \in Trying, Goto(p, "catch")  PROVE TakenInv'
    BY <1>2, <1>3, <1>6, <1>11, <2>1, <2>3, Stepping
  <2> QED  BY <1>2, <2>2, <2>3, Finishing
<1>12. CASE ClaimShare(p)
  <2>1. CASE Share(p).status \in {"OPEN", "INVITED"}
    <3> DEFINE row == [shares[s] EXCEPT !.status = "PAYMENT_PENDING"]
    <3>1. PICK pc \in {"debit", "authorizeShare"} : Goto(p, pc)  BY <1>12, <2>1 DEF ClaimShare
    <3>2. shares' = [shares EXCEPT ![s] = row]  BY <1>12, <2>1 DEF ClaimShare, Write, Share
    <3>3. /\ DOMAIN row = ShareFields /\ row.status = "PAYMENT_PENDING" /\ row.taken = shares[s].taken
      BY <1>4 DEF ShareFields
    <3>4. shares[s].taken = 0  BY <1>4, <2>1 DEF TakenInv, SharesInOrder, Share
    <3>5. \A q \in Procs \ {p} : task[q].pc \in Paying => task[q].share # s
      BY <2>1 DEF TakenInv, HandlersInOrder, Share
    <3>6. pc \in PayPcs  OBVIOUS
    <3> HIDE DEF row
    <3> QED  BY <1>7, <1>9, <3>1, <3>2, <3>3, <3>4, <3>5, <3>6
  <2>2. CASE Share(p).status \notin {"OPEN", "INVITED"}
    BY <1>12, <1>20, <2>2 DEF ClaimShare, At
  <2> QED  BY <2>1, <2>2
<1>13. ASSUME NEW row, shares' = [shares EXCEPT ![s] = row], DOMAIN row = ShareFields,
              row.status = shares[s].status, row.taken \in {shares[s].taken},
              task[p].pc \in Paying,
              NEW pc \in {"catch", "captureShare", "markPaid", "recordShare", "shareFailed", "insertShare"},
              DOMAIN task' = Procs, \A q \in Procs : DOMAIN task'[q] = TaskFields,
              task'[p].pc = pc, task'[p].share = s, task'[p].todo = task[p].todo,
              \A q \in Procs \ {p} : task'[q] = task[q],
              pc \in Trying => task[p].pc \in Trying
       PROVE  TakenInv'
  <2>1. row.status # "absent" /\ row.status \notin {"OPEN", "INVITED"}  BY <1>8, <1>13
  <2>2. row.taken \in {0, DueBy(s)}  BY <1>5, <1>13
  <2>3. pc \in PayPcs  OBVIOUS
  <2> HIDE DEF s, PayPcs
  <2> QED  BY <1>7, <1>8, <1>13, <2>1, <2>2, <2>3
<1>14. ASSUME NEW row, shares' = [shares EXCEPT ![s] = row], DOMAIN row = ShareFields,
              row.status = shares[s].status, row.taken = shares[s].taken + DueBy(s),
              task[p].pc \in Trying,
              NEW pc \in {"markPaid", "recordShare"}, Goto(p, pc)
       PROVE  TakenInv'
  <2>1. row.taken = DueBy(s)  BY <1>5, <1>8, <1>11, <1>14
  <2>2. row.status # "absent" /\ row.status \notin {"OPEN", "INVITED"}  BY <1>8, <1>11, <1>14
  <2>3. pc \in PayPcs  OBVIOUS
  <2>4. pc \notin Trying  BY <1>11
  <2> HIDE DEF s, PayPcs
  <2> QED  BY <1>7, <1>8, <1>9, <1>11, <1>14, <2>1, <2>2, <2>3, <2>4
<1>15. CASE Debit(p)
  <2>1. task[p].pc \in Trying  BY <1>15 DEF Debit, At, Trying
  <2> DEFINE row == [shares[s] EXCEPT !.taken = @ + DueBy(s)]
  <2>2. DOMAIN row = ShareFields /\ row.status = shares[s].status /\ row.taken = shares[s].taken + DueBy(s)
    BY <1>4 DEF ShareFields
  <2>3. (shares' = [shares EXCEPT ![s] = row] /\ Goto(p, "markPaid")) \/ (UNCHANGED shares /\ Goto(p, "catch"))
    BY <1>15 DEF Debit, Write, Collected, Share
  <2>4. task[p].pc \notin {"claimShare", "markPaid"}  BY <2>1 DEF Trying
  <2> HIDE DEF row, s
  <2> QED  BY <1>14, <1>20, <2>1, <2>2, <2>3, <2>4
<1>16. CASE AuthorizeShare(p)
  <2>1. task[p].pc \in Trying  BY <1>16 DEF AuthorizeShare, At, Trying
  <2>2. PICK a \in Answers(shares[s], ShareAnswers) :
          /\ shares' = [shares EXCEPT ![s] = Asked(shares[s], a)]
          /\ Become(p, [task[p] EXCEPT !.answer = a,
                          !.pc = IF a \in {"failed", "error"} THEN "catch" ELSE "insertShare"])
    BY <1>16 DEF AuthorizeShare, Write, Share
  <2> DEFINE row == Asked(shares[s], a)
             t == [task[p] EXCEPT !.answer = a,
                     !.pc = IF a \in {"failed", "error"} THEN "catch" ELSE "insertShare"]
  <2>3. DOMAIN row = ShareFields /\ row.status = shares[s].status /\ row.taken = shares[s].taken
    BY <1>4 DEF Asked, ShareFields
  <2>4. DOMAIN t = TaskFields /\ t.pc \in {"catch", "insertShare"} /\ t.share = s /\ t.todo = task[p].todo
    BY <1>1 DEF Shape, TaskFields
  <2>5. Become(p, t) /\ shares' = [shares EXCEPT ![s] = row]  BY <2>2
  <2> HIDE DEF row, t, s
  <2>6. /\ DOMAIN task' = Procs /\ \A q \in Procs : DOMAIN task'[q] = TaskFields
        /\ task'[p] = t /\ \A q \in Procs \ {p} : task'[q] = task[q]
    BY <1>1, <2>4, <2>5, Becoming
  <2> QED  BY <1>11, <1>13, <2>1, <2>3, <2>4, <2>5, <2>6
<1>17. CASE InsertShare(p)
  <2>1. task[p].pc \in Trying  BY <1>17 DEF InsertShare, At, Trying
  <2>2. CASE Share(p).payment # "absent"
    <3>1. UNCHANGED shares /\ Goto(p, "catch")  BY <1>17, <2>2 DEF InsertShare
    <3>2. task[p].pc \notin {"claimShare", "markPaid"}  BY <2>1 DEF Trying
    <3> QED  BY <1>20, <2>1, <3>1, <3>2
  <2>3. CASE Share(p).payment = "absent"
    <3>1. PICK payment \in {"AUTHORIZED", "SUCCEEDED"}, pc \in {"captureShare", "markPaid"} :
            shares' = [shares EXCEPT ![s] = [shares[s] EXCEPT !.payment = payment]] /\ Goto(p, pc)
      BY <1>17, <2>3 DEF InsertShare, Write, Share
    <3> DEFINE row == [shares[s] EXCEPT !.payment = payment]
    <3>2. DOMAIN row = ShareFields /\ row.status = shares[s].status /\ row.taken = shares[s].taken
      BY <1>4 DEF ShareFields
    <3>3. shares' = [shares EXCEPT ![s] = row] /\ pc \in PayPcs  BY <3>1
    <3> HIDE DEF row, s, PayPcs
    <3> QED  BY <1>9, <1>11, <1>13, <2>1, <3>1, <3>2, <3>3
  <2> QED  BY <2>2, <2>3
<1>18. CASE CaptureShare(p)
  <2>1. task[p].pc \in Trying  BY <1>18 DEF CaptureShare, At, Trying
  <2>2. CASE UNCHANGED shares /\ Goto(p, "shareFailed")
    <3>1. "shareFailed" \in PayPc \cap Paying \cap Trying \cap PayPcs  BY DEF PayPc, Paying, Trying
    <3> QED  BY <1>2, <1>3, <1>6, <1>11, <2>1, <2>2, <3>1, Stepping
  <2>3. CASE ~(UNCHANGED shares /\ Goto(p, "shareFailed"))
    <3> DEFINE row == [[shares[s] EXCEPT !.taken = @ + DueBy(s)] EXCEPT !.intent = "succeeded"]
    <3>1. shares' = [shares EXCEPT ![s] = row] /\ Goto(p, "recordShare")
      BY <1>18, <2>3 DEF CaptureShare, Write, Collected, Share
    <3>2. DOMAIN row = ShareFields /\ row.status = shares[s].status /\ row.taken = shares[s].taken + DueBy(s)
      BY <1>4 DEF ShareFields
    <3> HIDE DEF row, s
    <3> QED  BY <1>14, <2>1, <3>1, <3>2
  <2> QED  BY <2>2, <2>3
<1>19. CASE ShareFailed(p) \/ RecordShare(p)
  <2>1. task[p].pc \in Paying  BY <1>19 DEF ShareFailed, RecordShare, At, Paying, Trying
  <2>2. PICK payment \in {"FAILED", "SUCCEEDED"}, pc \in {"catch", "markPaid"} :
          /\ shares' = [shares EXCEPT ![s] = [shares[s] EXCEPT !.payment = payment]] /\ Goto(p, pc)
          /\ pc \in Trying => task[p].pc \in Trying
    BY <1>11, <1>19 DEF ShareFailed, RecordShare, Write, Share, At, Trying
  <2> DEFINE row == [shares[s] EXCEPT !.payment = payment]
  <2>3. DOMAIN row = ShareFields /\ row.status = shares[s].status /\ row.taken = shares[s].taken
    BY <1>4 DEF ShareFields
  <2>4. shares' = [shares EXCEPT ![s] = row] /\ pc \in PayPcs  BY <2>2
  <2> HIDE DEF row, s, PayPcs
  <2> QED  BY <1>9, <1>13, <2>1, <2>2, <2>3, <2>4
<1>21. CASE Catch(p)
  <2>1. task[p].pc \in Trying  BY <1>21 DEF Catch, At, Trying
  <2> DEFINE row == [shares[s] EXCEPT !.status = "INVITED"]
  <2>2. DOMAIN row = ShareFields /\ row.status = "INVITED" /\ row.taken = shares[s].taken
    BY <1>4 DEF ShareFields
  <2>3. shares' = [shares EXCEPT ![s] = row] /\ Done(p)  BY <1>21 DEF Catch, Write, Share
  <2> HIDE DEF row, s, PayPcs
  <2> QED  BY <1>7, <1>8, <1>10, <1>11, <2>1, <2>2, <2>3
<1>22. CASE MarkPaid(p)
  <2>1. task[p].pc = "markPaid" /\ "markPaid" \in Paying  BY <1>22 DEF MarkPaid, At, Paying
  <2>2. CASE Share(p).status \in Unpaid
    <3> DEFINE row == [shares[s] EXCEPT !.status = "PAID"]
    <3>1. DOMAIN row = ShareFields /\ row.status = "PAID" /\ row.taken = shares[s].taken
      BY <1>4 DEF ShareFields
    <3>2. shares' = [shares EXCEPT ![s] = row] /\ Goto(p, "findGuarantee")
      BY <1>22, <2>2 DEF MarkPaid, Write, Share
    <3>3. "findGuarantee" \in PayPcs  OBVIOUS
    <3> HIDE DEF row, s, PayPcs
    <3> QED  BY <1>5, <1>7, <1>8, <1>9, <1>11, <2>1, <3>1, <3>2, <3>3
  <2>3. CASE Share(p).status \notin Unpaid
    BY <1>20, <1>22, <2>1, <2>3 DEF MarkPaid
  <2> QED  BY <2>2, <2>3
<1> QED  BY <1>12, <1>15, <1>16, <1>17, <1>18, <1>19, <1>21, <1>22

\* The shares are created once, by the checkout that sold the booking.
LEMMA CreateKeeps ==
    ASSUME TakenInv, NEW p \in Procs, CreateShares(p)
    PROVE  TakenInv'
<1> DEFINE t == [task[p] EXCEPT !.pc = "invite", !.share = 1]
<1>1. Shape  BY DEF TakenInv
<1>2. /\ UNCHANGED <<bill, booking>> /\ task[p].pc = "createShares" /\ Become(p, t)
      /\ shares' = [s \in Guests |-> IF s <= bill.guests THEN [shares[s] EXCEPT !.status = "OPEN"] ELSE shares[s]]
  BY DEF CreateShares, At, club
<1>3. bill.guests \in Guests /\ booking \notin Unsold /\ \A s \in Guests : Blank(s)
  BY <1>2 DEF TakenInv, OnePass, SharesInOrder, Making
<1>4. DOMAIN t = TaskFields /\ t.pc = "invite" /\ t.share = 1 /\ t.todo = task[p].todo
  BY <1>1 DEF Shape, TaskFields
<1> HIDE DEF t
<1>5. /\ DOMAIN task' = Procs /\ \A q \in Procs : DOMAIN task'[q] = TaskFields
      /\ task'[p] = t /\ \A q \in Procs \ {p} : task'[q] = task[q]
  BY <1>1, <1>2, <1>4, Becoming
<1>6. /\ DOMAIN shares' = Guests
      /\ \A s \in Guests : /\ DOMAIN shares'[s] = ShareFields /\ shares'[s].taken = 0
                           /\ s <= bill.guests => shares'[s].status = "OPEN"
                           /\ ~(s <= bill.guests) => shares'[s].status = "absent"
  BY <1>1, <1>2, <1>3 DEF Shape, ShareFields, Blank
<1>7. Shape'  BY <1>1, <1>2, <1>5, <1>6 DEF Shape
<1>8. OnePass'
  BY <1>2, <1>3, <1>4, <1>5 DEF TakenInv, OnePass, Making, Held, Canceling
<1>9. \A q \in Procs : task'[q].pc # "createShares"
  BY <1>2, <1>4, <1>5 DEF TakenInv, OnePass, Making
<1>10. SharesInOrder'  BY <1>2, <1>3, <1>6, <1>9 DEF SharesInOrder
<1>11. \A q \in Procs : task[q].pc \notin PayPc
  BY <1>3 DEF TakenInv, HandlersInOrder, Blank
<1>12. \A q \in Procs : task'[q].pc \notin PayPc /\ (task'[q].pc = "invite" => q = p)
  BY <1>2, <1>4, <1>5, <1>11 DEF TakenInv, OnePass, Making, PayPc
<1>13. \A s \in 1..bill.guests : Unknown(s)'
  BY <1>3, <1>6, <1>12, SplitAssumption DEF Unknown, Guests
<1>14. \A q \in Procs : task'[q].todo \subseteq {s \in Guests : shares'[s].status # "absent"}
  BY <1>3, <1>4, <1>5 DEF TakenInv, HandlersInOrder, Blank
<1>15. 1 \in 1..bill.guests  BY <1>3, SplitAssumption DEF Guests
<1>16. Paying \cup Trying \subseteq PayPc  BY DEF Paying, Trying, PayPc
<1>17. HandlersInOrder'
  BY <1>2, <1>4, <1>5, <1>12, <1>13, <1>14, <1>15, <1>16 DEF HandlersInOrder
<1> QED  BY <1>7, <1>8, <1>10, <1>17 DEF TakenInv

\* An invitation is written over a share nobody was told of.
LEMMA InviteKeeps ==
    ASSUME TakenInv, NEW p \in Procs, Invite(p)
    PROVE  TakenInv'
<1>1. Shape /\ UNCHANGED <<bill, booking>> /\ task[p].pc = "invite"  BY DEF TakenInv, Invite, At, club
<1>2. PICK s \in Guests :
        /\ s = task[p].share /\ s \in 1..bill.guests /\ bill.guests \in Guests /\ booking \notin Unsold
        /\ \A r \in s..bill.guests : Unknown(r)
  BY <1>1, SplitAssumption DEF TakenInv, OnePass, HandlersInOrder, Making, Guests
<1>3. Unknown(s)  BY <1>2, SplitAssumption DEF Guests
<1>4. /\ DOMAIN shares' = Guests /\ \A r \in Guests \ {s} : shares'[r] = shares[r]
      /\ DOMAIN shares'[s] = ShareFields /\ shares'[s].taken = 0
      /\ shares'[s].status \in {"INVITED", shares[s].status}
  <2>1. CASE shares' = [shares EXCEPT ![s] = [@ EXCEPT !.status = "INVITED"]]
    BY <1>1, <1>3, <2>1 DEF Shape, ShareFields, Unknown
  <2>2. CASE UNCHANGED shares  BY <1>1, <1>3, <2>2 DEF Shape, Unknown
  <2> QED  BY <1>2, <2>1, <2>2 DEF Invite
<1>5. /\ DOMAIN task' = Procs /\ \A q \in Procs : DOMAIN task'[q] = TaskFields
      /\ \A q \in Procs \ {p} : task'[q] = task[q]
      /\ task'[p].todo \subseteq task[p].todo
      /\ \/ task'[p].pc = "idle"
         \/ task'[p].pc = "invite" /\ task'[p].share = s + 1 /\ s # bill.guests
  <2>1. CASE s = bill.guests
    <3>1. Done(p)  BY <1>2, <2>1 DEF Invite
    <3> QED  BY <1>1, <3>1, Ending
  <2>2. CASE s # bill.guests
    <3> DEFINE t == [task[p] EXCEPT !.share = s + 1]
    <3>1. Become(p, t)  BY <1>2, <2>2 DEF Invite
    <3>2. DOMAIN t = TaskFields /\ t.pc = "invite" /\ t.share = s + 1 /\ t.todo = task[p].todo
      BY <1>1 DEF Shape, TaskFields
    <3> HIDE DEF t
    <3> QED  BY <1>1, <2>2, <3>1, <3>2, Becoming
  <2> QED  BY <2>1, <2>2
<1>6. Shape'  BY <1>1, <1>4, <1>5 DEF Shape
<1>7. "idle" \notin PayPc \cup Paying \cup Trying \cup Making \cup Held \cup Canceling /\ Paying \cup Trying \subseteq PayPc
      /\ "invite" \notin PayPc \cup Held \cup Canceling
  BY DEF PayPc, Paying, Trying, Making, Held, Canceling
<1>8. OnePass'  BY <1>1, <1>2, <1>5, <1>7 DEF TakenInv, OnePass, Making
<1>9. \A r \in Guests : DueBy(r)' = DueBy(r)  BY <1>1 DEF DueBy, Due
<1>10. \A r \in Guests : shares'[r].status = "absent" <=> shares[r].status = "absent"
  BY <1>3, <1>4 DEF Unknown
<1>11. SharesInOrder'
  <2>1. booking' \notin Unsold /\ \A q \in Procs : task'[q].pc # "createShares"
    BY <1>1, <1>2, <1>5 DEF TakenInv, OnePass, Making
  <2>2. ASSUME NEW r \in Guests
        PROVE  /\ shares'[r].status # "absent" => bill.guests \in Guests /\ r <= bill.guests
               /\ shares'[r].status \in {"absent", "OPEN", "INVITED"} => shares'[r].taken = 0
               /\ shares'[r].taken \in {0, DueBy(r)}
    BY <1>4, <1>10 DEF TakenInv, SharesInOrder
  <2> QED  BY <1>1, <1>9, <2>1, <2>2 DEF SharesInOrder
<1>12. \A r \in Guests \ {s} : Unknown(r) => Unknown(r)'  BY <1>4, <1>5, <1>7 DEF Unknown
<1>13. \A q \in Procs : task'[q].pc = "invite" =>
         /\ task'[q].share \in 1..bill.guests
         /\ \A r \in task'[q].share..bill.guests : Unknown(r)'
  <2>1. \A q \in Procs : task'[q].pc = "invite" => q = p
    BY <1>1, <1>5 DEF TakenInv, OnePass, Making
  <2>2. task'[p].pc = "invite" => s + 1 \in 1..bill.guests /\ \A r \in (s + 1)..bill.guests : r \in Guests \ {s} /\ Unknown(r)
    BY <1>2, <1>5, SplitAssumption DEF Guests
  <2> QED  BY <1>5, <1>7, <1>12, <2>1, <2>2
<1>14. \A q \in Procs : task'[q].pc \in PayPc => q # p /\ task[q].pc \in PayPc /\ task'[q].share # s
  BY <1>3, <1>5, <1>7 DEF Unknown
<1>15. \A q \in Procs : task'[q].todo \subseteq {r \in Guests : shares'[r].status # "absent"}
  BY <1>5, <1>10 DEF TakenInv, HandlersInOrder
<1>16. HandlersInOrder'
  BY <1>1, <1>4, <1>5, <1>7, <1>13, <1>14, <1>15 DEF TakenInv, HandlersInOrder
<1> QED  BY <1>6, <1>8, <1>11, <1>16 DEF TakenInv

\* The regularisation covers shares without touching the money taken for them.
LEMMA CoverKeeps ==
    ASSUME TakenInv, NEW p \in Procs, FindUnpaid(p) \/ Cover(p)
    PROVE  TakenInv'
<1>1. Shape /\ UNCHANGED <<bill, booking>>  BY DEF TakenInv, FindUnpaid, Cover, OnlyShares, club
<1>2. {"cover", "findRemaining"} \cap (Making \cup Held \cup Canceling \cup PayPc \cup Paying \cup Trying) = {}
  BY DEF Making, Held, Canceling, PayPc, Paying, Trying
<1>3. CASE FindUnpaid(p)
  <2> DEFINE t == [task[p] EXCEPT !.todo = {s \in Guests : shares[s].status \in Unpaid}, !.pc = "cover"]
  <2>1. /\ DOMAIN t = TaskFields /\ t.pc = "cover" /\ t.share = task[p].share
        /\ t.todo = {s \in Guests : shares[s].status \in Unpaid}
    BY <1>1 DEF Shape, TaskFields
  <2>2. Become(p, t) /\ UNCHANGED shares  BY <1>3 DEF FindUnpaid
  <2>3. t.todo \subseteq {s \in Guests : shares[s].status # "absent"}  BY <2>1 DEF Unpaid
  <2> HIDE DEF t
  <2> QED  BY <1>1, <1>2, <2>1, <2>2, <2>3, Changing
<1>4. CASE Cover(p)
  <2>1. CASE task[p].todo = {}
    BY <1>1, <1>2, <1>4, <2>1, Stepping DEF Cover
  <2>2. CASE task[p].todo # {}
    <3>1. PICK s \in task[p].todo :
            /\ shares' = [shares EXCEPT ![s] = [@ EXCEPT !.status = "COVERED_BY_ORGANIZER"]]
            /\ Become(p, [task[p] EXCEPT !.todo = @ \ {s}])
      BY <1>4, <2>2 DEF Cover
    <3> DEFINE t == [task[p] EXCEPT !.todo = @ \ {s}]
    <3>2. s \in Guests /\ shares[s].status # "absent"  BY <3>1 DEF TakenInv, HandlersInOrder
    <3>3. /\ DOMAIN shares' = Guests /\ DOMAIN shares'[s] = ShareFields
          /\ \A r \in Guests \ {s} : shares'[r] = shares[r]
          /\ shares'[s].status = "COVERED_BY_ORGANIZER" /\ shares'[s].taken = shares[s].taken
      BY <1>1, <3>1, <3>2 DEF Shape, ShareFields
    <3>4. DOMAIN t = TaskFields /\ t.pc = "cover" /\ t.todo \subseteq task[p].todo
      BY <1>1, <1>4 DEF Shape, TaskFields, Cover, At
    <3>5. Become(p, t)  BY <3>1
    <3> HIDE DEF t
    <3>6. /\ DOMAIN task' = Procs /\ \A q \in Procs : DOMAIN task'[q] = TaskFields
          /\ task'[p].pc = "cover" /\ task'[p].todo \subseteq task[p].todo
          /\ \A q \in Procs \ {p} : task'[q] = task[q]
      BY <1>1, <3>4, <3>5, Becoming
    <3>7. task'[p].todo \subseteq {r \in Guests : shares[r].status # "absent"}
      BY <3>6 DEF TakenInv, HandlersInOrder
    <3>8. shares[s].taken \in {0, DueBy(s)} /\ (Unknown(s) => shares[s].taken = 0)
      BY <3>2 DEF TakenInv, SharesInOrder, Unknown
    <3> QED  BY <1>1, <1>2, <3>2, <3>3, <3>6, <3>7, <3>8, Writing
  <2> QED  BY <2>1, <2>2
<1> QED  BY <1>3, <1>4

\* Every step keeps the invariant, provided nothing fails between the capture
\* of a share and its recording.
LEMMA TakenStep ==
    ASSUME "recordShare" \notin FaultPoints, TakenInv, [Next]_vars
    PROVE  TakenInv'
<1>1. ASSUME NEW p \in Procs, Handle(p)  PROVE TakenInv'
  BY <1>1, CheckoutKeeps, FaultKeeps, PledgeKeeps, BookingKeeps, PaymentKeeps, CreateKeeps, InviteKeeps, CoverKeeps
  DEF Handle
<1>2. CASE UNCHANGED vars
  <2>1. \A s \in Guests : /\ DueBy(s)' = DueBy(s)
                          /\ Unknown(s)' <=> Unknown(s)
                          /\ Blank(s)' <=> Blank(s)
    BY <1>2 DEF vars, DueBy, Due, Unknown, Blank
  <2>2. \A p \in Procs : task[p].pc = "invite" => task[p].share..bill.guests \subseteq Guests
    BY SplitAssumption DEF TakenInv, OnePass, HandlersInOrder, Making, Guests
  <2>3. HandlersInOrder'  BY <1>2, <2>1, <2>2 DEF vars, TakenInv, HandlersInOrder
  <2>4. Shape' /\ OnePass' /\ SharesInOrder'
    BY <1>2, <2>1 DEF vars, TakenInv, Shape, OnePass, SharesInOrder
  <2> QED  BY <2>3, <2>4 DEF TakenInv
<1> QED  BY <1>1, <1>2, StartKeeps DEF Next

\* Whatever payments, checkouts, cancellations and regularisations race and
\* whichever calls fail, the money of a share is taken once, at most to the
\* cent; the premise leaves out the one exception which would reopen a share
\* already captured.
THEOREM SplitShareOnce ==
    ASSUME "recordShare" \notin FaultPoints
    PROVE  Spec => []ShareChargedOnce
<1>1. TakenInv => ShareChargedOnce
  <2> SUFFICES ASSUME TakenInv, NEW s \in Guests, shares[s].taken > 0
               PROVE  shares[s].taken <= DueBy(s)
    BY DEF ShareChargedOnce
  <2>1. shares[s].taken = DueBy(s) \/ shares[s].taken = 0  BY DEF TakenInv, SharesInOrder
  <2>2. shares[s].status = "absent" => shares[s].taken = 0  BY DEF TakenInv, SharesInOrder
  <2>3. CASE shares[s].taken = 0  BY <2>3
  <2>4. CASE shares[s].taken # 0
    <3>1. DueBy(s) \in Nat
      BY <2>2, <2>4, DueTyped DEF TakenInv, SharesInOrder
    <3> QED  BY <2>1, <2>4, <3>1
  <2> QED  BY <2>3, <2>4
<1>2. TakenInv /\ [Next]_vars => TakenInv'  BY TakenStep
<1> QED  BY <1>1, <1>2, TakenStart, PTL DEF Spec

-----------------------------------------------------------------------------
(***************************************************************************)
(* No orphan.  From the authorization to the end of the checkout, what the *)
(* handler still has to undo is told by the call it is at; nobody else     *)
(* authorizes or reserves, since one checkout holds the claim.             *)
(***************************************************************************)
Unreserved == hold.status # "ACTIVE"
Unauthorized == organizer.intent # "requires_capture"

UndoneAt(p) ==
    /\ task[p].pc \in {"party", "authorize", "reopen", "voidOpen", "revert", "fail"} =>
         Unreserved /\ Unauthorized
    /\ task[p].pc \in {"insertPayment", "voidOrphan", "guarantee", "markReleased"} => Unreserved
    /\ task[p].pc \in {"cancelPayment", "releaseEntirely", "markReleased"} => Unauthorized

OrphanInv ==
    /\ DOMAIN task = Procs /\ \A p \in Procs : DOMAIN task[p] = TaskFields
    /\ DOMAIN organizer = {"intent", "answer", "payment"} /\ DOMAIN hold = {"status", "amount"}
    /\ booking \in {"CHECKOUT_PENDING", "FAILED"} => Unreserved /\ Unauthorized
    /\ \A p \in Procs :
        /\ task[p].pc \in Held => booking = "PAYMENT_PENDING"
        /\ task[p].pc \in Making \cup Canceling => booking \notin Unsold
        /\ task[p].pc \in Held => \A q \in Procs \ {p} : task[q].pc \notin Held
        /\ UndoneAt(p)

LEMMA OrphanStart == Init => OrphanInv
BY DEF Init, OrphanInv, Idle, TaskFields, Held, Making, Canceling, Unsold, UndoneAt, Unreserved, Unauthorized

\* The next call of a handler, and the end of a handler.
LEMMA Stepped ==
    ASSUME OrphanInv, NEW p \in Procs
    PROVE  /\ \A pc : Goto(p, pc) =>
                /\ DOMAIN task' = Procs /\ \A q \in Procs : DOMAIN task'[q] = TaskFields
                /\ task'[p].pc = pc /\ \A q \in Procs \ {p} : task'[q] = task[q]
           /\ Done(p) =>
                /\ DOMAIN task' = Procs /\ \A q \in Procs : DOMAIN task'[q] = TaskFields
                /\ task'[p].pc = "idle" /\ \A q \in Procs \ {p} : task'[q] = task[q]
<1>1. ASSUME NEW t, DOMAIN t = TaskFields, Become(p, t)
      PROVE  /\ DOMAIN task' = Procs /\ \A q \in Procs : DOMAIN task'[q] = TaskFields
             /\ task'[p] = t /\ \A q \in Procs \ {p} : task'[q] = task[q]
  BY <1>1 DEF OrphanInv, Become
<1>2. ASSUME NEW pc, Goto(p, pc)
      PROVE  /\ DOMAIN task' = Procs /\ \A q \in Procs : DOMAIN task'[q] = TaskFields
             /\ task'[p].pc = pc /\ \A q \in Procs \ {p} : task'[q] = task[q]
  <2> DEFINE t == [task[p] EXCEPT !.pc = pc]
  <2>1. DOMAIN t = TaskFields /\ t.pc = pc  BY DEF OrphanInv, TaskFields
  <2>2. Become(p, t)  BY <1>2 DEF Goto
  <2> HIDE DEF t
  <2> QED  BY <1>1, <2>1, <2>2
<1>3. DOMAIN Idle = TaskFields /\ Idle.pc = "idle"  BY DEF Idle, TaskFields
<1> QED  BY <1>1, <1>2, <1>3 DEF Done

\* A step that undoes what it leaves behind keeps the invariant.
LEMMA Undoing ==
    ASSUME OrphanInv, NEW p \in Procs,
           DOMAIN task' = Procs, \A q \in Procs : DOMAIN task'[q] = TaskFields,
           \A q \in Procs \ {p} : task'[q] = task[q],
           DOMAIN organizer' = {"intent", "answer", "payment"}, DOMAIN hold' = {"status", "amount"},
           \/ booking' = booking \/ task[p].pc \in Held \/ booking = "CHECKOUT_PENDING"
           \/ booking \notin Unsold /\ booking' \notin Unsold,
           task'[p].pc \in Held =>
                booking' = "PAYMENT_PENDING" /\ (task[p].pc \in Held \/ booking = "CHECKOUT_PENDING"),
           task'[p].pc \in Making \cup Canceling => booking' \notin Unsold,
           Unauthorized /\ task[p].pc \notin Held => Unauthorized',
           Unreserved /\ task[p].pc \notin Held => Unreserved',
           booking' \in {"CHECKOUT_PENDING", "FAILED"} => Unreserved' /\ Unauthorized',
           UndoneAt(p)'
    PROVE  OrphanInv'
<1>1. ASSUME NEW q \in Procs \ {p}, task[q].pc \in Held
      PROVE  booking' = booking /\ task[p].pc \notin Held /\ task'[p].pc \notin Held
  BY <1>1 DEF OrphanInv, Unsold
<1>2. ASSUME NEW q \in Procs \ {p}, task[q].pc \in Making \cup Canceling
      PROVE  booking' \notin Unsold
  BY <1>2 DEF OrphanInv, Unsold
<1>3. ASSUME NEW q \in Procs \ {p}  PROVE UndoneAt(q)'
  <2>1. CASE task[q].pc \in Held  BY <1>1, <2>1 DEF OrphanInv, UndoneAt
  <2>2. CASE task[q].pc \notin Held  BY <2>2 DEF UndoneAt, Held
  <2> QED  BY <2>1, <2>2
<1>4. ASSUME NEW q \in Procs
      PROVE  /\ task'[q].pc \in Held => booking' = "PAYMENT_PENDING"
             /\ task'[q].pc \in Making \cup Canceling => booking' \notin Unsold
             /\ task'[q].pc \in Held => \A r \in Procs \ {q} : task'[r].pc \notin Held
             /\ UndoneAt(q)'
  BY <1>1, <1>2, <1>3 DEF OrphanInv
<1> QED  BY <1>4 DEF OrphanInv

\* The organizer's authorization.
LEMMA Voided ==
    ASSUME OrphanInv
    PROVE  /\ DOMAIN Canceled(organizer) = {"intent", "answer", "payment"}
           /\ Canceled(organizer).intent # "requires_capture"
BY DEF OrphanInv, Canceled

\* The calls of a checkout before the guarantee.
LEMMA OrphanBefore ==
    ASSUME OrphanInv, "voidOrphan" \notin FaultPoints, NEW p \in Procs,
           \/ CheckParty(p) \/ Reopen(p) \/ Revert(p) \/ Authorize(p) \/ VoidOpen(p) \/ VoidOrphan(p)
           \/ InsertPayment(p)
    PROVE  OrphanInv'
<1>h. task[p].pc \in Held
  BY DEF CheckParty, Reopen, Revert, Authorize, VoidOpen, VoidOrphan, InsertPayment, At, Held
<1>b. booking = "PAYMENT_PENDING" /\ UndoneAt(p)  BY <1>h DEF OrphanInv
<1>1. CASE CheckParty(p)
  <2>1. PICK pc \in {"authorize", "reopen"} : Goto(p, pc)  BY <1>1 DEF CheckParty
  <2>2. task[p].pc = "party" /\ UNCHANGED <<booking, organizer, hold>>  BY <1>1 DEF CheckParty, At, club, pledge
  <2>3. Unreserved' /\ Unauthorized'  BY <1>b, <2>2 DEF UndoneAt, Unreserved, Unauthorized
  <2>4. UndoneAt(p)'  BY <2>3 DEF UndoneAt
  <2> QED
    BY <1>h, <1>b, <2>1, <2>2, <2>3, <2>4, Stepped, Undoing DEF OrphanInv, Making, Canceling
<1>2. CASE Reopen(p) \/ Revert(p)
  <2>1. Done(p) /\ task[p].pc \in {"reopen", "revert"} /\ UNCHANGED <<organizer, hold>>
    BY <1>2 DEF Reopen, Revert, At, pledge
  <2>2. Unreserved' /\ Unauthorized'  BY <1>b, <2>1 DEF UndoneAt, Unreserved, Unauthorized
  <2>3. UndoneAt(p)'  BY <2>2 DEF UndoneAt
  <2> QED  BY <1>h, <2>1, <2>2, <2>3, Stepped, Undoing DEF OrphanInv, Making, Canceling, Held
<1>3. CASE Authorize(p)
  <2>1. PICK a \in Answers(organizer, Answer \ {"none"}) :
          /\ organizer' = Asked(organizer, a)
          /\ Goto(p, CASE a = "requires_capture" -> "insertPayment"
                       [] a = "requires_action"  -> "voidOpen"
                       [] a = "failed"           -> "reopen"
                       [] OTHER                  -> "revert")
    BY <1>3 DEF Authorize
  <2>2. task[p].pc = "authorize" /\ UNCHANGED <<booking, hold>>  BY <1>3 DEF Authorize, At, pledge
  <2>3. Unreserved' /\ Unauthorized  BY <1>b, <2>2 DEF UndoneAt, Unreserved
  <2>4. DOMAIN organizer' = {"intent", "answer", "payment"}  BY <2>1 DEF OrphanInv, Asked
  <2>5. CASE a = "requires_capture"
    <3>1. Goto(p, "insertPayment")  BY <2>1, <2>5
    <3>2. task'[p].pc = "insertPayment"  BY <3>1, Stepped
    <3>3. UndoneAt(p)'  BY <2>3, <3>2 DEF UndoneAt
    <3> QED  BY <1>h, <1>b, <2>2, <2>4, <3>1, <3>2, <3>3, Stepped, Undoing DEF OrphanInv, Making, Canceling
  <2>6. CASE a # "requires_capture"
    <3>1. PICK pc \in {"voidOpen", "reopen", "revert"} : Goto(p, pc)
      <4>1. (CASE a = "requires_capture" -> "insertPayment"
               [] a = "requires_action"  -> "voidOpen"
               [] a = "failed"           -> "reopen"
               [] OTHER                  -> "revert") \in {"voidOpen", "reopen", "revert"}
        BY <2>6
      <4> QED  BY <2>1, <4>1
    <3>2. Unauthorized'  BY <2>1, <2>3, <2>6 DEF Unauthorized, Asked, IntentFor, OrphanInv
    <3>3. UndoneAt(p)'  BY <2>3, <3>2 DEF UndoneAt
    <3> QED  BY <1>h, <1>b, <2>2, <2>3, <2>4, <3>1, <3>2, <3>3, Stepped, Undoing DEF OrphanInv, Making, Canceling
  <2> QED  BY <2>5, <2>6
<1>4. CASE VoidOpen(p) \/ VoidOrphan(p)
  <2>1. PICK pc \in {"reopen", "revert"} : Goto(p, pc)  BY <1>4 DEF VoidOpen, VoidOrphan
  <2>2. task[p].pc \in {"voidOpen", "voidOrphan"} /\ UNCHANGED <<booking, hold>>
        /\ organizer' = Canceled(organizer)
    BY <1>4 DEF VoidOpen, VoidOrphan, At, pledge
  <2>3. Unreserved'  BY <1>b, <2>2 DEF UndoneAt, Unreserved
  <2>4. Unauthorized' /\ DOMAIN organizer' = {"intent", "answer", "payment"}
    BY <2>2, Voided DEF Unauthorized
  <2>5. UndoneAt(p)'  BY <2>3, <2>4 DEF UndoneAt
  <2> QED  BY <1>h, <1>b, <2>1, <2>2, <2>3, <2>4, <2>5, Stepped, Undoing DEF OrphanInv, Making, Canceling
<1>5. CASE InsertPayment(p)
  <2>1. Goto(p, "guarantee") /\ task[p].pc = "insertPayment" /\ UNCHANGED <<booking, hold>>
        /\ organizer' = [organizer EXCEPT !.payment = "AUTHORIZED"]
    BY <1>5 DEF InsertPayment, At, pledge
  <2>2. Unreserved' /\ task'[p].pc = "guarantee"  BY <1>b, <2>1, Stepped DEF UndoneAt, Unreserved
  <2>3. DOMAIN organizer' = {"intent", "answer", "payment"}  BY <2>1 DEF OrphanInv
  <2>4. UndoneAt(p)'  BY <2>2 DEF UndoneAt
  <2> QED  BY <1>h, <1>b, <2>1, <2>2, <2>3, <2>4, Stepped, Undoing DEF OrphanInv, Making, Canceling
<1> QED  BY <1>1, <1>2, <1>3, <1>4, <1>5

\* The guarantee, Doinsport, and what a collision undoes.
LEMMA OrphanAfter ==
    ASSUME OrphanInv, NEW p \in Procs,
           \/ ReserveCredits(p) \/ RefuseCredits(p) \/ InsertGuarantee(p) \/ LegacyAccepts(p)
           \/ LegacyCollides(p) \/ VoidAuthorization(p) \/ CancelPayment(p) \/ ReleaseEntirely(p)
           \/ MarkReleased(p) \/ FailBooking(p) \/ Review(p) \/ Capture(p) \/ CaptureFailed(p)
           \/ RecordSuccess(p) \/ Confirm(p)
    PROVE  OrphanInv'
<1>h. task[p].pc \in Held
  BY DEF ReserveCredits, RefuseCredits, InsertGuarantee, LegacyAccepts, LegacyCollides, VoidAuthorization,
     CancelPayment, ReleaseEntirely, MarkReleased, FailBooking, Review, Capture, CaptureFailed, RecordSuccess,
     Confirm, At, Held
<1>b. booking = "PAYMENT_PENDING" /\ UndoneAt(p)  BY <1>h DEF OrphanInv
<1>f. DOMAIN organizer = {"intent", "answer", "payment"} /\ DOMAIN hold = {"status", "amount"}  BY DEF OrphanInv
<1>1. ASSUME UNCHANGED booking, DOMAIN organizer' = {"intent", "answer", "payment"},
             DOMAIN hold' = {"status", "amount"},
             NEW pc \in {"guaranteeRow", "legacy", "capture", "void", "cancelPayment", "releaseEntirely",
                         "markReleased", "fail", "captureFailed", "review", "recordSuccess", "confirm"},
             Goto(p, pc),
             pc \in {"markReleased", "fail"} => Unreserved',
             pc \in {"cancelPayment", "releaseEntirely", "markReleased", "fail"} => Unauthorized'
      PROVE  OrphanInv'
  <2>1. task'[p].pc = pc  BY <1>1, Stepped
  <2>2. UndoneAt(p)'  BY <1>1, <2>1 DEF UndoneAt
  <2>3. pc \notin Making \cup Canceling  BY <1>1 DEF Making, Canceling
  <2> QED  BY <1>1, <1>h, <1>b, <2>1, <2>2, <2>3, Stepped, Undoing
<1>2. CASE ReserveCredits(p)
  <2>1. Goto(p, "guaranteeRow") /\ UNCHANGED <<booking, organizer>> /\ DOMAIN hold' = {"status", "amount"}
    BY <1>2 DEF ReserveCredits, club
  <2> QED  BY <1>1, <1>f, <2>1
<1>3. CASE RefuseCredits(p)
  <2>1. Done(p) /\ UNCHANGED <<booking, organizer, hold>>  BY <1>3 DEF RefuseCredits, club, pledge
  <2>2. task'[p].pc = "idle"  BY <2>1, Stepped
  <2>3. UndoneAt(p)'  BY <2>2 DEF UndoneAt
  <2> QED  BY <1>h, <1>b, <1>f, <2>1, <2>2, <2>3, Stepped, Undoing DEF Held, Making, Canceling
<1>4. CASE InsertGuarantee(p)
  <2>1. AfterGuarantee \in {"legacy", "capture"}  BY DEF AfterGuarantee
  <2>2. Goto(p, AfterGuarantee) /\ UNCHANGED <<booking, organizer, hold>>
    BY <1>4 DEF InsertGuarantee, club
  <2> QED  BY <1>1, <1>f, <2>1, <2>2
<1>5. CASE LegacyAccepts(p) \/ LegacyCollides(p)
  <2>1. (Goto(p, "capture") \/ Goto(p, "void")) /\ UNCHANGED <<booking, organizer, hold>>
    BY <1>5 DEF LegacyAccepts, LegacyCollides, pledge
  <2> QED  BY <1>1, <1>f, <2>1
<1>6. CASE VoidAuthorization(p)
  <2>1. Goto(p, "cancelPayment") /\ UNCHANGED <<booking, hold>> /\ organizer' = Canceled(organizer)
    BY <1>6 DEF VoidAuthorization, pledge
  <2>2. Unauthorized' /\ DOMAIN organizer' = {"intent", "answer", "payment"}
    BY <2>1, Voided DEF Unauthorized
  <2> QED  BY <1>1, <1>f, <2>1, <2>2
<1>7. CASE CancelPayment(p)
  <2>1. Goto(p, "releaseEntirely") /\ UNCHANGED <<booking, hold>> /\ task[p].pc = "cancelPayment"
        /\ organizer' = [organizer EXCEPT !.payment = "CANCELED"]
    BY <1>7 DEF CancelPayment, pledge, At
  <2>2. Unauthorized' /\ DOMAIN organizer' = {"intent", "answer", "payment"}
    BY <1>b, <1>f, <2>1 DEF Unauthorized, UndoneAt
  <2> QED  BY <1>1, <1>f, <2>1, <2>2
<1>8. CASE ReleaseEntirely(p)
  <2>1. Goto(p, "markReleased") /\ UNCHANGED <<booking, organizer>> /\ task[p].pc = "releaseEntirely"
        /\ hold' = [hold EXCEPT !.status = IF @ = "ACTIVE" THEN "RELEASED" ELSE @]
    BY <1>8 DEF ReleaseEntirely, club, At
  <2>2. Unreserved' /\ DOMAIN hold' = {"status", "amount"}  BY <1>f, <2>1 DEF Unreserved
  <2>3. Unauthorized'  BY <1>b, <2>1 DEF Unauthorized, UndoneAt
  <2> QED  BY <1>1, <1>f, <2>1, <2>2, <2>3
<1>9. CASE MarkReleased(p)
  <2>1. Goto(p, "fail") /\ UNCHANGED <<booking, organizer, hold>> /\ task[p].pc = "markReleased"
    BY <1>9 DEF MarkReleased, club, At
  <2>2. Unreserved' /\ Unauthorized'  BY <1>b, <2>1 DEF Unauthorized, Unreserved, UndoneAt
  <2> QED  BY <1>1, <1>f, <2>1, <2>2
<1>10. CASE FailBooking(p) \/ Review(p)
  <2>1. Done(p) /\ UNCHANGED <<organizer, hold>>
        /\ \/ booking' = "FAILED" /\ task[p].pc = "fail"
           \/ booking' = "MANUAL_REVIEW"
    BY <1>10 DEF FailBooking, Review, pledge, At
  <2>2. task'[p].pc = "idle"  BY <2>1, Stepped
  <2>3. UndoneAt(p)'  BY <2>2 DEF UndoneAt
  <2>4. booking' \in {"CHECKOUT_PENDING", "FAILED"} => Unreserved' /\ Unauthorized'
    BY <1>b, <2>1 DEF Unauthorized, Unreserved, UndoneAt
  <2> QED  BY <1>h, <1>f, <2>1, <2>2, <2>3, <2>4, Stepped, Undoing DEF Held, Making, Canceling
<1>11. CASE Capture(p) \/ CaptureFailed(p) \/ RecordSuccess(p)
  <2>1. /\ \E pc \in {"recordSuccess", "captureFailed", "review", "confirm"} : Goto(p, pc)
        /\ UNCHANGED <<booking, hold>> /\ DOMAIN organizer' = {"intent", "answer", "payment"}
    BY <1>11, <1>f DEF Capture, CaptureFailed, RecordSuccess, pledge
  <2> QED  BY <1>1, <1>f, <2>1
<1>12. CASE Confirm(p)
  <2>1. Goto(p, "createShares") /\ UNCHANGED <<organizer, hold>> /\ booking' = "CONFIRMED"
    BY <1>12 DEF Confirm, pledge
  <2>2. task'[p].pc = "createShares"  BY <2>1, Stepped
  <2>3. UndoneAt(p)'  BY <2>2 DEF UndoneAt
  <2> QED  BY <1>h, <1>f, <2>1, <2>2, <2>3, Stepped, Undoing DEF Held, Unsold
<1> QED
  BY <1>2, <1>3, <1>4, <1>5, <1>6, <1>7, <1>8, <1>9, <1>10, <1>11, <1>12

\* Nobody but the checkout reserves or authorizes.
LEMMA OrphanElsewhere ==
    ASSUME OrphanInv, NEW p \in Procs, NEW t, Become(p, t), DOMAIN t = TaskFields,
           t.pc \notin Held \cup Making \cup Canceling,
           UNCHANGED <<booking, organizer>>, DOMAIN hold' = {"status", "amount"},
           Unreserved => Unreserved'
    PROVE  OrphanInv'
<1>1. /\ DOMAIN task' = Procs /\ \A q \in Procs : DOMAIN task'[q] = TaskFields
      /\ task'[p] = t /\ \A q \in Procs \ {p} : task'[q] = task[q]
  BY DEF OrphanInv, Become
<1>2. UndoneAt(p)'  BY <1>1 DEF UndoneAt, Held
<1>3. booking' \in {"CHECKOUT_PENDING", "FAILED"} => Unreserved' /\ Unauthorized'
  BY DEF OrphanInv, Unauthorized
<1>4. Unauthorized => Unauthorized'  BY DEF Unauthorized
<1>5. DOMAIN organizer' = {"intent", "answer", "payment"}  BY DEF OrphanInv
<1> QED  BY <1>1, <1>2, <1>3, <1>4, <1>5, Undoing

LEMMA OrphanHandlers ==
    ASSUME OrphanInv, NEW p \in Procs,
           \/ Invite(p) \/ ClaimShare(p) \/ Debit(p) \/ AuthorizeShare(p) \/ InsertShare(p) \/ CaptureShare(p)
           \/ ShareFailed(p) \/ RecordShare(p) \/ Catch(p) \/ MarkPaid(p) \/ FindGuarantee(p)
           \/ ReleaseAmount(p) \/ Reread(p) \/ FindHold(p) \/ ReduceHold(p) \/ ReleaseHold(p)
           \/ MarkGuarantee(p) \/ FindUnpaid(p) \/ Cover(p) \/ FindRemaining(p) \/ TakeHold(p)
           \/ ChargeSavedMethod(p) \/ CaptureCharge(p) \/ FailGuarantee(p) \/ Consume(p)
    PROVE  OrphanInv'
<1> DEFINE Free == {"idle", "debit", "authorizeShare", "insertShare", "captureShare", "shareFailed", "recordShare",
                    "catch", "markPaid", "findGuarantee", "releaseAmount", "reread", "findHold", "reduceHold",
                    "releaseHold", "markGuarantee", "cover", "findRemaining", "takeHold", "charge",
                    "captureCharge", "failGuarantee", "consume"}
<1>f. DOMAIN task[p] = TaskFields /\ DOMAIN hold = {"status", "amount"}  BY DEF OrphanInv
<1>0. Free \cap (Held \cup Making \cup Canceling) = {}  BY DEF Held, Making, Canceling
<1>1. ASSUME UNCHANGED <<booking, organizer>>, DOMAIN hold' = {"status", "amount"}, Unreserved => Unreserved',
             NEW t, Become(p, t), DOMAIN t = TaskFields, t.pc \in Free
      PROVE  OrphanInv'
  BY <1>0, <1>1, OrphanElsewhere
<1>2. ASSUME UNCHANGED <<booking, organizer>>, DOMAIN hold' = {"status", "amount"}, Unreserved => Unreserved',
             Done(p) \/ \E pc \in Free : Goto(p, pc)
      PROVE  OrphanInv'
  <2>1. DOMAIN Idle = TaskFields /\ Idle.pc \in Free  BY DEF Idle, TaskFields
  <2>2. ASSUME NEW pc \in Free  PROVE DOMAIN [task[p] EXCEPT !.pc = pc] = TaskFields
                                      /\ [task[p] EXCEPT !.pc = pc].pc \in Free
    BY <1>f DEF TaskFields
  <2> HIDE DEF Free
  <2> QED  BY <1>1, <1>2, <2>1, <2>2 DEF Done, Goto
<1>3. UNCHANGED hold => DOMAIN hold' = {"status", "amount"} /\ (Unreserved => Unreserved')
  BY <1>f DEF Unreserved
<1>4. CASE Invite(p)
  <2> DEFINE t == [task[p] EXCEPT !.share = task[p].share + 1]
  <2>1. UNCHANGED <<booking, organizer, hold>> /\ task[p].pc = "invite"  BY <1>4 DEF Invite, At, club, pledge
  <2>2. CASE Done(p)  BY <1>2, <1>3, <2>1, <2>2
  <2>3. CASE ~Done(p)
    <3>1. Become(p, t)  BY <1>4, <2>3 DEF Invite
    <3>2. DOMAIN t = TaskFields /\ t.pc = "invite"  BY <1>f, <2>1 DEF TaskFields
    <3> HIDE DEF t
    <3>3. /\ DOMAIN task' = Procs /\ \A q \in Procs : DOMAIN task'[q] = TaskFields
          /\ task'[p] = t /\ \A q \in Procs \ {p} : task'[q] = task[q]
      BY <3>1, <3>2 DEF OrphanInv, Become
    <3>4. UndoneAt(p)'  BY <3>2, <3>3 DEF UndoneAt
    <3>5. booking' \notin Unsold  BY <2>1 DEF OrphanInv, Making
    <3>6. booking' \notin {"CHECKOUT_PENDING", "FAILED"}  BY <3>5 DEF Unsold
    <3>7. "invite" \notin Held  BY DEF Held
    <3>8. DOMAIN organizer' = {"intent", "answer", "payment"} /\ (Unauthorized => Unauthorized')
      BY <2>1 DEF OrphanInv, Unauthorized
    <3> QED  BY <1>3, <2>1, <3>2, <3>3, <3>4, <3>5, <3>6, <3>7, <3>8, Undoing
  <2> QED  BY <2>2, <2>3
<1>5. CASE \/ ClaimShare(p) \/ Debit(p) \/ InsertShare(p) \/ CaptureShare(p) \/ ShareFailed(p)
           \/ RecordShare(p) \/ Catch(p) \/ MarkPaid(p)
  <2>1. UNCHANGED <<booking, organizer, hold>>
    BY <1>5 DEF ClaimShare, Debit, InsertShare, CaptureShare, ShareFailed, RecordShare, Catch, MarkPaid,
       OnlyShares, club, pledge
  <2>2. Done(p) \/ \E pc \in Free : Goto(p, pc)
    BY <1>5 DEF ClaimShare, Debit, InsertShare, CaptureShare, ShareFailed, RecordShare, Catch, MarkPaid
  <2> HIDE DEF Free
  <2> QED  BY <1>2, <1>3, <2>1, <2>2
<1>6. CASE \/ FindGuarantee(p) \/ ReleaseAmount(p) \/ FindHold(p) \/ MarkGuarantee(p)
           \/ FailGuarantee(p) \/ Consume(p)
  <2>1. UNCHANGED <<booking, organizer, hold>>
    BY <1>6 DEF FindGuarantee, ReleaseAmount, FindHold, MarkGuarantee, FailGuarantee, Consume, OnlyPledge, club, pledge
  <2>2. Done(p) \/ \E pc \in Free : Goto(p, pc)
    BY <1>6 DEF FindGuarantee, ReleaseAmount, FindHold, MarkGuarantee, FailGuarantee, Consume
  <2> HIDE DEF Free
  <2> QED  BY <1>2, <1>3, <2>1, <2>2
<1>7. CASE ReduceHold(p) \/ ReleaseHold(p) \/ TakeHold(p)
  <2>1. UNCHANGED <<booking, organizer>>
    BY <1>7 DEF ReduceHold, ReleaseHold, TakeHold, OnlyPledge, club
  <2>2. DOMAIN hold' = {"status", "amount"} /\ (Unreserved => Unreserved')
    BY <1>7, <1>f DEF ReduceHold, ReleaseHold, TakeHold, Unreserved
  <2>3. Done(p) \/ \E pc \in Free : Goto(p, pc)  BY <1>7 DEF ReduceHold, ReleaseHold, TakeHold
  <2> HIDE DEF Free
  <2> QED  BY <1>2, <2>1, <2>2, <2>3
<1>8. CASE ChargeSavedMethod(p) \/ CaptureCharge(p)
  <2>1. UNCHANGED <<booking, organizer, hold>>
    BY <1>8 DEF ChargeSavedMethod, CaptureCharge, club, pledge
  <2>2. Done(p) \/ \E pc \in Free : Goto(p, pc)
    <3>1. CASE ChargeSavedMethod(p)
      <4>1. PICK a : CASE a = "requires_capture" -> Goto(p, "captureCharge")
                       [] a = "error"            -> Done(p)
                       [] OTHER                  -> Goto(p, "failGuarantee")
        BY <3>1 DEF ChargeSavedMethod
      <4>2. CASE a = "requires_capture"  BY <4>1, <4>2
      <4>3. CASE a = "error"  BY <4>1, <4>3
      <4>4. CASE a \notin {"requires_capture", "error"}  BY <4>1, <4>4
      <4> QED  BY <4>2, <4>3, <4>4
    <3>2. CASE CaptureCharge(p)  BY <3>2 DEF CaptureCharge
    <3> QED  BY <1>8, <3>1, <3>2
  <2> HIDE DEF Free
  <2> QED  BY <1>2, <1>3, <2>1, <2>2
<1>9. CASE AuthorizeShare(p)
  <2>1. PICK a : Become(p, [task[p] EXCEPT !.answer = a,
                              !.pc = IF a \in {"failed", "error"} THEN "catch" ELSE "insertShare"])
    BY <1>9 DEF AuthorizeShare
  <2> DEFINE t == [task[p] EXCEPT !.answer = a, !.pc = IF a \in {"failed", "error"} THEN "catch" ELSE "insertShare"]
  <2>2. DOMAIN t = TaskFields /\ t.pc \in Free  BY <1>f DEF TaskFields
  <2>3. UNCHANGED <<booking, organizer, hold>>  BY <1>9 DEF AuthorizeShare, OnlyShares, club, pledge
  <2> HIDE DEF Free
  <2> QED  BY <1>1, <1>3, <2>1, <2>2, <2>3
<1>10. CASE Reread(p)
  <2> DEFINE t == [task[p] EXCEPT !.amount = guarantee.remaining,
                     !.pc = IF guarantee.kind = "WALLET_RESERVE" THEN "findHold" ELSE "markGuarantee"]
  <2>1. DOMAIN t = TaskFields /\ t.pc \in Free  BY <1>f DEF TaskFields
  <2>2. Become(p, t) /\ UNCHANGED <<booking, organizer, hold>>  BY <1>10 DEF Reread, OnlyPledge, club, pledge
  <2> HIDE DEF Free, t
  <2> QED  BY <1>1, <1>3, <2>1, <2>2
<1>11. CASE FindUnpaid(p)
  <2> DEFINE t == [task[p] EXCEPT !.todo = {s \in Guests : shares[s].status \in Unpaid}, !.pc = "cover"]
  <2>1. DOMAIN t = TaskFields /\ t.pc \in Free  BY <1>f DEF TaskFields
  <2>2. Become(p, t) /\ UNCHANGED <<booking, organizer, hold>>  BY <1>11 DEF FindUnpaid, OnlyShares, club, pledge
  <2> HIDE DEF Free, t
  <2> QED  BY <1>1, <1>3, <2>1, <2>2
<1>12. CASE Cover(p)
  <2>1. UNCHANGED <<booking, organizer, hold>> /\ task[p].pc = "cover"
    BY <1>12 DEF Cover, OnlyShares, club, pledge, At
  <2>2. Goto(p, "findRemaining") \/ \E s : Become(p, [task[p] EXCEPT !.todo = @ \ {s}])
    BY <1>12 DEF Cover
  <2>3. ASSUME NEW s, Become(p, [task[p] EXCEPT !.todo = @ \ {s}])  PROVE OrphanInv'
    <3> DEFINE t == [task[p] EXCEPT !.todo = @ \ {s}]
    <3>1. DOMAIN t = TaskFields /\ t.pc \in Free  BY <1>f, <2>1 DEF TaskFields
    <3>2. Become(p, t)  BY <2>3
    <3> HIDE DEF Free, t
    <3> QED  BY <1>1, <1>3, <2>1, <3>1, <3>2
  <2> QED  BY <1>2, <1>3, <2>1, <2>2, <2>3
<1>13. CASE FindRemaining(p)
  <2> DEFINE t == [task[p] EXCEPT !.amount = guarantee.remaining,
                     !.pc = IF guarantee.kind = "WALLET_RESERVE" THEN "takeHold" ELSE "charge"]
  <2>1. DOMAIN t = TaskFields /\ t.pc \in Free  BY <1>f DEF TaskFields
  <2>2. Done(p) \/ Become(p, t)  BY <1>13 DEF FindRemaining
  <2>3. UNCHANGED <<booking, organizer, hold>>  BY <1>13 DEF FindRemaining, OnlyPledge, club, pledge
  <2> HIDE DEF Free, t
  <2> QED  BY <1>1, <1>2, <1>3, <2>1, <2>2, <2>3
<1> QED  BY <1>4, <1>5, <1>6, <1>7, <1>8, <1>9, <1>10, <1>11, <1>12, <1>13

\* The claim, the cancellation and the shares of a booking that was sold.
LEMMA OrphanBooking ==
    ASSUME OrphanInv, NEW p \in Procs,
           Claim(p) \/ CreateShares(p) \/ CancelClaim(p) \/ CancelLegacy(p) \/ CancelDone(p)
    PROVE  OrphanInv'
<1>f. /\ DOMAIN task[p] = TaskFields /\ DOMAIN hold = {"status", "amount"}
      /\ DOMAIN organizer = {"intent", "answer", "payment"}
  BY DEF OrphanInv
<1>1. UNCHANGED <<organizer, hold>>
  BY DEF Claim, CreateShares, CancelClaim, CancelLegacy, CancelDone, club, pledge
<1>2. (Unreserved => Unreserved') /\ (Unauthorized => Unauthorized')
  BY <1>1 DEF Unreserved, Unauthorized
<1>3. CASE Claim(p)
  <2>1. CASE booking = "CHECKOUT_PENDING"
    <3>1. Goto(p, "party") /\ booking' = "PAYMENT_PENDING"  BY <1>3, <2>1 DEF Claim
    <3>2. task'[p].pc = "party"  BY <3>1, Stepped
    <3>3. Unreserved' /\ Unauthorized'  BY <1>2, <2>1 DEF OrphanInv
    <3>4. UndoneAt(p)'  BY <3>3 DEF UndoneAt
    <3> QED  BY <1>1, <1>f, <1>2, <2>1, <3>1, <3>2, <3>4, Stepped, Undoing DEF Making, Canceling
  <2>2. CASE booking # "CHECKOUT_PENDING"
    <3>1. Done(p) /\ UNCHANGED booking  BY <1>3, <2>2 DEF Claim
    <3>2. task'[p].pc = "idle"  BY <3>1, Stepped
    <3>3. UndoneAt(p)'  BY <3>2 DEF UndoneAt
    <3>4. booking' \in {"CHECKOUT_PENDING", "FAILED"} => Unreserved' /\ Unauthorized'
      BY <1>2, <3>1 DEF OrphanInv
    <3> QED  BY <1>1, <1>f, <1>2, <3>1, <3>2, <3>3, <3>4, Stepped, Undoing DEF Held, Making, Canceling
  <2> QED  BY <2>1, <2>2
<1>4. CASE CreateShares(p)
  <2> DEFINE t == [task[p] EXCEPT !.pc = "invite", !.share = 1]
  <2>1. DOMAIN t = TaskFields /\ t.pc = "invite"  BY <1>f DEF TaskFields
  <2>2. Become(p, t) /\ UNCHANGED booking /\ task[p].pc = "createShares"  BY <1>4 DEF CreateShares, club, At
  <2> HIDE DEF t
  <2>3. /\ DOMAIN task' = Procs /\ \A q \in Procs : DOMAIN task'[q] = TaskFields
        /\ task'[p] = t /\ \A q \in Procs \ {p} : task'[q] = task[q]
    BY <2>1, <2>2 DEF OrphanInv, Become
  <2>4. UndoneAt(p)'  BY <2>1, <2>3 DEF UndoneAt
  <2>5. booking' \notin Unsold  BY <2>2 DEF OrphanInv, Making
  <2>6. booking' \notin {"CHECKOUT_PENDING", "FAILED"}  BY <2>5 DEF Unsold
  <2>7. "invite" \notin Held  BY DEF Held
  <2> QED  BY <1>1, <1>2, <1>f, <2>1, <2>2, <2>3, <2>4, <2>5, <2>6, <2>7, Undoing
<1>5. CASE CancelClaim(p) \/ CancelLegacy(p) \/ CancelDone(p)
  <2>1. /\ Done(p) \/ Goto(p, "cancelLegacy") \/ Goto(p, "cancelDone")
        /\ \/ task'[p].pc = "idle"
           \/ task'[p].pc \in Canceling /\ booking' \notin Unsold
    <3>1. CASE CancelClaim(p)
      <4>1. \/ Done(p)
            \/ (Goto(p, "cancelLegacy") \/ Goto(p, "cancelDone")) /\ booking' = "CANCEL_PENDING"
        BY <3>1 DEF CancelClaim
      <4> QED  BY <4>1, Stepped DEF Canceling, Unsold
    <3>2. CASE CancelLegacy(p)
      <4>1. (Done(p) \/ Goto(p, "cancelDone")) /\ booking' = booking /\ task[p].pc \in Canceling
        BY <3>2 DEF CancelLegacy, At, Canceling
      <4>2. booking \notin Unsold  BY <4>1 DEF OrphanInv
      <4> QED  BY <4>1, <4>2, Stepped DEF Canceling
    <3>3. CASE CancelDone(p)  BY <3>3, Stepped DEF CancelDone
    <3> QED  BY <1>5, <3>1, <3>2, <3>3
  <2>2. booking' = booking \/ (booking \notin Unsold /\ booking' \notin Unsold)
    <3>1. CASE CancelClaim(p)  BY <3>1 DEF CancelClaim, Unsold
    <3>2. CASE CancelLegacy(p)  BY <3>2 DEF CancelLegacy
    <3>3. CASE CancelDone(p)
      <4>1. task[p].pc = "cancelDone" /\ booking' = "CANCELED"  BY <3>3 DEF CancelDone, At
      <4>2. booking \notin Unsold  BY <4>1 DEF OrphanInv, Canceling
      <4> QED  BY <4>1, <4>2 DEF Unsold
    <3> QED  BY <1>5, <3>1, <3>2, <3>3
  <2>3. task'[p].pc \notin Held \cup Making  BY <2>1 DEF Held, Making, Canceling
  <2>4. UndoneAt(p)'  BY <2>3 DEF UndoneAt, Held
  <2>5. booking' \in {"CHECKOUT_PENDING", "FAILED"} => Unreserved' /\ Unauthorized'
    BY <1>2, <2>2 DEF OrphanInv, Unsold
  <2>6. task'[p].pc \in Canceling => booking' \notin Unsold  BY <2>1 DEF Canceling
  <2>7. /\ DOMAIN task' = Procs /\ \A q \in Procs : DOMAIN task'[q] = TaskFields
        /\ \A q \in Procs \ {p} : task'[q] = task[q]
    BY <2>1, Stepped
  <2> QED  BY <1>1, <1>2, <1>f, <2>2, <2>3, <2>4, <2>5, <2>6, <2>7, Undoing
<1> QED  BY <1>3, <1>4, <1>5

\* An exception leaves to undo what the handler already knows of.
LEMMA OrphanFault ==
    ASSUME OrphanInv, "voidOrphan" \notin FaultPoints, NEW p \in Procs,
           Fault(p) \/ LostAcceptance(p) \/ LostCapture(p)
    PROVE  OrphanInv'
<1>f. DOMAIN organizer = {"intent", "answer", "payment"} /\ DOMAIN hold = {"status", "amount"}  BY DEF OrphanInv
<1>1. /\ Raise(p) /\ UNCHANGED <<booking, hold>> /\ DOMAIN organizer' = {"intent", "answer", "payment"}
      /\ Unauthorized => Unauthorized'
      /\ task[p].pc \in FaultPoints
  BY <1>f DEF Fault, LostAcceptance, LostCapture, Faulty, At, club, pledge, Unauthorized
<1>2. Unreserved => Unreserved'  BY <1>1 DEF Unreserved
<1> PICK h : h = Handler(task[p].pc)  OBVIOUS
<1>3. /\ h = "idle" => Done(p)
      /\ h # "idle" => Goto(p, h)
  BY <1>1 DEF Raise
<1>4. /\ h \in {"idle", "catch", "revert", "reopen", "voidOrphan", "review", "captureFailed"}
      /\ h \in {"revert", "reopen"} => task[p].pc \in {"authorize", "voidOpen"}
      /\ h = "voidOrphan" => task[p].pc = "insertPayment"
      /\ h \in {"review", "captureFailed"} => task[p].pc \in {"legacy", "capture"}
  BY <1>1 DEF Handler
<1>5. /\ DOMAIN task' = Procs /\ \A q \in Procs : DOMAIN task'[q] = TaskFields
      /\ task'[p].pc = h /\ \A q \in Procs \ {p} : task'[q] = task[q]
  BY <1>3, Stepped
<1>6. UndoneAt(p)  BY DEF OrphanInv
<1>7. UndoneAt(p)'  BY <1>1, <1>2, <1>4, <1>5, <1>6 DEF UndoneAt
<1>8. h \in Held => task[p].pc \in Held  BY <1>4 DEF Held
<1>9. h \notin Making \cup Canceling  BY <1>4 DEF Making, Canceling
<1>10. task[p].pc \in Held => booking = "PAYMENT_PENDING"  BY DEF OrphanInv
<1>11. booking' \in {"CHECKOUT_PENDING", "FAILED"} => Unreserved' /\ Unauthorized'
  BY <1>1, <1>2 DEF OrphanInv
<1> QED  BY <1>1, <1>2, <1>f, <1>5, <1>7, <1>8, <1>9, <1>10, <1>11, Undoing

LEMMA OrphanStarts ==
    ASSUME OrphanInv, NEW p \in Procs, Start(p)
    PROVE  OrphanInv'
<1>1. UNCHANGED <<booking, organizer, hold>>
  BY DEF Start, StartCheckout, StartPay, StartRegularise, StartCancel, club, pledge
<1>2. DOMAIN hold' = {"status", "amount"} /\ (Unreserved => Unreserved')  BY <1>1 DEF OrphanInv, Unreserved
<1>3. \E t : /\ Become(p, t) /\ DOMAIN t = TaskFields
             /\ t.pc \in {"claim", "claimShare", "findUnpaid", "cancelClaim"}
  <2>1. CASE StartCheckout(p)
    <3>1. PICK k : Become(p, [Idle EXCEPT !.op = "checkout", !.pc = "claim", !.kind = k])
      BY <2>1 DEF StartCheckout
    <3> DEFINE t == [Idle EXCEPT !.op = "checkout", !.pc = "claim", !.kind = k]
    <3>2. DOMAIN t = TaskFields /\ t.pc = "claim"  BY DEF Idle, TaskFields
    <3> QED  BY <3>1, <3>2
  <2>2. CASE StartPay(p)
    <3>1. PICK s : Become(p, [Idle EXCEPT !.op = "pay", !.pc = "claimShare", !.share = s])
      BY <2>2 DEF StartPay
    <3> DEFINE t == [Idle EXCEPT !.op = "pay", !.pc = "claimShare", !.share = s]
    <3>2. DOMAIN t = TaskFields /\ t.pc = "claimShare"  BY DEF Idle, TaskFields
    <3> QED  BY <3>1, <3>2
  <2>3. CASE StartRegularise(p)
    <3> DEFINE t == [Idle EXCEPT !.op = "regularise", !.pc = "findUnpaid"]
    <3>1. Become(p, t)  BY <2>3 DEF StartRegularise
    <3>2. DOMAIN t = TaskFields /\ t.pc = "findUnpaid"  BY DEF Idle, TaskFields
    <3> QED  BY <3>1, <3>2
  <2>4. CASE StartCancel(p)
    <3> DEFINE t == [Idle EXCEPT !.op = "cancel", !.pc = "cancelClaim"]
    <3>1. Become(p, t)  BY <2>4 DEF StartCancel
    <3>2. DOMAIN t = TaskFields /\ t.pc = "cancelClaim"  BY DEF Idle, TaskFields
    <3> QED  BY <3>1, <3>2
  <2> QED  BY <2>1, <2>2, <2>3, <2>4 DEF Start
<1>4. {"claim", "claimShare", "findUnpaid", "cancelClaim"} \cap (Held \cup Making \cup Canceling) = {}
  BY DEF Held, Making, Canceling
<1> QED  BY <1>1, <1>2, <1>3, <1>4, OrphanElsewhere

\* A checkout that ended with the booking reopened or failed left neither an
\* authorization at Stripe nor a reservation in the wallet.  The premise is
\* the call that voids the orphan: when it fails the checkout carries on.
THEOREM SplitNoOrphan ==
    ASSUME "voidOrphan" \notin FaultPoints
    PROVE  Spec => []NoOrphan
<1>1. OrphanInv => NoOrphan
  BY DEF OrphanInv, NoOrphan, Unreserved, Unauthorized
<1>2. OrphanInv /\ [Next]_vars => OrphanInv'
  <2>1. ASSUME OrphanInv, NEW p \in Procs, Handle(p)  PROVE OrphanInv'
    BY <2>1, OrphanBefore, OrphanAfter, OrphanHandlers, OrphanBooking, OrphanFault DEF Handle
  <2>2. ASSUME OrphanInv, NEW p \in Procs, Start(p)  PROVE OrphanInv'
    BY <2>2, OrphanStarts
  <2>3. ASSUME OrphanInv, UNCHANGED vars  PROVE OrphanInv'
    BY <2>3 DEF vars, OrphanInv, UndoneAt, Unreserved, Unauthorized
  <2> QED  BY <2>1, <2>2, <2>3 DEF Next
<1> QED  BY <1>1, <1>2, OrphanStart, PTL DEF Spec
-----------------------------------------------------------------------------
(***************************************************************************)
(* The money of a split booking: what was collected and what is still      *)
(* guaranteed make up the price, the guarantee covers the unpaid shares,   *)
(* and the credits reserved follow the guarantee.                          *)
(*                                                                         *)
(* Three premises, each of them needed (the run split_unpaid_share shows   *)
(* the second): the regularisation waits for the payments under way, no    *)
(* issuer asks a guest for 3-D Secure, and no exception falls on a call of *)
(* Irrecoverable.  Every other call may fail, at any time.                 *)
(***************************************************************************)
\* the calls between a movement of money and the write that remembers it
Irrecoverable == {"recordShare", "markPaid", "findGuarantee", "releaseAmount", "reread",
                  "findHold", "reduceHold", "releaseHold", "markReleased", "consume"}

-----------------------------------------------------------------------------
\* a share is paid, the guarantee not yet reduced; reduced, the hold not yet
Settling == {"findGuarantee", "releaseAmount"}
Mirroring == {"reread", "findHold", "reduceHold", "releaseHold"}
Collecting == {"recordShare", "markPaid"}

\* what the guarantee owes for a share, and what the hold keeps for it
Owing(s) == \/ shares[s].status # "PAID"
            \/ \E p \in Procs : task[p].pc \in Settling /\ task[p].share = s
Keeping(s) == \/ Owing(s)
              \/ \E p \in Procs : task[p].pc \in Mirroring /\ task[p].share = s
Owed == [s \in Guests |-> IF s <= bill.guests /\ Owing(s) THEN DueBy(s) ELSE 0]
Kept == [s \in Guests |-> IF s <= bill.guests /\ Keeping(s) THEN DueBy(s) ELSE 0]
TotalOwed == SumFunctionOnSet(Owed, Guests)
TotalKept == SumFunctionOnSet(Kept, Guests)

GuaranteeRow == [status : {"absent", "ACTIVE", "PARTIALLY_RELEASED", "RELEASED", "CONSUMED", "FAILED"},
                 kind : {"WALLET_RESERVE", "CARD_OFF_SESSION"}, remaining : Nat]
HoldRow == [status : {"absent", "ACTIVE", "RELEASED", "CAPTURED"}, amount : Nat]

Amounts ==
    /\ guarantee \in GuaranteeRow
    /\ hold \in HoldRow
    /\ recovered \in Nat /\ DOMAIN charge = {"intent", "answer", "amount"}

\* the calls of a checkout before and after the guarantee
Before == {"party", "reopen", "authorize", "voidOpen", "insertPayment", "voidOrphan", "revert",
           "guarantee", "guaranteeRow"}
After == {"legacy", "void", "cancelPayment", "releaseEntirely", "markReleased", "capture",
          "captureFailed", "recordSuccess", "confirm"}

\* one guarantee, laid down by the checkout that sells the booking
Pledges ==
    /\ booking = "CHECKOUT_PENDING" => guarantee.status = "absent"
    /\ booking \notin Unsold => guarantee.status # "absent"
    /\ \A p \in Procs :
        /\ task[p].pc \in Before => guarantee.status = "absent"
        /\ task[p].pc \in After => guarantee.status = "ACTIVE"
        /\ task[p].pc = "guaranteeRow" => hold.status = "ACTIVE" /\ hold.amount = Guaranteed
        /\ task[p].pc = "markReleased" => hold.status # "ACTIVE"

\* a share is paid by one handler, which then reduces the guarantee once
Payers ==
    \A p \in Procs :
        /\ task[p].pc \in Paying => shares[task[p].share].status = "PAYMENT_PENDING"
        /\ task[p].pc \in Settling \cup Mirroring =>
            /\ shares[task[p].share].status = "PAID"
            /\ \A q \in Procs \ {p} :
                 task[q].pc \in Settling \cup Mirroring => task[q].share # task[p].share
        /\ task[p].pc = "insertShare" => task[p].answer = "requires_capture"
        /\ task[p].pc \in {"findHold", "reduceHold", "releaseHold", "markGuarantee"} =>
             task[p].amount \in Nat /\ guarantee.remaining <= task[p].amount
        /\ task[p].pc = "releaseHold" => hold.amount <= DueBy(task[p].share)
        /\ task[p].pc \in Collecting => shares[task[p].share].taken = DueBy(task[p].share)

TakenRight ==
    \A s \in Guests :
        /\ shares[s].status = "PAID" => shares[s].taken = DueBy(s)
        /\ shares[s].status # "PAID" =>
             \/ shares[s].taken = 0
             \/ \E p \in Procs : task[p].pc \in Collecting /\ task[p].share = s
        /\ shares[s].answer \in {"none", "requires_capture", "failed", "error"}

NoUnpaid == \A s \in Guests : shares[s].status \notin Unpaid

\* the regularisation runs alone
Charging == {"takeHold", "charge", "captureCharge", "failGuarantee", "consume"}
Deadline ==
    \A p \in Procs :
        /\ task[p].pc \in RegularisePc =>
            /\ task[p].op = "regularise" /\ booking \notin Unsold
            /\ \A q \in Procs \ {p} : task[q].pc = "idle"
        /\ task[p].pc = "cover" => task[p].todo = {s \in Guests : shares[s].status \in Unpaid}
        /\ task[p].pc \in Charging \cup {"findRemaining"} => NoUnpaid
        /\ task[p].pc \in Charging => guarantee.status \notin {"absent", "RELEASED", "CONSUMED"}
        /\ task[p].pc = "takeHold" => guarantee.kind = "WALLET_RESERVE"
        /\ task[p].pc \in {"charge", "captureCharge", "failGuarantee"} =>
             guarantee.kind = "CARD_OFF_SESSION"
        /\ task[p].pc = "charge" => task[p].amount = guarantee.remaining
        /\ task[p].pc = "captureCharge" => charge.amount = guarantee.remaining
        /\ task[p].pc = "consume" => /\ recovered = guarantee.remaining
                                     /\ guarantee.kind = "WALLET_RESERVE" => Reserved = 0
Over ==
    guarantee.status \in {"FAILED", "CONSUMED"} =>
        NoUnpaid /\ booking \notin Unsold /\ \A p \in Procs : task[p].pc \notin Making \cup PayPc

Withdrawn == guarantee.status = "RELEASED" /\ booking \in Unsold
Someone(pc) == \E p \in Procs : task[p].pc = pc

Balances ==
    /\ guarantee.status \notin {"absent", "CONSUMED"} /\ ~Withdrawn => guarantee.remaining = TotalOwed
    /\ /\ guarantee.status \notin {"absent", "CONSUMED"} /\ ~Withdrawn
       /\ guarantee.kind = "WALLET_RESERVE" /\ ~Someone("markReleased") /\ ~Someone("consume")
       => Reserved = TotalKept
    /\ guarantee.status = "RELEASED" => guarantee.remaining = 0
    /\ Withdrawn /\ guarantee.kind = "WALLET_RESERVE" => Reserved = 0
    /\ guarantee.status = "CONSUMED" =>
         /\ guarantee.remaining = 0 /\ recovered = TotalOwed
         /\ guarantee.kind = "WALLET_RESERVE" => Reserved = 0
    /\ guarantee.status # "CONSUMED" /\ ~Someone("consume") => recovered = 0

MoneyInv == Amounts /\ Pledges /\ Payers /\ TakenRight /\ Deadline /\ Over /\ Balances

-----------------------------------------------------------------------------
(***************************************************************************)
(* The sums.                                                               *)
(***************************************************************************)
LEMMA GuestsFinite == IsFiniteSet(Guests) /\ Guests \subseteq Nat \ {0}
BY SplitAssumption, FS_Interval DEF Guests

\* Each share of the bill is a number of cents, whatever the number of guests.
LEMMA DueNat ==
    ASSUME Shape, NEW s \in Guests, s <= bill.guests
    PROVE  DueBy(s) \in Nat
<1> DEFINE parts == bill.guests + 1
<1>0. bill.guests \in Nat  BY SplitAssumption DEF Shape
<1>1. parts \in Nat \ {0} /\ s + 1 \in 1..parts  BY <1>0, GuestsFinite
<1>2. bill.fee \in Nat /\ Price \in Nat  BY SplitAssumption DEF Shape
<1> HIDE DEF parts
<1>3. ASSUME NEW total \in Nat  PROVE splitEvenly(total, parts) \in [1..parts -> Nat]
  <2>1. total \div parts \in Nat  BY <1>1, <1>3
  <2> QED  BY <2>1 DEF splitEvenly
<1>4. feeAmounts(bill.fee, parts, bill.allocation) \in [1..parts -> Nat]  BY <1>2, <1>3 DEF feeAmounts
<1>5. computeSplitShares(Price, parts, bill.fee, bill.allocation) \in [1..parts -> Nat]
  <2>0. splitEvenly(Price, parts) \in [1..parts -> Nat]  BY <1>2, <1>3
  <2>1. ASSUME NEW i \in 1..parts
        PROVE  splitEvenly(Price, parts)[i] + feeAmounts(bill.fee, parts, bill.allocation)[i] \in Nat
    <3>1. splitEvenly(Price, parts)[i] \in Nat  BY <2>0
    <3>2. feeAmounts(bill.fee, parts, bill.allocation)[i] \in Nat  BY <1>4
    <3> QED  BY <3>1, <3>2
  <2> QED  BY <2>1 DEF computeSplitShares
<1> QED  BY <1>1, <1>5 DEF DueBy, Due, parts

LEMMA OwedNat ==
    ASSUME Shape
    PROVE  /\ Owed \in [Guests -> Nat] /\ TotalOwed \in Nat
           /\ Kept \in [Guests -> Nat] /\ TotalKept \in Nat
           /\ \A s \in Guests : Owed[s] <= TotalOwed /\ Kept[s] <= TotalKept
<1>1. Owed \in [Guests -> Nat] /\ Kept \in [Guests -> Nat]  BY DueNat DEF Owed, Kept
<1> QED  BY <1>1, GuestsFinite, SumNat, SumBounds DEF TotalOwed, TotalKept

\* The sums follow the shares that are still owed.
LEMMA OwedSame ==
    ASSUME bill' = bill, \A s \in Guests : Owing(s)' <=> Owing(s)
    PROVE  TotalOwed' = TotalOwed
<1>1. \A s \in Guests : DueBy(s)' = DueBy(s)  BY DEF DueBy, Due
<1>2. Owed' = Owed  BY <1>1 DEF Owed
<1> QED  BY <1>2 DEF TotalOwed

LEMMA KeptSame ==
    ASSUME bill' = bill, \A s \in Guests : Keeping(s)' <=> Keeping(s)
    PROVE  TotalKept' = TotalKept
<1>1. \A s \in Guests : DueBy(s)' = DueBy(s)  BY DEF DueBy, Due
<1>2. Kept' = Kept  BY <1>1 DEF Kept
<1> QED  BY <1>2 DEF TotalKept

LEMMA OwedDrops ==
    ASSUME Shape, Shape', bill' = bill, NEW s \in Guests, s <= bill.guests, Owing(s), ~Owing(s)',
           \A r \in Guests \ {s} : Owing(r)' <=> Owing(r)
    PROVE  TotalOwed' = TotalOwed - DueBy(s) /\ DueBy(s) <= TotalOwed
<1>1. \A r \in Guests : DueBy(r)' = DueBy(r)  BY DEF DueBy, Due
<1>2. Owed \in [Guests -> Nat] /\ Owed' \in [Guests -> Nat]
  <2>1. Owed' \in [Guests -> Nat]
    <3>1. \A r \in Guests : r <= bill.guests => DueBy(r) \in Nat  BY DueNat
    <3> QED  BY <1>1, <3>1 DEF Owed
  <2> QED  BY <2>1, OwedNat
<1>3. Owed[s] = DueBy(s) /\ Owed'[s] = 0 /\ \A r \in Guests \ {s} : Owed'[r] = Owed[r]
  BY <1>1 DEF Owed
<1>4. TotalOwed' = TotalOwed - Owed[s] + Owed'[s]
  <2> PICK f, g, D : f = Owed /\ g = Owed' /\ D = Guests  OBVIOUS
  <2>1. \A r \in D : f[r] \in Int /\ g[r] \in Int  BY <1>2
  <2>2. \A r \in D \ {s} : g[r] = f[r]  BY <1>3
  <2>3. IsFiniteSet(D) /\ s \in D  BY GuestsFinite
  <2>4. SumFunctionOnSet(g, D) = SumFunctionOnSet(f, D) - f[s] + g[s]  BY <2>1, <2>2, <2>3, SumChange
  <2> QED  BY <2>4 DEF TotalOwed
<1> QED  BY <1>2, <1>3, <1>4, OwedNat

LEMMA KeptDrops ==
    ASSUME Shape, Shape', bill' = bill, NEW s \in Guests, s <= bill.guests, Keeping(s), ~Keeping(s)',
           \A r \in Guests \ {s} : Keeping(r)' <=> Keeping(r)
    PROVE  TotalKept' = TotalKept - DueBy(s) /\ DueBy(s) <= TotalKept
<1>1. \A r \in Guests : DueBy(r)' = DueBy(r)  BY DEF DueBy, Due
<1>2. Kept \in [Guests -> Nat] /\ Kept' \in [Guests -> Nat]
  <2>1. Kept' \in [Guests -> Nat]
    <3>1. \A r \in Guests : r <= bill.guests => DueBy(r) \in Nat  BY DueNat
    <3> QED  BY <1>1, <3>1 DEF Kept
  <2> QED  BY <2>1, OwedNat
<1>3. Kept[s] = DueBy(s) /\ Kept'[s] = 0 /\ \A r \in Guests \ {s} : Kept'[r] = Kept[r]
  BY <1>1 DEF Kept
<1>4. TotalKept' = TotalKept - Kept[s] + Kept'[s]
  <2> PICK f, g, D : f = Kept /\ g = Kept' /\ D = Guests  OBVIOUS
  <2>1. \A r \in D : f[r] \in Int /\ g[r] \in Int  BY <1>2
  <2>2. \A r \in D \ {s} : g[r] = f[r]  BY <1>3
  <2>3. IsFiniteSet(D) /\ s \in D  BY GuestsFinite
  <2>4. SumFunctionOnSet(g, D) = SumFunctionOnSet(f, D) - f[s] + g[s]  BY <2>1, <2>2, <2>3, SumChange
  <2> QED  BY <2>4 DEF TotalKept
<1> QED  BY <1>2, <1>3, <1>4, OwedNat

\* The guarantee is laid down for every share of the bill.
LEMMA GuaranteedIsOwed ==
    ASSUME Shape, bill.guests \in Guests, \A s \in Guests : Owing(s)
    PROVE  Guaranteed = TotalOwed /\ Guaranteed = TotalKept /\ Guaranteed \in Nat
<1> DEFINE n == bill.guests
           f == [s \in 1..n |-> DueBy(s)]
<1>1. 1..n \in SUBSET Guests /\ n \in Nat  BY SplitAssumption DEF Guests
<1>2. Guaranteed = SumFunctionOnSet(f, 1..n)  BY DEF Guaranteed, SumFunction
<1>3. Owed = Kept  BY DEF Owed, Kept, Keeping
<1>4. \A s \in 1..n : f[s] = Owed[s]
  BY <1>1 DEF Owed
<1>5. SumFunctionOnSet(f, 1..n) = SumFunctionOnSet(Owed, 1..n)
  <2>1. IsFiniteSet(1..n)  BY <1>1, FS_Interval
  <2> HIDE DEF f, n
  <2> PICK g : g = Owed  OBVIOUS
  <2> QED  BY <1>4, <2>1, SumSame
<1>6. Owed \in [Guests -> Nat]  BY OwedNat
<1>7. \A s \in Guests \ (1..n) : Owed[s] = 0  BY <1>1, GuestsFinite DEF Owed
<1>8. SumFunctionOnSet(Owed, Guests) = SumFunctionOnSet(Owed, 1..n)
  <2> PICK g, D, A : g = Owed /\ D = Guests /\ A = 1..n  OBVIOUS
  <2> HIDE DEF f, n
  <2>1. IsFiniteSet(D) /\ A \subseteq D  BY <1>1, GuestsFinite
  <2>2. \A r \in D : g[r] \in Int  BY <1>6
  <2>3. \A r \in D \ A : g[r] = 0  BY <1>7
  <2>4. SumFunctionOnSet(g, D) = SumFunctionOnSet(g, A)  BY <2>1, <2>2, <2>3, SumWithin
  <2> QED  BY <2>4
<1> QED  BY <1>2, <1>3, <1>5, <1>8, OwedNat DEF TotalOwed, TotalKept

-----------------------------------------------------------------------------
(***************************************************************************)
(* The steps of a handler, and who may run beside it.                      *)
(***************************************************************************)
LEMMA Advancing ==
    ASSUME Shape, NEW p \in Procs, NEW pc, Goto(p, pc)
    PROVE  /\ task'[p].pc = pc /\ task'[p].share = task[p].share /\ task'[p].todo = task[p].todo
           /\ task'[p].op = task[p].op /\ task'[p].answer = task[p].answer
           /\ task'[p].amount = task[p].amount
           /\ \A q \in Procs \ {p} : task'[q] = task[q]
<1> DEFINE t == [task[p] EXCEPT !.pc = pc]
<1>1. DOMAIN t = TaskFields  BY DEF Shape
<1>2. /\ t.pc = pc /\ t.share = task[p].share /\ t.todo = task[p].todo /\ t.op = task[p].op
      /\ t.answer = task[p].answer /\ t.amount = task[p].amount
  BY DEF Shape, TaskFields
<1>3. Become(p, t)  BY DEF Goto
<1> HIDE DEF t
<1> QED  BY <1>1, <1>2, <1>3, Becoming

LEMMA Stopping ==
    ASSUME Shape, NEW p \in Procs, Done(p)
    PROVE  task'[p] = Idle /\ task'[p].pc = "idle" /\ \A q \in Procs \ {p} : task'[q] = task[q]
BY Ending, Becoming DEF Done, Idle, TaskFields

\* While a handler runs, nobody else regularises.
LEMMA NoDeadline ==
    ASSUME Deadline, NEW p \in Procs, task[p].pc # "idle", task[p].pc \notin RegularisePc
    PROVE  \A q \in Procs : task[q].pc \notin RegularisePc
BY DEF Deadline

\* The checkout that holds the claim runs before any payment of a share.
LEMMA HeldSituation ==
    ASSUME TakenInv, Deadline, NEW p \in Procs, task[p].pc \in Held
    PROVE  /\ booking = "PAYMENT_PENDING"
           /\ \A s \in Guests : Blank(s)
           /\ \A q \in Procs : task[q].pc \notin PayPc \cup RegularisePc \cup Making
           /\ \A q \in Procs \ {p} : task[q].pc \notin Held
<1>1. booking = "PAYMENT_PENDING"  BY DEF TakenInv, OnePass
<1>2. \A s \in Guests : Blank(s)  BY <1>1 DEF TakenInv, SharesInOrder, Unsold
<1>3. \A q \in Procs : task[q].pc \notin PayPc  BY <1>2 DEF TakenInv, HandlersInOrder, Blank
<1>4. \A q \in Procs : task[q].pc \notin RegularisePc
  BY <1>1, NoDeadline DEF Deadline, Unsold
<1>5. \A q \in Procs : task[q].pc \notin Making  BY <1>1 DEF TakenInv, OnePass, Unsold
<1>6. \A q \in Procs \ {p} : task[q].pc \notin Held
  BY DEF TakenInv, OnePass
<1> QED  BY <1>1, <1>2, <1>3, <1>4, <1>5, <1>6

\* The payment of a share runs after the checkout and before the deadline.
LEMMA PaySituation ==
    ASSUME TakenInv, Deadline, Pledges, Over, Amounts, NEW p \in Procs, task[p].pc \in PayPc
    PROVE  /\ booking \notin Unsold
           /\ guarantee.status \in {"ACTIVE", "PARTIALLY_RELEASED", "RELEASED"}
           /\ \A q \in Procs : task[q].pc \notin Held \cup RegularisePc
           /\ task[p].share \in Guests /\ task[p].share <= bill.guests
           /\ bill.guests \in Guests /\ DueBy(task[p].share) \in Nat
<1>1. task[p].share \in Guests /\ shares[task[p].share].status # "absent"
  BY DEF TakenInv, HandlersInOrder
<1>2. booking \notin Unsold  BY <1>1 DEF TakenInv, SharesInOrder, Blank
<1>3. guarantee.status \in {"ACTIVE", "PARTIALLY_RELEASED", "RELEASED"}
  BY <1>2 DEF Pledges, Over, Amounts, GuaranteeRow
<1>4. \A q \in Procs : task[q].pc \notin Held  BY <1>2 DEF TakenInv, OnePass, Unsold
<1>5. task[p].pc # "idle" /\ task[p].pc \notin RegularisePc  BY DEF PayPc, RegularisePc
<1>6. \A q \in Procs : task[q].pc \notin RegularisePc  BY <1>5, NoDeadline
<1>7. task[p].share <= bill.guests /\ bill.guests \in Guests  BY <1>1 DEF TakenInv, SharesInOrder
<1> QED  BY <1>1, <1>2, <1>3, <1>4, <1>6, <1>7, DueNat DEF TakenInv

\* A handler never changes the kind of guarantee it was asked for.
Kinds == \A p \in Procs : task[p].kind \in {"WALLET_RESERVE", "CARD_OFF_SESSION"}

LEMMA KindStart == Init => Kinds
BY DEF Init, Kinds, Idle

LEMMA KindStep ==
    ASSUME Shape, Kinds, [Next]_vars
    PROVE  Kinds'
<1>1. ASSUME NEW p \in Procs, NEW t, DOMAIN t = TaskFields, Become(p, t),
             t.kind \in {"WALLET_RESERVE", "CARD_OFF_SESSION"}
      PROVE  Kinds'
  BY <1>1, Becoming DEF Kinds
<1>2. ASSUME NEW p \in Procs, NEW pc, Goto(p, pc)  PROVE Kinds'
  <2> DEFINE t == [task[p] EXCEPT !.pc = pc]
  <2>1. DOMAIN t = TaskFields /\ t.kind = task[p].kind  BY DEF Shape, TaskFields
  <2>2. Become(p, t)  BY <1>2 DEF Goto
  <2> HIDE DEF t
  <2> QED  BY <1>1, <2>1, <2>2 DEF Kinds
<1>3. ASSUME NEW p \in Procs, Done(p)  PROVE Kinds'
  <2>1. DOMAIN Idle = TaskFields /\ Idle.kind = "WALLET_RESERVE"  BY DEF Idle, TaskFields
  <2> QED  BY <1>1, <1>3, <2>1 DEF Done
<1>4. ASSUME NEW p \in Procs, Handle(p)  PROVE Kinds'
  <2>1. CASE CreateShares(p)
    <3> DEFINE t == [task[p] EXCEPT !.pc = "invite", !.share = 1]
    <3>1. DOMAIN t = TaskFields /\ t.kind = task[p].kind  BY DEF Shape, TaskFields
    <3>2. Become(p, t)  BY <2>1 DEF CreateShares
    <3> HIDE DEF t
    <3> QED  BY <1>1, <3>1, <3>2 DEF Kinds
  <2>2. CASE Invite(p)
    <3> DEFINE t == [task[p] EXCEPT !.share = task[p].share + 1]
    <3>1. DOMAIN t = TaskFields /\ t.kind = task[p].kind  BY DEF Shape, TaskFields
    <3>2. Done(p) \/ Become(p, t)  BY <2>2 DEF Invite
    <3> HIDE DEF t
    <3> QED  BY <1>1, <1>3, <3>1, <3>2 DEF Kinds
  <2>3. CASE AuthorizeShare(p)
    <3>1. PICK a : Become(p, [task[p] EXCEPT !.answer = a,
                                !.pc = IF a \in {"failed", "error"} THEN "catch" ELSE "insertShare"])
      BY <2>3 DEF AuthorizeShare
    <3> DEFINE t == [task[p] EXCEPT !.answer = a,
                       !.pc = IF a \in {"failed", "error"} THEN "catch" ELSE "insertShare"]
    <3>2. DOMAIN t = TaskFields /\ t.kind = task[p].kind  BY DEF Shape, TaskFields
    <3> HIDE DEF t
    <3> QED  BY <1>1, <3>1, <3>2 DEF Kinds, t
  <2>4. CASE Reread(p)
    <3> DEFINE t == [task[p] EXCEPT !.amount = guarantee.remaining,
                       !.pc = IF guarantee.kind = "WALLET_RESERVE" THEN "findHold" ELSE "markGuarantee"]
    <3>1. DOMAIN t = TaskFields /\ t.kind = task[p].kind  BY DEF Shape, TaskFields
    <3>2. Become(p, t)  BY <2>4 DEF Reread
    <3> HIDE DEF t
    <3> QED  BY <1>1, <3>1, <3>2 DEF Kinds
  <2>5. CASE FindUnpaid(p)
    <3> DEFINE t == [task[p] EXCEPT !.todo = {s \in Guests : shares[s].status \in Unpaid}, !.pc = "cover"]
    <3>1. DOMAIN t = TaskFields /\ t.kind = task[p].kind  BY DEF Shape, TaskFields
    <3>2. Become(p, t)  BY <2>5 DEF FindUnpaid
    <3> HIDE DEF t
    <3> QED  BY <1>1, <3>1, <3>2 DEF Kinds
  <2>6. CASE Cover(p)
    <3>1. Goto(p, "findRemaining") \/ \E s : Become(p, [task[p] EXCEPT !.todo = @ \ {s}])
      BY <2>6 DEF Cover
    <3>2. ASSUME NEW s, Become(p, [task[p] EXCEPT !.todo = @ \ {s}])  PROVE Kinds'
      <4> DEFINE t == [task[p] EXCEPT !.todo = @ \ {s}]
      <4>1. DOMAIN t = TaskFields /\ t.kind = task[p].kind  BY DEF Shape, TaskFields
      <4>2. Become(p, t)  BY <3>2
      <4> HIDE DEF t
      <4> QED  BY <1>1, <4>1, <4>2 DEF Kinds
    <3> QED  BY <1>2, <3>1, <3>2
  <2>7. CASE FindRemaining(p)
    <3> DEFINE t == [task[p] EXCEPT !.amount = guarantee.remaining,
                       !.pc = IF guarantee.kind = "WALLET_RESERVE" THEN "takeHold" ELSE "charge"]
    <3>1. DOMAIN t = TaskFields /\ t.kind = task[p].kind  BY DEF Shape, TaskFields
    <3>2. Done(p) \/ Become(p, t)  BY <2>7 DEF FindRemaining
    <3> HIDE DEF t
    <3> QED  BY <1>1, <1>3, <3>1, <3>2 DEF Kinds
  <2>8. CASE \/ Claim(p) \/ CheckParty(p) \/ Reopen(p) \/ Revert(p) \/ Authorize(p) \/ VoidOpen(p)
            \/ VoidOrphan(p) \/ InsertPayment(p) \/ ReserveCredits(p) \/ RefuseCredits(p)
            \/ InsertGuarantee(p) \/ LegacyAccepts(p) \/ LegacyCollides(p) \/ VoidAuthorization(p)
            \/ CancelPayment(p) \/ ReleaseEntirely(p) \/ MarkReleased(p) \/ FailBooking(p)
            \/ Review(p) \/ Capture(p) \/ CaptureFailed(p) \/ RecordSuccess(p) \/ Confirm(p)
            \/ ClaimShare(p) \/ Debit(p) \/ InsertShare(p) \/ CaptureShare(p) \/ ShareFailed(p)
            \/ RecordShare(p) \/ Catch(p) \/ MarkPaid(p)
    <3>1. Done(p) \/ \E pc : Goto(p, pc)
      BY <2>8 DEF Claim, CheckParty, Reopen, Revert, Authorize, VoidOpen, VoidOrphan, InsertPayment, ReserveCredits,
         RefuseCredits, InsertGuarantee, LegacyAccepts, LegacyCollides, VoidAuthorization, CancelPayment,
         ReleaseEntirely, MarkReleased, FailBooking, Review, Capture, CaptureFailed, RecordSuccess, Confirm,
         ClaimShare, Debit, InsertShare, CaptureShare, ShareFailed, RecordShare, Catch, MarkPaid
    <3> QED  BY <1>2, <1>3, <3>1
  <2>9. CASE \/ FindGuarantee(p) \/ ReleaseAmount(p) \/ FindHold(p) \/ ReduceHold(p) \/ ReleaseHold(p)
            \/ MarkGuarantee(p) \/ TakeHold(p) \/ ChargeSavedMethod(p) \/ CaptureCharge(p)
            \/ FailGuarantee(p) \/ Consume(p) \/ CancelClaim(p) \/ CancelLegacy(p) \/ CancelDone(p)
            \/ Fault(p) \/ LostAcceptance(p) \/ LostCapture(p)
    <3>1. Done(p) \/ \E pc : Goto(p, pc)
      BY <2>9 DEF FindGuarantee, ReleaseAmount, FindHold, ReduceHold, ReleaseHold, MarkGuarantee, TakeHold,
         ChargeSavedMethod, CaptureCharge, FailGuarantee, Consume, CancelClaim, CancelLegacy, CancelDone, Fault,
         LostAcceptance, LostCapture, Raise
    <3> QED  BY <1>2, <1>3, <3>1
  <2> QED  BY <1>4, <2>1, <2>2, <2>3, <2>4, <2>5, <2>6, <2>7, <2>8, <2>9 DEF Handle
<1>5. ASSUME NEW p \in Procs, Start(p)  PROVE Kinds'
  <2>1. CASE StartCheckout(p)
    <3>1. PICK k \in {"WALLET_RESERVE", "CARD_OFF_SESSION"} :
            Become(p, [Idle EXCEPT !.op = "checkout", !.pc = "claim", !.kind = k])
      BY <2>1 DEF StartCheckout
    <3> DEFINE t == [Idle EXCEPT !.op = "checkout", !.pc = "claim", !.kind = k]
    <3>2. DOMAIN t = TaskFields /\ t.kind = k  BY DEF Idle, TaskFields
    <3> HIDE DEF t
    <3> QED  BY <1>1, <3>1, <3>2 DEF t
  <2>2. CASE StartPay(p)
    <3>1. PICK s : Become(p, [Idle EXCEPT !.op = "pay", !.pc = "claimShare", !.share = s])
      BY <2>2 DEF StartPay
    <3> DEFINE t == [Idle EXCEPT !.op = "pay", !.pc = "claimShare", !.share = s]
    <3>2. DOMAIN t = TaskFields /\ t.kind = "WALLET_RESERVE"  BY DEF Idle, TaskFields
    <3> HIDE DEF t
    <3> QED  BY <1>1, <3>1, <3>2 DEF t
  <2>3. CASE StartRegularise(p)
    <3> DEFINE t == [Idle EXCEPT !.op = "regularise", !.pc = "findUnpaid"]
    <3>1. DOMAIN t = TaskFields /\ t.kind = "WALLET_RESERVE"  BY DEF Idle, TaskFields
    <3>2. Become(p, t)  BY <2>3 DEF StartRegularise
    <3> HIDE DEF t
    <3> QED  BY <1>1, <3>1, <3>2
  <2>4. CASE StartCancel(p)
    <3> DEFINE t == [Idle EXCEPT !.op = "cancel", !.pc = "cancelClaim"]
    <3>1. DOMAIN t = TaskFields /\ t.kind = "WALLET_RESERVE"  BY DEF Idle, TaskFields
    <3>2. Become(p, t)  BY <2>4 DEF StartCancel
    <3> HIDE DEF t
    <3> QED  BY <1>1, <3>1, <3>2
  <2> QED  BY <1>5, <2>1, <2>2, <2>3, <2>4 DEF Start
<1>6. CASE UNCHANGED vars  BY <1>6 DEF vars, Kinds
<1> QED  BY <1>4, <1>5, <1>6 DEF Next

-----------------------------------------------------------------------------
(***************************************************************************)
(* A step that touches neither the shares, nor the guarantee, nor the hold *)
(* keeps the balance, when it leaves no movement of money half done.       *)
(***************************************************************************)
Quiet == {"idle", "claim", "claimShare", "catch", "shareFailed", "fail", "review"}
           \cup (Before \ {"guaranteeRow"}) \cup (After \ {"markReleased"}) \cup Making \cup CancelPc

LEMMA Elsewhere ==
    ASSUME MoneyInv, NEW p \in Procs,
           UNCHANGED <<bill, guarantee, hold, shares, charge, recovered>>,
           \A q \in Procs \ {p} : task'[q] = task[q],
           task[p].pc \notin Irrecoverable, task'[p].pc \in Quiet,
           task'[p].pc \in {"catch", "shareFailed"} =>
                task[p].pc \in Paying /\ task'[p].share = task[p].share,
           task'[p].pc \in Before => guarantee.status = "absent",
           task'[p].pc \in After => guarantee.status = "ACTIVE",
           booking' = "CHECKOUT_PENDING" => guarantee.status = "absent",
           booking' \notin Unsold => guarantee.status # "absent",
           booking \notin Unsold => booking' \notin Unsold,
           guarantee.status = "RELEASED" => (booking' \in Unsold <=> booking \in Unsold),
           task'[p].pc \in Making \cup PayPc => guarantee.status \notin {"FAILED", "CONSUMED"},
           task'[p].pc # "idle" => \A q \in Procs : task[q].pc \notin RegularisePc
    PROVE  MoneyInv'
<1> USE DEF MoneyInv
<1>0. /\ task'[p].pc \notin Settling \cup Mirroring \cup Collecting \cup RegularisePc
      /\ task'[p].pc \notin {"guaranteeRow", "markReleased", "insertShare", "findHold", "reduceHold",
                             "releaseHold", "markGuarantee", "consume"}
      /\ task'[p].pc \in Paying => task'[p].pc \in {"catch", "shareFailed"}
      /\ task[p].pc \notin Settling \cup Mirroring \cup Collecting \cup {"markReleased", "consume"}
  BY DEF Quiet, Irrecoverable, Settling, Mirroring, Collecting, RegularisePc, Before, After, Making, CancelPc,
     Paying, Trying
<1>1. Amounts'  BY DEF Amounts
<1>2. \A s \in Guests : DueBy(s)' = DueBy(s)  BY DEF DueBy, Due
<1>3. Guaranteed' = Guaranteed  BY DEF Guaranteed, DueBy, Due
<1>4. Pledges'
  <2>1. ASSUME NEW q \in Procs
        PROVE  /\ task'[q].pc \in Before => guarantee.status = "absent"
               /\ task'[q].pc \in After => guarantee.status = "ACTIVE"
               /\ task'[q].pc = "guaranteeRow" => hold.status = "ACTIVE" /\ hold.amount = Guaranteed
               /\ task'[q].pc = "markReleased" => hold.status # "ACTIVE"
    BY <1>0 DEF Pledges
  <2> QED  BY <1>3, <2>1 DEF Pledges
<1>5. \A s : Owing(s)' <=> Owing(s)
  <2> TAKE s
  <2> QED  BY <1>0 DEF Owing
<1>6. \A s : Keeping(s)' <=> Keeping(s)
  <2> TAKE s
  <2> QED  BY <1>0, <1>5 DEF Keeping
<1>7. \A q \in Procs : task'[q].pc \in Settling \cup Mirroring \cup Collecting \cup RegularisePc
        \cup {"insertShare", "findHold", "reduceHold", "releaseHold", "markGuarantee", "consume"}
           => q # p /\ task'[q] = task[q]
  BY <1>0
<1>8. Payers'
  <2> SUFFICES ASSUME NEW q \in Procs
               PROVE  /\ task'[q].pc \in Paying => shares[task'[q].share].status = "PAYMENT_PENDING"
                      /\ task'[q].pc \in Settling \cup Mirroring =>
                          /\ shares[task'[q].share].status = "PAID"
                          /\ \A r \in Procs \ {q} :
                               task'[r].pc \in Settling \cup Mirroring => task'[r].share # task'[q].share
                      /\ task'[q].pc = "insertShare" => task'[q].answer = "requires_capture"
                      /\ task'[q].pc \in {"findHold", "reduceHold", "releaseHold", "markGuarantee"} =>
                           task'[q].amount \in Nat /\ guarantee.remaining <= task'[q].amount
                      /\ task'[q].pc = "releaseHold" => hold.amount <= DueBy(task'[q].share)
                      /\ task'[q].pc \in Collecting =>
                           shares[task'[q].share].taken = DueBy(task'[q].share)
    <3>1. Due' = Due  BY DEF Due
    <3>2. \A q \in Procs : DueBy(task[q].share)' = DueBy(task'[q].share)  BY <3>1 DEF DueBy
    <3> QED  BY <3>2 DEF Payers
  <2>2. task'[q].pc \in Paying => shares[task'[q].share].status = "PAYMENT_PENDING"
    BY <1>0 DEF Payers
  <2>3. ASSUME task'[q].pc \in Settling \cup Mirroring
        PROVE  /\ shares[task'[q].share].status = "PAID"
               /\ \A r \in Procs \ {q} :
                    task'[r].pc \in Settling \cup Mirroring => task'[r].share # task'[q].share
    BY <1>7, <2>3 DEF Payers
  <2>4. /\ task'[q].pc = "insertShare" => task'[q].answer = "requires_capture"
        /\ task'[q].pc \in {"findHold", "reduceHold", "releaseHold", "markGuarantee"} =>
             task'[q].amount \in Nat /\ guarantee.remaining <= task'[q].amount
        /\ task'[q].pc = "releaseHold" => hold.amount <= DueBy(task'[q].share)
        /\ task'[q].pc \in Collecting => shares[task'[q].share].taken = DueBy(task'[q].share)
    BY <1>7 DEF Payers
  <2> QED  BY <2>2, <2>3, <2>4
<1>9. TakenRight'  BY <1>0, <1>2, <1>7 DEF TakenRight
<1>10. Deadline'
  <2>1. ASSUME NEW q \in Procs, task'[q].pc \in RegularisePc
        PROVE  q # p /\ task'[q] = task[q] /\ task'[p].pc = "idle" /\ booking' \notin Unsold
    BY <1>7, <2>1 DEF Deadline
  <2>2. NoUnpaid' = NoUnpaid /\ Reserved' = Reserved  BY DEF NoUnpaid, Reserved
  <2>3. \A q \in Procs : task'[q].pc \in RegularisePc => \A r \in Procs \ {q} : task'[r].pc = "idle"
    BY <2>1 DEF Deadline
  <2>4. Charging \cup {"findRemaining", "cover", "consume"} \subseteq RegularisePc
    BY DEF Charging, RegularisePc
  <2>5. {"charge", "captureCharge", "failGuarantee", "takeHold", "consume"} \subseteq RegularisePc
    BY DEF RegularisePc
  <2> QED  BY <2>1, <2>2, <2>3, <2>4, <2>5 DEF Deadline
<1>11. Over'
  <2>1. NoUnpaid' = NoUnpaid  BY DEF NoUnpaid
  <2> QED  BY <2>1 DEF Over
<1>12. Balances'
  <2>1. TotalOwed' = TotalOwed  BY <1>5, OwedSame
  <2>2. TotalKept' = TotalKept  BY <1>6, KeptSame
  <2>3. Withdrawn' = Withdrawn  BY DEF Withdrawn
  <2>4. (Someone("markReleased")' <=> Someone("markReleased")) /\ (Someone("consume")' <=> Someone("consume"))
    BY <1>0 DEF Someone
  <2>5. Reserved' = Reserved  BY DEF Reserved
  <2> QED  BY <2>1, <2>2, <2>3, <2>4, <2>5 DEF Balances
<1> QED  BY <1>1, <1>4, <1>8, <1>9, <1>10, <1>11, <1>12

\* The calls of a checkout that only touch the booking, Stripe and Doinsport.
LEMMA CheckoutBalances ==
    ASSUME MoneyInv, TakenInv, NEW p \in Procs,
           \/ CheckParty(p) \/ Reopen(p) \/ Revert(p) \/ Authorize(p) \/ VoidOpen(p) \/ VoidOrphan(p)
           \/ InsertPayment(p) \/ RefuseCredits(p) \/ LegacyAccepts(p) \/ LegacyCollides(p)
           \/ VoidAuthorization(p) \/ CancelPayment(p) \/ FailBooking(p) \/ Review(p) \/ Capture(p)
           \/ CaptureFailed(p) \/ RecordSuccess(p) \/ Confirm(p)
    PROVE  MoneyInv'
<1>1. Shape  BY DEF TakenInv
<1>2. task[p].pc \in Held
  BY DEF CheckParty, Reopen, Revert, Authorize, VoidOpen, VoidOrphan, InsertPayment, RefuseCredits, LegacyAccepts,
     LegacyCollides, VoidAuthorization, CancelPayment, FailBooking, Review, Capture, CaptureFailed, RecordSuccess,
     Confirm, At, Held
<1>3. /\ booking = "PAYMENT_PENDING" /\ \A q \in Procs : task[q].pc \notin RegularisePc
  BY <1>2, HeldSituation DEF MoneyInv
<1>4. UNCHANGED <<bill, guarantee, hold, shares, charge, recovered>>
  BY DEF CheckParty, Reopen, Revert, Authorize, VoidOpen, VoidOrphan, InsertPayment, RefuseCredits, LegacyAccepts,
     LegacyCollides, VoidAuthorization, CancelPayment, FailBooking, Review, Capture, CaptureFailed, RecordSuccess,
     Confirm, club, pledge, payers
<1>5. Done(p) => task'[p].pc = "idle" /\ \A q \in Procs \ {p} : task'[q] = task[q]  BY <1>1, Stopping
<1>6. \A pc : Goto(p, pc) => task'[p].pc = pc /\ \A q \in Procs \ {p} : task'[q] = task[q]
  BY <1>1, Advancing
<1>7. CASE CheckParty(p) \/ Reopen(p) \/ Revert(p) \/ Authorize(p) \/ VoidOpen(p) \/ VoidOrphan(p)
           \/ InsertPayment(p) \/ RefuseCredits(p)
  <2>1. task[p].pc \in Before /\ guarantee.status = "absent"
    <3>1. task[p].pc \in Before
      BY <1>7 DEF CheckParty, Reopen, Revert, Authorize, VoidOpen, VoidOrphan, InsertPayment, RefuseCredits, At, Before
    <3> QED  BY <3>1 DEF MoneyInv, Pledges
  <2>2. booking' \in {"PAYMENT_PENDING", "CHECKOUT_PENDING"}
    BY <1>3, <1>7 DEF CheckParty, Reopen, Revert, Authorize, VoidOpen, VoidOrphan, InsertPayment, RefuseCredits, club
  <2>3. Done(p) \/ \E pc \in Before \ {"guaranteeRow"} : Goto(p, pc)
    <3>1. CASE Authorize(p)
      <4>1. PICK a : Goto(p, CASE a = "requires_capture" -> "insertPayment"
                               [] a = "requires_action"  -> "voidOpen"
                               [] a = "failed"           -> "reopen"
                               [] OTHER                  -> "revert")
        BY <3>1 DEF Authorize
      <4>2. (CASE a = "requires_capture" -> "insertPayment"
               [] a = "requires_action"  -> "voidOpen"
               [] a = "failed"           -> "reopen"
               [] OTHER                  -> "revert") \in Before \ {"guaranteeRow"}
        BY DEF Before
      <4> QED  BY <4>1, <4>2
    <3> QED
      BY <1>7, <3>1 DEF CheckParty, Reopen, Revert, VoidOpen, VoidOrphan, InsertPayment, RefuseCredits, Before
  <2>4. /\ task'[p].pc \in {"idle"} \cup (Before \ {"guaranteeRow"})
        /\ \A q \in Procs \ {p} : task'[q] = task[q]
    BY <1>5, <1>6, <2>3
  <2>5. task[p].pc \notin Irrecoverable  BY <2>1 DEF Before, Irrecoverable
  <2>6. task'[p].pc \notin {"catch", "shareFailed"} \cup After \cup Making \cup PayPc
    BY <2>4 DEF Before, After, Making, PayPc
  <2> QED
    BY <1>3, <1>4, <2>1, <2>2, <2>4, <2>5, <2>6, Elsewhere DEF Quiet, Unsold
<1>8. CASE LegacyAccepts(p) \/ LegacyCollides(p) \/ VoidAuthorization(p) \/ CancelPayment(p) \/ Capture(p)
           \/ CaptureFailed(p) \/ RecordSuccess(p) \/ Confirm(p)
  <2>1. task[p].pc \in After /\ guarantee.status = "ACTIVE"
    <3>1. task[p].pc \in After
      BY <1>8 DEF LegacyAccepts, LegacyCollides, VoidAuthorization, CancelPayment, Capture, CaptureFailed,
         RecordSuccess, Confirm, At, After
    <3> QED  BY <3>1 DEF MoneyInv, Pledges
  <2>2. booking' \in {"PAYMENT_PENDING", "CONFIRMED"}
    BY <1>3, <1>8 DEF LegacyAccepts, LegacyCollides, VoidAuthorization, CancelPayment, Capture, CaptureFailed,
       RecordSuccess, Confirm
  <2>3. \E pc \in (After \ {"markReleased"}) \cup {"review", "createShares"} : Goto(p, pc)
    BY <1>8 DEF LegacyAccepts, LegacyCollides, VoidAuthorization, CancelPayment, Capture, CaptureFailed,
       RecordSuccess, Confirm, After
  <2>4. /\ task'[p].pc \in (After \ {"markReleased"}) \cup {"review", "createShares"}
        /\ \A q \in Procs \ {p} : task'[q] = task[q]
    BY <1>6, <2>3
  <2>5. task[p].pc \notin Irrecoverable
    BY <1>8 DEF LegacyAccepts, LegacyCollides, VoidAuthorization, CancelPayment, Capture, CaptureFailed,
       RecordSuccess, Confirm, At, Irrecoverable
  <2>6. task'[p].pc \notin {"catch", "shareFailed"} \cup Before  BY <2>4 DEF Before, After
  <2>7. task'[p].pc \in Quiet  BY <2>4 DEF Quiet, Making
  <2> QED  BY <1>3, <1>4, <2>1, <2>2, <2>4, <2>5, <2>6, <2>7, Elsewhere DEF Unsold
<1>9. CASE FailBooking(p) \/ Review(p)
  <2>1. task'[p].pc = "idle" /\ \A q \in Procs \ {p} : task'[q] = task[q]
    BY <1>5, <1>9 DEF FailBooking, Review
  <2>2. booking' \in {"FAILED", "MANUAL_REVIEW"}  BY <1>9 DEF FailBooking, Review
  <2>3. task[p].pc \notin Irrecoverable  BY <1>9 DEF FailBooking, Review, At, Irrecoverable
  <2>4. "idle" \in Quiet /\ "idle" \notin Before \cup After \cup Making \cup PayPc
    BY DEF Quiet, Before, After, Making, PayPc
  <2> QED  BY <1>3, <1>4, <2>1, <2>2, <2>3, <2>4, Elsewhere DEF Unsold
<1> QED  BY <1>7, <1>8, <1>9

\* The claim of the booking, and its cancellation.
LEMMA ClaimBalances ==
    ASSUME MoneyInv, TakenInv, NEW p \in Procs,
           Claim(p) \/ CancelClaim(p) \/ CancelLegacy(p) \/ CancelDone(p)
    PROVE  MoneyInv'
<1>1. Shape  BY DEF TakenInv
<1>2. UNCHANGED <<bill, guarantee, hold, shares, charge, recovered>>
  BY DEF Claim, CancelClaim, CancelLegacy, CancelDone, pledge, payers
<1>3. Done(p) => task'[p].pc = "idle" /\ \A q \in Procs \ {p} : task'[q] = task[q]  BY <1>1, Stopping
<1>4. \A pc : Goto(p, pc) => task'[p].pc = pc /\ \A q \in Procs \ {p} : task'[q] = task[q]
  BY <1>1, Advancing
<1>5. task[p].pc \in {"claim", "cancelClaim", "cancelLegacy", "cancelDone"}
  BY DEF Claim, CancelClaim, CancelLegacy, CancelDone, At
<1>6. task[p].pc \notin Irrecoverable \cup RegularisePc \cup {"idle"}  BY <1>5 DEF Irrecoverable, RegularisePc
<1>7. \A q \in Procs : task[q].pc \notin RegularisePc  BY <1>6, NoDeadline DEF MoneyInv
<1>8. (Done(p) \/ \E pc \in {"party", "cancelLegacy", "cancelDone"} : Goto(p, pc))
      /\ (booking # "CHECKOUT_PENDING" => ~Goto(p, "party"))
  <2>1. CASE Claim(p)
    <3>1. booking # "CHECKOUT_PENDING" => Done(p)  BY <2>1 DEF Claim
    <3> QED  BY <1>3, <1>4, <2>1, <3>1 DEF Claim
  <2>2. CASE CancelClaim(p) \/ CancelLegacy(p) \/ CancelDone(p)
    <3>1. Done(p) \/ \E pc \in {"cancelLegacy", "cancelDone"} : Goto(p, pc)
      BY <2>2 DEF CancelClaim, CancelLegacy, CancelDone
    <3> QED  BY <1>3, <1>4, <3>1
  <2> QED  BY <2>1, <2>2
<1>9. /\ task'[p].pc \in {"idle", "party", "cancelLegacy", "cancelDone"}
      /\ task'[p].pc = "party" => booking = "CHECKOUT_PENDING"
      /\ \A q \in Procs \ {p} : task'[q] = task[q]
  BY <1>3, <1>4, <1>8
<1>10. \/ booking' = booking
       \/ booking = "CHECKOUT_PENDING" /\ booking' = "PAYMENT_PENDING"
       \/ booking \notin Unsold /\ booking' \in {"CANCEL_PENDING", "CANCELED"}
  <2>1. CASE CancelDone(p)
    <3>1. booking \notin Unsold  BY <2>1 DEF TakenInv, OnePass, CancelDone, At, Canceling
    <3> QED  BY <2>1, <3>1 DEF CancelDone
  <2> QED  BY <2>1 DEF Claim, CancelClaim, CancelLegacy, Unsold
<1>11. /\ booking' = "CHECKOUT_PENDING" => guarantee.status = "absent"
       /\ booking' \notin Unsold => guarantee.status # "absent"
       /\ booking \notin Unsold => booking' \notin Unsold
       /\ booking' \in Unsold <=> booking \in Unsold
       /\ task'[p].pc = "party" => guarantee.status = "absent"
  BY <1>9, <1>10 DEF MoneyInv, Pledges, Unsold
<1>12. task'[p].pc \in Quiet /\ task'[p].pc \notin {"catch", "shareFailed"} \cup Making \cup PayPc \cup After
  BY <1>9 DEF Quiet, Making, PayPc, After, Before, CancelPc
<1>13. task'[p].pc \in Before => task'[p].pc = "party"  BY <1>9 DEF Before
<1> QED  BY <1>2, <1>6, <1>7, <1>9, <1>11, <1>12, <1>13, Elsewhere

\* Requests.
LEMMA StartBalances ==
    ASSUME MoneyInv, TakenInv, Alone, NEW p \in Procs, StartCheckout(p) \/ StartPay(p) \/ StartCancel(p)
    PROVE  MoneyInv'
<1>1. Shape  BY DEF TakenInv
<1>2. UNCHANGED <<bill, booking, guarantee, hold, shares, charge, recovered>>
  BY DEF StartCheckout, StartPay, StartCancel, club, pledge, payers
<1>3. \A q \in Procs : task[q].pc \notin RegularisePc
  BY DEF StartCheckout, StartPay, StartCancel, Regularising, MoneyInv, Deadline
<1>4. PICK t : /\ Become(p, t) /\ DOMAIN t = TaskFields /\ t.pc \in {"claim", "claimShare", "cancelClaim"}
               /\ t.pc = "claimShare" => StartPay(p)
  <2>1. CASE StartCheckout(p)
    <3>1. PICK k : Become(p, [Idle EXCEPT !.op = "checkout", !.pc = "claim", !.kind = k])
      BY <2>1 DEF StartCheckout
    <3> DEFINE t == [Idle EXCEPT !.op = "checkout", !.pc = "claim", !.kind = k]
    <3>2. DOMAIN t = TaskFields /\ t.pc = "claim"  BY DEF Idle, TaskFields
    <3> HIDE DEF t
    <3> QED  BY <3>1, <3>2 DEF t
  <2>2. CASE StartPay(p)
    <3>1. PICK s : Become(p, [Idle EXCEPT !.op = "pay", !.pc = "claimShare", !.share = s])
      BY <2>2 DEF StartPay
    <3> DEFINE t == [Idle EXCEPT !.op = "pay", !.pc = "claimShare", !.share = s]
    <3>2. DOMAIN t = TaskFields /\ t.pc = "claimShare"  BY DEF Idle, TaskFields
    <3> HIDE DEF t
    <3> QED  BY <2>2, <3>1, <3>2 DEF t
  <2>3. CASE StartCancel(p)
    <3> DEFINE t == [Idle EXCEPT !.op = "cancel", !.pc = "cancelClaim"]
    <3>1. DOMAIN t = TaskFields /\ t.pc = "cancelClaim"  BY DEF Idle, TaskFields
    <3>2. Become(p, t)  BY <2>3 DEF StartCancel
    <3> HIDE DEF t
    <3> QED  BY <3>1, <3>2
  <2> QED  BY <2>1, <2>2, <2>3
<1>5. task'[p] = t /\ \A q \in Procs \ {p} : task'[q] = task[q]  BY <1>1, <1>4, Becoming
<1>6. task[p].pc = "idle"  BY DEF StartCheckout, StartPay, StartCancel, At
<1>7. t.pc = "claimShare" => guarantee.status \notin {"FAILED", "CONSUMED"}
  <2>1. StartPay(p) => ~NoUnpaid  BY DEF StartPay, NoUnpaid, Unpaid
  <2> QED  BY <1>4, <2>1 DEF MoneyInv, Over
<1>8. /\ booking' = "CHECKOUT_PENDING" => guarantee.status = "absent"
      /\ booking' \notin Unsold => guarantee.status # "absent"
  BY <1>2 DEF MoneyInv, Pledges
<1>9. t.pc \in Quiet /\ t.pc \notin {"catch", "shareFailed"} \cup Making \cup After \cup Before
  BY <1>4 DEF Quiet, Making, After, Before, CancelPc
<1>10. t.pc \in PayPc => t.pc = "claimShare"  BY <1>4 DEF PayPc
<1>11. "idle" \notin Irrecoverable  BY DEF Irrecoverable
<1> QED  BY <1>2, <1>3, <1>5, <1>6, <1>7, <1>8, <1>9, <1>10, <1>11, Elsewhere

\* Exceptions on a call that is not one of Irrecoverable.
LEMMA FaultBalances ==
    ASSUME MoneyInv, TakenInv, FaultPoints \cap Irrecoverable = {}, NEW p \in Procs,
           Fault(p) \/ LostAcceptance(p) \/ LostCapture(p)
    PROVE  MoneyInv'
<1>1. Shape  BY DEF TakenInv
<1>2. UNCHANGED <<bill, booking, guarantee, hold, shares, charge, recovered>> /\ Raise(p)
      /\ task[p].pc \in FaultPoints /\ task[p].pc # "idle"
  BY DEF Fault, LostAcceptance, LostCapture, Faulty, At, club, pledge, payers
<1>3. task[p].pc \notin Irrecoverable  BY <1>2
<1>4. /\ booking' = "CHECKOUT_PENDING" => guarantee.status = "absent"
      /\ booking' \notin Unsold => guarantee.status # "absent"
  BY <1>2 DEF MoneyInv, Pledges
<1>5. CASE Handler(task[p].pc) = "idle"
  <2>1. task'[p].pc = "idle" /\ \A q \in Procs \ {p} : task'[q] = task[q]
    BY <1>1, <1>2, <1>5, Stopping DEF Raise
  <2>2. "idle" \in Quiet /\ "idle" \notin {"catch", "shareFailed"} \cup Making \cup After \cup Before \cup PayPc
    BY DEF Quiet, Making, After, Before, PayPc
  <2> QED  BY <1>2, <1>3, <1>4, <2>1, <2>2, Elsewhere
<1>6. CASE Handler(task[p].pc) # "idle"
  <2> DEFINE h == Handler(task[p].pc)
  <2>1. /\ task'[p].pc = h /\ task'[p].share = task[p].share
        /\ \A q \in Procs \ {p} : task'[q] = task[q]
    BY <1>1, <1>2, <1>6, Advancing DEF Raise
  <2>2. /\ task[p].pc \in {"authorize", "voidOrphan", "voidOpen", "insertPayment", "legacy", "capture", "debit",
                           "authorizeShare", "insertShare", "captureShare", "shareFailed", "recordShare"}
        /\ h \in {"revert", "reopen", "voidOrphan", "review", "captureFailed", "catch"}
        /\ h \in Before => task[p].pc \in Before
        /\ h \in After => task[p].pc \in After
        /\ h = "catch" => task[p].pc \in Paying
    BY <1>6 DEF Handler, Before, After, Paying, Trying
  <2>3. task[p].pc \notin RegularisePc  BY <2>2 DEF RegularisePc
  <2>4. \A q \in Procs : task[q].pc \notin RegularisePc  BY <1>2, <2>3, NoDeadline DEF MoneyInv
  <2>5. h \in Quiet /\ h # "shareFailed" /\ h \notin Making  BY <2>2 DEF Quiet, Before, After, Making
  <2>6. h \in PayPc => guarantee.status \notin {"FAILED", "CONSUMED"}
    <3>1. h \in PayPc => task[p].pc \in PayPc  BY <2>2 DEF PayPc, Paying, Trying
    <3> QED  BY <3>1 DEF MoneyInv, Over
  <2>7. /\ h \in Before => guarantee.status = "absent"
        /\ h \in After => guarantee.status = "ACTIVE"
    BY <2>2 DEF MoneyInv, Pledges
  <2> HIDE DEF h
  <2> QED  BY <1>2, <1>3, <1>4, <2>1, <2>2, <2>4, <2>5, <2>6, <2>7, Elsewhere
<1> QED  BY <1>5, <1>6

-----------------------------------------------------------------------------
(***************************************************************************)
(* Up to the write that marks a share PAID, its payment changes nothing of *)
(* what the guarantee owes.                                                *)
(***************************************************************************)
LEMMA SharesWritten ==
    ASSUME MoneyInv, TakenInv, NEW p \in Procs,
           UNCHANGED <<bill, booking, guarantee, hold, charge, recovered>>,
           \A q \in Procs \ {p} : task'[q] = task[q],
           task[p].pc \in PayPc \cup Making, task'[p].pc \in {"idle"} \cup PayPc \cup Making,
           \A s \in Guests : Owing(s)' <=> Owing(s), \A s \in Guests : Keeping(s)' <=> Keeping(s),
           Payers', TakenRight'
    PROVE  MoneyInv'
<1> USE DEF MoneyInv
<1>1. booking \notin Unsold
  BY PaySituation DEF TakenInv, OnePass
<1>2. \A q \in Procs : task[q].pc \notin Held \cup RegularisePc
  <2>1. \A q \in Procs : task[q].pc \notin Held  BY <1>1 DEF TakenInv, OnePass, Unsold
  <2>2. task[p].pc # "idle" /\ task[p].pc \notin RegularisePc  BY DEF PayPc, Making, RegularisePc
  <2> QED  BY <2>1, <2>2, NoDeadline
<1>3. guarantee.status \notin {"FAILED", "CONSUMED"}  BY DEF Over
<1>4. task'[p].pc \notin Held \cup RegularisePc  BY DEF PayPc, Making, Held, RegularisePc
<1>5. \A q \in Procs : task'[q].pc \notin Held \cup RegularisePc  BY <1>2, <1>4
<1>6. Amounts'  BY DEF Amounts
<1>7. Pledges'
  <2>1. Before \cup After \cup {"guaranteeRow", "markReleased"} \subseteq Held  BY DEF Before, After, Held
  <2> QED  BY <1>5, <2>1 DEF Pledges
<1>8. Deadline'
  <2>1. Charging \cup {"findRemaining", "cover"} \cup {"charge", "captureCharge", "failGuarantee", "takeHold", "consume"}
          \subseteq RegularisePc
    BY DEF Charging, RegularisePc
  <2> QED  BY <1>5, <2>1 DEF Deadline
<1>9. Over'  BY <1>3 DEF Over
<1>10. Balances'
  <2>1. TotalOwed' = TotalOwed  BY OwedSame
  <2>2. TotalKept' = TotalKept  BY KeptSame
  <2>3. Withdrawn' = Withdrawn  BY DEF Withdrawn
  <2>4. ~Someone("markReleased") /\ ~Someone("consume") /\ ~Someone("markReleased")' /\ ~Someone("consume")'
    BY <1>2, <1>5 DEF Someone, Held, RegularisePc
  <2>5. Reserved' = Reserved  BY DEF Reserved
  <2> QED  BY <1>3, <2>1, <2>2, <2>3, <2>4, <2>5 DEF Balances
<1> QED  BY <1>6, <1>7, <1>8, <1>9, <1>10

\* The calls that pay for one share write the row of that share only.
LEMMA PaymentBalances ==
    ASSUME MoneyInv, TakenInv, NEW p \in Procs, NEW s \in Guests, task[p].share = s,
           UNCHANGED <<bill, booking, guarantee, hold, charge, recovered>>,
           \A q \in Procs \ {p} : task'[q] = task[q],
           \A r \in Guests \ {s} : shares'[r] = shares[r],
           task[p].pc \in Paying \cup {"claimShare"}, task'[p].pc \in Paying \cup {"idle", "findGuarantee"},
           task'[p].pc # "idle" => task'[p].share = s,
           shares[s].status \in Unpaid,
           task[p].pc = "claimShare" => shares[s].status # "PAYMENT_PENDING",
           task'[p].pc \in Paying => shares'[s].status = "PAYMENT_PENDING",
           task'[p].pc = "idle" => shares'[s].status # "PAID",
           task'[p].pc = "findGuarantee" => shares'[s].status = "PAID",
           task'[p].pc = "insertShare" => task'[p].answer = "requires_capture",
           task'[p].pc \in Collecting \cup {"findGuarantee"} => shares'[s].taken = DueBy(s),
           task'[p].pc \notin Collecting \cup {"findGuarantee"} => shares'[s].taken = 0,
           shares'[s].answer \in {"none", "requires_capture", "failed", "error"}
    PROVE  MoneyInv'
<1>0. /\ task'[p].pc \in Settling \cup Mirroring <=> task'[p].pc = "findGuarantee"
      /\ task'[p].pc \in Settling <=> task'[p].pc = "findGuarantee"
      /\ task'[p].pc \notin Mirroring
      /\ task[p].pc \notin Settling \cup Mirroring
      /\ task'[p].pc \notin {"findHold", "reduceHold", "releaseHold", "markGuarantee"}
  BY DEF Paying, Trying, Settling, Mirroring
<1>1. Payers /\ TakenRight /\ HandlersInOrder  BY DEF MoneyInv, TakenInv
<1>2. \A q \in Procs \ {p} : task[q].pc \in Paying => task[q].share # s
  <2>1. CASE task[p].pc \in Paying  BY <1>1, <2>1 DEF HandlersInOrder
  <2>2. CASE task[p].pc = "claimShare"  BY <1>1, <2>2 DEF Payers
  <2> QED  BY <2>1, <2>2
<1>3. \A q \in Procs \ {p} : task[q].pc \in Settling \cup Mirroring => task[q].share # s
  BY <1>1 DEF Payers, Unpaid
<1>4. Collecting \subseteq Paying  BY DEF Collecting, Paying
<1>5. \A q \in Procs : task[q].pc \in PayPc => task[q].share \in Guests  BY <1>1 DEF HandlersInOrder
<1>6. Paying \cup Settling \cup Mirroring \cup {"insertShare", "findHold", "reduceHold", "releaseHold", "markGuarantee"}
        \subseteq PayPc
  BY DEF Paying, Trying, Settling, Mirroring, PayPc
<1>7. Due' = Due /\ \A r : DueBy(r)' = DueBy(r)  BY DEF DueBy, Due
<1>8. \A r \in Guests : Owing(r)' <=> Owing(r)
  <2> TAKE r \in Guests
  <2>1. CASE r = s
    <3>1. Owing(r)  BY <2>1 DEF Owing, Unpaid
    <3>2. CASE task'[p].pc = "findGuarantee"
      <4>1. task'[p].pc \in Settling /\ task'[p].share = r  BY <2>1, <3>2 DEF Settling
      <4> QED  BY <3>1, <4>1 DEF Owing
    <3>3. CASE task'[p].pc # "findGuarantee"
      <4>1. shares'[s].status # "PAID"  BY <3>3
      <4> QED  BY <2>1, <3>1, <4>1 DEF Owing
    <3> QED  BY <3>2, <3>3
  <2>2. CASE r # s
    <3>1. \A q \in Procs : (task'[q].pc \in Settling /\ task'[q].share = r)
                              <=> (task[q].pc \in Settling /\ task[q].share = r)
      BY <1>0, <2>2
    <3> QED  BY <2>2, <3>1 DEF Owing
  <2> QED  BY <2>1, <2>2
<1>9. \A r \in Guests : Keeping(r)' <=> Keeping(r)
  <2> TAKE r \in Guests
  <2>1. \A q \in Procs : (task'[q].pc \in Mirroring /\ task'[q].share = r)
                            <=> (task[q].pc \in Mirroring /\ task[q].share = r)
    BY <1>0
  <2> QED  BY <1>8, <2>1 DEF Keeping
<1>10. Payers'
  <2> SUFFICES ASSUME NEW q \in Procs
               PROVE  /\ task'[q].pc \in Paying => shares'[task'[q].share].status = "PAYMENT_PENDING"
                      /\ task'[q].pc \in Settling \cup Mirroring =>
                          /\ shares'[task'[q].share].status = "PAID"
                          /\ \A r \in Procs \ {q} :
                               task'[r].pc \in Settling \cup Mirroring => task'[r].share # task'[q].share
                      /\ task'[q].pc = "insertShare" => task'[q].answer = "requires_capture"
                      /\ task'[q].pc \in {"findHold", "reduceHold", "releaseHold", "markGuarantee"} =>
                           task'[q].amount \in Nat /\ guarantee.remaining <= task'[q].amount
                      /\ task'[q].pc = "releaseHold" => hold.amount <= DueBy(task'[q].share)
                      /\ task'[q].pc \in Collecting =>
                           shares'[task'[q].share].taken = DueBy(task'[q].share)
    <3>1. \A q \in Procs : DueBy(task[q].share)' = DueBy(task'[q].share)  BY <1>7 DEF DueBy
    <3> QED  BY <3>1 DEF Payers
  <2>1. CASE q = p
    <3>1. \A r \in Procs \ {p} : task'[r].pc \in Settling \cup Mirroring => task'[r].share # s
      BY <1>3
    <3>2. task'[p].pc \in Paying \cup Settling \cup Mirroring \cup Collecting => task'[p].share = s
      BY <1>0, <1>4 DEF Paying, Trying
    <3> QED  BY <1>0, <2>1, <3>1, <3>2
  <2>2. CASE q # p
    <3>1. task'[q] = task[q]  BY <2>2
    <3>2. task[q].pc \in Paying \cup Settling \cup Mirroring => shares'[task[q].share] = shares[task[q].share]
      <4>1. ASSUME task[q].pc \in Paying \cup Settling \cup Mirroring
            PROVE  task[q].share \in Guests \ {s}
        BY <1>2, <1>3, <1>5, <1>6, <2>2, <4>1
      <4> QED  BY <4>1
    <3>3. /\ task[q].pc \in Paying => shares[task[q].share].status = "PAYMENT_PENDING"
          /\ task[q].pc \in Settling \cup Mirroring => shares[task[q].share].status = "PAID"
          /\ task[q].pc = "insertShare" => task[q].answer = "requires_capture"
          /\ task[q].pc \in {"findHold", "reduceHold", "releaseHold", "markGuarantee"} =>
               task[q].amount \in Nat /\ guarantee.remaining <= task[q].amount
          /\ task[q].pc = "releaseHold" => hold.amount <= DueBy(task[q].share)
          /\ task[q].pc \in Collecting => shares[task[q].share].taken = DueBy(task[q].share)
      BY <1>1 DEF Payers
    <3>4. ASSUME task[q].pc \in Settling \cup Mirroring, NEW r \in Procs \ {q},
                 task'[r].pc \in Settling \cup Mirroring
          PROVE  task'[r].share # task[q].share
      <4>1. CASE r = p
        <5>1. task'[p].share = s  BY <1>0, <3>4, <4>1
        <5> QED  BY <1>3, <2>2, <3>4, <4>1, <5>1
      <4>2. CASE r # p
        BY <1>1, <3>4, <4>2 DEF Payers
      <4> QED  BY <4>1, <4>2
    <3> QED  BY <1>4, <3>1, <3>2, <3>3, <3>4
  <2> QED  BY <2>1, <2>2
<1>11. TakenRight'
  <2> SUFFICES ASSUME NEW r \in Guests
               PROVE  /\ shares'[r].status = "PAID" => shares'[r].taken = DueBy(r)
                      /\ shares'[r].status # "PAID" =>
                           \/ shares'[r].taken = 0
                           \/ \E q \in Procs : task'[q].pc \in Collecting /\ task'[q].share = r
                      /\ shares'[r].answer \in {"none", "requires_capture", "failed", "error"}
    BY <1>7 DEF TakenRight
  <2>1. CASE r = s
    <3>1. CASE task'[p].pc \in Collecting
      <4>1. shares'[s].status = "PAYMENT_PENDING" /\ task'[p].share = s
        BY <1>4, <3>1 DEF Paying, Trying
      <4> QED  BY <2>1, <3>1, <4>1
    <3>2. CASE task'[p].pc = "findGuarantee"  BY <2>1, <3>2
    <3>3. CASE task'[p].pc \notin Collecting \cup {"findGuarantee"}
      <4>1. shares'[s].status # "PAID" /\ shares'[s].taken = 0  BY <3>3
      <4> QED  BY <2>1, <4>1
    <3> QED  BY <3>1, <3>2, <3>3
  <2>2. CASE r # s
    <3>1. shares'[r] = shares[r]  BY <2>2
    <3>2. \A q \in Procs : task[q].pc \in Collecting /\ task[q].share = r
                             => task'[q].pc \in Collecting /\ task'[q].share = r
      BY <2>2
    <3> QED  BY <1>1, <3>1, <3>2 DEF TakenRight
  <2> QED  BY <2>1, <2>2
<1>12. task[p].pc \in PayPc /\ task'[p].pc \in {"idle"} \cup PayPc
  BY DEF PayPc, Paying, Trying
<1> QED  BY <1>8, <1>9, <1>10, <1>11, <1>12, SharesWritten

\* The share a payment writes, and the answers of Stripe.
LEMMA RowWritten ==
    ASSUME Shape, NEW p \in Procs, task[p].share \in Guests, NEW row, Write(p, row)
    PROVE  shares'[task[p].share] = row /\ \A r \in Guests \ {task[p].share} : shares'[r] = shares[r]
BY DEF Shape, Write

LEMMA PayerBalances ==
    ASSUME MoneyInv, TakenInv, "requires_action" \notin ShareAnswers, NEW p \in Procs,
           \/ ClaimShare(p) \/ Debit(p) \/ AuthorizeShare(p) \/ InsertShare(p) \/ CaptureShare(p)
           \/ ShareFailed(p) \/ RecordShare(p) \/ Catch(p) \/ MarkPaid(p)
    PROVE  MoneyInv'
<1> DEFINE s == task[p].share
           row == shares[s]
<1>1. Shape  BY DEF TakenInv
<1>2. task[p].pc \in Paying \cup {"claimShare"} /\ task[p].pc \in PayPc
  BY DEF ClaimShare, Debit, AuthorizeShare, InsertShare, CaptureShare, ShareFailed, RecordShare, Catch, MarkPaid,
     At, Paying, Trying, PayPc
<1>3. UNCHANGED <<bill, booking, guarantee, hold, charge, recovered>>
  BY DEF ClaimShare, Debit, AuthorizeShare, InsertShare, CaptureShare, ShareFailed, RecordShare, Catch, MarkPaid,
     OnlyShares, club, pledge
<1>4. s \in Guests /\ DueBy(s) \in Nat  BY <1>2, PaySituation DEF MoneyInv
<1>5. /\ DOMAIN row = ShareFields
      /\ task[p].pc \in Paying => row.status = "PAYMENT_PENDING"
      /\ task[p].pc \in Trying => row.taken = 0
      /\ task[p].pc \in Collecting => row.taken = DueBy(s)
      /\ task[p].pc = "insertShare" => task[p].answer = "requires_capture"
      /\ row.answer \in {"none", "requires_capture", "failed", "error"}
      /\ row.status \in {"OPEN", "INVITED"} => row.taken = 0
  BY <1>1, <1>4 DEF MoneyInv, Payers, TakenRight, TakenInv, HandlersInOrder, SharesInOrder, Shape
<1>6. Done(p) => task'[p].pc = "idle" /\ \A q \in Procs \ {p} : task'[q] = task[q]  BY <1>1, Stopping
<1>7. \A pc : Goto(p, pc) => /\ task'[p].pc = pc /\ task'[p].share = s /\ task'[p].answer = task[p].answer
                             /\ \A q \in Procs \ {p} : task'[q] = task[q]
  BY <1>1, Advancing
<1>8. \A new : Write(p, new) => shares'[s] = new /\ \A r \in Guests \ {s} : shares'[r] = shares[r]
  BY <1>1, <1>4, RowWritten
<1>9. UNCHANGED shares => shares'[s] = row /\ \A r \in Guests \ {s} : shares'[r] = shares[r]
  OBVIOUS
<1>10. DOMAIN [row EXCEPT !.status = "PAYMENT_PENDING"] = ShareFields  BY <1>5
<1> USE DEF Share
<1>11. CASE ClaimShare(p)
  <2>1. task[p].pc = "claimShare"  BY <1>11 DEF ClaimShare, At
  <2>2. CASE row.status \in {"OPEN", "INVITED"}
    <3> DEFINE new == [row EXCEPT !.status = "PAYMENT_PENDING"]
    <3>1. new.status = "PAYMENT_PENDING" /\ new.taken = 0 /\ new.answer = row.answer
      BY <1>5, <2>2 DEF ShareFields
    <3>2. shares'[s] = new /\ \A r \in Guests \ {s} : shares'[r] = shares[r]
      BY <1>8, <1>11, <2>2 DEF ClaimShare
    <3>3. PICK pc \in {"debit", "authorizeShare"} : Goto(p, pc)  BY <1>11, <2>2 DEF ClaimShare
    <3>4. task'[p].pc = pc /\ task'[p].share = s /\ \A q \in Procs \ {p} : task'[q] = task[q]  BY <1>7, <3>3
    <3>5. pc \in Paying /\ pc \notin Collecting  BY DEF Paying, Trying, Collecting
    <3>6. row.status \in Unpaid /\ row.status # "PAYMENT_PENDING"  BY <2>2 DEF Unpaid
    <3> HIDE DEF new, s
    <3> QED  BY <1>2, <1>3, <1>4, <1>5, <3>1, <3>2, <3>4, <3>5, <3>6, PaymentBalances DEF s
  <2>3. CASE row.status \notin {"OPEN", "INVITED"}
    <3>1. UNCHANGED shares /\ task'[p].pc = "idle" /\ \A q \in Procs \ {p} : task'[q] = task[q]
      BY <1>6, <1>11, <2>3 DEF ClaimShare
    <3>2. "idle" \in Quiet /\ "idle" \notin {"catch", "shareFailed"} \cup Making \cup After \cup Before \cup PayPc
      BY DEF Quiet, Making, After, Before, PayPc
    <3>3. task[p].pc \notin Irrecoverable  BY <2>1 DEF Irrecoverable
    <3>4. /\ booking' = "CHECKOUT_PENDING" => guarantee.status = "absent"
          /\ booking' \notin Unsold => guarantee.status # "absent"
      BY <1>3 DEF MoneyInv, Pledges
    <3> QED  BY <1>3, <3>1, <3>2, <3>3, <3>4, Elsewhere
  <2> QED  BY <2>2, <2>3
<1>12. CASE ~ClaimShare(p)
  <2>1. task[p].pc \in Paying /\ row.status = "PAYMENT_PENDING" /\ row.status \in Unpaid
    <3>1. task[p].pc # "claimShare"
      BY <1>12 DEF Debit, AuthorizeShare, InsertShare, CaptureShare, ShareFailed, RecordShare, Catch, MarkPaid, At
    <3> QED  BY <1>2, <1>5, <3>1 DEF Unpaid
  <2>2. ASSUME NEW pc, task'[p].pc = pc, pc # "idle" => task'[p].share = s,
               \A q \in Procs \ {p} : task'[q] = task[q],
               \A r \in Guests \ {s} : shares'[r] = shares[r],
               pc \in Paying \cup {"idle", "findGuarantee"},
               pc \in Paying => shares'[s].status = "PAYMENT_PENDING",
               pc = "idle" => shares'[s].status # "PAID",
               pc = "findGuarantee" => shares'[s].status = "PAID",
               pc = "insertShare" => task'[p].answer = "requires_capture",
               pc \in Collecting \cup {"findGuarantee"} => shares'[s].taken = DueBy(s),
               pc \notin Collecting \cup {"findGuarantee"} => shares'[s].taken = 0,
               shares'[s].answer \in {"none", "requires_capture", "failed", "error"}
        PROVE  MoneyInv'
    <3>1. task[p].pc = "claimShare" => row.status # "PAYMENT_PENDING"  BY <2>1 DEF Paying, Trying
    <3> HIDE DEF s
    <3> QED  BY <1>2, <1>3, <1>4, <2>1, <2>2, <3>1, PaymentBalances DEF s
  <2>3. /\ {"catch", "insertShare", "captureShare", "shareFailed", "recordShare", "markPaid"} \subseteq Paying
        /\ {"recordShare", "markPaid"} = Collecting
        /\ {"catch", "insertShare", "captureShare", "shareFailed", "idle"} \cap (Collecting \cup {"findGuarantee"}) = {}
        /\ "idle" \notin Paying /\ "findGuarantee" \notin Paying
        /\ "debit" \in Trying /\ "authorizeShare" \in Trying /\ "insertShare" \in Trying
        /\ "captureShare" \in Trying /\ "shareFailed" \in Trying /\ "catch" \in Trying
    BY DEF Paying, Trying, Collecting
  <2> HIDE DEF s
  \* refusals leave the share alone
  <2>4. ASSUME NEW pc \in {"catch", "shareFailed"}, UNCHANGED shares, Goto(p, pc), task[p].pc \in Trying
        PROVE  MoneyInv'
    BY <1>5, <1>7, <1>9, <2>1, <2>2, <2>3, <2>4
  <2>5. CASE Debit(p)
    <3>1. CASE UNCHANGED shares /\ Goto(p, "catch")
      BY <1>12, <2>3, <2>4, <2>5, <3>1 DEF Debit, At
    <3>2. CASE Write(p, Collected(p)) /\ Goto(p, "markPaid")
      <4>1. task[p].pc \in Trying  BY <2>3, <2>5 DEF Debit, At
      <4> DEFINE new == [row EXCEPT !.taken = @ + DueBy(s)]
      <4>2. new.status = "PAYMENT_PENDING" /\ new.taken = DueBy(s) /\ new.answer = row.answer
        BY <1>4, <1>5, <2>1, <4>1 DEF ShareFields
      <4>3. Collected(p) = new  BY DEF Collected, s
      <4>4. shares'[s] = new /\ \A r \in Guests \ {s} : shares'[r] = shares[r]  BY <1>8, <3>2, <4>3
      <4> HIDE DEF new, row
      <4> QED  BY <1>5, <1>7, <2>2, <2>3, <3>2, <4>2, <4>4
    <3> QED  BY <2>5, <3>1, <3>2 DEF Debit
  <2>6. CASE AuthorizeShare(p)
    <3>1. PICK a \in Answers(row, ShareAnswers) :
            /\ Write(p, Asked(row, a))
            /\ Become(p, [task[p] EXCEPT !.answer = a,
                            !.pc = IF a \in {"failed", "error"} THEN "catch" ELSE "insertShare"])
      BY <2>6 DEF AuthorizeShare, s
    <3>2. a \in {"requires_capture", "failed", "error"}
      BY <1>5, SplitAssumption DEF Answers
    <3> DEFINE new == Asked(row, a)
               t == [task[p] EXCEPT !.answer = a,
                       !.pc = IF a \in {"failed", "error"} THEN "catch" ELSE "insertShare"]
    <3>3. task[p].pc \in Trying  BY <2>3, <2>6 DEF AuthorizeShare, At
    <3>4. /\ new.status = "PAYMENT_PENDING" /\ new.taken = 0
          /\ new.answer \in {"none", "requires_capture", "failed", "error"}
      BY <1>5, <2>1, <3>2, <3>3 DEF ShareFields, Asked
    <3>5. /\ DOMAIN t = TaskFields /\ t.share = task[p].share
          /\ t.pc \in {"catch", "insertShare"}
          /\ t.pc = "insertShare" => t.answer = "requires_capture"
      BY <1>1, <3>2 DEF Shape, TaskFields
    <3>6. shares'[s] = new /\ \A r \in Guests \ {s} : shares'[r] = shares[r]  BY <1>8, <3>1
    <3> HIDE DEF new, t, row
    <3>7. task'[p] = t /\ \A q \in Procs \ {p} : task'[q] = task[q]
      BY <1>1, <3>1, <3>5, Becoming DEF t
    <3> QED  BY <2>2, <2>3, <3>4, <3>5, <3>6, <3>7 DEF s
  <2>7. CASE InsertShare(p)
    <3>1. task[p].pc = "insertShare"  BY <2>7 DEF InsertShare, At
    <3>2. CASE row.payment # "absent"
      BY <2>3, <2>4, <2>7, <3>1, <3>2 DEF InsertShare, s
    <3>3. CASE row.payment = "absent"
      <4> DEFINE new == [row EXCEPT !.payment = "AUTHORIZED"]
      <4>1. Write(p, new) /\ Goto(p, "captureShare")
        BY <1>5, <2>7, <3>1, <3>3 DEF InsertShare, s
      <4>2. new.status = "PAYMENT_PENDING" /\ new.taken = 0 /\ new.answer = row.answer
        BY <1>5, <2>1, <2>3, <3>1 DEF ShareFields
      <4>3. shares'[s] = new /\ \A r \in Guests \ {s} : shares'[r] = shares[r]  BY <1>8, <4>1
      <4> HIDE DEF new, row
      <4> QED  BY <1>5, <1>7, <2>2, <2>3, <4>1, <4>2, <4>3
    <3> QED  BY <3>2, <3>3
  <2>8. CASE CaptureShare(p)
    <3>1. task[p].pc = "captureShare"  BY <2>8 DEF CaptureShare, At
    <3>2. CASE UNCHANGED shares /\ Goto(p, "shareFailed")  BY <2>3, <2>4, <3>1, <3>2
    <3>3. CASE Write(p, [Collected(p) EXCEPT !.intent = "succeeded"]) /\ Goto(p, "recordShare")
      <4> DEFINE new == [[row EXCEPT !.taken = @ + DueBy(s)] EXCEPT !.intent = "succeeded"]
      <4>1. new.status = "PAYMENT_PENDING" /\ new.taken = DueBy(s) /\ new.answer = row.answer
        BY <1>4, <1>5, <2>1, <2>3, <3>1 DEF ShareFields
      <4>2. Write(p, new)  BY <3>3 DEF Collected, s
      <4>3. shares'[s] = new /\ \A r \in Guests \ {s} : shares'[r] = shares[r]  BY <1>8, <4>2
      <4> HIDE DEF new, row
      <4> QED  BY <1>5, <1>7, <2>2, <2>3, <3>3, <4>1, <4>3
    <3> QED  BY <2>8, <3>2, <3>3 DEF CaptureShare
  <2>9. CASE ShareFailed(p)
    <3> DEFINE new == [row EXCEPT !.payment = "FAILED"]
    <3>1. Write(p, new) /\ Goto(p, "catch") /\ task[p].pc \in Trying
      BY <2>3, <2>9 DEF ShareFailed, At, s
    <3>2. new.status = "PAYMENT_PENDING" /\ new.taken = 0 /\ new.answer = row.answer
      BY <1>5, <2>1, <3>1 DEF ShareFields
    <3>3. shares'[s] = new /\ \A r \in Guests \ {s} : shares'[r] = shares[r]  BY <1>8, <3>1
    <3> HIDE DEF new, row
    <3> QED  BY <1>5, <1>7, <2>2, <2>3, <3>1, <3>2, <3>3
  <2>10. CASE RecordShare(p)
    <3> DEFINE new == [row EXCEPT !.payment = "SUCCEEDED"]
    <3>1. Write(p, new) /\ Goto(p, "markPaid") /\ task[p].pc \in Collecting
      BY <2>3, <2>10 DEF RecordShare, At, s
    <3>2. new.status = "PAYMENT_PENDING" /\ new.taken = DueBy(s) /\ new.answer = row.answer
      BY <1>5, <2>1, <3>1 DEF ShareFields
    <3>3. shares'[s] = new /\ \A r \in Guests \ {s} : shares'[r] = shares[r]  BY <1>8, <3>1
    <3> HIDE DEF new, row
    <3> QED  BY <1>5, <1>7, <2>2, <2>3, <3>1, <3>2, <3>3
  <2>11. CASE Catch(p)
    <3> DEFINE new == [row EXCEPT !.status = "INVITED"]
    <3>1. Write(p, new) /\ Done(p) /\ task[p].pc \in Trying
      BY <2>3, <2>11 DEF Catch, At, s
    <3>2. new.status = "INVITED" /\ new.taken = 0 /\ new.answer = row.answer
      BY <1>5, <2>1, <3>1 DEF ShareFields
    <3>3. shares'[s] = new /\ \A r \in Guests \ {s} : shares'[r] = shares[r]  BY <1>8, <3>1
    <3> HIDE DEF new, row
    <3> QED  BY <1>5, <1>6, <2>2, <2>3, <3>1, <3>2, <3>3
  <2>12. CASE MarkPaid(p)
    <3> DEFINE new == [row EXCEPT !.status = "PAID"]
    <3>1. Write(p, new) /\ Goto(p, "findGuarantee") /\ task[p].pc \in Collecting
      BY <2>1, <2>3, <2>12 DEF MarkPaid, At, s
    <3>2. new.status = "PAID" /\ new.taken = DueBy(s) /\ new.answer = row.answer
      BY <1>5, <2>1, <3>1 DEF ShareFields
    <3>3. shares'[s] = new /\ \A r \in Guests \ {s} : shares'[r] = shares[r]  BY <1>8, <3>1
    <3> HIDE DEF new, row
    <3> QED  BY <1>5, <1>7, <2>2, <2>3, <3>1, <3>2, <3>3
  <2> QED  BY <1>12, <2>5, <2>6, <2>7, <2>8, <2>9, <2>10, <2>11, <2>12
<1> QED  BY <1>11, <1>12

\* The rows of the shares are created, then their guests invited.
LEMMA MakingBalances ==
    ASSUME MoneyInv, TakenInv, NEW p \in Procs, CreateShares(p) \/ Invite(p)
    PROVE  MoneyInv'
<1>1. Shape  BY DEF TakenInv
<1>2. task[p].pc \in Making /\ bill.guests \in Guests
  BY DEF CreateShares, Invite, At, Making, TakenInv, OnePass
<1>3. UNCHANGED <<bill, booking, guarantee, hold, charge, recovered>>
  BY DEF CreateShares, Invite, club, pledge
<1>4. PICK t : Become(p, t) /\ DOMAIN t = TaskFields /\ t.pc \in {"idle", "invite"}
  <2>1. CASE CreateShares(p)
    <3> DEFINE t == [task[p] EXCEPT !.pc = "invite", !.share = 1]
    <3>1. DOMAIN t = TaskFields /\ t.pc = "invite"  BY <1>1 DEF Shape, TaskFields
    <3>2. Become(p, t)  BY <2>1 DEF CreateShares
    <3> HIDE DEF t
    <3> QED  BY <3>1, <3>2
  <2>2. CASE Invite(p)
    <3> DEFINE t == [task[p] EXCEPT !.share = task[p].share + 1]
    <3>1. DOMAIN t = TaskFields /\ t.pc = "invite"  BY <1>1, <2>2 DEF Shape, TaskFields, Invite, At
    <3>2. DOMAIN Idle = TaskFields /\ Idle.pc = "idle"  BY DEF Idle, TaskFields
    <3>3. Become(p, t) \/ Become(p, Idle)  BY <2>2 DEF Invite, Done
    <3> HIDE DEF t
    <3> QED  BY <3>1, <3>2, <3>3
  <2> QED  BY <2>1, <2>2
<1>5. task'[p] = t /\ \A q \in Procs \ {p} : task'[q] = task[q]  BY <1>1, <1>4, Becoming
<1>6. \A q \in Procs : task'[q].pc \in PayPc => q # p /\ task'[q] = task[q]
  BY <1>4, <1>5 DEF PayPc
<1>7. \A q \in Procs : task[q].pc \in PayPc => q # p
  BY <1>2 DEF PayPc, Making
<1>8. \A s \in Guests :
        \/ shares'[s] = shares[s]
        \/ /\ shares[s].status # "PAID" /\ shares'[s].status # "PAID"
           /\ shares'[s].taken = 0 /\ shares'[s].answer = shares[s].answer
           /\ \A q \in Procs : task[q].pc \in PayPc => task[q].share # s
  <2>1. CASE CreateShares(p)
    <3>1. \A s \in Guests : Blank(s)  BY <2>1 DEF TakenInv, SharesInOrder, CreateShares, At
    <3>2. \A q \in Procs : task[q].pc \notin PayPc  BY <3>1 DEF TakenInv, HandlersInOrder, Blank
    <3>3. ASSUME NEW s \in Guests, s <= bill.guests
          PROVE  shares'[s].status = "OPEN" /\ shares'[s].taken = 0 /\ shares'[s].answer = shares[s].answer
      <4>1. shares'[s] = [shares[s] EXCEPT !.status = "OPEN"]  BY <2>1, <3>3 DEF CreateShares
      <4>2. DOMAIN shares[s] = ShareFields  BY <1>1 DEF Shape
      <4> QED  BY <3>1, <4>1, <4>2 DEF ShareFields, Blank
    <3>4. \A s \in Guests : ~(s <= bill.guests) => shares'[s] = shares[s]  BY <2>1 DEF CreateShares
    <3> QED  BY <3>1, <3>2, <3>3, <3>4 DEF Blank
  <2>2. CASE Invite(p)
    <3> DEFINE s == task[p].share
               row == [shares[s] EXCEPT !.status = "INVITED"]
    <3>1. s \in Guests /\ Unknown(s)
      <4>1. s \in 1..bill.guests /\ \A r \in s..bill.guests : Unknown(r)
        BY <2>2 DEF TakenInv, HandlersInOrder, Invite, At
      <4> QED  BY <1>2, <4>1, SplitAssumption DEF Guests
    <3>2. UNCHANGED shares \/ shares' = [shares EXCEPT ![s] = row]  BY <2>2 DEF Invite
    <3>3. row.status = "INVITED" /\ row.taken = 0 /\ row.answer = shares[s].answer
      BY <1>1, <3>1 DEF Shape, ShareFields, Unknown
    <3> HIDE DEF row
    <3>4. UNCHANGED shares \/ (shares'[s] = row /\ \A r \in Guests \ {s} : shares'[r] = shares[r])
      BY <1>1, <3>1, <3>2 DEF Shape
    <3> QED  BY <3>1, <3>3, <3>4 DEF Unknown
  <2> QED  BY <2>1, <2>2
<1>9. Due' = Due /\ \A r : DueBy(r)' = DueBy(r)  BY <1>3 DEF DueBy, Due
<1>10. Settling \cup Mirroring \cup Paying \cup Collecting \subseteq PayPc
  BY DEF Settling, Mirroring, Paying, Trying, Collecting, PayPc
<1>11. \A s \in Guests : Owing(s)' <=> Owing(s)
  <2>1. \A s \in Guests : shares'[s].status # "PAID" <=> shares[s].status # "PAID"  BY <1>8
  <2>2. \A q \in Procs, s \in Guests :
          (task'[q].pc \in Settling /\ task'[q].share = s) <=> (task[q].pc \in Settling /\ task[q].share = s)
    BY <1>5, <1>6, <1>7, <1>10
  <2> QED  BY <2>1, <2>2 DEF Owing
<1>12. \A s \in Guests : Keeping(s)' <=> Keeping(s)
  <2>1. \A q \in Procs, s \in Guests :
          (task'[q].pc \in Mirroring /\ task'[q].share = s) <=> (task[q].pc \in Mirroring /\ task[q].share = s)
    BY <1>5, <1>6, <1>7, <1>10
  <2> QED  BY <1>11, <2>1 DEF Keeping
<1>13. \A q \in Procs : task[q].pc \in PayPc => shares'[task[q].share] = shares[task[q].share]
  <2>1. \A q \in Procs : task[q].pc \in PayPc => task[q].share \in Guests  BY DEF TakenInv, HandlersInOrder
  <2> QED  BY <1>8, <2>1
<1>14. Payers'
  <2>1. Payers  BY DEF MoneyInv
  <2>2. \A q \in Procs : task'[q].pc \in Paying \cup Settling \cup Mirroring \cup Collecting
            \cup {"insertShare", "findHold", "reduceHold", "releaseHold", "markGuarantee"}
          => q # p /\ task'[q] = task[q] /\ shares'[task[q].share] = shares[task[q].share]
    <3>1. {"insertShare", "findHold", "reduceHold", "releaseHold", "markGuarantee"} \subseteq PayPc  BY DEF PayPc
    <3> QED  BY <1>6, <1>10, <1>13, <3>1
  <2> SUFFICES ASSUME NEW q \in Procs
               PROVE  /\ task'[q].pc \in Paying => shares'[task'[q].share].status = "PAYMENT_PENDING"
                      /\ task'[q].pc \in Settling \cup Mirroring =>
                          /\ shares'[task'[q].share].status = "PAID"
                          /\ \A r \in Procs \ {q} :
                               task'[r].pc \in Settling \cup Mirroring => task'[r].share # task'[q].share
                      /\ task'[q].pc = "insertShare" => task'[q].answer = "requires_capture"
                      /\ task'[q].pc \in {"findHold", "reduceHold", "releaseHold", "markGuarantee"} =>
                           task'[q].amount \in Nat /\ guarantee.remaining <= task'[q].amount
                      /\ task'[q].pc = "releaseHold" => hold.amount <= DueBy(task'[q].share)
                      /\ task'[q].pc \in Collecting =>
                           shares'[task'[q].share].taken = DueBy(task'[q].share)
    <3>1. \A q \in Procs : DueBy(task[q].share)' = DueBy(task'[q].share)  BY <1>9 DEF DueBy
    <3> QED  BY <1>3, <3>1 DEF Payers
  <2>3. task'[q].pc \in Paying => shares'[task'[q].share].status = "PAYMENT_PENDING"  BY <2>1, <2>2 DEF Payers
  <2>4. task'[q].pc \in Settling \cup Mirroring =>
          /\ shares'[task'[q].share].status = "PAID"
          /\ \A r \in Procs \ {q} : task'[r].pc \in Settling \cup Mirroring => task'[r].share # task'[q].share
    BY <2>1, <2>2 DEF Payers
  <2>5. /\ task'[q].pc = "insertShare" => task'[q].answer = "requires_capture"
        /\ task'[q].pc \in {"findHold", "reduceHold", "releaseHold", "markGuarantee"} =>
             task'[q].amount \in Nat /\ guarantee.remaining <= task'[q].amount
        /\ task'[q].pc = "releaseHold" => hold.amount <= DueBy(task'[q].share)
    BY <2>1, <2>2 DEF Payers
  <2>6. task'[q].pc \in Collecting => shares'[task'[q].share].taken = DueBy(task'[q].share)
    BY <2>1, <2>2 DEF Payers
  <2> QED  BY <2>3, <2>4, <2>5, <2>6
<1>15. TakenRight'
  <2>1. TakenRight  BY DEF MoneyInv
  <2>2. \A q \in Procs, s \in Guests : task[q].pc \in Collecting /\ task[q].share = s
                                          => task'[q].pc \in Collecting /\ task'[q].share = s
    BY <1>5, <1>7, <1>10
  <2> SUFFICES ASSUME NEW s \in Guests
               PROVE  /\ shares'[s].status = "PAID" => shares'[s].taken = DueBy(s)
                      /\ shares'[s].status # "PAID" =>
                           \/ shares'[s].taken = 0
                           \/ \E q \in Procs : task'[q].pc \in Collecting /\ task'[q].share = s
                      /\ shares'[s].answer \in {"none", "requires_capture", "failed", "error"}
    BY <1>9 DEF TakenRight
  <2>3. CASE shares'[s] = shares[s]  BY <2>1, <2>2, <2>3 DEF TakenRight
  <2> QED  BY <1>8, <2>1, <2>3 DEF TakenRight
<1>16. task'[p].pc \in {"idle"} \cup PayPc \cup Making  BY <1>4, <1>5 DEF Making
<1> QED  BY <1>2, <1>3, <1>5, <1>11, <1>12, <1>14, <1>15, <1>16, SharesWritten

-----------------------------------------------------------------------------
(***************************************************************************)
(* Once the share is PAID: the guarantee is reduced, then the hold.        *)
(***************************************************************************)
Reducing == Settling \cup Mirroring \cup {"markGuarantee"}

\* While a handler reduces the guarantee, the books are balanced.
LEMMA ReducingSituation ==
    ASSUME MoneyInv, TakenInv, NEW p \in Procs, task[p].pc \in Reducing
    PROVE  /\ guarantee.remaining = TotalOwed
           /\ guarantee.kind = "WALLET_RESERVE" => Reserved = TotalKept
           /\ \A q \in Procs : task[q].pc \notin Held \cup RegularisePc
<1>1. task[p].pc \in PayPc  BY DEF Reducing, Settling, Mirroring, PayPc
<1>2. /\ booking \notin Unsold
      /\ guarantee.status \in {"ACTIVE", "PARTIALLY_RELEASED", "RELEASED"}
      /\ \A q \in Procs : task[q].pc \notin Held \cup RegularisePc
  BY <1>1, PaySituation DEF MoneyInv
<1>3. ~Withdrawn  BY <1>2 DEF Withdrawn
<1>4. ~Someone("markReleased") /\ ~Someone("consume")  BY <1>2 DEF Someone, Held, RegularisePc
<1> QED  BY <1>2, <1>3, <1>4 DEF MoneyInv, Balances

LEMMA ReducingBalances ==
    ASSUME MoneyInv, TakenInv, NEW p \in Procs,
           UNCHANGED <<bill, booking, shares, charge, recovered>>,
           \A q \in Procs \ {p} : task'[q] = task[q],
           task[p].pc \in Reducing, task'[p].pc \in Reducing \cup {"idle"},
           task'[p].pc \in Settling \cup Mirroring => task[p].pc \in Settling \cup Mirroring,
           task'[p].share = task[p].share \/ task'[p].pc = "idle",
           guarantee' \in GuaranteeRow, hold' \in HoldRow,
           guarantee'.status \in {"ACTIVE", "PARTIALLY_RELEASED", "RELEASED"},
           guarantee'.remaining <= guarantee.remaining, hold'.amount <= hold.amount,
           task'[p].pc \in {"findHold", "reduceHold", "releaseHold", "markGuarantee"} =>
                task'[p].amount \in Nat /\ guarantee'.remaining <= task'[p].amount,
           task'[p].pc = "releaseHold" => hold'.amount <= DueBy(task[p].share),
           guarantee'.status = "RELEASED" => guarantee'.remaining = 0,
           guarantee'.remaining = TotalOwed',
           guarantee'.kind = "WALLET_RESERVE" => Reserved' = TotalKept'
    PROVE  MoneyInv'
<1> USE DEF MoneyInv
<1>1. task[p].pc \in PayPc  BY DEF Reducing, Settling, Mirroring, PayPc
<1>2. /\ booking \notin Unsold
      /\ guarantee.status \in {"ACTIVE", "PARTIALLY_RELEASED", "RELEASED"}
      /\ \A q \in Procs : task[q].pc \notin Held \cup RegularisePc
      /\ task[p].share \in Guests /\ DueBy(task[p].share) \in Nat
  BY <1>1, PaySituation
<1>3. task'[p].pc \notin Held \cup RegularisePc \cup Making \cup Paying \cup Collecting \cup {"insertShare"}
  BY DEF Reducing, Settling, Mirroring, Held, RegularisePc, Making, Paying, Trying, Collecting
<1>4. \A q \in Procs : task'[q].pc \notin Held \cup RegularisePc  BY <1>2, <1>3
<1>5. Amounts'  BY DEF Amounts
<1>6. Pledges'
  <2>1. Before \cup After \cup {"guaranteeRow", "markReleased"} \subseteq Held  BY DEF Before, After, Held
  <2>2. booking' # "CHECKOUT_PENDING" /\ guarantee'.status # "absent"  BY <1>2 DEF Unsold
  <2> QED  BY <1>4, <2>1, <2>2 DEF Pledges
<1>7. Payers'
  <2>1. Due' = Due  BY DEF Due
  <2>2. \A q \in Procs : DueBy(task[q].share)' = DueBy(task'[q].share)  BY <2>1 DEF DueBy
  <2>3. Payers  OBVIOUS
  <2>4. guarantee.remaining \in Nat /\ guarantee'.remaining \in Nat /\ hold.amount \in Nat /\ hold'.amount \in Nat
    BY DEF Amounts, GuaranteeRow, HoldRow
  <2> SUFFICES ASSUME NEW q \in Procs
               PROVE  /\ task'[q].pc \in Paying => shares[task'[q].share].status = "PAYMENT_PENDING"
                      /\ task'[q].pc \in Settling \cup Mirroring =>
                          /\ shares[task'[q].share].status = "PAID"
                          /\ \A r \in Procs \ {q} :
                               task'[r].pc \in Settling \cup Mirroring => task'[r].share # task'[q].share
                      /\ task'[q].pc = "insertShare" => task'[q].answer = "requires_capture"
                      /\ task'[q].pc \in {"findHold", "reduceHold", "releaseHold", "markGuarantee"} =>
                           task'[q].amount \in Nat /\ guarantee'.remaining <= task'[q].amount
                      /\ task'[q].pc = "releaseHold" => hold'.amount <= DueBy(task'[q].share)
                      /\ task'[q].pc \in Collecting =>
                           shares[task'[q].share].taken = DueBy(task'[q].share)
    BY <2>2 DEF Payers
  <2>5. /\ task'[q].pc \in Paying => shares[task'[q].share].status = "PAYMENT_PENDING"
        /\ task'[q].pc \in Collecting => shares[task'[q].share].taken = DueBy(task'[q].share)
        /\ task'[q].pc = "insertShare" => task'[q].answer = "requires_capture"
    BY <1>3, <2>3 DEF Payers
  <2>6. task'[q].pc \in Settling \cup Mirroring =>
          /\ shares[task'[q].share].status = "PAID"
          /\ \A r \in Procs \ {q} : task'[r].pc \in Settling \cup Mirroring => task'[r].share # task'[q].share
    <3>1. \A r \in Procs : task'[r].pc \in Settling \cup Mirroring
                              => task[r].pc \in Settling \cup Mirroring /\ task'[r].share = task[r].share
      BY DEF Settling, Mirroring
    <3> QED  BY <2>3, <3>1 DEF Payers
  <2>7. CASE q = p
    <3>1. task'[q].pc = "releaseHold" => hold'.amount <= DueBy(task'[q].share)
      BY <2>7
    <3> QED  BY <2>5, <2>6, <2>7, <3>1
  <2>8. CASE q # p
    <3>1. task'[q] = task[q]  BY <2>8
    <3>2. task[q].pc = "releaseHold" => DueBy(task[q].share) \in Nat
      <4>1. task[q].pc = "releaseHold" => task[q].pc \in PayPc  BY DEF PayPc
      <4> QED  BY <4>1, PaySituation
    <3>3. task[q].pc \in {"findHold", "reduceHold", "releaseHold", "markGuarantee"} => task[q].pc \in PayPc
      BY DEF PayPc
    <3>4. task[q].pc = "releaseHold" => hold'.amount <= DueBy(task[q].share)
      <4>1. task[q].pc = "releaseHold" => hold.amount <= DueBy(task[q].share)  BY <2>3 DEF Payers
      <4> QED  BY <2>4, <3>2, <4>1
    <3>5. task[q].pc \in {"findHold", "reduceHold", "releaseHold", "markGuarantee"} =>
            task[q].amount \in Nat /\ guarantee'.remaining <= task[q].amount
      <4>1. task[q].pc \in {"findHold", "reduceHold", "releaseHold", "markGuarantee"} =>
              task[q].amount \in Nat /\ guarantee.remaining <= task[q].amount
        BY <2>3 DEF Payers
      <4> QED  BY <2>4, <4>1
    <3> QED  BY <2>5, <2>6, <3>1, <3>4, <3>5
  <2> QED  BY <2>7, <2>8
<1>8. TakenRight'
  <2>1. \A s \in Guests : DueBy(s)' = DueBy(s)  BY DEF DueBy, Due
  <2>2. task[p].pc \notin Collecting  BY DEF Reducing, Settling, Mirroring, Collecting
  <2>3. \A q \in Procs : task[q].pc \in Collecting => task'[q] = task[q]  BY <2>2
  <2> QED  BY <2>1, <2>3 DEF TakenRight
<1>9. Deadline'
  <2>1. Charging \cup {"findRemaining", "cover"} \cup {"charge", "captureCharge", "failGuarantee", "takeHold", "consume"}
          \subseteq RegularisePc
    BY DEF Charging, RegularisePc
  <2> QED  BY <1>4, <2>1 DEF Deadline
<1>10. Over'  BY DEF Over
<1>11. Balances'
  <2>1. ~Withdrawn'  BY <1>2 DEF Withdrawn
  <2>2. recovered' = 0
    <3>1. ~Someone("consume")  BY <1>2 DEF Someone, RegularisePc
    <3> QED  BY <1>2, <3>1 DEF Balances
  <2> QED  BY <2>1, <2>2 DEF Balances
<1> QED  BY <1>5, <1>6, <1>7, <1>8, <1>9, <1>10, <1>11

\* A share leaves what is owed with the write to the guarantee, and what is
\* kept with the write to the hold.
LEMMA ReducingSums ==
    ASSUME MoneyInv, TakenInv, Shape', NEW p \in Procs, UNCHANGED <<bill, shares>>,
           \A q \in Procs \ {p} : task'[q] = task[q],
           task[p].pc \in Reducing, task'[p].pc \in Reducing \cup {"idle"},
           task'[p].share = task[p].share \/ task'[p].pc = "idle",
           task'[p].pc \in Settling => task[p].pc \in Settling,
           task'[p].pc \in Mirroring => task[p].pc \in Settling \cup Mirroring
    PROVE  /\ DueBy(task[p].share) \in Nat
           /\ TotalOwed \in Nat /\ TotalKept \in Nat
           /\ task[p].pc \in Settling /\ task'[p].pc \notin Settling =>
                TotalOwed' = TotalOwed - DueBy(task[p].share) /\ DueBy(task[p].share) <= TotalOwed
           /\ ~(task[p].pc \in Settling /\ task'[p].pc \notin Settling) => TotalOwed' = TotalOwed
           /\ task[p].pc # "markGuarantee" /\ task'[p].pc \notin Settling \cup Mirroring =>
                TotalKept' = TotalKept - DueBy(task[p].share) /\ DueBy(task[p].share) <= TotalKept
           /\ ~(task[p].pc # "markGuarantee" /\ task'[p].pc \notin Settling \cup Mirroring) =>
                TotalKept' = TotalKept
<1> PICK s : s = task[p].share  OBVIOUS
<1>0. Shape  BY DEF TakenInv
<1>1. task[p].pc \in PayPc  BY DEF Reducing, Settling, Mirroring, PayPc
<1>2. s \in Guests /\ s <= bill.guests /\ DueBy(s) \in Nat  BY <1>1, PaySituation DEF MoneyInv
<1>3. "markGuarantee" \notin Settling \cup Mirroring /\ "idle" \notin Settling \cup Mirroring
      /\ Settling \cap Mirroring = {}
  BY DEF Settling, Mirroring
<1>4. task[p].pc \in Settling \cup Mirroring =>
        /\ shares[s].status = "PAID"
        /\ \A q \in Procs \ {p} : task[q].pc \in Settling \cup Mirroring => task[q].share # s
  BY DEF MoneyInv, Payers
<1>5. task'[p].pc \in Settling \cup Mirroring => task'[p].share = s  BY <1>3
<1>6. TotalOwed \in Nat /\ TotalKept \in Nat  BY <1>0, OwedNat
<1>7. ASSUME task[p].pc \in Settling, task'[p].pc \notin Settling
      PROVE  TotalOwed' = TotalOwed - DueBy(s) /\ DueBy(s) <= TotalOwed
  <2>1. Owing(s)  BY <1>7 DEF Owing
  <2>2. ~Owing(s)'
    <3>1. \A q \in Procs : ~(task'[q].pc \in Settling /\ task'[q].share = s)  BY <1>4, <1>7
    <3>2. shares'[s].status = "PAID"  BY <1>4, <1>7
    <3> QED  BY <3>1, <3>2 DEF Owing
  <2>3. \A r \in Guests \ {s} : Owing(r)' <=> Owing(r)
    <3> TAKE r \in Guests \ {s}
    <3>1. \A q \in Procs : (task'[q].pc \in Settling /\ task'[q].share = r)
                              <=> (task[q].pc \in Settling /\ task[q].share = r)
      BY <1>7
    <3> QED  BY <3>1 DEF Owing
  <2> QED  BY <1>0, <1>2, <2>1, <2>2, <2>3, OwedDrops
<1>8. ASSUME ~(task[p].pc \in Settling /\ task'[p].pc \notin Settling)
      PROVE  TotalOwed' = TotalOwed
  <2>1. \A r \in Guests : Owing(r)' <=> Owing(r)
    <3> TAKE r \in Guests
    <3>1. \A q \in Procs : (task'[q].pc \in Settling /\ task'[q].share = r)
                              <=> (task[q].pc \in Settling /\ task[q].share = r)
      BY <1>5, <1>8
    <3> QED  BY <3>1 DEF Owing
  <2> QED  BY <2>1, OwedSame
<1>9. ASSUME task[p].pc # "markGuarantee", task'[p].pc \notin Settling \cup Mirroring
      PROVE  TotalKept' = TotalKept - DueBy(s) /\ DueBy(s) <= TotalKept
  <2>0. task[p].pc \in Settling \cup Mirroring  BY <1>9 DEF Reducing
  <2>1. Keeping(s)  BY <2>0 DEF Keeping, Owing
  <2>2. ~Keeping(s)'
    <3>1. \A q \in Procs : ~(task'[q].pc \in Settling \cup Mirroring /\ task'[q].share = s)  BY <1>4, <1>9, <2>0
    <3>2. shares'[s].status = "PAID"  BY <1>4, <2>0
    <3> QED  BY <3>1, <3>2 DEF Owing, Keeping
  <2>3. \A r \in Guests \ {s} : Keeping(r)' <=> Keeping(r)
    <3> TAKE r \in Guests \ {s}
    <3>1. \A q \in Procs : (task'[q].pc \in Settling \cup Mirroring /\ task'[q].share = r)
                              <=> (task[q].pc \in Settling \cup Mirroring /\ task[q].share = r)
      BY <1>9
    <3> QED  BY <3>1 DEF Owing, Keeping
  <2> QED  BY <1>0, <1>2, <2>1, <2>2, <2>3, KeptDrops
<1>10. ASSUME ~(task[p].pc # "markGuarantee" /\ task'[p].pc \notin Settling \cup Mirroring)
       PROVE  TotalKept' = TotalKept
  <2>1. \A r \in Guests : Keeping(r)' <=> Keeping(r)
    <3> TAKE r \in Guests
    <3>1. task'[p].pc \in Settling \cup Mirroring <=> task[p].pc \in Settling \cup Mirroring
      BY <1>3, <1>10 DEF Reducing
    <3>2. \A q \in Procs : (task'[q].pc \in Settling \cup Mirroring /\ task'[q].share = r)
                              <=> (task[q].pc \in Settling \cup Mirroring /\ task[q].share = r)
      BY <1>5, <3>1
    <3> QED  BY <3>2 DEF Owing, Keeping
  <2> QED  BY <2>1, KeptSame
<1> QED  BY <1>2, <1>6, <1>7, <1>8, <1>9, <1>10

LEMMA PledgeBalances ==
    ASSUME MoneyInv, TakenInv, TakenInv', NEW p \in Procs,
           \/ FindGuarantee(p) \/ ReleaseAmount(p) \/ Reread(p) \/ FindHold(p) \/ ReduceHold(p)
           \/ ReleaseHold(p) \/ MarkGuarantee(p)
    PROVE  MoneyInv'
<1>1. Shape /\ Shape'  BY DEF TakenInv
<1>2. task[p].pc \in Reducing /\ task[p].pc \in PayPc
  BY DEF FindGuarantee, ReleaseAmount, Reread, FindHold, ReduceHold, ReleaseHold, MarkGuarantee, At, Reducing,
     Settling, Mirroring, PayPc
<1>3. UNCHANGED <<bill, booking, shares, charge, recovered>>
  BY DEF FindGuarantee, ReleaseAmount, Reread, FindHold, ReduceHold, ReleaseHold, MarkGuarantee, OnlyPledge,
     club, payers
<1>4. Done(p) => task'[p].pc = "idle" /\ \A q \in Procs \ {p} : task'[q] = task[q]  BY <1>1, Stopping
<1>5. \A pc : Goto(p, pc) => /\ task'[p].pc = pc /\ task'[p].share = task[p].share
                             /\ task'[p].amount = task[p].amount
                             /\ \A q \in Procs \ {p} : task'[q] = task[q]
  BY <1>1, Advancing
<1> DEFINE due == DueBy(task[p].share)
<1>6. /\ guarantee.status \in {"ACTIVE", "PARTIALLY_RELEASED", "RELEASED"}
      /\ due \in Nat
      /\ guarantee \in GuaranteeRow /\ hold \in HoldRow
      /\ guarantee.status = "RELEASED" => guarantee.remaining = 0
      /\ task[p].pc \in {"findHold", "reduceHold", "releaseHold", "markGuarantee"} =>
           task[p].amount \in Nat /\ guarantee.remaining <= task[p].amount
      /\ task[p].pc = "releaseHold" => hold.amount <= due
  BY <1>2, PaySituation DEF MoneyInv, Amounts, Balances, Payers
<1>7. guarantee.remaining = TotalOwed /\ (guarantee.kind = "WALLET_RESERVE" => Reserved = TotalKept)
  BY <1>2, ReducingSituation
<1>8. /\ "markGuarantee" \notin Settling \cup Mirroring /\ "idle" \notin Settling \cup Mirroring
      /\ {"findGuarantee", "releaseAmount"} = Settling
      /\ {"reread", "findHold", "reduceHold", "releaseHold"} = Mirroring
      /\ Settling \cup Mirroring \cup {"markGuarantee"} = Reducing
  BY DEF Settling, Mirroring, Reducing
\* a call that goes on to pc, and what the books must say after it
<1>9. ASSUME NEW pc, task'[p].pc = pc, \A q \in Procs \ {p} : task'[q] = task[q],
             pc # "idle" => task'[p].share = task[p].share,
             pc \in Reducing \cup {"idle"}, pc \in Settling => task[p].pc \in Settling,
             pc \in Mirroring => task[p].pc \in Settling \cup Mirroring
      PROVE  /\ TotalOwed \in Nat /\ TotalKept \in Nat
             /\ task[p].pc \in Settling /\ pc \notin Settling =>
                  TotalOwed' = TotalOwed - due /\ due <= TotalOwed
             /\ ~(task[p].pc \in Settling /\ pc \notin Settling) => TotalOwed' = TotalOwed
             /\ task[p].pc # "markGuarantee" /\ pc \notin Settling \cup Mirroring =>
                  TotalKept' = TotalKept - due /\ due <= TotalKept
             /\ ~(task[p].pc # "markGuarantee" /\ pc \notin Settling \cup Mirroring) =>
                  TotalKept' = TotalKept
  BY <1>1, <1>2, <1>3, <1>9, ReducingSums
<1>10. ASSUME NEW pc, task'[p].pc = pc, \A q \in Procs \ {p} : task'[q] = task[q],
              pc # "idle" => task'[p].share = task[p].share,
              pc \in Reducing \cup {"idle"}, pc \in Settling => task[p].pc \in Settling,
              pc \in Mirroring => task[p].pc \in Settling \cup Mirroring,
              guarantee' \in GuaranteeRow, hold' \in HoldRow,
              guarantee'.status \in {"ACTIVE", "PARTIALLY_RELEASED", "RELEASED"},
              guarantee'.remaining <= guarantee.remaining, hold'.amount <= hold.amount,
              pc \in {"findHold", "reduceHold", "releaseHold", "markGuarantee"} =>
                   task'[p].amount \in Nat /\ guarantee'.remaining <= task'[p].amount,
              pc = "releaseHold" => hold'.amount <= due,
              guarantee'.status = "RELEASED" => guarantee'.remaining = 0,
              guarantee'.remaining = TotalOwed',
              guarantee'.kind = "WALLET_RESERVE" => Reserved' = TotalKept'
       PROVE  MoneyInv'
  <2>1. pc \in Settling \cup Mirroring => task[p].pc \in Settling \cup Mirroring  BY <1>10
  <2> QED  BY <1>2, <1>3, <1>10, <2>1, ReducingBalances
<1>11. guarantee.remaining \in Nat /\ hold.amount \in Nat  BY <1>6 DEF GuaranteeRow, HoldRow
<1> HIDE DEF due
<1>12. CASE FindGuarantee(p)
  <2>1. UNCHANGED <<guarantee, hold>> /\ Reserved' = Reserved  BY <1>12 DEF FindGuarantee, pledge, Reserved
  <2>2. task[p].pc = "findGuarantee"  BY <1>12 DEF FindGuarantee, At
  <2>3. CASE guarantee.status = "RELEASED"
    <3>1. task'[p].pc = "idle" /\ \A q \in Procs \ {p} : task'[q] = task[q]
      BY <1>4, <1>12, <2>3 DEF FindGuarantee
    <3>2. TotalOwed' = TotalOwed /\ TotalKept' = TotalKept
      BY <1>6, <1>7, <1>8, <1>9, <2>2, <2>3, <3>1
    <3> QED  BY <1>6, <1>7, <1>8, <1>10, <1>11, <2>1, <2>3, <3>1, <3>2
  <2>4. CASE guarantee.status # "RELEASED"
    <3>1. Goto(p, "releaseAmount")  BY <1>6, <1>12, <2>4 DEF FindGuarantee
    <3>2. TotalOwed' = TotalOwed /\ TotalKept' = TotalKept
      BY <1>5, <1>8, <1>9, <2>2, <3>1
    <3> QED  BY <1>5, <1>6, <1>7, <1>8, <1>10, <1>11, <2>1, <2>2, <3>1, <3>2
  <2> QED  BY <2>3, <2>4
<1>13. CASE ReleaseAmount(p)
  <2>1. hold' = hold /\ Reserved' = Reserved  BY <1>13 DEF ReleaseAmount, Reserved
  <2>2. task[p].pc = "releaseAmount"  BY <1>13 DEF ReleaseAmount, At
  <2>3. CASE guarantee.status \in {"ACTIVE", "PARTIALLY_RELEASED"} /\ guarantee.remaining >= due
    <3>1. guarantee' = [guarantee EXCEPT !.remaining = @ - due] /\ Goto(p, "reread")
      BY <1>13, <2>3 DEF ReleaseAmount, due
    <3>2. /\ guarantee' \in GuaranteeRow /\ guarantee'.remaining = guarantee.remaining - due
          /\ guarantee'.status = guarantee.status /\ guarantee'.kind = guarantee.kind
      BY <1>6, <1>11, <2>3, <3>1 DEF GuaranteeRow
    <3>3. TotalOwed' = TotalOwed - due /\ TotalKept' = TotalKept
      BY <1>5, <1>8, <1>9, <2>2, <3>1
    <3> QED  BY <1>5, <1>6, <1>7, <1>8, <1>10, <1>11, <2>1, <2>2, <2>3, <3>1, <3>2, <3>3
  <2>4. CASE ~(guarantee.status \in {"ACTIVE", "PARTIALLY_RELEASED"} /\ guarantee.remaining >= due)
    <3>1. guarantee' = guarantee /\ task'[p].pc = "idle" /\ \A q \in Procs \ {p} : task'[q] = task[q]
      BY <1>4, <1>13, <2>4 DEF ReleaseAmount, due
    <3>2. TotalOwed' = TotalOwed - due /\ due <= TotalOwed /\ TotalKept' = TotalKept - due
      BY <1>8, <1>9, <2>2, <3>1
    <3>3. due = 0 /\ guarantee.status = "RELEASED"  BY <1>6, <1>7, <1>9, <1>11, <2>4, <3>2
    <3>4. TotalOwed' = TotalOwed /\ TotalKept' = TotalKept
      BY <1>8, <1>9, <3>1, <3>2, <3>3
    <3> QED  BY <1>6, <1>7, <1>8, <1>10, <1>11, <2>1, <3>1, <3>4
  <2> QED  BY <2>3, <2>4
<1>14. CASE Reread(p)
  <2>1. UNCHANGED <<guarantee, hold>> /\ Reserved' = Reserved  BY <1>14 DEF Reread, pledge, Reserved
  <2>2. task[p].pc = "reread"  BY <1>14 DEF Reread, At
  <2> DEFINE t == [task[p] EXCEPT !.amount = guarantee.remaining,
                     !.pc = IF guarantee.kind = "WALLET_RESERVE" THEN "findHold" ELSE "markGuarantee"]
  <2>3. /\ DOMAIN t = TaskFields /\ t.share = task[p].share /\ t.amount = guarantee.remaining
        /\ t.pc = IF guarantee.kind = "WALLET_RESERVE" THEN "findHold" ELSE "markGuarantee"
    BY <1>1 DEF Shape, TaskFields
  <2>4. Become(p, t)  BY <1>14 DEF Reread
  <2> HIDE DEF t
  <2>5. task'[p] = t /\ \A q \in Procs \ {p} : task'[q] = task[q]  BY <1>1, <2>3, <2>4, Becoming
  <2>6. TotalOwed' = TotalOwed /\ (guarantee.kind = "WALLET_RESERVE" => TotalKept' = TotalKept)
    BY <1>8, <1>9, <2>2, <2>3, <2>5
  <2> QED  BY <1>6, <1>7, <1>8, <1>10, <1>11, <2>1, <2>2, <2>3, <2>5, <2>6
<1>15. CASE FindHold(p)
  <2>1. UNCHANGED <<guarantee, hold>> /\ Reserved' = Reserved  BY <1>15 DEF FindHold, pledge, Reserved
  <2>2. task[p].pc = "findHold"  BY <1>15 DEF FindHold, At
  <2>3. CASE hold.status # "ACTIVE"
    <3>1. Goto(p, "markGuarantee")  BY <1>15, <2>3 DEF FindHold
    <3>2. TotalOwed' = TotalOwed /\ TotalKept' = TotalKept - due /\ due <= TotalKept /\ TotalKept \in Nat
      BY <1>5, <1>8, <1>9, <2>2, <3>1
    <3>3. Reserved = 0  BY <2>3 DEF Reserved
    <3>4. guarantee.kind = "WALLET_RESERVE" => TotalKept' = Reserved  BY <1>6, <1>7, <3>2, <3>3
    <3> QED  BY <1>5, <1>6, <1>7, <1>8, <1>10, <1>11, <2>1, <2>2, <3>1, <3>2, <3>4
  <2>4. CASE hold.status = "ACTIVE"
    <3>1. PICK pc \in {"releaseHold", "reduceHold"} : Goto(p, pc) /\ (pc = "releaseHold" => due >= hold.amount)
      BY <1>15, <2>4 DEF FindHold, due
    <3>2. TotalOwed' = TotalOwed /\ TotalKept' = TotalKept
      BY <1>5, <1>8, <1>9, <2>2, <3>1
    <3> QED  BY <1>5, <1>6, <1>7, <1>8, <1>10, <1>11, <2>1, <2>2, <3>1, <3>2
  <2> QED  BY <2>3, <2>4
<1>16. CASE ReduceHold(p)
  <2>1. guarantee' = guarantee /\ Goto(p, "markGuarantee") /\ task[p].pc = "reduceHold"
    BY <1>16 DEF ReduceHold, At
  <2>2. TotalOwed' = TotalOwed /\ TotalKept' = TotalKept - due /\ due <= TotalKept /\ TotalKept \in Nat
    BY <1>5, <1>8, <1>9, <2>1
  <2>3. /\ hold' \in HoldRow /\ hold'.amount <= hold.amount
        /\ guarantee.kind = "WALLET_RESERVE" => Reserved' = TotalKept'
    <3>1. CASE hold.status = "ACTIVE" /\ hold.amount >= due
      <4>1. hold' = [hold EXCEPT !.amount = @ - due]  BY <1>16, <3>1 DEF ReduceHold, due
      <4>2. hold' \in HoldRow /\ hold'.amount = hold.amount - due /\ hold'.status = "ACTIVE"
        BY <1>6, <1>11, <3>1, <4>1 DEF HoldRow
      <4> QED  BY <1>6, <1>7, <1>11, <2>2, <3>1, <4>2 DEF Reserved
    <3>2. CASE ~(hold.status = "ACTIVE" /\ hold.amount >= due)
      <4>1. hold' = hold  BY <1>16, <3>2 DEF ReduceHold, due
      <4>2. guarantee.kind = "WALLET_RESERVE" => Reserved = 0 /\ TotalKept = 0 /\ due = 0
        BY <1>6, <1>7, <1>11, <2>2, <3>2 DEF Reserved
      <4> QED  BY <1>6, <1>11, <2>2, <4>1, <4>2 DEF Reserved
    <3> QED  BY <3>1, <3>2
  <2> QED  BY <1>5, <1>6, <1>7, <1>8, <1>10, <1>11, <2>1, <2>2, <2>3
<1>17. CASE ReleaseHold(p)
  <2>1. guarantee' = guarantee /\ Goto(p, "markGuarantee") /\ task[p].pc = "releaseHold"
    BY <1>17 DEF ReleaseHold, At
  <2>2. TotalOwed' = TotalOwed /\ TotalKept' = TotalKept - due /\ due <= TotalKept /\ TotalKept \in Nat
    BY <1>5, <1>8, <1>9, <2>1
  <2>3. hold' \in HoldRow /\ hold'.amount = hold.amount /\ hold'.status # "ACTIVE"
    BY <1>6, <1>17 DEF ReleaseHold, HoldRow
  <2>4. guarantee.kind = "WALLET_RESERVE" => Reserved' = TotalKept'
    BY <1>6, <1>7, <1>11, <2>1, <2>2, <2>3 DEF Reserved
  <2> QED  BY <1>5, <1>6, <1>7, <1>8, <1>10, <1>11, <2>1, <2>2, <2>3, <2>4
<1>18. CASE MarkGuarantee(p)
  <2>1. hold' = hold /\ Reserved' = Reserved /\ task[p].pc = "markGuarantee"
    BY <1>18 DEF MarkGuarantee, Reserved, At
  <2>2. task'[p].pc = "idle" /\ \A q \in Procs \ {p} : task'[q] = task[q]
    BY <1>4, <1>18 DEF MarkGuarantee
  <2>3. TotalOwed' = TotalOwed /\ TotalKept' = TotalKept  BY <1>8, <1>9, <2>1, <2>2
  <2>4. /\ guarantee' \in GuaranteeRow /\ guarantee'.remaining = guarantee.remaining
        /\ guarantee'.kind = guarantee.kind
        /\ guarantee'.status = IF task[p].amount = 0 THEN "RELEASED" ELSE "PARTIALLY_RELEASED"
    BY <1>6, <1>18 DEF MarkGuarantee, GuaranteeRow
  <2>5. guarantee'.status = "RELEASED" => guarantee'.remaining = 0  BY <1>6, <1>11, <2>1, <2>4
  <2> QED  BY <1>6, <1>7, <1>8, <1>10, <1>11, <2>1, <2>2, <2>3, <2>4, <2>5
<1> QED  BY <1>12, <1>13, <1>14, <1>15, <1>16, <1>17, <1>18

-----------------------------------------------------------------------------
(***************************************************************************)
(* The checkout lays the guarantee down, or gives it back.                 *)
(***************************************************************************)
LEMMA HeldBalances ==
    ASSUME MoneyInv, TakenInv, NEW p \in Procs, task[p].pc \in Held,
           UNCHANGED <<bill, booking, shares, charge, recovered>>,
           \A q \in Procs \ {p} : task'[q] = task[q],
           task'[p].pc \in {"guaranteeRow", "legacy", "capture", "markReleased", "fail"},
           guarantee' \in GuaranteeRow, hold' \in HoldRow,
           guarantee'.status \notin {"FAILED", "CONSUMED"},
           task'[p].pc = "guaranteeRow" =>
                guarantee'.status = "absent" /\ hold'.status = "ACTIVE" /\ hold'.amount = Guaranteed,
           task'[p].pc \in After => guarantee'.status = "ACTIVE",
           task'[p].pc = "markReleased" => hold'.status # "ACTIVE",
           guarantee'.status \notin {"absent", "RELEASED"} => guarantee'.remaining = TotalOwed,
           guarantee'.status \notin {"absent", "RELEASED"} /\ guarantee'.kind = "WALLET_RESERVE" =>
                Reserved' = TotalKept \/ task'[p].pc = "markReleased",
           guarantee'.status = "RELEASED" => guarantee'.remaining = 0 /\ Reserved' = 0,
           recovered = 0
    PROVE  MoneyInv'
<1> USE DEF MoneyInv
<1>1. /\ booking = "PAYMENT_PENDING" /\ \A s \in Guests : Blank(s)
      /\ \A q \in Procs : task[q].pc \notin PayPc \cup RegularisePc \cup Making
      /\ \A q \in Procs \ {p} : task[q].pc \notin Held
  BY HeldSituation
<1>2. \A q \in Procs : task'[q].pc \notin PayPc \cup RegularisePc \cup Making
  BY <1>1 DEF PayPc, RegularisePc, Making
<1>3. Amounts'  BY DEF Amounts
<1>4. Guaranteed' = Guaranteed /\ \A s : DueBy(s)' = DueBy(s)  BY DEF Guaranteed, DueBy, Due
<1>5. Pledges'
  <2>1. Before \cup After \cup {"guaranteeRow", "markReleased"} \subseteq Held  BY DEF Before, After, Held
  <2>2. \A q \in Procs : task'[q].pc \in Before \cup After \cup {"guaranteeRow", "markReleased"} => q = p
    BY <1>1, <2>1
  <2>3. task'[p].pc \in Before => task'[p].pc = "guaranteeRow"  BY DEF Before
  <2> QED  BY <1>1, <1>4, <2>2, <2>3 DEF Pledges, Unsold
<1>6. Payers'
  <2>1. Paying \cup Settling \cup Mirroring \cup Collecting
          \cup {"insertShare", "findHold", "reduceHold", "releaseHold", "markGuarantee"} \subseteq PayPc
    BY DEF Paying, Trying, Settling, Mirroring, Collecting, PayPc
  <2> QED  BY <1>2, <2>1 DEF Payers
<1>7. TakenRight'  BY <1>1, <1>4 DEF TakenRight, Blank
<1>8. Deadline'
  <2>1. Charging \cup {"findRemaining", "cover"} \cup {"charge", "captureCharge", "failGuarantee", "takeHold", "consume"}
          \subseteq RegularisePc
    BY DEF Charging, RegularisePc
  <2> QED  BY <1>2, <2>1 DEF Deadline
<1>9. Over'  BY DEF Over
<1>10. Balances'
  <2>1. Settling \cup Mirroring \subseteq PayPc  BY DEF Settling, Mirroring, PayPc
  <2>2. \A s : Owing(s)' <=> Owing(s)
    <3> TAKE s
    <3> QED  BY <1>1, <1>2, <2>1 DEF Owing
  <2>3. \A s : Keeping(s)' <=> Keeping(s)
    <3> TAKE s
    <3> QED  BY <1>1, <1>2, <2>1, <2>2 DEF Keeping
  <2>4. TotalOwed' = TotalOwed /\ TotalKept' = TotalKept  BY <2>2, <2>3, OwedSame, KeptSame
  <2>5. Withdrawn' <=> guarantee'.status = "RELEASED"  BY <1>1 DEF Withdrawn, Unsold
  <2>6. task'[p].pc = "markReleased" => Someone("markReleased")'  BY DEF Someone
  <2> QED  BY <2>4, <2>5, <2>6 DEF Balances
<1> QED  BY <1>3, <1>5, <1>6, <1>7, <1>8, <1>9, <1>10

LEMMA GuaranteeBalances ==
    ASSUME MoneyInv, TakenInv, Kinds, NEW p \in Procs,
           ReserveCredits(p) \/ InsertGuarantee(p) \/ ReleaseEntirely(p) \/ MarkReleased(p)
    PROVE  MoneyInv'
<1>1. Shape  BY DEF TakenInv
<1>2. task[p].pc \in Held \ {"party", "reopen"}
  BY DEF ReserveCredits, InsertGuarantee, ReleaseEntirely, MarkReleased, At, Held
<1>3. UNCHANGED <<bill, booking, shares, charge, recovered>>
  BY DEF ReserveCredits, InsertGuarantee, ReleaseEntirely, MarkReleased, club, payers
<1>4. \A pc : Goto(p, pc) => task'[p].pc = pc /\ \A q \in Procs \ {p} : task'[q] = task[q]
  BY <1>1, Advancing
<1>5. /\ bill.guests \in Guests /\ \A s \in Guests : Blank(s)
      /\ \A q \in Procs : task[q].pc \notin RegularisePc
  BY <1>2, HeldSituation DEF MoneyInv, TakenInv, OnePass
<1>6. \A s \in Guests : Owing(s)  BY <1>5 DEF Owing, Blank
<1>7. Guaranteed = TotalOwed /\ Guaranteed = TotalKept /\ Guaranteed \in Nat  BY <1>1, <1>5, <1>6, GuaranteedIsOwed
<1>8. guarantee \in GuaranteeRow /\ hold \in HoldRow  BY DEF MoneyInv, Amounts
<1>9. guarantee.status # "CONSUMED" => recovered = 0
  <2>1. ~Someone("consume")  BY <1>5 DEF Someone, RegularisePc
  <2> QED  BY <2>1 DEF MoneyInv, Balances
<1>10. /\ task[p].pc \in Before => guarantee.status = "absent"
       /\ task[p].pc \in After => guarantee.status = "ACTIVE"
       /\ task[p].pc = "guaranteeRow" => hold.status = "ACTIVE" /\ hold.amount = Guaranteed
       /\ task[p].pc = "markReleased" => hold.status # "ACTIVE"
  BY DEF MoneyInv, Pledges
<1>11. "guaranteeRow" \notin After /\ "fail" \notin After /\ "guarantee" \in Before /\ "guaranteeRow" \in Before
       /\ "releaseEntirely" \in After /\ "markReleased" \in After /\ "legacy" \in After /\ "capture" \in After
  BY DEF Before, After
<1>12. CASE ReserveCredits(p)
  <2>1. guarantee' = guarantee /\ hold' = [status |-> "ACTIVE", amount |-> Guaranteed]
        /\ Goto(p, "guaranteeRow") /\ task[p].pc = "guarantee"
    BY <1>12 DEF ReserveCredits, At
  <2>2. hold' \in HoldRow /\ hold'.status = "ACTIVE" /\ hold'.amount = Guaranteed
    BY <1>7, <2>1 DEF HoldRow
  <2> QED  BY <1>2, <1>3, <1>4, <1>8, <1>9, <1>10, <1>11, <2>1, <2>2, HeldBalances
<1>13. CASE InsertGuarantee(p)
  <2>1. /\ guarantee' = Pledged(task[p].kind) /\ hold' = hold /\ Goto(p, AfterGuarantee)
        /\ task[p].pc = "guaranteeRow" \/ (task[p].pc = "guarantee" /\ task[p].kind = "CARD_OFF_SESSION")
    BY <1>13 DEF InsertGuarantee, At
  <2>2. AfterGuarantee \in {"legacy", "capture"}  BY DEF AfterGuarantee
  <2>3. task[p].kind \in {"WALLET_RESERVE", "CARD_OFF_SESSION"}
    BY DEF Kinds
  <2>4. /\ guarantee' \in GuaranteeRow /\ guarantee'.status = "ACTIVE" /\ guarantee'.remaining = Guaranteed
        /\ guarantee'.kind = task[p].kind
    BY <1>7, <2>1, <2>3 DEF Pledged, GuaranteeRow
  <2>5. guarantee'.kind = "WALLET_RESERVE" => Reserved' = TotalKept
    BY <1>7, <1>10, <2>1, <2>4 DEF Reserved
  <2> QED  BY <1>2, <1>3, <1>4, <1>7, <1>8, <1>9, <1>10, <1>11, <2>1, <2>2, <2>4, <2>5, HeldBalances
<1>14. CASE ReleaseEntirely(p)
  <2>1. /\ guarantee' = guarantee /\ Goto(p, "markReleased") /\ task[p].pc = "releaseEntirely"
        /\ hold' = [hold EXCEPT !.status = IF @ = "ACTIVE" THEN "RELEASED" ELSE @]
    BY <1>14 DEF ReleaseEntirely, At
  <2>2. hold' \in HoldRow /\ hold'.status # "ACTIVE"  BY <1>8, <2>1 DEF HoldRow
  <2>3. guarantee.status = "ACTIVE"  BY <1>10, <1>11, <2>1
  <2>4. guarantee.remaining = TotalOwed  BY <2>3 DEF MoneyInv, Balances, Withdrawn
  <2> QED  BY <1>2, <1>3, <1>4, <1>8, <1>9, <1>11, <2>1, <2>2, <2>3, <2>4, HeldBalances
<1>15. CASE MarkReleased(p)
  <2>1. /\ guarantee' = [guarantee EXCEPT !.status = "RELEASED", !.remaining = 0] /\ hold' = hold
        /\ Goto(p, "fail") /\ task[p].pc = "markReleased"
    BY <1>15 DEF MarkReleased, At
  <2>2. guarantee' \in GuaranteeRow /\ guarantee'.status = "RELEASED" /\ guarantee'.remaining = 0
    BY <1>8, <2>1 DEF GuaranteeRow
  <2>3. Reserved' = 0  BY <1>10, <2>1 DEF Reserved
  <2>4. guarantee.status = "ACTIVE"  BY <1>10, <1>11, <2>1
  <2> QED  BY <1>2, <1>3, <1>4, <1>8, <1>9, <1>11, <2>1, <2>2, <2>3, <2>4, HeldBalances
<1> QED  BY <1>12, <1>13, <1>14, <1>15

-----------------------------------------------------------------------------
(***************************************************************************)
(* The regularisation at the deadline, alone.                              *)
(***************************************************************************)
Regularises(p) == task[p].pc \in RegularisePc \/ task[p].pc = "idle"

LEMMA DeadlineSums ==
    ASSUME Shape, NEW p \in Procs, Regularises(p), Regularises(p)', UNCHANGED bill,
           \A q \in Procs \ {p} : task[q].pc = "idle" /\ task'[q] = task[q],
           \A s \in Guests : shares'[s].status = "PAID" <=> shares[s].status = "PAID"
    PROVE  TotalOwed' = TotalOwed /\ TotalKept' = TotalKept /\ TotalKept = TotalOwed /\ TotalOwed \in Nat
<1>1. (RegularisePc \cup {"idle"}) \cap (Settling \cup Mirroring) = {}
  BY DEF RegularisePc, Settling, Mirroring
<1>2. \A q \in Procs : task[q].pc \notin Settling \cup Mirroring /\ task'[q].pc \notin Settling \cup Mirroring
  BY <1>1 DEF Regularises
<1>3. \A s \in Guests : (Owing(s)' <=> Owing(s)) /\ (Keeping(s)' <=> Keeping(s)) /\ (Keeping(s) <=> Owing(s))
  BY <1>2 DEF Owing, Keeping
<1>4. Kept = Owed  BY <1>3 DEF Kept, Owed
<1> QED  BY <1>3, <1>4, OwedSame, KeptSame, OwedNat DEF TotalKept, TotalOwed

LEMMA DeadlineSituation ==
    ASSUME MoneyInv, TakenInv, NEW p \in Procs, task[p].pc \in RegularisePc
    PROVE  /\ booking \notin Unsold /\ task[p].op = "regularise"
           /\ \A q \in Procs \ {p} : task[q].pc = "idle"
           /\ guarantee.status # "absent"
           /\ guarantee.status # "CONSUMED" => guarantee.remaining = TotalOwed
           /\ task[p].pc # "consume" =>
                /\ guarantee.status # "CONSUMED" => recovered = 0
                /\ guarantee.kind = "WALLET_RESERVE" /\ guarantee.status # "CONSUMED" => Reserved = TotalKept
<1>1. booking \notin Unsold /\ task[p].op = "regularise" /\ \A q \in Procs \ {p} : task[q].pc = "idle"
  BY DEF MoneyInv, Deadline
<1>2. guarantee.status # "absent" /\ ~Withdrawn  BY <1>1 DEF MoneyInv, Pledges, Withdrawn
<1>3. ~Someone("markReleased") /\ (task[p].pc # "consume" => ~Someone("consume"))
  BY <1>1 DEF Someone, RegularisePc
<1> QED  BY <1>1, <1>2, <1>3 DEF MoneyInv, Balances

LEMMA DeadlineBalances ==
    ASSUME MoneyInv, TakenInv, NEW p \in Procs, Regularises(p), Regularises(p)',
           booking \notin Unsold, \A q \in Procs \ {p} : task[q].pc = "idle" /\ task'[q] = task[q],
           UNCHANGED <<bill, booking>>,
           \A s \in Guests : /\ shares'[s].status = "PAID" <=> shares[s].status = "PAID"
                             /\ shares'[s].taken = shares[s].taken
                             /\ shares'[s].answer = shares[s].answer,
           guarantee'.status # "absent",
           task'[p].pc \in RegularisePc => task'[p].op = "regularise",
           task'[p].pc = "cover" => task'[p].todo = {s \in Guests : shares'[s].status \in Unpaid},
           task'[p].pc \in Charging \cup {"findRemaining"} => NoUnpaid',
           task'[p].pc \in Charging => guarantee'.status \notin {"absent", "RELEASED", "CONSUMED"},
           task'[p].pc = "takeHold" => guarantee'.kind = "WALLET_RESERVE",
           task'[p].pc \in {"charge", "captureCharge", "failGuarantee"} =>
                guarantee'.kind = "CARD_OFF_SESSION",
           task'[p].pc = "charge" => task'[p].amount = guarantee'.remaining,
           task'[p].pc = "captureCharge" => charge'.amount = guarantee'.remaining,
           task'[p].pc = "consume" => /\ recovered' = guarantee'.remaining
                                      /\ guarantee'.kind = "WALLET_RESERVE" => Reserved' = 0,
           guarantee'.status \in {"FAILED", "CONSUMED"} => NoUnpaid',
           Amounts', Balances'
    PROVE  MoneyInv'
<1> USE DEF MoneyInv
<1>1. \A q \in Procs : Regularises(q) /\ Regularises(q)'  BY DEF Regularises
<1>2. (RegularisePc \cup {"idle"}) \cap (PayPc \cup Held \cup Making) = {}
  BY DEF RegularisePc, PayPc, Held, Making
<1>3. \A q \in Procs : /\ task[q].pc \notin PayPc \cup Held \cup Making
                       /\ task'[q].pc \notin PayPc \cup Held \cup Making
  BY <1>1, <1>2 DEF Regularises
<1>4. Pledges'
  <2>1. Before \cup After \cup {"guaranteeRow", "markReleased"} \subseteq Held  BY DEF Before, After, Held
  <2> QED  BY <1>3, <2>1 DEF Pledges, Unsold
<1>5. Payers'
  <2>1. Paying \cup Settling \cup Mirroring \cup Collecting
          \cup {"insertShare", "findHold", "reduceHold", "releaseHold", "markGuarantee"} \subseteq PayPc
    BY DEF Paying, Trying, Settling, Mirroring, Collecting, PayPc
  <2> QED  BY <1>3, <2>1 DEF Payers
<1>6. TakenRight'
  <2>1. \A s \in Guests : DueBy(s)' = DueBy(s)  BY DEF DueBy, Due
  <2>2. Collecting \subseteq PayPc  BY DEF Collecting, PayPc
  <2> QED  BY <1>3, <2>1, <2>2 DEF TakenRight
<1>7. Deadline'
  <2>1. \A q \in Procs \ {p} : task'[q].pc = "idle"  OBVIOUS
  <2>2. "idle" \notin RegularisePc \cup Charging  BY DEF RegularisePc, Charging
  <2> QED  BY <2>1, <2>2 DEF Deadline
<1>8. Over'  BY <1>3 DEF Over
<1> QED  BY <1>4, <1>5, <1>6, <1>7, <1>8

LEMMA RegulariseBalances ==
    ASSUME MoneyInv, TakenInv, Alone, NEW p \in Procs,
           \/ StartRegularise(p) \/ FindUnpaid(p) \/ Cover(p) \/ FindRemaining(p) \/ TakeHold(p)
           \/ ChargeSavedMethod(p) \/ CaptureCharge(p) \/ FailGuarantee(p) \/ Consume(p)
    PROVE  MoneyInv'
<1>1. Shape  BY DEF TakenInv
<1>2. UNCHANGED <<bill, booking>>
  BY DEF StartRegularise, FindUnpaid, Cover, FindRemaining, TakeHold, ChargeSavedMethod, CaptureCharge,
     FailGuarantee, Consume, OnlyShares, OnlyPledge, club
<1>3. StartRegularise(p) \/ task[p].pc \in RegularisePc
  BY DEF FindUnpaid, Cover, FindRemaining, TakeHold, ChargeSavedMethod, CaptureCharge, FailGuarantee, Consume, At,
     RegularisePc
<1>4. /\ booking \notin Unsold /\ guarantee.status # "absent"
      /\ \A q \in Procs \ {p} : task[q].pc = "idle"
  <2>1. CASE StartRegularise(p)
    <3>1. booking = "CONFIRMED" /\ Idling  BY <2>1 DEF StartRegularise
    <3>2. guarantee.status # "absent"  BY <3>1 DEF MoneyInv, Pledges, Unsold
    <3> QED  BY <3>1, <3>2 DEF Idling, At, Unsold
  <2> QED  BY <1>3, <2>1, DeadlineSituation
<1>5. guarantee \in GuaranteeRow /\ hold \in HoldRow /\ recovered \in Nat
      /\ DOMAIN charge = {"intent", "answer", "amount"}
  BY DEF MoneyInv, Amounts
<1>6. Done(p) => /\ task'[p].pc = "idle" /\ \A q \in Procs \ {p} : task'[q] = task[q]  BY <1>1, Stopping
<1>7. \A pc : Goto(p, pc) => /\ task'[p].pc = pc /\ task'[p].todo = task[p].todo
                             /\ task'[p].op = task[p].op /\ task'[p].amount = task[p].amount
                             /\ \A q \in Procs \ {p} : task'[q] = task[q]
  BY <1>1, Advancing
<1>8. \A t : Become(p, t) /\ DOMAIN t = TaskFields => task'[p] = t /\ \A q \in Procs \ {p} : task'[q] = task[q]
  BY <1>1, Becoming
<1>9. "idle" \notin RegularisePc /\ Charging \subseteq RegularisePc /\ "findRemaining" \in RegularisePc
      /\ "cover" \in RegularisePc /\ "findUnpaid" \in RegularisePc
      /\ Charging = {"takeHold", "charge", "captureCharge", "failGuarantee", "consume"}
      /\ "cover" \notin Charging /\ "findUnpaid" \notin Charging /\ "findRemaining" \notin Charging
      /\ "idle" \notin Charging
  BY DEF RegularisePc, Charging
<1>10. /\ task[p].pc = "cover" => task[p].todo = {s \in Guests : shares[s].status \in Unpaid}
       /\ task[p].pc \in Charging \cup {"findRemaining"} => NoUnpaid
       /\ task[p].pc \in Charging => guarantee.status \notin {"absent", "RELEASED", "CONSUMED"}
       /\ task[p].pc = "takeHold" => guarantee.kind = "WALLET_RESERVE"
       /\ task[p].pc \in {"charge", "captureCharge", "failGuarantee"} =>
            guarantee.kind = "CARD_OFF_SESSION"
       /\ task[p].pc = "charge" => task[p].amount = guarantee.remaining
       /\ task[p].pc = "captureCharge" => charge.amount = guarantee.remaining
       /\ task[p].pc = "consume" => /\ recovered = guarantee.remaining
                                    /\ guarantee.kind = "WALLET_RESERVE" => Reserved = 0
  BY DEF MoneyInv, Deadline
<1>11. task[p].pc \in RegularisePc => task[p].op = "regularise"  BY DEF MoneyInv, Deadline
<1>12. guarantee.status \in {"FAILED", "CONSUMED"} => NoUnpaid  BY DEF MoneyInv, Over
<1>13. Regularises(p)  BY <1>3 DEF Regularises, StartRegularise, At
<1>14. ASSUME \A q \in Procs \ {p} : task'[q] = task[q], Regularises(p)',
              \A s \in Guests : shares'[s].status = "PAID" <=> shares[s].status = "PAID"
       PROVE  TotalOwed' = TotalOwed /\ TotalKept' = TotalKept /\ TotalKept = TotalOwed /\ TotalOwed \in Nat
  BY <1>1, <1>2, <1>4, <1>13, <1>14, DeadlineSums
<1>15. ASSUME UNCHANGED <<guarantee, hold, recovered>>, \A q \in Procs \ {p} : task'[q] = task[q],
              Regularises(p)', task[p].pc # "consume", task'[p].pc # "consume",
              \A s \in Guests : shares'[s].status = "PAID" <=> shares[s].status = "PAID"
       PROVE  Balances'
  <2>1. TotalOwed' = TotalOwed /\ TotalKept' = TotalKept  BY <1>14, <1>15
  <2>2. Withdrawn' = Withdrawn /\ Reserved' = Reserved  BY <1>2, <1>15 DEF Withdrawn, Reserved
  <2>3. /\ ~Someone("consume") /\ ~Someone("consume")'
        /\ ~Someone("markReleased") /\ ~Someone("markReleased")'
    BY <1>4, <1>13, <1>15 DEF Someone, Regularises, RegularisePc
  <2> QED  BY <1>15, <2>1, <2>2, <2>3 DEF MoneyInv, Balances
<1>16. CASE StartRegularise(p)
  <2>1. UNCHANGED <<guarantee, hold, shares, charge, recovered>> /\ task[p].pc = "idle"
    BY <1>16 DEF StartRegularise, pledge, payers, At
  <2> DEFINE t == [Idle EXCEPT !.op = "regularise", !.pc = "findUnpaid"]
  <2>2. DOMAIN t = TaskFields /\ t.pc = "findUnpaid" /\ t.op = "regularise"  BY DEF Idle, TaskFields
  <2>3. Become(p, t)  BY <1>16 DEF StartRegularise
  <2> HIDE DEF t
  <2>4. task'[p] = t /\ \A q \in Procs \ {p} : task'[q] = task[q]  BY <1>8, <2>2, <2>3
  <2>5. Regularises(p)'  BY <1>9, <2>2, <2>4 DEF Regularises
  <2>6. Balances'  BY <1>15, <2>1, <2>2, <2>4, <2>5
  <2>7. Amounts' /\ NoUnpaid' = NoUnpaid  BY <1>5, <2>1 DEF Amounts, NoUnpaid
  <2> QED  BY <1>2, <1>4, <1>9, <1>12, <1>13, <2>1, <2>2, <2>4, <2>5, <2>6, <2>7, DeadlineBalances
<1>17. CASE FindUnpaid(p)
  <2>1. UNCHANGED <<guarantee, hold, shares, charge, recovered>> /\ task[p].pc = "findUnpaid"
    BY <1>17 DEF FindUnpaid, OnlyShares, pledge, At
  <2> DEFINE t == [task[p] EXCEPT !.todo = {s \in Guests : shares[s].status \in Unpaid}, !.pc = "cover"]
  <2>2. /\ DOMAIN t = TaskFields /\ t.pc = "cover" /\ t.op = task[p].op
        /\ t.todo = {s \in Guests : shares[s].status \in Unpaid}
    BY <1>1 DEF Shape, TaskFields
  <2>3. Become(p, t)  BY <1>17 DEF FindUnpaid
  <2> HIDE DEF t
  <2>4. task'[p] = t /\ \A q \in Procs \ {p} : task'[q] = task[q]  BY <1>8, <2>2, <2>3
  <2>5. Regularises(p)'  BY <1>9, <2>2, <2>4 DEF Regularises
  <2>6. Balances'  BY <1>15, <2>1, <2>2, <2>4, <2>5
  <2>7. Amounts' /\ NoUnpaid' = NoUnpaid  BY <1>5, <2>1 DEF Amounts, NoUnpaid
  <2>8. task[p].op = "regularise"  BY <1>9, <1>11, <2>1
  <2> QED  BY <1>2, <1>4, <1>9, <1>12, <1>13, <2>1, <2>2, <2>4, <2>5, <2>6, <2>7, <2>8, DeadlineBalances
<1>18. CASE Cover(p)
  <2>1. UNCHANGED <<guarantee, hold, charge, recovered>> /\ task[p].pc = "cover"
    BY <1>18 DEF Cover, OnlyShares, pledge, At
  <2>2. task[p].op = "regularise"  BY <1>9, <1>11, <2>1
  <2>3. Amounts'  BY <1>5, <2>1 DEF Amounts
  <2>4. CASE task[p].todo = {}
    <3>1. UNCHANGED shares /\ Goto(p, "findRemaining")  BY <1>18, <2>4 DEF Cover
    <3>2. NoUnpaid
      <4>1. {s \in Guests : shares[s].status \in Unpaid} = {}  BY <1>10, <2>1, <2>4
      <4> QED  BY <4>1 DEF NoUnpaid
    <3>3. NoUnpaid'  BY <3>1, <3>2 DEF NoUnpaid
    <3>4. Regularises(p)'  BY <1>7, <1>9, <3>1 DEF Regularises
    <3>5. Balances'  BY <1>7, <1>15, <2>1, <3>1, <3>4
    <3> QED
      BY <1>2, <1>4, <1>7, <1>9, <1>13, <2>1, <2>2, <2>3, <3>1, <3>3, <3>4, <3>5, DeadlineBalances
  <2>5. CASE task[p].todo # {}
    <3>1. PICK s \in task[p].todo :
            /\ shares' = [shares EXCEPT ![s] = [@ EXCEPT !.status = "COVERED_BY_ORGANIZER"]]
            /\ Become(p, [task[p] EXCEPT !.todo = @ \ {s}])
      BY <1>18, <2>5 DEF Cover
    <3>2. s \in Guests /\ shares[s].status \in Unpaid  BY <1>10, <2>1
    <3> DEFINE t == [task[p] EXCEPT !.todo = @ \ {s}]
               row == [shares[s] EXCEPT !.status = "COVERED_BY_ORGANIZER"]
    <3>3. /\ DOMAIN t = TaskFields /\ t.pc = "cover" /\ t.op = task[p].op
          /\ t.todo = task[p].todo \ {s}
      BY <1>1, <2>1 DEF Shape, TaskFields
    <3>4. row.status = "COVERED_BY_ORGANIZER" /\ row.taken = shares[s].taken /\ row.answer = shares[s].answer
      BY <1>1, <3>2 DEF Shape, ShareFields
    <3>5. Become(p, t)  BY <3>1
    <3>6. shares' = [shares EXCEPT ![s] = row]  BY <3>1
    <3> HIDE DEF t, row
    <3>7. task'[p] = t /\ \A q \in Procs \ {p} : task'[q] = task[q]  BY <1>8, <3>3, <3>5
    <3>8. shares'[s] = row /\ \A r \in Guests \ {s} : shares'[r] = shares[r]
      BY <1>1, <3>2, <3>6 DEF Shape
    <3>9. \A r \in Guests : /\ shares'[r].status = "PAID" <=> shares[r].status = "PAID"
                            /\ shares'[r].taken = shares[r].taken
                            /\ shares'[r].answer = shares[r].answer
      BY <3>2, <3>4, <3>8 DEF Unpaid
    <3>10. t.todo = {r \in Guests : shares'[r].status \in Unpaid}
      <4>1. shares'[s].status \notin Unpaid  BY <3>4, <3>8 DEF Unpaid
      <4>2. task[p].todo = {r \in Guests : shares[r].status \in Unpaid}  BY <1>10, <2>1
      <4> QED  BY <3>3, <3>8, <4>1, <4>2
    <3>11. Regularises(p)'  BY <1>9, <3>3, <3>7 DEF Regularises
    <3>12. Balances'  BY <1>15, <2>1, <3>3, <3>7, <3>9, <3>11
    <3>13. guarantee.status \notin {"FAILED", "CONSUMED"}
      BY <1>12, <3>2 DEF NoUnpaid
    <3> QED
      BY <1>2, <1>4, <1>9, <1>13, <2>1, <2>2, <2>3, <3>3, <3>7, <3>9, <3>10, <3>11, <3>12, <3>13, DeadlineBalances
  <2> QED  BY <2>4, <2>5
<1>19. CASE FindRemaining(p)
  <2>1. UNCHANGED <<guarantee, hold, shares, charge, recovered>> /\ task[p].pc = "findRemaining"
    BY <1>19 DEF FindRemaining, OnlyPledge, pledge, payers, At
  <2>2. NoUnpaid /\ NoUnpaid' = NoUnpaid /\ Amounts' /\ task[p].op = "regularise"
    BY <1>5, <1>9, <1>10, <1>11, <2>1 DEF NoUnpaid, Amounts
  <2>3. CASE guarantee.status \in {"absent", "RELEASED", "CONSUMED"} \/ guarantee.remaining = 0
    <3>1. task'[p].pc = "idle" /\ \A q \in Procs \ {p} : task'[q] = task[q]  BY <1>6, <1>19, <2>3 DEF FindRemaining
    <3>2. Regularises(p)'  BY <3>1 DEF Regularises
    <3>3. Balances'  BY <1>15, <2>1, <3>1, <3>2
    <3> QED  BY <1>2, <1>4, <1>9, <1>13, <2>1, <2>2, <3>1, <3>2, <3>3, DeadlineBalances
  <2>4. CASE ~(guarantee.status \in {"absent", "RELEASED", "CONSUMED"} \/ guarantee.remaining = 0)
    <3> DEFINE t == [task[p] EXCEPT !.amount = guarantee.remaining,
                       !.pc = IF guarantee.kind = "WALLET_RESERVE" THEN "takeHold" ELSE "charge"]
    <3>1. /\ DOMAIN t = TaskFields /\ t.op = task[p].op /\ t.amount = guarantee.remaining
          /\ t.pc = IF guarantee.kind = "WALLET_RESERVE" THEN "takeHold" ELSE "charge"
      BY <1>1 DEF Shape, TaskFields
    <3>2. Become(p, t)  BY <1>19, <2>4 DEF FindRemaining
    <3> HIDE DEF t
    <3>3. task'[p] = t /\ \A q \in Procs \ {p} : task'[q] = task[q]  BY <1>8, <3>1, <3>2
    <3>4. guarantee.kind \in {"WALLET_RESERVE", "CARD_OFF_SESSION"}  BY <1>5 DEF GuaranteeRow
    <3>5. t.pc \in {"takeHold", "charge"}  BY <3>1
    <3>6. Regularises(p)'  BY <1>9, <3>3, <3>5 DEF Regularises
    <3>7. Balances'  BY <1>15, <2>1, <3>3, <3>5, <3>6
    <3> QED
      BY <1>2, <1>4, <1>9, <1>13, <2>1, <2>2, <2>4, <3>1, <3>3, <3>4, <3>5, <3>6, <3>7, DeadlineBalances
  <2> QED  BY <2>3, <2>4
<1>20. CASE TakeHold(p)
  <2>1. UNCHANGED <<guarantee, shares, charge>> /\ task[p].pc = "takeHold" /\ Goto(p, "consume")
    BY <1>20 DEF TakeHold, At
  <2>2. /\ NoUnpaid /\ task[p].op = "regularise" /\ guarantee.kind = "WALLET_RESERVE"
        /\ guarantee.status \notin {"absent", "RELEASED", "CONSUMED"}
    BY <1>9, <1>10, <1>11, <2>1
  <2>3. NoUnpaid' = NoUnpaid  BY <2>1 DEF NoUnpaid
  <2>4. Regularises(p)'  BY <1>7, <1>9, <2>1 DEF Regularises
  <2>5. TotalOwed' = TotalOwed /\ TotalKept = TotalOwed /\ TotalOwed \in Nat  BY <1>7, <1>14, <2>1, <2>4
  <2>6. recovered = 0 /\ Reserved = TotalOwed /\ guarantee.remaining = TotalOwed
    BY <1>9, <2>1, <2>2, <2>5, DeadlineSituation
  <2>7. hold' \in HoldRow /\ Reserved' = 0 /\ recovered' = TotalOwed
    <3>1. CASE hold.status = "ACTIVE"
      <4>1. hold' = [hold EXCEPT !.status = "CAPTURED"] /\ recovered' = recovered + hold.amount
        BY <1>20, <3>1 DEF TakeHold
      <4>2. hold' \in HoldRow /\ hold'.status = "CAPTURED"  BY <1>5, <4>1 DEF HoldRow
      <4>3. hold.amount = TotalOwed  BY <2>6, <3>1 DEF Reserved
      <4> QED  BY <2>5, <2>6, <4>1, <4>2, <4>3 DEF Reserved
    <3>2. CASE hold.status # "ACTIVE"
      <4>1. UNCHANGED <<hold, recovered>>  BY <1>20, <3>2 DEF TakeHold
      <4>2. Reserved = 0  BY <3>2 DEF Reserved
      <4> QED  BY <1>5, <2>6, <3>2, <4>1, <4>2 DEF Reserved
    <3> QED  BY <3>1, <3>2
  <2>8. Amounts'  BY <1>5, <2>1, <2>5, <2>7 DEF Amounts
  <2>9. Balances'
    <3>1. Someone("consume")'  BY <1>7, <2>1 DEF Someone
    <3>2. ~Withdrawn'  BY <1>2, <1>4 DEF Withdrawn
    <3> QED  BY <2>1, <2>2, <2>5, <2>6, <3>1, <3>2 DEF Balances
  <2> QED
    BY <1>2, <1>4, <1>7, <1>9, <1>13, <2>1, <2>2, <2>3, <2>4, <2>6, <2>7, <2>8, <2>9, DeadlineBalances
<1>21. CASE ChargeSavedMethod(p)
  <2>1. UNCHANGED <<guarantee, hold, shares, recovered>> /\ task[p].pc = "charge"
    BY <1>21 DEF ChargeSavedMethod, pledge, At
  <2>2. /\ NoUnpaid /\ task[p].op = "regularise" /\ guarantee.kind = "CARD_OFF_SESSION"
        /\ guarantee.status \notin {"absent", "RELEASED", "CONSUMED"}
        /\ task[p].amount = guarantee.remaining
    BY <1>9, <1>10, <1>11, <2>1
  <2>3. NoUnpaid' = NoUnpaid  BY <2>1 DEF NoUnpaid
  <2>4. PICK a : /\ a # "error" => charge.answer = "none" \/ charge.amount = task[p].amount
                 /\ charge' = IF charge.answer = "none"
                              THEN [Asked(charge, a) EXCEPT !.amount = task[p].amount] ELSE charge
                 /\ CASE a = "requires_capture" -> Goto(p, "captureCharge")
                      [] a = "error"            -> Done(p)
                      [] OTHER                  -> Goto(p, "failGuarantee")
    BY <1>21 DEF ChargeSavedMethod
  <2>5. DOMAIN charge' = {"intent", "answer", "amount"} /\ (a # "error" => charge'.amount = task[p].amount)
    <3>1. CASE charge.answer = "none"
      <4>1. charge' = [[charge EXCEPT !.intent = IntentFor(a), !.answer = a] EXCEPT !.amount = task[p].amount]
        BY <2>4, <3>1 DEF Asked
      <4> QED  BY <1>5, <4>1
    <3>2. CASE charge.answer # "none"  BY <1>5, <2>4, <3>2
    <3> QED  BY <3>1, <3>2
  <2>6. Amounts'  BY <1>5, <2>1, <2>5 DEF Amounts
  <2>7. CASE a = "error"
    <3>1. task'[p].pc = "idle" /\ \A q \in Procs \ {p} : task'[q] = task[q]  BY <1>6, <2>4, <2>7
    <3>2. Regularises(p)'  BY <3>1 DEF Regularises
    <3>3. Balances'  BY <1>15, <2>1, <3>1, <3>2
    <3> QED  BY <1>2, <1>4, <1>9, <1>13, <2>1, <2>2, <2>3, <2>6, <3>1, <3>2, <3>3, DeadlineBalances
  <2>8. CASE a # "error"
    <3>1. PICK pc \in {"captureCharge", "failGuarantee"} : Goto(p, pc)  BY <2>4, <2>8
    <3>2. Regularises(p)'  BY <1>7, <1>9, <3>1 DEF Regularises
    <3>3. Balances'  BY <1>7, <1>15, <2>1, <3>1, <3>2
    <3> QED
      BY <1>2, <1>4, <1>7, <1>9, <1>13, <2>1, <2>2, <2>3, <2>5, <2>6, <2>8, <3>1, <3>2, <3>3, DeadlineBalances
  <2> QED  BY <2>7, <2>8
<1>22. CASE CaptureCharge(p)
  <2>1. UNCHANGED <<guarantee, hold, shares>> /\ task[p].pc = "captureCharge"
    BY <1>22 DEF CaptureCharge, pledge, At
  <2>2. /\ NoUnpaid /\ task[p].op = "regularise" /\ guarantee.kind = "CARD_OFF_SESSION"
        /\ guarantee.status \notin {"absent", "RELEASED", "CONSUMED"}
        /\ charge.amount = guarantee.remaining
    BY <1>9, <1>10, <1>11, <2>1
  <2>3. NoUnpaid' = NoUnpaid  BY <2>1 DEF NoUnpaid
  <2>4. CASE UNCHANGED <<charge, recovered>> /\ Goto(p, "failGuarantee")
    <3>1. Regularises(p)'  BY <1>7, <1>9, <2>4 DEF Regularises
    <3>2. Balances'  BY <1>7, <1>15, <2>1, <2>4, <3>1
    <3>3. Amounts'  BY <1>5, <2>1, <2>4 DEF Amounts
    <3> QED  BY <1>2, <1>4, <1>7, <1>9, <1>13, <2>1, <2>2, <2>3, <2>4, <3>1, <3>2, <3>3, DeadlineBalances
  <2>5. CASE /\ charge' = [charge EXCEPT !.intent = "succeeded"]
             /\ recovered' = recovered + charge.amount
             /\ Goto(p, "consume")
    <3>1. Regularises(p)'  BY <1>7, <1>9, <2>5 DEF Regularises
    <3>2. TotalOwed' = TotalOwed /\ TotalOwed \in Nat  BY <1>7, <1>14, <2>1, <2>5, <3>1
    <3>3. recovered = 0 /\ guarantee.remaining = TotalOwed  BY <1>9, <2>1, <2>2, DeadlineSituation
    <3>4. recovered' = guarantee.remaining /\ recovered' \in Nat  BY <2>2, <2>5, <3>2, <3>3
    <3>5. Amounts'  BY <1>5, <2>1, <2>5, <3>4 DEF Amounts
    <3>6. Balances'
      <4>1. Someone("consume")'  BY <1>7, <2>5 DEF Someone
      <4>2. ~Withdrawn'  BY <1>2, <1>4 DEF Withdrawn
      <4> QED  BY <2>1, <2>2, <3>2, <3>3, <4>1, <4>2 DEF Balances
    <3> QED
      BY <1>2, <1>4, <1>7, <1>9, <1>13, <2>1, <2>2, <2>3, <2>5, <3>1, <3>4, <3>5, <3>6, DeadlineBalances
  <2> QED  BY <1>22, <2>4, <2>5 DEF CaptureCharge
<1>23. CASE FailGuarantee(p)
  <2>1. UNCHANGED <<hold, shares, charge, recovered>> /\ task[p].pc = "failGuarantee"
        /\ guarantee' = [guarantee EXCEPT !.status = "FAILED"]
    BY <1>23 DEF FailGuarantee, OnlyPledge, payers, At
  <2>2. task'[p].pc = "idle" /\ \A q \in Procs \ {p} : task'[q] = task[q]  BY <1>6, <1>23 DEF FailGuarantee
  <2>3. /\ NoUnpaid /\ guarantee.kind = "CARD_OFF_SESSION"
        /\ guarantee.status \notin {"absent", "RELEASED", "CONSUMED"}
    BY <1>9, <1>10, <2>1
  <2>4. /\ guarantee' \in GuaranteeRow /\ guarantee'.status = "FAILED" /\ guarantee'.kind = "CARD_OFF_SESSION"
        /\ guarantee'.remaining = guarantee.remaining
    BY <1>5, <2>1, <2>3 DEF GuaranteeRow
  <2>5. Regularises(p)'  BY <2>2 DEF Regularises
  <2>6. TotalOwed' = TotalOwed  BY <1>14, <2>1, <2>2, <2>5
  <2>7. recovered = 0 /\ guarantee.remaining = TotalOwed  BY <1>9, <2>1, <2>3, DeadlineSituation
  <2>8. NoUnpaid' /\ Amounts'  BY <1>5, <2>1, <2>3, <2>4 DEF NoUnpaid, Amounts
  <2>9. Balances'
    <3>1. ~Withdrawn'  BY <1>2, <1>4 DEF Withdrawn
    <3> QED  BY <2>1, <2>4, <2>6, <2>7, <3>1 DEF Balances
  <2> QED  BY <1>2, <1>4, <1>9, <1>13, <2>1, <2>2, <2>4, <2>5, <2>8, <2>9, DeadlineBalances
<1>24. CASE Consume(p)
  <2>1. UNCHANGED <<hold, shares, charge, recovered>> /\ task[p].pc = "consume"
        /\ guarantee' = [guarantee EXCEPT !.status = "CONSUMED", !.remaining = 0]
    BY <1>24 DEF Consume, OnlyPledge, payers, At
  <2>2. task'[p].pc = "idle" /\ \A q \in Procs \ {p} : task'[q] = task[q]  BY <1>6, <1>24 DEF Consume
  <2>3. /\ NoUnpaid /\ recovered = guarantee.remaining
        /\ guarantee.kind = "WALLET_RESERVE" => Reserved = 0
        /\ guarantee.status \notin {"absent", "RELEASED", "CONSUMED"}
    BY <1>9, <1>10, <2>1
  <2>4. /\ guarantee' \in GuaranteeRow /\ guarantee'.status = "CONSUMED" /\ guarantee'.kind = guarantee.kind
        /\ guarantee'.remaining = 0
    BY <1>5, <2>1 DEF GuaranteeRow
  <2>5. Regularises(p)'  BY <2>2 DEF Regularises
  <2>6. TotalOwed' = TotalOwed  BY <1>14, <2>1, <2>2, <2>5
  <2>7. guarantee.remaining = TotalOwed  BY <1>9, <2>1, <2>3, DeadlineSituation
  <2>8. NoUnpaid' /\ Amounts' /\ Reserved' = Reserved
    BY <1>5, <2>1, <2>3, <2>4 DEF NoUnpaid, Amounts, Reserved
  <2>9. Balances'
    <3>1. ~Withdrawn'  BY <1>2, <1>4 DEF Withdrawn
    <3> QED  BY <2>1, <2>3, <2>4, <2>6, <2>7, <2>8, <3>1 DEF Balances
  <2> QED  BY <1>2, <1>4, <1>9, <1>13, <2>1, <2>2, <2>4, <2>5, <2>8, <2>9, DeadlineBalances
<1> QED  BY <1>16, <1>17, <1>18, <1>19, <1>20, <1>21, <1>22, <1>23, <1>24

-----------------------------------------------------------------------------
(***************************************************************************)
(* The shares make up the bill.                                            *)
(***************************************************************************)
LEMMA WholePart ==
    ASSUME NEW m \in Nat, m > 0, NEW t \in Nat
    PROVE  t = m * (t \div m) + (t % m)
OBVIOUS

\* splitEvenly loses no cent: the parts after the first make up what it leaves.
LEMMA EvenRest ==
    ASSUME NEW n \in Nat, NEW total \in Nat, NEW f,
           \A s \in 1..n : f[s] = splitEvenly(total, n + 1)[s + 1]
    PROVE  SumFunctionOnSet(f, 1..n) = total - splitEvenly(total, n + 1)[1]
<1> DEFINE m == n + 1
           d == total \div m
           r == total % m
<1>1. m \in Nat /\ m > 0  OBVIOUS
<1>2. d \in Nat /\ r \in 0..n /\ total = m * d + r
  <2>1. total % (n + 1) \in 0..n  OBVIOUS
  <2>2. total \div (n + 1) \in Nat  OBVIOUS
  <2>3. total = (n + 1) * (total \div (n + 1)) + (total % (n + 1))
    <3>1. m \in Nat /\ m > 0  OBVIOUS
    <3> HIDE DEF m
    <3>2. total = m * (total \div m) + (total % m)  BY <3>1, WholePart
    <3> QED  BY <3>2 DEF m
  <2> QED  BY <2>1, <2>2, <2>3
<1>3. \A i \in 1..m : splitEvenly(total, m)[i] = d + (IF i <= r THEN 1 ELSE 0)  BY DEF splitEvenly
<1> HIDE DEF d, r
<1>4. \A s \in 1..n : f[s] = d + (IF s + 1 <= r THEN 1 ELSE 0)
  <2> SUFFICES ASSUME NEW s \in 1..n PROVE f[s] = d + (IF s + 1 <= r THEN 1 ELSE 0)  OBVIOUS
  <2>1. s + 1 \in 1..m  OBVIOUS
  <2> QED  BY <1>3, <2>1
<1>5. splitEvenly(total, m)[1] = d + (IF 1 <= r THEN 1 ELSE 0)  BY <1>1, <1>3
<1>6. m * d = n * d + d  BY <1>2
<1>7. n * d \in Int  BY <1>2
<1>8. CASE r = 0
  <2>1. \A s \in 1..n : f[s] = d + (IF s <= 0 THEN 1 ELSE 0)  BY <1>4, <1>8
  <2>2. SumFunctionOnSet(f, 1..n) = n * d + 0
    <3> PICK k : k = 0  OBVIOUS
    <3>1. \A s \in 1..n : f[s] = d + (IF s <= k THEN 1 ELSE 0)  BY <2>1
    <3>2. k \in 0..n /\ d \in Int  BY <1>2
    <3> HIDE DEF m
    <3>3. SumFunctionOnSet(f, 1..n) = n * d + k  BY <3>1, <3>2, SumParts
    <3> QED  BY <3>3
  <2> PICK e, ee : e = n * d /\ ee = m * d  OBVIOUS
  <2> QED  BY <1>2, <1>5, <1>6, <1>7, <1>8, <2>2
<1>9. CASE r # 0
  <2> PICK k : k = r - 1  OBVIOUS
  <2>1. k \in 0..n /\ d \in Int /\ r = k + 1  BY <1>2, <1>9
  <2>2. \A s \in 1..n : f[s] = d + (IF s <= k THEN 1 ELSE 0)  BY <1>4, <2>1
  <2> HIDE DEF m
  <2>3. SumFunctionOnSet(f, 1..n) = n * d + k  BY <2>1, <2>2, SumParts
  <2> PICK e, ee : e = n * d /\ ee = m * d  OBVIOUS
  <2>4. total = ee + r /\ ee = e + d /\ e \in Int /\ r \in Nat  BY <1>2, <1>6, <1>7
  <2>5. splitEvenly(total, m)[1] = d + 1  BY <1>5, <1>2, <2>1
  <2>6. SumFunctionOnSet(f, 1..n) = total - splitEvenly(total, m)[1]
    BY <2>1, <2>3, <2>4, <2>5
  <2> QED  BY <2>6 DEF m
<1> QED  BY <1>8, <1>9

LEMMA FeeRest ==
    ASSUME NEW n \in Nat, NEW fee \in Nat, NEW allocation, NEW f,
           \A s \in 1..n : f[s] = feeAmounts(fee, n + 1, allocation)[s + 1]
    PROVE  SumFunctionOnSet(f, 1..n) = fee - feeAmounts(fee, n + 1, allocation)[1]
<1>1. CASE allocation = "ORGANIZER"
  <2>1. ASSUME NEW s \in 1..n  PROVE f[s] = 0
    <3>1. s + 1 \in 1..(n + 1) /\ s + 1 # 1  OBVIOUS
    <3>2. feeAmounts(fee, n + 1, allocation)[s + 1] = 0  BY <1>1, <3>1 DEF feeAmounts
    <3> QED  BY <3>2
  <2>2. feeAmounts(fee, n + 1, allocation)[1] = fee  BY <1>1 DEF feeAmounts
  <2>3. IsFiniteSet(1..n)  BY FS_Interval
  <2>4. SumFunctionOnSet(f, 1..n) = 0  BY <2>1, <2>3, SumZero
  <2> QED  BY <2>2, <2>4
<1>2. CASE allocation # "ORGANIZER"
  <2>1. feeAmounts(fee, n + 1, allocation) = splitEvenly(fee, n + 1)  BY <1>2 DEF feeAmounts
  <2> QED  BY <2>1, EvenRest
<1> QED  BY <1>1, <1>2

\* The shares make up the price and the fee, to the cent.
LEMMA SharesAddUp ==
    ASSUME Shape, bill.guests \in Guests
    PROVE  /\ Guaranteed = Price + bill.fee - OrganizerShare /\ OrganizerShare \in Int
           /\ Price \in Nat /\ bill.fee \in Nat
<1> PICK n : n = bill.guests  OBVIOUS
<1>1. n \in Nat /\ bill.fee \in Nat /\ Price \in Nat  BY SplitAssumption DEF Shape
<1> DEFINE m == n + 1
           a == splitEvenly(Price, m)
           b == feeAmounts(bill.fee, m, bill.allocation)
           c == computeSplitShares(Price, m, bill.fee, bill.allocation)
           f == [s \in 1..n |-> a[s + 1]]
           g == [s \in 1..n |-> b[s + 1]]
           h == [s \in 1..n |-> c[s + 1]]
<1>2. \A i \in 1..m : c[i] = a[i] + b[i]  BY DEF computeSplitShares
<1>3. ASSUME NEW total \in Nat, NEW i \in 1..m  PROVE splitEvenly(total, m)[i] \in Int
  <2>1. m \in Nat /\ m > 0  BY <1>1
  <2>2. total \div m \in Int  BY <2>1
  <2> HIDE DEF m
  <2> QED  BY <2>2 DEF splitEvenly
<1>4. \A i \in 1..m : a[i] \in Int  BY <1>1, <1>3
<1>5. \A i \in 1..m : b[i] \in Int
  <2> SUFFICES ASSUME NEW i \in 1..m PROVE b[i] \in Int  OBVIOUS
  <2>1. splitEvenly(bill.fee, m)[i] \in Int  BY <1>1, <1>3
  <2> QED  BY <1>1, <2>1 DEF feeAmounts
<1>6. 1 \in 1..m /\ \A s \in 1..n : s + 1 \in 1..m  BY <1>1
<1>7. SumFunctionOnSet(f, 1..n) = Price - a[1]
  <2>1. \A s \in 1..n : f[s] = splitEvenly(Price, n + 1)[s + 1]  OBVIOUS
  <2> HIDE DEF f, g, h, b, c
  <2> QED  BY <1>1, <2>1, EvenRest
<1>8. SumFunctionOnSet(g, 1..n) = bill.fee - b[1]
  <2> PICK fee, al : fee = bill.fee /\ al = bill.allocation  OBVIOUS
  <2>1. \A s \in 1..n : g[s] = feeAmounts(fee, n + 1, al)[s + 1]  OBVIOUS
  <2>2. fee \in Nat  BY <1>1
  <2>3. b = feeAmounts(fee, n + 1, al)  OBVIOUS
  <2> HIDE DEF f, g, h, a, b, c
  <2>4. SumFunctionOnSet(g, 1..n) = fee - feeAmounts(fee, n + 1, al)[1]  BY <1>1, <2>1, <2>2, FeeRest
  <2> QED  BY <2>3, <2>4
<1>9. SumFunctionOnSet(h, 1..n) = SumFunctionOnSet(f, 1..n) + SumFunctionOnSet(g, 1..n)
  <2>1. \A s \in 1..n : f[s] = a[s + 1] /\ g[s] = b[s + 1] /\ h[s] = c[s + 1]  OBVIOUS
  <2> HIDE DEF f, g, h, a, b, c
  <2>2. \A s \in 1..n : f[s] \in Int /\ g[s] \in Int /\ h[s] = f[s] + g[s]
    BY <1>2, <1>4, <1>5, <1>6, <2>1
  <2>3. IsFiniteSet(1..n)  BY <1>1, FS_Interval
  <2> HIDE DEF m
  <2> PICK ff, gg, hh, D : ff = f /\ gg = g /\ hh = h /\ D = 1..n  OBVIOUS
  <2>4. \A s \in D : ff[s] \in Int /\ gg[s] \in Int /\ hh[s] = ff[s] + gg[s]  BY <2>2
  <2>5. IsFiniteSet(D)  BY <2>3
  <2>6. SumFunctionOnSet(hh, D) = SumFunctionOnSet(ff, D) + SumFunctionOnSet(gg, D)
    BY ONLY <2>4, <2>5, SumPlus
  <2> QED  BY <2>6
<1>10. Guaranteed = SumFunctionOnSet(h, 1..n) /\ OrganizerShare = c[1]
  BY DEF Guaranteed, SumFunction, DueBy, Due, OrganizerShare
<1>11. c[1] = a[1] + b[1] /\ a[1] \in Int /\ b[1] \in Int  BY <1>2, <1>4, <1>5, <1>6
<1> HIDE DEF a, b, c, f, g, h
<1> QED  BY <1>1, <1>7, <1>8, <1>9, <1>10, <1>11
-----------------------------------------------------------------------------
(***************************************************************************)
(* The invariant.                                                          *)
(***************************************************************************)
Premises == Alone /\ "requires_action" \notin ShareAnswers /\ FaultPoints \cap Irrecoverable = {}

LEMMA MoneyStart == Init => MoneyInv
<1> SUFFICES ASSUME Init PROVE MoneyInv  OBVIOUS
<1>1. \A p \in Procs : task[p].pc = "idle" /\ task[p].share = 0 /\ task[p].amount = 0
  BY DEF Init, Idle
<1>2. Amounts /\ guarantee.status = "absent" /\ recovered = 0 /\ booking = "CHECKOUT_PENDING"
  BY DEF Init, Amounts, GuaranteeRow, HoldRow
<1>3. Pledges  BY <1>1, <1>2 DEF Pledges, Before, After, Unsold
<1>4. Payers  BY <1>1 DEF Payers, Paying, Trying, Settling, Mirroring, Collecting
<1>5. TakenRight  BY DEF Init, TakenRight
<1>6. Deadline  BY <1>1 DEF Deadline, RegularisePc, Charging
<1>7. Over /\ Balances  BY <1>1, <1>2 DEF Over, Balances, Withdrawn, Someone
<1> QED  BY <1>2, <1>3, <1>4, <1>5, <1>6, <1>7 DEF MoneyInv

LEMMA MoneyStep ==
    ASSUME Premises, TakenInv, Kinds, MoneyInv, [Next]_vars
    PROVE  MoneyInv'
<1>1. TakenInv'
  <2>1. "recordShare" \notin FaultPoints  BY DEF Premises, Irrecoverable
  <2> QED  BY <2>1, TakenStep
<1>2. ASSUME NEW p \in Procs, Handle(p)  PROVE MoneyInv'
  BY <1>1, <1>2, CheckoutBalances, ClaimBalances, FaultBalances, PayerBalances, MakingBalances,
     PledgeBalances, GuaranteeBalances, RegulariseBalances
  DEF Handle, Premises
<1>3. ASSUME NEW p \in Procs, Start(p)  PROVE MoneyInv'
  BY <1>3, StartBalances, RegulariseBalances DEF Start, Premises
<1>4. CASE UNCHANGED vars
  <2>1. UNCHANGED <<bill, booking, guarantee, hold, shares, charge, recovered, task>>  BY <1>4 DEF vars
  <2>2. \A s \in Guests : DueBy(s)' = DueBy(s)  BY <2>1 DEF DueBy, Due
  <2>3. \A s \in Guests : (Owing(s)' <=> Owing(s)) /\ (Keeping(s)' <=> Keeping(s))
    BY <2>1 DEF Owing, Keeping
  <2>4. TotalOwed' = TotalOwed /\ TotalKept' = TotalKept
    BY <2>1, <2>3, OwedSame, KeptSame
  <2>5. Amounts' /\ Deadline' /\ Over'
    BY <2>1 DEF MoneyInv, Amounts, Deadline, NoUnpaid, Over, Reserved
  <2>6. Pledges'
    <3>1. Guaranteed' = Guaranteed  BY <2>1 DEF Guaranteed, DueBy, Due
    <3> QED  BY <2>1, <3>1 DEF MoneyInv, Pledges
  <2>7. Payers' /\ TakenRight'  BY <1>1, <2>1, <2>2 DEF MoneyInv, Payers, TakenRight, TakenInv, HandlersInOrder,
     Collecting, Paying, PayPc, Mirroring
  <2>8. Balances'
    <3>1. Reserved' = Reserved /\ (Withdrawn' <=> Withdrawn) /\ (Someone("consume")' <=> Someone("consume"))
          /\ (Someone("markReleased")' <=> Someone("markReleased"))
      BY <2>1 DEF Reserved, Withdrawn, Someone
    <3> QED  BY <2>1, <2>4, <3>1 DEF MoneyInv, Balances
  <2> QED  BY <2>5, <2>6, <2>7, <2>8 DEF MoneyInv
<1> QED  BY <1>2, <1>3, <1>4 DEF Next

-----------------------------------------------------------------------------
(***************************************************************************)
(* The properties.                                                         *)
(***************************************************************************)
LEMMA MoneyAlways ==
    ASSUME Premises
    PROVE  Spec => [](TakenInv /\ MoneyInv)
<1>1. Init => TakenInv /\ Kinds /\ MoneyInv  BY TakenStart, KindStart, MoneyStart
<1>2. TakenInv /\ Kinds /\ MoneyInv /\ [Next]_vars => (TakenInv /\ Kinds /\ MoneyInv)'
  <2>1. "recordShare" \notin FaultPoints  BY DEF Premises, Irrecoverable
  <2>2. TakenInv => Shape  BY DEF TakenInv
  <2> QED  BY <2>1, <2>2, TakenStep, KindStep, MoneyStep
<1> QED  BY <1>1, <1>2, PTL DEF Spec

\* What was taken for a share, and what is still owed for it, are its price.
LEMMA TakenAndOwed ==
    ASSUME Shape, SharesInOrder, TakenRight, Idling, bill.guests \in Guests
    PROVE  Taken + TotalOwed = Guaranteed /\ Taken \in Int
<1> DEFINE f == [s \in Guests |-> shares[s].taken]
           h == [s \in Guests |-> IF s <= bill.guests THEN DueBy(s) ELSE 0]
<1>1. ASSUME NEW s \in Guests
      PROVE  f[s] \in Int /\ Owed[s] \in Int /\ h[s] = f[s] + Owed[s]
  <2>1. Owing(s) <=> shares[s].status # "PAID"
    BY DEF Owing, Idling, At, Settling
  <2>2. shares[s].status = "PAID" => s <= bill.guests /\ shares[s].taken = DueBy(s)
    BY DEF SharesInOrder, TakenRight
  <2>3. shares[s].status # "PAID" => shares[s].taken = 0
    BY DEF TakenRight, Idling, At, Collecting
  <2>4. s <= bill.guests => DueBy(s) \in Nat  BY DueNat
  <2> QED  BY <2>1, <2>2, <2>3, <2>4 DEF Owed
<1>2. SumFunctionOnSet(h, Guests) = Guaranteed
  <2> DEFINE n == bill.guests
             e == [s \in 1..n |-> DueBy(s)]
  <2>1. 1..n \subseteq Guests /\ IsFiniteSet(1..n)  BY SplitAssumption, FS_Interval DEF Guests
  <2>2. Guaranteed = SumFunctionOnSet(e, 1..n)  BY DEF Guaranteed, SumFunction
  <2>3. \A s \in 1..n : e[s] = h[s]  BY <2>1
  <2>4. \A s \in Guests \ (1..n) : h[s] = 0  BY <2>1, GuestsFinite
  <2>5. \A s \in Guests : h[s] \in Int  BY <1>1
  <2> PICK hh, D, A : hh = h /\ D = Guests /\ A = 1..n  OBVIOUS
  <2> HIDE DEF h, e, n, f
  <2>6. SumFunctionOnSet(e, A) = SumFunctionOnSet(hh, A)
    <3> PICK ee : ee = e  OBVIOUS
    <3>1. \A s \in A : ee[s] = hh[s]  BY <2>3
    <3>2. IsFiniteSet(A)  BY <2>1
    <3>3. SumFunctionOnSet(ee, A) = SumFunctionOnSet(hh, A)  BY <3>1, <3>2, SumSame
    <3> QED  BY <3>3
  <2>7. IsFiniteSet(D) /\ A \subseteq D  BY <2>1, GuestsFinite
  <2>8. \A s \in D : hh[s] \in Int  BY <2>5
  <2>9. \A s \in D \ A : hh[s] = 0  BY <2>4
  <2>10. SumFunctionOnSet(hh, D) = SumFunctionOnSet(hh, A)  BY <2>7, <2>8, <2>9, SumWithin
  <2> QED  BY <2>2, <2>6, <2>10
<1>3. Taken = SumFunctionOnSet(f, Guests)  BY DEF Taken, SumFunction
<1> PICK ff, o, hh, D : ff = f /\ o = Owed /\ hh = h /\ D = Guests  OBVIOUS
<1>4. \A s \in D : ff[s] \in Int /\ o[s] \in Int /\ hh[s] = ff[s] + o[s]  BY <1>1
<1> HIDE DEF f, h
<1>5. IsFiniteSet(D)  BY GuestsFinite
<1>6. SumFunctionOnSet(hh, D) = SumFunctionOnSet(ff, D) + SumFunctionOnSet(o, D)  BY <1>4, <1>5, SumPlus
<1>7. SumFunctionOnSet(ff, D) \in Int  BY <1>4, <1>5, SumInt
<1> QED  BY <1>2, <1>3, <1>6, <1>7 DEF TotalOwed

\* Shares are created by a checkout that sold the booking.
LEMMA SoldSituation ==
    ASSUME TakenInv, MoneyInv, Sold
    PROVE  booking \notin Unsold /\ bill.guests \in Guests /\ guarantee.status # "absent" /\ ~Withdrawn
<1>1. booking \notin Unsold  BY DEF TakenInv, SharesInOrder, Blank, Sold
<1>2. bill.guests \in Guests  BY DEF TakenInv, SharesInOrder, Sold
<1> QED  BY <1>1, <1>2 DEF MoneyInv, Pledges, Withdrawn

(***************************************************************************)
(* Whatever is paid, refused or covered, in whatever order, what was       *)
(* collected and what is still guaranteed make up the price and the fee.   *)
(***************************************************************************)
THEOREM SplitMoneyConserved ==
    ASSUME Premises
    PROVE  Spec => []MoneyConserved
<1>1. TakenInv /\ MoneyInv => MoneyConserved
  <2> SUFFICES ASSUME TakenInv, MoneyInv, Idling, Sold, guarantee.status # "FAILED"
               PROVE  OrganizerShare + Taken + recovered + guarantee.remaining = Price + bill.fee
    BY DEF MoneyConserved
  <2>1. Shape  BY DEF TakenInv
  <2>2. bill.guests \in Guests /\ guarantee.status # "absent" /\ ~Withdrawn  BY SoldSituation
  <2>3. Guaranteed = Price + bill.fee - OrganizerShare /\ OrganizerShare \in Int
       /\ Price \in Nat /\ bill.fee \in Nat
    BY <2>1, <2>2, SharesAddUp
  <2>4. Taken + TotalOwed = Guaranteed /\ Taken \in Int
    BY <2>1, <2>2, TakenAndOwed DEF TakenInv, MoneyInv
  <2>5. ~Someone("consume")  BY DEF Idling, At, Someone
  <2>6. recovered + guarantee.remaining = TotalOwed
    <3>1. TotalOwed \in Nat  BY <2>1, OwedNat
    <3>2. guarantee.status # "CONSUMED" => recovered = 0 /\ guarantee.remaining = TotalOwed
      BY <2>2, <2>5 DEF MoneyInv, Balances
    <3>3. guarantee.status = "CONSUMED" => recovered = TotalOwed /\ guarantee.remaining = 0
      BY DEF MoneyInv, Balances
    <3> QED  BY <3>1, <3>2, <3>3
  <2>7. recovered \in Int /\ guarantee.remaining \in Int  BY DEF MoneyInv, Amounts, GuaranteeRow
  <2>8. Price \in Int /\ bill.fee \in Int  BY <2>3
  <2> PICK o, t, r, g, f, w : o = OrganizerShare /\ t = Taken /\ r = recovered /\ f = bill.fee
                              /\ g = guarantee.remaining /\ w = TotalOwed
    OBVIOUS
  <2>9. w \in Int  BY <2>1, OwedNat
  <2>10. t + w = Price + f - o  BY <2>3, <2>4
  <2>11. r + g = w  BY <2>6
  <2>12. o \in Int /\ t \in Int /\ r \in Int /\ g \in Int /\ f \in Int  BY <2>3, <2>4, <2>7, <2>8
  <2> QED  BY <2>8, <2>9, <2>10, <2>11, <2>12
<1> QED  BY <1>1, MoneyAlways, PTL

(***************************************************************************)
(* At every moment, also between the writes of a payment, the guarantee is *)
(* at least what the shares nobody paid come to.                           *)
(***************************************************************************)
THEOREM SplitGuaranteeCovers ==
    ASSUME Premises
    PROVE  Spec => []GuaranteeCoversUnpaid
<1>1. TakenInv /\ MoneyInv => GuaranteeCoversUnpaid
  <2> DEFINE g == [s \in Guests |-> IF shares[s].status \in Unpaid THEN DueBy(s) ELSE 0]
  <2> SUFFICES ASSUME TakenInv, MoneyInv, Sold, guarantee.status \in {"ACTIVE", "PARTIALLY_RELEASED"}
               PROVE  guarantee.remaining >= SumFunctionOnSet(g, Guests)
    BY DEF GuaranteeCoversUnpaid, SumFunction
  <2>1. Shape  BY DEF TakenInv
  <2>2. guarantee.remaining = TotalOwed  BY SoldSituation DEF MoneyInv, Balances
  <2>3. ASSUME NEW s \in Guests  PROVE g[s] \in Int /\ Owed[s] \in Int /\ g[s] <= Owed[s]
    <3>1. shares[s].status \in Unpaid => s <= bill.guests /\ Owing(s)
      BY DEF TakenInv, SharesInOrder, Owing, Unpaid
    <3>2. s <= bill.guests => DueBy(s) \in Nat  BY <2>1, DueNat
    <3> QED  BY <3>1, <3>2 DEF Owed
  <2> PICK gg, o, D : gg = g /\ o = Owed /\ D = Guests  OBVIOUS
  <2>4. \A s \in D : gg[s] \in Int /\ o[s] \in Int /\ gg[s] <= o[s]  BY <2>3
  <2> HIDE DEF g
  <2>5. IsFiniteSet(D)  BY GuestsFinite
  <2>6. SumFunctionOnSet(gg, D) <= SumFunctionOnSet(o, D)  BY <2>4, <2>5, SumMonotonic
  <2>7. SumFunctionOnSet(gg, D) \in Int /\ SumFunctionOnSet(o, D) \in Int  BY <2>4, <2>5, SumInt
  <2> QED  BY <2>2, <2>6, <2>7 DEF TotalOwed
<1> QED  BY <1>1, MoneyAlways, PTL

(***************************************************************************)
(* When no handler runs, the credits reserved for the guarantee are what   *)
(* remains of it, however many payments reduced it at the same time.       *)
(***************************************************************************)
THEOREM SplitHoldFollows ==
    ASSUME Premises
    PROVE  Spec => []HoldFollowsGuarantee
<1>1. TakenInv /\ MoneyInv => HoldFollowsGuarantee
  <2> SUFFICES ASSUME TakenInv, MoneyInv, Idling, guarantee.status \notin {"absent", "FAILED"},
                      guarantee.kind = "WALLET_RESERVE"
               PROVE  Reserved = guarantee.remaining
    BY DEF HoldFollowsGuarantee
  <2>1. ~Someone("consume") /\ ~Someone("markReleased")  BY DEF Idling, At, Someone
  <2>2. CASE guarantee.status # "CONSUMED" /\ ~Withdrawn
    <3>1. \A s \in Guests : Keeping(s) <=> Owing(s)  BY DEF Idling, At, Keeping, Mirroring
    <3>2. Kept = Owed  BY <3>1 DEF Kept, Owed
    <3> QED  BY <2>1, <2>2, <3>2 DEF MoneyInv, Balances, TotalKept, TotalOwed
  <2>3. CASE guarantee.status = "CONSUMED" \/ Withdrawn
    BY <2>3 DEF MoneyInv, Balances, Withdrawn
  <2> QED  BY <2>2, <2>3
<1> QED  BY <1>1, MoneyAlways, PTL

-----------------------------------------------------------------------------
(***************************************************************************)
(* Types.  The money a share takes is a number because a handler only      *)
(* works on a share of the bill, and the credits reserved are one because  *)
(* the guests are counted before the guarantee is laid down.               *)
(***************************************************************************)
Selling == CheckoutPc \ {"claim", "party", "reopen"}
OrganizerRow == [intent : IntentStatus, answer : Answer, payment : PaymentStatus]
ShareRow == [status : ShareStatus, intent : IntentStatus, answer : Answer, payment : PaymentStatus, taken : Nat]
ChargeRow == [intent : IntentStatus, answer : Answer, amount : Nat]

Placed(t) ==
    /\ t \in Task
    /\ t.pc \in PayPc => t.share \in Guests /\ t.share <= bill.guests
    /\ t.pc \in Selling => bill.guests \in Guests
    /\ t.pc = "invite" => t.share \in 1..bill.guests
    /\ \A s \in t.todo : s <= bill.guests

Listed(r) == r \in [Guests -> ShareRow] /\ \A s \in Guests : r[s].status # "absent" => s <= bill.guests

Rows ==
    /\ booking \in {"CHECKOUT_PENDING", "PAYMENT_PENDING", "CONFIRMED", "CANCEL_PENDING",
                    "CANCELED", "FAILED", "MANUAL_REVIEW"}
    /\ legacy \in {"free", "ours", "taken", "canceled"}
    /\ organizer \in OrganizerRow /\ guarantee \in GuaranteeRow /\ hold \in HoldRow
    /\ charge \in ChargeRow /\ recovered \in Nat
    /\ counts \in [{"requests", "pays", "regularisations", "faults"} -> Nat]

TypeInv ==
    /\ bill \in [writes : LegacyModes, guests : Parties, fee : Fees, allocation : Allocations]
    /\ Rows /\ Listed(shares)
    /\ task \in [Procs -> Task] /\ \A p \in Procs : Placed(task[p])

LEMMA IdlePlaced == Placed(Idle)
BY DEF Placed, Idle, Task, Answer, PayPc, Selling, CheckoutPc

LEMMA TypesStart == Init => TypeInv
<1> SUFFICES ASSUME Init PROVE TypeInv
  OBVIOUS
<1>1. task \in [Procs -> Task] /\ \A p \in Procs : Placed(task[p])
  BY IdlePlaced DEF Init, Placed
<1>2. Rows
  BY DEF Init, Rows, OrganizerRow, GuaranteeRow, HoldRow, ChargeRow, IntentStatus, Answer, PaymentStatus
<1>3. Listed(shares)
  BY DEF Init, Listed, ShareRow, ShareStatus, IntentStatus, Answer, PaymentStatus
<1> QED  BY <1>1, <1>2, <1>3 DEF Init, TypeInv

LEMMA TypesShape == TypeInv => Shape
BY DEF TypeInv, Listed, Shape, Task, TaskFields, ShareRow, ShareFields

\* A handler goes on to a place that is its own.
Onward(p) == \E t : Become(p, t) /\ Placed(t)

LEMMA TypesKept ==
    ASSUME TypeInv, NEW p \in Procs, Onward(p), bill' = bill, Listed(shares'), Rows'
    PROVE  TypeInv'
<1>1. PICK t : Become(p, t) /\ Placed(t)
  BY DEF Onward
<1>2. /\ task' \in [Procs -> Task] /\ task'[p] = t
      /\ \A q \in Procs : q # p => task'[q] = task[q]
  BY <1>1 DEF TypeInv, Become, Placed
<1>3. \A q \in Procs : Placed(task'[q])
  BY <1>1, <1>2 DEF TypeInv
<1>4. \A q \in Procs : Placed(task[q])'
  BY <1>3 DEF Placed
<1>5. Listed(shares)'
  BY DEF Listed
<1> QED  BY <1>2, <1>4, <1>5 DEF TypeInv

LEMMA Ended ==
    ASSUME NEW p, Done(p)
    PROVE  Onward(p)
BY IdlePlaced DEF Done, Onward

LEMMA Gone ==
    ASSUME TypeInv, NEW p \in Procs, NEW pc, Goto(p, pc),
           pc \in {"idle"} \cup CheckoutPc \cup PayPc \cup RegularisePc \cup CancelPc,
           pc \in PayPc => task[p].pc \in PayPc,
           pc \in Selling => task[p].pc \in Selling \/ bill.guests \in Guests,
           pc # "invite"
    PROVE  Onward(p)
<1>1. PICK t : t = [task[p] EXCEPT !.pc = pc]
  OBVIOUS
<1>2. task[p] \in Task /\ Placed(task[p])
  BY DEF TypeInv
<1>3. t \in Task /\ t.pc = pc /\ t.share = task[p].share /\ t.todo = task[p].todo
  BY <1>1, <1>2 DEF Task
<1>4. Placed(t)
  BY <1>2, <1>3 DEF Placed
<1> QED  BY <1>1, <1>4 DEF Goto, Onward

LEMMA GuaranteedNat ==
    ASSUME TypeInv, bill.guests \in Guests
    PROVE  Guaranteed \in Nat
<1> DEFINE n == bill.guests
           f == [s \in 1..n |-> DueBy(s)]
<1>1. 1..n \subseteq Guests /\ IsFiniteSet(1..n)
  BY SplitAssumption, FS_Interval DEF Guests
<1>2. \A s \in 1..n : f[s] \in Nat
  <2> SUFFICES ASSUME NEW s \in 1..n PROVE DueBy(s) \in Nat
    OBVIOUS
  <2>1. s \in Guests /\ s <= bill.guests  BY <1>1, GuestsFinite
  <2> QED  BY <2>1, TypesShape, DueNat
<1>3. Guaranteed = SumFunctionOnSet(f, 1..n)
  BY DEF Guaranteed, SumFunction
<1> HIDE DEF f, n
<1> QED  BY <1>1, <1>2, <1>3, SumNat

\* The handlers that write the booking, the slot in Doinsport or nothing
LEMMA BookingTypes ==
    ASSUME TypeInv, NEW p \in Procs,
           \/ Claim(p) \/ CheckParty(p) \/ Reopen(p) \/ Revert(p) \/ RefuseCredits(p) \/ LegacyAccepts(p)
           \/ LegacyCollides(p) \/ FailBooking(p) \/ Review(p) \/ Confirm(p)
           \/ CancelClaim(p) \/ CancelLegacy(p) \/ CancelDone(p) \/ LostAcceptance(p)
    PROVE  TypeInv'
<1> USE DEF PayPc, RegularisePc, CancelPc, CheckoutPc, Selling, At
<1>1. Onward(p)
  <2>1. ASSUME Claim(p) PROVE Onward(p)  BY <2>1, Gone, Ended DEF Claim
  <2>2. ASSUME CheckParty(p) PROVE Onward(p)
    <3>1. CASE bill.guests \in Guests  BY <2>2, <3>1, Gone DEF CheckParty
    <3>2. CASE bill.guests \notin Guests  BY <2>2, <3>2, Gone DEF CheckParty
    <3> QED  BY <3>1, <3>2
  <2>3. ASSUME Reopen(p) \/ Revert(p) \/ RefuseCredits(p) \/ FailBooking(p) \/ Review(p) \/ CancelDone(p) PROVE Onward(p)
    BY <2>3, Ended DEF Reopen, Revert, RefuseCredits, FailBooking, Review, CancelDone
  <2>4. ASSUME LegacyAccepts(p) \/ LegacyCollides(p) PROVE Onward(p)
    BY <2>4, Gone DEF LegacyAccepts, LegacyCollides
  <2>5. ASSUME Confirm(p) PROVE Onward(p)  BY <2>5, Gone DEF Confirm
  <2>6. ASSUME CancelClaim(p) PROVE Onward(p)
    <3>1. CASE bill.writes  BY <2>6, <3>1, Gone, Ended DEF CancelClaim
    <3>2. CASE ~bill.writes  BY <2>6, <3>2, Gone, Ended DEF CancelClaim
    <3> QED  BY <3>1, <3>2
  <2>7. ASSUME CancelLegacy(p) PROVE Onward(p)  BY <2>7, Gone, Ended DEF CancelLegacy
  <2>8. ASSUME LostAcceptance(p) PROVE Onward(p)
    <3>1. Goto(p, "review")  BY <2>8 DEF LostAcceptance, Faulty, Raise, Handler
    <3>2. task[p].pc = "legacy"  BY <2>8 DEF LostAcceptance, Faulty
    <3> QED  BY <3>1, <3>2, Gone
  <2> QED  BY <2>1, <2>2, <2>3, <2>4, <2>5, <2>6, <2>7, <2>8
<1>2. bill' = bill /\ UNCHANGED <<organizer, pledge, payers>>
  BY DEF Claim, CheckParty, Reopen, Revert, RefuseCredits, LegacyAccepts, LegacyCollides, FailBooking, Review,
         Confirm, CancelClaim, CancelLegacy, CancelDone, LostAcceptance, club
<1>3. UNCHANGED counts \/ Count("faults")
  BY DEF Claim, CheckParty, Reopen, Revert, RefuseCredits, LegacyAccepts, LegacyCollides, FailBooking, Review,
         Confirm, CancelClaim, CancelLegacy, CancelDone, LostAcceptance, Faulty
<1>4. /\ booking' \in {booking, "CHECKOUT_PENDING", "PAYMENT_PENDING", "CONFIRMED", "CANCEL_PENDING",
                       "CANCELED", "FAILED", "MANUAL_REVIEW"}
      /\ legacy' \in {legacy, "ours", "taken", "canceled"}
  BY DEF Claim, CheckParty, Reopen, Revert, RefuseCredits, LegacyAccepts, LegacyCollides, FailBooking, Review,
         Confirm, CancelClaim, CancelLegacy, CancelDone, LostAcceptance, club
<1>5. counts' \in [{"requests", "pays", "regularisations", "faults"} -> Nat]
  BY <1>3 DEF TypeInv, Rows, Count
<1>6. Rows'
  BY <1>2, <1>4, <1>5 DEF TypeInv, Rows, pledge, payers
<1>7. Listed(shares')
  BY <1>2 DEF TypeInv, payers
<1> QED  BY <1>1, <1>2, <1>6, <1>7, TypesKept

\* The handlers that write the payment of the organizer
LEMMA OrganizerTypes ==
    ASSUME TypeInv, NEW p \in Procs,
           \/ Authorize(p) \/ VoidOpen(p) \/ VoidOrphan(p) \/ InsertPayment(p) \/ VoidAuthorization(p)
           \/ CancelPayment(p) \/ Capture(p) \/ CaptureFailed(p) \/ RecordSuccess(p) \/ LostCapture(p)
    PROVE  TypeInv'
<1> USE DEF PayPc, RegularisePc, CancelPc, CheckoutPc, Selling, At
<1>1. Onward(p)
  <2>1. ASSUME Authorize(p) PROVE Onward(p)
    <3>1. PICK a \in Answers(organizer, Answer \ {"none"}) :
            Goto(p, CASE a = "requires_capture" -> "insertPayment"
                      [] a = "requires_action"  -> "voidOpen"
                      [] a = "failed"           -> "reopen"
                      [] OTHER                  -> "revert")
      BY <2>1 DEF Authorize
    <3>2. \E pc \in {"insertPayment", "voidOpen", "reopen", "revert"} : Goto(p, pc)
      BY <3>1
    <3>3. task[p].pc = "authorize"  BY <2>1 DEF Authorize
    <3> QED  BY <3>2, <3>3, Gone
  <2>2. ASSUME VoidOpen(p) \/ VoidOrphan(p) \/ InsertPayment(p) PROVE Onward(p)
    BY <2>2, Gone DEF VoidOpen, VoidOrphan, InsertPayment
  <2>3. ASSUME VoidAuthorization(p) \/ CancelPayment(p) PROVE Onward(p)
    BY <2>3, Gone DEF VoidAuthorization, CancelPayment
  <2>4. ASSUME Capture(p) PROVE Onward(p)  BY <2>4, Gone DEF Capture
  <2>5. ASSUME CaptureFailed(p) \/ RecordSuccess(p) PROVE Onward(p)
    BY <2>5, Gone DEF CaptureFailed, RecordSuccess
  <2>6. ASSUME LostCapture(p) PROVE Onward(p)
    <3>1. Goto(p, "captureFailed")  BY <2>6 DEF LostCapture, Faulty, Raise, Handler
    <3>2. task[p].pc = "capture"  BY <2>6 DEF LostCapture, Faulty
    <3> QED  BY <3>1, <3>2, Gone
  <2> QED  BY <2>1, <2>2, <2>3, <2>4, <2>5, <2>6
<1>2. bill' = bill /\ UNCHANGED <<booking, legacy, pledge, payers>>
  BY DEF Authorize, VoidOpen, VoidOrphan, InsertPayment, VoidAuthorization, CancelPayment, Capture, CaptureFailed,
         RecordSuccess, LostCapture
<1>3. UNCHANGED counts \/ Count("faults")
  BY DEF Authorize, VoidOpen, VoidOrphan, InsertPayment, VoidAuthorization, CancelPayment, Capture, CaptureFailed,
         RecordSuccess, LostCapture, Faulty
<1>4. organizer \in OrganizerRow
  BY DEF TypeInv, Rows
<1>5. organizer' \in OrganizerRow
  <2>1. ASSUME Authorize(p) PROVE organizer' \in OrganizerRow
    <3>1. PICK a \in Answers(organizer, Answer \ {"none"}) : organizer' = Asked(organizer, a)
      BY <2>1 DEF Authorize
    <3>2. a \in Answer /\ IntentFor(a) \in IntentStatus
      BY <1>4, <3>1 DEF OrganizerRow, Answers, Answer, IntentFor, IntentStatus
    <3> QED  BY <1>4, <3>1, <3>2 DEF Asked, OrganizerRow
  <2>2. ASSUME VoidOpen(p) \/ VoidOrphan(p) \/ VoidAuthorization(p) PROVE organizer' \in OrganizerRow
    <3>1. organizer' = Canceled(organizer)  BY <2>2 DEF VoidOpen, VoidOrphan, VoidAuthorization
    <3> QED  BY <1>4, <3>1 DEF Canceled, OrganizerRow, IntentStatus
  <2>3. ASSUME InsertPayment(p) \/ CancelPayment(p) \/ CaptureFailed(p) \/ RecordSuccess(p)
        PROVE  organizer' \in OrganizerRow
    BY <1>4, <2>3 DEF InsertPayment, CancelPayment, CaptureFailed, RecordSuccess, OrganizerRow, PaymentStatus
  <2>4. ASSUME Capture(p) \/ LostCapture(p) PROVE organizer' \in OrganizerRow
    BY <1>4, <2>4 DEF Capture, LostCapture, OrganizerRow, IntentStatus
  <2> QED  BY <2>1, <2>2, <2>3, <2>4
<1>6. counts' \in [{"requests", "pays", "regularisations", "faults"} -> Nat]
  BY <1>3 DEF TypeInv, Rows, Count
<1>7. Rows'
  BY <1>2, <1>5, <1>6 DEF TypeInv, Rows, pledge, payers
<1>8. Listed(shares')
  BY <1>2 DEF TypeInv, payers
<1> QED  BY <1>1, <1>2, <1>7, <1>8, TypesKept

\* A share of the bill in the hands of a payment
LEMMA ShareInHand ==
    ASSUME TypeInv, NEW p \in Procs, task[p].pc \in PayPc
    PROVE  /\ task[p].share \in Guests /\ task[p].share <= bill.guests
           /\ DueBy(task[p].share) \in Nat
           /\ Share(p) \in ShareRow
<1>1. task[p].share \in Guests /\ task[p].share <= bill.guests
  BY DEF TypeInv, Placed
<1> QED  BY <1>1, TypesShape, DueNat DEF TypeInv, Listed, Share

\* The handlers that write the guarantee and its hold
LEMMA PledgeTypes ==
    ASSUME TypeInv, NEW p \in Procs,
           \/ ReserveCredits(p) \/ InsertGuarantee(p) \/ ReleaseEntirely(p) \/ MarkReleased(p) \/ FindGuarantee(p)
           \/ ReleaseAmount(p) \/ Reread(p) \/ FindHold(p) \/ ReduceHold(p) \/ ReleaseHold(p) \/ MarkGuarantee(p)
           \/ FindRemaining(p) \/ FailGuarantee(p) \/ Consume(p)
    PROVE  TypeInv'
<1> USE DEF PayPc, RegularisePc, CancelPc, CheckoutPc, Selling, At
<1>0. guarantee \in GuaranteeRow /\ hold \in HoldRow /\ task[p] \in Task
  BY DEF TypeInv, Rows
<1>1. Onward(p)
  <2>1. ASSUME ReserveCredits(p) \/ ReleaseEntirely(p) \/ MarkReleased(p) PROVE Onward(p)
    BY <2>1, Gone DEF ReserveCredits, ReleaseEntirely, MarkReleased
  <2>2. ASSUME InsertGuarantee(p) PROVE Onward(p)
    <3>1. task[p].pc \in {"guarantee", "guaranteeRow"} /\ Goto(p, AfterGuarantee)
      BY <2>2 DEF InsertGuarantee
    <3>2. AfterGuarantee \in {"legacy", "capture"}  BY DEF AfterGuarantee
    <3> QED  BY <3>1, <3>2, Gone
  <2>3. ASSUME FindGuarantee(p) \/ ReleaseAmount(p) \/ ReduceHold(p) \/ ReleaseHold(p) PROVE Onward(p)
    BY <2>3, Gone, Ended DEF FindGuarantee, ReleaseAmount, ReduceHold, ReleaseHold
  <2>4. ASSUME Reread(p) PROVE Onward(p)
    <3>1. PICK t : /\ t = [task[p] EXCEPT !.amount = guarantee.remaining,
                             !.pc = IF guarantee.kind = "WALLET_RESERVE" THEN "findHold" ELSE "markGuarantee"]
                   /\ Become(p, t)
      BY <2>4 DEF Reread
    <3>2. /\ t \in Task /\ t.pc \in {"findHold", "markGuarantee"}
          /\ t.share = task[p].share /\ t.todo = task[p].todo
      BY <1>0, <3>1 DEF Task, GuaranteeRow
    <3>3. t.share \in Guests /\ t.share <= bill.guests
      BY <2>4, <3>2, ShareInHand DEF Reread
    <3> QED  BY <3>1, <3>2, <3>3 DEF Onward, Placed, TypeInv
  <2>5. ASSUME FindHold(p) PROVE Onward(p)
    <3>1. \E pc \in {"markGuarantee", "releaseHold", "reduceHold"} : Goto(p, pc)  BY <2>5 DEF FindHold
    <3>2. task[p].pc = "findHold"  BY <2>5 DEF FindHold
    <3> QED  BY <3>1, <3>2, Gone
  <2>6. ASSUME MarkGuarantee(p) \/ FailGuarantee(p) \/ Consume(p) PROVE Onward(p)
    BY <2>6, Ended DEF MarkGuarantee, FailGuarantee, Consume
  <2>7. ASSUME FindRemaining(p) PROVE Onward(p)
    <3>1. CASE Done(p)  BY <3>1, Ended
    <3>2. CASE ~Done(p)
      <4>1. PICK t : /\ t = [task[p] EXCEPT !.amount = guarantee.remaining,
                               !.pc = IF guarantee.kind = "WALLET_RESERVE" THEN "takeHold" ELSE "charge"]
                     /\ Become(p, t)
        BY <2>7, <3>2 DEF FindRemaining
      <4>2. t \in Task /\ t.pc \in {"takeHold", "charge"} /\ t.todo = task[p].todo
        BY <1>0, <4>1 DEF Task, GuaranteeRow
      <4> QED  BY <4>1, <4>2 DEF Onward, Placed, TypeInv
    <3> QED  BY <3>1, <3>2
  <2> QED  BY <2>1, <2>2, <2>3, <2>4, <2>5, <2>6, <2>7
<1>2. bill' = bill /\ UNCHANGED <<club, payers, counts>>
  BY DEF ReserveCredits, InsertGuarantee, ReleaseEntirely, MarkReleased, FindGuarantee, ReleaseAmount, Reread,
         FindHold, ReduceHold, ReleaseHold, MarkGuarantee, FindRemaining, FailGuarantee, Consume, OnlyPledge
<1>3. guarantee' \in GuaranteeRow /\ hold' \in HoldRow
  <2>1. ASSUME ReserveCredits(p) \/ InsertGuarantee(p) PROVE guarantee' \in GuaranteeRow /\ hold' \in HoldRow
    <3>1. task[p].pc \in Selling  BY <2>1 DEF ReserveCredits, InsertGuarantee
    <3>2. bill.guests \in Guests  BY <3>1 DEF TypeInv, Placed
    <3>3. Guaranteed \in Nat  BY <3>2, GuaranteedNat
    <3>4. task[p].kind \in {"WALLET_RESERVE", "CARD_OFF_SESSION"}  BY <1>0 DEF Task
    <3> QED  BY <1>0, <2>1, <3>3, <3>4 DEF ReserveCredits, InsertGuarantee, Pledged, GuaranteeRow, HoldRow
  <2>2. ASSUME ReleaseEntirely(p) \/ ReleaseHold(p) PROVE guarantee' \in GuaranteeRow /\ hold' \in HoldRow
    BY <1>0, <2>2 DEF ReleaseEntirely, ReleaseHold, HoldRow
  <2>6. ASSUME MarkReleased(p) \/ FailGuarantee(p) \/ Consume(p)
        PROVE  guarantee' \in GuaranteeRow /\ hold' \in HoldRow
    <3>1. \A status \in {"RELEASED", "CONSUMED"} :
            [guarantee EXCEPT !.status = status, !.remaining = 0] \in GuaranteeRow
      BY <1>0 DEF GuaranteeRow
    <3>2. [guarantee EXCEPT !.status = "FAILED"] \in GuaranteeRow
      BY <1>0 DEF GuaranteeRow
    <3> QED  BY <1>0, <2>6, <3>1, <3>2 DEF MarkReleased, FailGuarantee, Consume
  <2>7. ASSUME MarkGuarantee(p) PROVE guarantee' \in GuaranteeRow /\ hold' \in HoldRow
    BY <1>0, <2>7 DEF MarkGuarantee, GuaranteeRow
  <2>3. ASSUME ReleaseAmount(p) PROVE guarantee' \in GuaranteeRow /\ hold' \in HoldRow
    <3>1. DueBy(task[p].share) \in Nat  BY <2>3, ShareInHand DEF ReleaseAmount
    <3> QED  BY <1>0, <2>3, <3>1 DEF ReleaseAmount, GuaranteeRow
  <2>4. ASSUME ReduceHold(p) PROVE guarantee' \in GuaranteeRow /\ hold' \in HoldRow
    <3>1. DueBy(task[p].share) \in Nat  BY <2>4, ShareInHand DEF ReduceHold
    <3> QED  BY <1>0, <2>4, <3>1 DEF ReduceHold, HoldRow
  <2>5. ASSUME FindGuarantee(p) \/ Reread(p) \/ FindHold(p) \/ FindRemaining(p)
        PROVE  guarantee' \in GuaranteeRow /\ hold' \in HoldRow
    BY <1>0, <2>5 DEF FindGuarantee, Reread, FindHold, FindRemaining, pledge
  <2> QED  BY <2>1, <2>2, <2>3, <2>4, <2>5, <2>6, <2>7
<1>4. Rows'
  BY <1>2, <1>3 DEF TypeInv, Rows, club, payers
<1>5. Listed(shares')
  BY <1>2 DEF TypeInv, payers
<1> QED  BY <1>1, <1>2, <1>4, <1>5, TypesKept

LEMMA Rewritten ==
    ASSUME TypeInv, NEW p \in Procs, task[p].pc \in PayPc, NEW row \in ShareRow, Write(p, row)
    PROVE  Listed(shares')
<1> PICK s : s = task[p].share
  OBVIOUS
<1>1. s \in Guests /\ s <= bill.guests
  BY ShareInHand
<1>2. shares' = [shares EXCEPT ![s] = row] /\ shares \in [Guests -> ShareRow]
  BY DEF Write, TypeInv, Listed
<1>3. shares' \in [Guests -> ShareRow] /\ \A g \in Guests : g # s => shares'[g] = shares[g]
  BY <1>1, <1>2
<1> QED  BY <1>1, <1>3 DEF TypeInv, Listed

\* The calls of a payment that write its share
LEMMA PaymentTypes ==
    ASSUME TypeInv, NEW p \in Procs,
           \/ ClaimShare(p) \/ Debit(p) \/ AuthorizeShare(p) \/ InsertShare(p) \/ CaptureShare(p)
           \/ ShareFailed(p) \/ RecordShare(p) \/ Catch(p) \/ MarkPaid(p)
    PROVE  TypeInv'
<1> USE DEF PayPc, RegularisePc, CancelPc, CheckoutPc, Selling, At
<1>0. task[p].pc \in PayPc
  BY DEF ClaimShare, Debit, AuthorizeShare, InsertShare, CaptureShare, ShareFailed, RecordShare, Catch, MarkPaid
<1>1. bill' = bill /\ UNCHANGED <<club, pledge, charge, recovered, counts>>
  BY DEF ClaimShare, Debit, AuthorizeShare, InsertShare, CaptureShare, ShareFailed, RecordShare, Catch, MarkPaid,
         OnlyShares
<1>2. Rows'
  BY <1>1 DEF TypeInv, Rows, club, pledge
<1> PICK row, due : row = Share(p) /\ due = DueBy(task[p].share)
  OBVIOUS
<1>3. row \in ShareRow /\ due \in Nat
  BY <1>0, ShareInHand
<1>4. Collected(p) = [row EXCEPT !.taken = @ + due]
  BY DEF Collected
<1>5. Collected(p) \in ShareRow /\ [Collected(p) EXCEPT !.intent = "succeeded"] \in ShareRow
  <2>1. [row EXCEPT !.taken = @ + due] \in ShareRow
    <3>1. row.taken + due \in Nat
      BY <1>3 DEF ShareRow
    <3> QED  BY <1>3, <3>1 DEF ShareRow
  <2>2. \A r \in ShareRow : [r EXCEPT !.intent = "succeeded"] \in ShareRow
    BY DEF ShareRow, IntentStatus
  <2> QED  BY <1>4, <2>1, <2>2
<1>6. \A status \in ShareStatus : [row EXCEPT !.status = status] \in ShareRow
  BY <1>3 DEF ShareRow
<1>7. \A payment \in PaymentStatus : [row EXCEPT !.payment = payment] \in ShareRow
  BY <1>3 DEF ShareRow
<1>8. \A a \in Answer : Asked(row, a) \in ShareRow
  <2> SUFFICES ASSUME NEW a \in Answer PROVE Asked(row, a) \in ShareRow
    OBVIOUS
  <2>1. IntentFor(a) \in IntentStatus
    BY DEF Answer, IntentFor, IntentStatus
  <2> QED  BY <1>3, <2>1 DEF Asked, ShareRow
<1>9. ASSUME NEW r \in ShareRow, Write(p, r) PROVE Listed(shares')
  BY <1>0, <1>9, Rewritten
<1>10. ASSUME UNCHANGED shares PROVE Listed(shares')
  BY <1>10 DEF TypeInv
<1>11. Listed(shares')
  <2>1. ASSUME ClaimShare(p) \/ Catch(p) \/ MarkPaid(p) PROVE Listed(shares')
    <3>1. UNCHANGED shares \/ \E status \in ShareStatus : Write(p, [row EXCEPT !.status = status])
      BY <2>1 DEF ClaimShare, Catch, MarkPaid, ShareStatus
    <3> QED  BY <1>6, <1>9, <1>10, <3>1
  <2>2. ASSUME InsertShare(p) \/ ShareFailed(p) \/ RecordShare(p) PROVE Listed(shares')
    <3>1. UNCHANGED shares \/ \E payment \in PaymentStatus : Write(p, [row EXCEPT !.payment = payment])
      BY <2>2 DEF InsertShare, ShareFailed, RecordShare, PaymentStatus
    <3> QED  BY <1>7, <1>9, <1>10, <3>1
  <2>3. ASSUME Debit(p) \/ CaptureShare(p) PROVE Listed(shares')
    BY <1>5, <1>9, <1>10, <2>3 DEF Debit, CaptureShare
  <2>4. ASSUME AuthorizeShare(p) PROVE Listed(shares')
    <3>1. \E a \in Answers(row, ShareAnswers) : Write(p, Asked(row, a))
      BY <2>4 DEF AuthorizeShare
    <3>2. Answers(row, ShareAnswers) \subseteq Answer
      BY <1>3, SplitAssumption DEF Answers, Answer, ShareRow
    <3> QED  BY <1>8, <1>9, <3>1, <3>2
  <2> QED  BY <2>1, <2>2, <2>3, <2>4
<1>12. Onward(p)
  <2>1. ASSUME ~AuthorizeShare(p) PROVE Onward(p)
    <3>1. Done(p) \/ \E pc \in PayPc : Goto(p, pc)
      BY <2>1 DEF ClaimShare, Debit, InsertShare, CaptureShare, ShareFailed, RecordShare, Catch, MarkPaid
    <3>2. ASSUME NEW pc \in PayPc, Goto(p, pc) PROVE Onward(p)
      BY <1>0, <3>2, Gone
    <3> QED  BY <3>1, <3>2, Ended
  <2>2. ASSUME AuthorizeShare(p) PROVE Onward(p)
    <3>1. PICK a \in Answers(row, ShareAnswers) : \E pc \in {"catch", "insertShare"} :
            Become(p, [task[p] EXCEPT !.answer = a, !.pc = pc])
      BY <2>2 DEF AuthorizeShare
    <3> PICK pc \in {"catch", "insertShare"} : \E t \in {[task[p] EXCEPT !.answer = a, !.pc = pc]} : Become(p, t)
      BY <3>1
    <3> PICK t \in {[task[p] EXCEPT !.answer = a, !.pc = pc]} : Become(p, t)
      OBVIOUS
    <3>2. a \in Answer
      BY <1>3, SplitAssumption DEF Answers, Answer, ShareRow
    <3>3. task[p] \in Task /\ Placed(task[p])
      BY DEF TypeInv, Placed
    <3>4. /\ t \in Task /\ t.pc \in {"catch", "insertShare"}
          /\ t.share = task[p].share /\ t.todo = task[p].todo
      BY <3>2, <3>3 DEF Task
    <3> QED  BY <1>0, <3>3, <3>4 DEF Onward, Placed
  <2> QED  BY <2>1, <2>2
<1> QED  BY <1>1, <1>2, <1>11, <1>12, TypesKept

\* The rows of the guests are made, their invitations sent.
LEMMA SaleTypes ==
    ASSUME TypeInv, NEW p \in Procs, CreateShares(p) \/ Invite(p)
    PROVE  TypeInv'
<1>0. task[p] \in Task /\ Placed(task[p]) /\ shares \in [Guests -> ShareRow]
  BY DEF TypeInv, Listed
<1>1. bill' = bill /\ UNCHANGED <<club, pledge, charge, recovered, counts>>
  BY DEF CreateShares, Invite
<1>2. Rows'
  BY <1>1 DEF TypeInv, Rows, club, pledge
<1>3. /\ bill.guests \in Guests /\ Guests \subseteq Nat \ {0} /\ 1 \in Guests /\ 1 \in 1..bill.guests
      /\ \A n \in Nat \ {0} : n <= bill.guests => n \in Guests
  <2>1. bill.guests \in Guests
    BY <1>0 DEF CreateShares, Invite, At, Placed, Selling, CheckoutPc
  <2> QED  BY <2>1, SplitAssumption DEF Guests
<1>4. CASE CreateShares(p)
  <2>1. PICK t : t = [task[p] EXCEPT !.pc = "invite", !.share = 1] /\ Become(p, t)
    BY <1>4 DEF CreateShares
  <2>2. t \in Task /\ t.pc = "invite" /\ t.share = 1 /\ t.todo = task[p].todo
    BY <1>0, <1>3, <2>1 DEF Task, CheckoutPc
  <2>3. Placed(t)
    BY <1>0, <1>3, <2>2 DEF Placed, PayPc
  <2>4. \A s \in Guests : [shares[s] EXCEPT !.status = "OPEN"] \in ShareRow
    BY <1>0 DEF ShareRow, ShareStatus
  <2>5. Listed(shares')
    BY <1>0, <1>4, <2>4 DEF CreateShares, Listed, TypeInv
  <2> QED  BY <1>1, <1>2, <2>1, <2>3, <2>5, TypesKept DEF Onward
<1>5. CASE Invite(p)
  <2> PICK s : s = task[p].share
    OBVIOUS
  <2>1. s \in Guests /\ s <= bill.guests /\ task[p].pc = "invite"
    BY <1>0, <1>3, <1>5 DEF Invite, At, Placed
  <2>2. Listed(shares')
    <3>1. [shares[s] EXCEPT !.status = "INVITED"] \in ShareRow
      BY <1>0, <2>1 DEF ShareRow, ShareStatus
    <3>2. shares' = shares \/ shares' = [shares EXCEPT ![s] = [shares[s] EXCEPT !.status = "INVITED"]]
      BY <1>5 DEF Invite
    <3> QED  BY <1>0, <2>1, <3>1, <3>2 DEF Listed, TypeInv
  <2>3. Onward(p)
    <3>1. CASE s = bill.guests
      BY <1>5, <3>1, Ended DEF Invite
    <3>2. CASE s # bill.guests
      <4>1. PICK t : t = [task[p] EXCEPT !.share = s + 1] /\ Become(p, t)
        BY <1>5, <3>2 DEF Invite
      <4>2. s + 1 \in Guests /\ s + 1 \in 1..bill.guests
        <5> PICK n : n = bill.guests
          OBVIOUS
        <5>1. n \in Nat /\ s \in Nat \ {0} /\ s <= n /\ s # n
          BY <1>3, <2>1, <3>2
        <5>2. s + 1 \in Nat \ {0} /\ s + 1 <= n
          BY <5>1
        <5> QED  BY <1>3, <5>2
      <4>3. t \in Task /\ t.pc = "invite" /\ t.share = s + 1 /\ t.todo = task[p].todo
        BY <1>0, <2>1, <4>1, <4>2 DEF Task
      <4>4. Placed(t)
        BY <1>0, <1>3, <4>2, <4>3 DEF Placed, PayPc
      <4> QED  BY <4>1, <4>4 DEF Onward
    <3> QED  BY <3>1, <3>2
  <2> QED  BY <1>1, <1>2, <2>2, <2>3, TypesKept
<1> QED  BY <1>4, <1>5

\* The regularisation covers the shares nobody paid and takes the guarantee.
LEMMA DeadlineTypes ==
    ASSUME TypeInv, NEW p \in Procs,
           FindUnpaid(p) \/ Cover(p) \/ TakeHold(p) \/ ChargeSavedMethod(p) \/ CaptureCharge(p)
    PROVE  TypeInv'
<1>0. /\ task[p] \in Task /\ Placed(task[p]) /\ shares \in [Guests -> ShareRow]
      /\ hold \in HoldRow /\ charge \in ChargeRow /\ recovered \in Nat
  BY DEF TypeInv, Listed, Rows
<1> USE DEF PayPc, RegularisePc, CancelPc, CheckoutPc, Selling, At
<1>1. bill' = bill /\ UNCHANGED <<club, guarantee, counts>>
  BY DEF FindUnpaid, Cover, TakeHold, ChargeSavedMethod, CaptureCharge, OnlyShares, pledge
<1>2. CASE FindUnpaid(p)
  <2>1. PICK t : /\ t = [task[p] EXCEPT !.todo = {s \in Guests : shares[s].status \in Unpaid}, !.pc = "cover"]
                 /\ Become(p, t)
    BY <1>2 DEF FindUnpaid
  <2>2. t \in Task /\ t.pc = "cover" /\ t.todo = {s \in Guests : shares[s].status \in Unpaid}
    BY <1>0, <2>1 DEF Task
  <2>3. \A s \in t.todo : s <= bill.guests
    BY <2>2 DEF TypeInv, Listed, Unpaid
  <2>4. Onward(p)
    BY <2>1, <2>2, <2>3 DEF Onward, Placed
  <2>5. Listed(shares') /\ Rows'
    BY <1>2 DEF FindUnpaid, OnlyShares, TypeInv, Rows, club, pledge
  <2> QED  BY <1>1, <2>4, <2>5, TypesKept
<1>3. CASE Cover(p)
  <2>1. Rows'
    BY <1>3 DEF Cover, OnlyShares, TypeInv, Rows, club, pledge
  <2>2. CASE task[p].todo = {}
    <3>1. Listed(shares') /\ Goto(p, "findRemaining")
      BY <1>3, <2>2 DEF Cover, TypeInv
    <3> QED  BY <1>1, <2>1, <3>1, Gone, TypesKept
  <2>3. CASE task[p].todo # {}
    <3>1. PICK s \in task[p].todo :
            /\ shares' = [shares EXCEPT ![s] = [shares[s] EXCEPT !.status = "COVERED_BY_ORGANIZER"]]
            /\ Become(p, [task[p] EXCEPT !.todo = @ \ {s}])
      BY <1>3, <2>3 DEF Cover
    <3>2. s \in Guests /\ s <= bill.guests
      BY <1>0 DEF Task, Placed
    <3>3. [shares[s] EXCEPT !.status = "COVERED_BY_ORGANIZER"] \in ShareRow
      BY <1>0, <3>2 DEF ShareRow, ShareStatus
    <3>4. Listed(shares')
      BY <1>0, <3>1, <3>2, <3>3 DEF TypeInv, Listed
    <3>5. PICK t : t = [task[p] EXCEPT !.todo = @ \ {s}] /\ Become(p, t)
      BY <3>1
    <3>6. t \in Task /\ t.pc = task[p].pc /\ t.share = task[p].share /\ t.todo \subseteq task[p].todo
      BY <1>0, <3>5 DEF Task
    <3>7. Onward(p)
      BY <1>0, <3>5, <3>6 DEF Onward, Placed
    <3> QED  BY <1>1, <2>1, <3>4, <3>7, TypesKept
  <2> QED  BY <2>2, <2>3
<1>4. CASE TakeHold(p)
  <2>1. Onward(p)
    BY <1>4, Gone DEF TakeHold
  <2>2. UNCHANGED <<shares, charge>> /\ hold' \in HoldRow /\ recovered' \in Nat
    <3>1. CASE hold.status = "ACTIVE"
      BY <1>0, <1>4, <3>1 DEF TakeHold, HoldRow
    <3>2. CASE hold.status # "ACTIVE"
      BY <1>0, <1>4, <3>2 DEF TakeHold
    <3> QED  BY <3>1, <3>2
  <2>3. Listed(shares') /\ Rows'
    BY <1>1, <2>2 DEF TypeInv, Rows, club
  <2> QED  BY <1>1, <2>1, <2>3, TypesKept
<1>5. CASE ChargeSavedMethod(p)
  <2>1. PICK a \in Answers(charge, Answer \ {"none"}) :
          /\ charge' = IF charge.answer = "none"
                       THEN [Asked(charge, a) EXCEPT !.amount = task[p].amount] ELSE charge
          /\ Goto(p, "captureCharge") \/ Done(p) \/ Goto(p, "failGuarantee")
    BY <1>5 DEF ChargeSavedMethod
  <2>2. a \in Answer /\ IntentFor(a) \in IntentStatus /\ task[p].amount \in Nat
    <3>1. a \in Answer
      BY <1>0 DEF ChargeRow, Answers, Answer
    <3> QED  BY <1>0, <3>1 DEF Answer, IntentFor, IntentStatus, Task
  <2>3. charge' \in ChargeRow
    <3>1. Asked(charge, a) \in ChargeRow
      BY <1>0, <2>2 DEF Asked, ChargeRow
    <3> QED  BY <1>0, <2>1, <2>2, <3>1 DEF ChargeRow
  <2>4. Onward(p)
    BY <2>1, Gone, Ended
  <2>5. Listed(shares') /\ Rows'
    BY <1>1, <1>5, <2>3 DEF ChargeSavedMethod, TypeInv, Rows, club, pledge
  <2> QED  BY <1>1, <2>4, <2>5, TypesKept
<1>6. CASE CaptureCharge(p)
  <2>1. UNCHANGED <<shares, hold>> /\ charge' \in ChargeRow /\ recovered' \in Nat
    BY <1>0, <1>6 DEF CaptureCharge, ChargeRow, IntentStatus, pledge
  <2>2. Goto(p, "consume") \/ Goto(p, "failGuarantee")
    BY <1>6 DEF CaptureCharge
  <2>3. Onward(p)
    BY <2>2, Gone
  <2>4. Listed(shares') /\ Rows'
    BY <1>1, <2>1 DEF TypeInv, Rows, club
  <2> QED  BY <1>1, <2>3, <2>4, TypesKept
<1> QED  BY <1>2, <1>3, <1>4, <1>5, <1>6

\* A handler begins, or an exception sends it to its catch block.
LEMMA BeginTypes ==
    ASSUME TypeInv, NEW p \in Procs, Start(p) \/ Fault(p)
    PROVE  TypeInv'
<1> USE DEF PayPc, RegularisePc, CancelPc, CheckoutPc, Selling, At
<1>1. bill' = bill /\ UNCHANGED <<club, pledge, payers>>
  BY DEF Start, StartCheckout, StartPay, StartRegularise, StartCancel, Fault
<1>2. \E c \in {"requests", "pays", "regularisations", "faults"} : Count(c)
  BY DEF Start, StartCheckout, StartPay, StartRegularise, StartCancel, Fault, Faulty
<1>3. Listed(shares') /\ Rows'
  <2>1. counts' \in [{"requests", "pays", "regularisations", "faults"} -> Nat]
    BY <1>2 DEF TypeInv, Rows, Count
  <2> QED  BY <1>1, <2>1 DEF TypeInv, Rows, club, pledge, payers
<1>4. Onward(p)
  <2>1. CASE StartCheckout(p)
    <3>1. PICK k \in {"WALLET_RESERVE", "CARD_OFF_SESSION"} : \E t :
            t = [Idle EXCEPT !.op = "checkout", !.pc = "claim", !.kind = k] /\ Become(p, t)
      BY <2>1 DEF StartCheckout
    <3> PICK t : t = [Idle EXCEPT !.op = "checkout", !.pc = "claim", !.kind = k] /\ Become(p, t)
      BY <3>1
    <3>2. Placed(t)
      BY <3>1 DEF Idle, Placed, Task, Answer
    <3> QED  BY <3>1, <3>2 DEF Onward
  <2>2. CASE StartPay(p)
    <3>1. PICK s \in Guests : \E t :
            /\ shares[s].status = "INVITED"
            /\ t = [Idle EXCEPT !.op = "pay", !.pc = "claimShare", !.share = s] /\ Become(p, t)
      BY <2>2 DEF StartPay
    <3> PICK t : t = [Idle EXCEPT !.op = "pay", !.pc = "claimShare", !.share = s] /\ Become(p, t)
      BY <3>1
    <3>2. s <= bill.guests
      BY <3>1 DEF TypeInv, Listed
    <3>3. Placed(t)
      BY <3>1, <3>2 DEF Idle, Placed, Task, Answer
    <3> QED  BY <3>1, <3>3 DEF Onward
  <2>3. CASE StartRegularise(p) \/ StartCancel(p)
    <3>1. PICK t : /\ t \in {[Idle EXCEPT !.op = "regularise", !.pc = "findUnpaid"],
                              [Idle EXCEPT !.op = "cancel", !.pc = "cancelClaim"]}
                   /\ Become(p, t)
      BY <2>3 DEF StartRegularise, StartCancel
    <3>2. t \in Task /\ t.pc \in {"findUnpaid", "cancelClaim"} /\ t.todo = {}
      <4>1. CASE t = [Idle EXCEPT !.op = "regularise", !.pc = "findUnpaid"]
        BY <4>1 DEF Idle, Task, Answer
      <4>2. CASE t = [Idle EXCEPT !.op = "cancel", !.pc = "cancelClaim"]
        BY <4>2 DEF Idle, Task, Answer
      <4> QED  BY <3>1, <4>1, <4>2
    <3>3. Placed(t)
      BY <3>2 DEF Placed
    <3> QED  BY <3>1, <3>3 DEF Onward
  <2>4. CASE Fault(p)
    <3>1. PICK pc : pc = Handler(task[p].pc)
      OBVIOUS
    <3>2. pc \in {"revert", "reopen", "voidOrphan", "review", "captureFailed", "catch", "idle"}
      BY <3>1 DEF Handler
    <3>3. pc = "catch" => task[p].pc \in PayPc
      BY <3>1 DEF Handler
    <3>4. pc \in Selling => task[p].pc \in Selling
      BY <3>1 DEF Handler
    <3>5. Done(p) \/ Goto(p, pc)
      BY <2>4, <3>1 DEF Fault, Raise
    <3> QED  BY <3>2, <3>3, <3>4, <3>5, Gone, Ended
  <2> QED  BY <2>1, <2>2, <2>3, <2>4 DEF Start
<1> QED  BY <1>1, <1>3, <1>4, TypesKept

LEMMA TypesStep == TypeInv /\ [Next]_vars => TypeInv'
<1> SUFFICES ASSUME TypeInv, [Next]_vars PROVE TypeInv'
  OBVIOUS
<1>1. ASSUME NEW p \in Procs, Handle(p) PROVE TypeInv'
  BY <1>1, BookingTypes, OrganizerTypes, PledgeTypes, PaymentTypes, SaleTypes, DeadlineTypes, BeginTypes DEF Handle
<1>2. ASSUME NEW p \in Procs, Start(p) PROVE TypeInv'
  BY <1>2, BeginTypes
<1>3. ASSUME UNCHANGED vars PROVE TypeInv'
  BY <1>3 DEF vars, TypeInv, Rows, Listed, Placed
<1> QED  BY <1>1, <1>2, <1>3 DEF Next

(***************************************************************************)
(* The rows of the tables, the intents at Stripe and the handlers keep     *)
(* their types, whatever the handlers do and whichever call fails: a       *)
(* payment works on a share of the bill, whose amount is a number.         *)
(***************************************************************************)
THEOREM SplitTyped == Spec => []TypeOK
<1>1. TypeInv => TypeOK
  BY DEF TypeInv, TypeOK, Rows, Listed, OrganizerRow, GuaranteeRow, HoldRow, ShareRow, ChargeRow
<1> QED  BY TypesStart, TypesStep, <1>1, PTL DEF Spec
=============================================================================
