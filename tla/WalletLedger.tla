---------------------------- MODULE WalletLedger ----------------------------
(***************************************************************************)
(* The credits wallet of one customer: WalletService over WalletRepository *)
(* (apps/api/src/modules/wallet).  The ledger is append-only and the       *)
(* balance is never stored, so every operation reads aggregates, decides   *)
(* in memory and appends rows, one database call per step, without a       *)
(* transaction or a lock.  A member of Procs is an HTTP request, a webhook *)
(* or an admin action that may be inside one WalletService call; between   *)
(* two database calls any other one may run.                               *)
(*                                                                         *)
(* The rows themselves are abstracted to the sums the code reads back:     *)
(* balance by credit origin, debited and refunded by booking or bar        *)
(* account, and the audit rows of each hold.                               *)
(***************************************************************************)
EXTENDS Integers, FiniteSets, Functions

CONSTANTS
    Procs,      \* concurrent callers of the service
    Holds,      \* identifiers of wallet_holds rows
    Refs,       \* bookings and Nextore accounts that debits are attached to
    NoRef,      \* no booking: a manual adjustment
    NoHold,     \* no hold
    Amounts,    \* amounts in cents that callers pass
    Openings,   \* possible credits by origin at the start, see Init
    MaxCalls,   \* bound: calls started in a behaviour
    MaxAborts   \* bound: calls that die between two database calls

ASSUME WalletAssumption ==
    /\ NoHold \notin Holds
    /\ NoRef \notin Refs
    /\ Amounts \subseteq Nat \ {0}
    /\ Openings \subseteq [{"BONUS", "PAID", "ADMIN_COMP"} -> Nat]
    /\ MaxCalls \in Nat
    /\ MaxAborts \in Nat

\* One database and one server: finitely many rows and callers
ASSUME FiniteAssumption == IsFiniteSet(Holds) /\ IsFiniteSet(Procs)

VARIABLES
    balance,    \* sum of the balance-affecting rows, by origin
    debited,    \* sum of the debit rows, by reference and origin
    refunded,   \* sum of the refund rows, by reference and origin
    holds,      \* wallet_holds; opened is the amount at creation (history)
    audit,      \* sums of the rows that carry a walletHoldId
    call,       \* what each caller is doing
    calls,      \* number of calls started, for MaxCalls
    aborts      \* number of calls that died, for MaxAborts

db   == <<balance, debited, refunded, holds, audit>>
vars == <<balance, debited, refunded, holds, audit, call, calls, aborts>>

-----------------------------------------------------------------------------
Origins == {"BONUS", "PAID", "ADMIN_COMP"}
ZeroByOrigin == [o \in Origins |-> 0]
SumOf(f) == f["BONUS"] + f["PAID"] + f["ADMIN_COMP"]
Plus(f, g) == [o \in Origins |-> f[o] + g[o]]
Minus(f, g) == [o \in Origins |-> f[o] - g[o]]

HoldStatus == {"absent", "ACTIVE", "RELEASED", "CAPTURED"}
HoldRow == [status : HoldStatus, amount : Nat, opened : Nat, ref : Refs \cup {NoRef}]
AuditSums == [created : Nat, released : Nat, captured : Nat, debited : Nat]
NoRow == [status |-> "absent", amount |-> 0, opened |-> 0, ref |-> NoRef]
NoAudit == [created |-> 0, released |-> 0, captured |-> 0, debited |-> 0]

ByOrigin == [Origins -> Int]
CallState ==
    [pc : {"idle", "balance", "refundable", "bonus", "auditCreated", "find",
           "release", "reduce", "auditReleased", "capture", "auditCaptured"},
     op : {"none", "debit", "hold", "capture", "release", "refund", "credit"},
     ref : Refs \cup {NoRef}, hold : Holds \cup {NoHold},
     amount : Nat,          \* the argument, then what is left to write
     held : Nat,            \* hold.amountCents as findHoldById returned it
     seen : SUBSET {"total", "reserved", "origins", "debited", "refunded"},
     total : Int, reserved : [Holds -> Nat], origins : ByOrigin, refunded : ByOrigin]

NothingHeld == [h \in Holds |-> 0]

Idle == [pc |-> "idle", op |-> "none", ref |-> NoRef, hold |-> NoHold,
         amount |-> 0, held |-> 0, seen |-> {}, total |-> 0, reserved |-> NothingHeld,
         origins |-> ZeroByOrigin, refunded |-> ZeroByOrigin]

-----------------------------------------------------------------------------
(***************************************************************************)
(* The aggregates of the repository.                                       *)
(***************************************************************************)
Total == SumOf(balance)
SumOfHolds(amounts) == SumFunctionOnSet(amounts, Holds)
ActiveAmounts ==
    [h \in Holds |-> IF holds[h].status = "ACTIVE" THEN holds[h].amount ELSE 0]
Reserved == SumOfHolds(ActiveAmounts)

(***************************************************************************)
(* allocateAcrossOrigins: bonus first, then paid, then granted credits,    *)
(* never more than an origin holds.  The code throws unless the shares add *)
(* up to the amount.                                                       *)
(***************************************************************************)
TakeFrom(available, remaining) ==
    IF available <= 0 \/ remaining <= 0 THEN 0
    ELSE IF available <= remaining THEN available ELSE remaining

AllocateAcrossOrigins(amount, available) ==
    LET bonus == TakeFrom(available["BONUS"], amount)
        paid  == TakeFrom(available["PAID"], amount - bonus)
        comp  == TakeFrom(available["ADMIN_COMP"], amount - bonus - paid)
    IN  [o \in Origins |-> IF o = "BONUS" THEN bonus
                           ELSE IF o = "PAID" THEN paid ELSE comp]

(***************************************************************************)
(* allocateProportionally: pro rata of what is still refundable, leftover  *)
(* cents to the first origins with room.  Rows of amount 0 are not written.*)
(***************************************************************************)
AllocateProportionally(amount, refundable) ==
    LET total == SumOf(refundable)
        raw   == [o \in Origins |-> (refundable[o] * amount) \div total]
        room  == [o \in Origins |-> refundable[o] - raw[o]]
        extra == AllocateAcrossOrigins(amount - SumOf(raw), room)
    IN  IF total = 0 THEN ZeroByOrigin
        ELSE IF amount = total THEN refundable
        ELSE Plus(raw, extra)

Written(shares) == [o \in Origins |-> IF shares[o] > 0 THEN shares[o] ELSE 0]

-----------------------------------------------------------------------------
Init ==
    /\ balance \in Openings
    /\ debited = [r \in Refs |-> ZeroByOrigin]
    /\ refunded = [r \in Refs |-> ZeroByOrigin]
    /\ holds = [h \in Holds |-> NoRow]
    /\ audit = [h \in Holds |-> NoAudit]
    /\ call = [p \in Procs |-> Idle]
    /\ calls = 0
    /\ aborts = 0

Begin(p, c) ==
    /\ call[p].pc = "idle"
    /\ calls < MaxCalls
    /\ calls' = calls + 1
    /\ call' = [call EXCEPT ![p] = c]
    /\ UNCHANGED aborts

Goto(p, c) ==
    /\ call' = [call EXCEPT ![p] = c]
    /\ UNCHANGED <<calls, aborts>>

Return(p) == Goto(p, Idle)

(***************************************************************************)
(* Credits: one insert for a grant, two separate ones for a pack.          *)
(***************************************************************************)
CreditAdmin(p) ==
    \E a \in Amounts :
        /\ Begin(p, Idle)
        /\ balance' = [balance EXCEPT !["ADMIN_COMP"] = @ + a]
        /\ UNCHANGED <<debited, refunded, holds, audit>>

CreditPackPaid(p) ==
    \E a \in Amounts, bonus \in Amounts \cup {0} :
        /\ Begin(p, IF bonus = 0 THEN Idle
                    ELSE [Idle EXCEPT !.pc = "bonus", !.op = "credit", !.amount = bonus])
        /\ balance' = [balance EXCEPT !["PAID"] = @ + a]
        /\ UNCHANGED <<debited, refunded, holds, audit>>

CreditPackBonus(p) ==
    /\ call[p].pc = "bonus"
    /\ balance' = [balance EXCEPT !["BONUS"] = @ + call[p].amount]
    /\ Return(p)
    /\ UNCHANGED <<debited, refunded, holds, audit>>

(***************************************************************************)
(* getBalance: three aggregate queries in flight together, answered in any *)
(* order, each on its own snapshot.                                        *)
(***************************************************************************)
ReadTotal(p) ==
    /\ call[p].pc = "balance" /\ "total" \notin call[p].seen
    /\ Goto(p, [call[p] EXCEPT !.seen = @ \cup {"total"}, !.total = Total])
    /\ UNCHANGED db

ReadReserved(p) ==
    /\ call[p].pc = "balance" /\ "reserved" \notin call[p].seen
    /\ Goto(p, [call[p] EXCEPT !.seen = @ \cup {"reserved"}, !.reserved = ActiveAmounts])
    /\ UNCHANGED db

ReadOrigins(p) ==
    /\ call[p].pc = "balance" /\ "origins" \notin call[p].seen
    /\ Goto(p, [call[p] EXCEPT !.seen = @ \cup {"origins"}, !.origins = balance])
    /\ UNCHANGED db

BalanceRead(p, op) ==
    /\ call[p].pc = "balance"
    /\ call[p].op = op
    /\ call[p].seen = {"total", "reserved", "origins"}

\* mutant: the reservations are forgotten
SufficientTotal(c) == c.total >= c.amount

Sufficient(c) == c.total - SumOfHolds(c.reserved) >= c.amount

(***************************************************************************)
(* debitAdmin, debitForBooking, debitForNextoreAccount: the availability   *)
(* check uses the aggregates read above; the rows go in with one insert.   *)
(***************************************************************************)
StartDebit(p) ==
    \E r \in Refs \cup {NoRef}, a \in Amounts :
        /\ Begin(p, [Idle EXCEPT !.pc = "balance", !.op = "debit",
                                 !.ref = r, !.amount = a])
        /\ UNCHANGED db

WriteDebit(p) ==
    LET c == call[p]
        take == AllocateAcrossOrigins(c.amount, c.origins)
    IN  /\ BalanceRead(p, "debit")
        /\ Sufficient(c)
        /\ SumOf(take) = c.amount
        /\ balance' = Minus(balance, take)
        /\ debited' = IF c.ref = NoRef THEN debited
                      ELSE [debited EXCEPT ![c.ref] = Plus(@, take)]
        /\ Return(p)
        /\ UNCHANGED <<refunded, holds, audit>>

\* InsufficientWalletBalanceError, or the "internal incoherence" error
RejectDebit(p) ==
    LET c == call[p]
    IN  /\ BalanceRead(p, "debit")
        /\ \/ ~Sufficient(c)
           \/ SumOf(AllocateAcrossOrigins(c.amount, c.origins)) # c.amount
        /\ Return(p)
        /\ UNCHANGED db

(***************************************************************************)
(* createHold: balance, hold row, audit row.                               *)
(***************************************************************************)
StartCreateHold(p) ==
    \E r \in Refs, a \in Amounts :
        /\ Begin(p, [Idle EXCEPT !.pc = "balance", !.op = "hold",
                                 !.ref = r, !.amount = a])
        /\ UNCHANGED db

InsertHold(p) ==
    /\ BalanceRead(p, "hold")
    /\ Sufficient(call[p])
    /\ \E h \in Holds :
        /\ holds[h].status = "absent"
        /\ holds' = [holds EXCEPT ![h] =
                        [status |-> "ACTIVE", amount |-> call[p].amount,
                         opened |-> call[p].amount, ref |-> call[p].ref]]
        /\ Goto(p, [call[p] EXCEPT !.pc = "auditCreated", !.hold = h])
    /\ UNCHANGED <<balance, debited, refunded, audit>>

RejectHold(p) ==
    /\ BalanceRead(p, "hold")
    /\ ~Sufficient(call[p])
    /\ Return(p)
    /\ UNCHANGED db

AuditCreated(p) ==
    /\ call[p].pc = "auditCreated"
    /\ audit' = [audit EXCEPT ![call[p].hold].created = @ + call[p].amount]
    /\ Return(p)
    /\ UNCHANGED <<balance, debited, refunded, holds>>

(***************************************************************************)
(* releaseHold: read, conditional transition, audit row with the amount    *)
(* that was read.  releaseHoldPartially falls back on it when the amount   *)
(* reaches what it read, otherwise decrements the row conditionally.       *)
(***************************************************************************)
FoundForRelease(h) ==
    [Idle EXCEPT !.pc = "release", !.op = "release", !.hold = h,
                 !.held = holds[h].amount]

StartRelease(p) ==
    \E h \in Holds :
        /\ holds[h].status # "absent"
        /\ Begin(p, FoundForRelease(h))
        /\ UNCHANGED db

StartReleasePartially(p) ==
    \E h \in Holds, a \in Amounts :
        /\ holds[h].status = "ACTIVE"
        /\ Begin(p, [Idle EXCEPT !.op = "release", !.hold = h, !.amount = a,
                        !.pc = IF a >= holds[h].amount THEN "find" ELSE "reduce"])
        /\ UNCHANGED db

FindAgain(p) ==
    /\ call[p].pc = "find"
    /\ Goto(p, FoundForRelease(call[p].hold))
    /\ UNCHANGED db

\* mutant: findUnique then update, instead of the conditional update
TransitionReleasedBlindly(p) ==
    /\ call[p].pc = "release"
    /\ holds' = [holds EXCEPT ![call[p].hold].status = "RELEASED"]
    /\ Goto(p, [call[p] EXCEPT !.pc = "auditReleased"])
    /\ UNCHANGED <<balance, debited, refunded, audit>>

TransitionReleased(p) ==
    LET h == call[p].hold
    IN  /\ call[p].pc = "release"
        /\ IF holds[h].status = "ACTIVE"
           THEN /\ holds' = [holds EXCEPT ![h].status = "RELEASED"]
                /\ Goto(p, [call[p] EXCEPT !.pc = "auditReleased"])
           ELSE Return(p) /\ UNCHANGED holds
        /\ UNCHANGED <<balance, debited, refunded, audit>>

ReduceHoldAmount(p) ==
    LET c == call[p]
    IN  /\ c.pc = "reduce"
        /\ IF holds[c.hold].status = "ACTIVE" /\ holds[c.hold].amount >= c.amount
           THEN /\ holds' = [holds EXCEPT ![c.hold].amount = @ - c.amount]
                /\ Goto(p, [c EXCEPT !.pc = "auditReleased", !.held = c.amount])
           ELSE Return(p) /\ UNCHANGED holds
        /\ UNCHANGED <<balance, debited, refunded, audit>>

AuditReleased(p) ==
    /\ call[p].pc = "auditReleased"
    /\ audit' = [audit EXCEPT ![call[p].hold].released = @ + call[p].held]
    /\ Return(p)
    /\ UNCHANGED <<balance, debited, refunded, holds>>

(***************************************************************************)
(* captureHold: read, conditional transition, balance, debit rows for the  *)
(* amount that was read first, audit row.  When the origins no longer      *)
(* cover the amount the code throws after the transition.                  *)
(***************************************************************************)
StartCapture(p) ==
    \E h \in Holds :
        /\ holds[h].status # "absent"
        /\ Begin(p, [Idle EXCEPT !.pc = "capture", !.op = "capture", !.hold = h,
                                 !.ref = holds[h].ref, !.held = holds[h].amount])
        /\ UNCHANGED db

\* mutant: the status is not tested in the same statement as the update
TransitionCapturedBlindly(p) ==
    /\ call[p].pc = "capture"
    /\ holds' = [holds EXCEPT ![call[p].hold].status = "CAPTURED"]
    /\ Goto(p, [call[p] EXCEPT !.pc = "balance"])
    /\ UNCHANGED <<balance, debited, refunded, audit>>

TransitionCaptured(p) ==
    LET h == call[p].hold
    IN  /\ call[p].pc = "capture"
        /\ IF holds[h].status = "ACTIVE"
           THEN /\ holds' = [holds EXCEPT ![h].status = "CAPTURED"]
                /\ Goto(p, [call[p] EXCEPT !.pc = "balance"])
           ELSE Return(p) /\ UNCHANGED holds
        /\ UNCHANGED <<balance, debited, refunded, audit>>

WriteCapture(p) ==
    LET c == call[p]
        take == AllocateAcrossOrigins(c.held, c.origins)
    IN  /\ BalanceRead(p, "capture")
        /\ SumOf(take) = c.held
        /\ balance' = Minus(balance, take)
        /\ debited' = [debited EXCEPT ![c.ref] = Plus(@, take)]
        /\ audit' = [audit EXCEPT ![c.hold].debited = @ + c.held]
        /\ Goto(p, [c EXCEPT !.pc = "auditCaptured"])
        /\ UNCHANGED <<refunded, holds>>

FailCapture(p) ==
    /\ BalanceRead(p, "capture")
    /\ SumOf(AllocateAcrossOrigins(call[p].held, call[p].origins)) # call[p].held
    /\ Return(p)
    /\ UNCHANGED db

AuditCaptured(p) ==
    /\ call[p].pc = "auditCaptured"
    /\ audit' = [audit EXCEPT ![call[p].hold].captured = @ + call[p].held]
    /\ Return(p)
    /\ UNCHANGED <<balance, debited, refunded, holds>>

(***************************************************************************)
(* refundForBooking, refundForNextoreAccount: two parallel sums, then the  *)
(* refund rows with one insert.                                            *)
(***************************************************************************)
StartRefund(p) ==
    \E r \in Refs, a \in Amounts :
        /\ Begin(p, [Idle EXCEPT !.pc = "refundable", !.op = "refund",
                                 !.ref = r, !.amount = a])
        /\ UNCHANGED db

ReadDebited(p) ==
    /\ call[p].pc = "refundable" /\ "debited" \notin call[p].seen
    /\ Goto(p, [call[p] EXCEPT !.seen = @ \cup {"debited"},
                               !.origins = debited[call[p].ref]])
    /\ UNCHANGED db

ReadRefunded(p) ==
    /\ call[p].pc = "refundable" /\ "refunded" \notin call[p].seen
    /\ Goto(p, [call[p] EXCEPT !.seen = @ \cup {"refunded"},
                               !.refunded = refunded[call[p].ref]])
    /\ UNCHANGED db

\* mutant: earlier refunds are not subtracted
WriteRefundAgain(p) ==
    LET c == call[p]
        rows == Written(AllocateProportionally(c.amount, c.origins))
    IN  /\ c.pc = "refundable" /\ c.seen = {"debited", "refunded"}
        /\ IF c.amount > SumOf(c.origins)
           THEN UNCHANGED <<balance, refunded>>
           ELSE /\ balance' = Plus(balance, rows)
                /\ refunded' = [refunded EXCEPT ![c.ref] = Plus(@, rows)]
        /\ Return(p)
        /\ UNCHANGED <<debited, holds, audit>>

WriteRefund(p) ==
    LET c == call[p]
        refundable == Minus(c.origins, c.refunded)
        rows == Written(AllocateProportionally(c.amount, refundable))
    IN  /\ c.pc = "refundable" /\ c.seen = {"debited", "refunded"}
        /\ IF c.amount > SumOf(refundable)
           THEN UNCHANGED <<balance, refunded>>
           ELSE /\ balance' = Plus(balance, rows)
                /\ refunded' = [refunded EXCEPT ![c.ref] = Plus(@, rows)]
        /\ Return(p)
        /\ UNCHANGED <<debited, holds, audit>>

(***************************************************************************)
(* A call dies between two database calls: the server stops, the           *)
(* connection drops, the next query is refused.                            *)
(***************************************************************************)
Abort(p) ==
    /\ call[p].pc # "idle"
    /\ aborts < MaxAborts
    /\ aborts' = aborts + 1
    /\ call' = [call EXCEPT ![p] = Idle]
    /\ UNCHANGED <<db, calls>>

Step(p) ==
    \/ CreditAdmin(p) \/ CreditPackPaid(p) \/ CreditPackBonus(p)
    \/ ReadTotal(p) \/ ReadReserved(p) \/ ReadOrigins(p)
    \/ StartDebit(p) \/ WriteDebit(p) \/ RejectDebit(p)
    \/ StartCreateHold(p) \/ InsertHold(p) \/ RejectHold(p) \/ AuditCreated(p)
    \/ StartRelease(p) \/ StartReleasePartially(p) \/ FindAgain(p)
    \/ TransitionReleased(p) \/ ReduceHoldAmount(p) \/ AuditReleased(p)
    \/ StartCapture(p) \/ TransitionCaptured(p) \/ WriteCapture(p)
    \/ FailCapture(p) \/ AuditCaptured(p)
    \/ StartRefund(p) \/ ReadDebited(p) \/ ReadRefunded(p) \/ WriteRefund(p)
    \/ Abort(p)

Next == \E p \in Procs : Step(p)

Spec == Init /\ [][Next]_vars

(***************************************************************************)
(* No lock orders the calls.  What must not overlap for the ledger to keep *)
(* its promises: two calls that spend credits (they read the balance and   *)
(* write later), two calls on one hold, two refunds of one reference.      *)
(* Grants and packs, releases of other holds and refunds of other          *)
(* references may run beside any of them.                                  *)
(***************************************************************************)
Apart ==
    \A p, q \in Procs : p # q =>
        /\ ~({call[p].op, call[q].op} \subseteq {"debit", "hold", "capture"})
        /\ {call[p].op, call[q].op} \subseteq {"release", "capture"} => call[p].hold # call[q].hold
        /\ {call[p].op, call[q].op} = {"refund"} => call[p].ref # call[q].ref

ApartSpec == Init /\ [][Next /\ Apart']_vars

-----------------------------------------------------------------------------
TypeOK ==
    /\ balance \in ByOrigin
    /\ debited \in [Refs -> [Origins -> Nat]]
    /\ refunded \in [Refs -> [Origins -> Nat]]
    /\ holds \in [Holds -> HoldRow]
    /\ audit \in [Holds -> AuditSums]
    /\ call \in [Procs -> CallState]
    /\ calls \in 0..MaxCalls
    /\ aborts \in 0..MaxAborts

\* captureHold, releaseHold: whatever requests, webhooks and admin actions do
\* to a hold at the same time, it is spent at most once, never after it was
\* released, and never for more than was reserved when it was created.
HoldSpentAtMostOnce ==
    \A h \in Holds :
        /\ audit[h].debited <= holds[h].opened
        /\ audit[h].debited > 0 => holds[h].status = "CAPTURED"

Quiet == \A p \in Procs : call[p].pc = "idle"

\* The audit trail of a hold explains it: when no call is running and none
\* died, what was reserved equals what HOLD_RELEASED rows gave back, plus what
\* DEBIT_BOOKING rows spent, plus what is still reserved.
HoldAccounted ==
    /\ Quiet /\ aborts = 0 =>
        \A h \in Holds :
            /\ audit[h].created = holds[h].opened
            /\ audit[h].captured = audit[h].debited
            /\ holds[h].opened = audit[h].released + audit[h].debited
                    + (IF holds[h].status = "ACTIVE" THEN holds[h].amount ELSE 0)
    /\ Quiet => \A h \in Holds : holds[h].status = "ACTIVE" => holds[h].amount > 0

\* debitForBooking and its siblings write nothing when the available balance is
\* too small: reservations never exceed the credits of the wallet.
NoOverdraft == Total >= Reserved

\* refundForBooking, refundForNextoreAccount: successive refunds never give
\* back more of an origin than was debited from it for that reference.
RefundsWithinDebits ==
    \A o \in Origins : balance[o] >= 0 /\ \A r \in Refs : refunded[r][o] <= debited[r][o]

(***************************************************************************)
(* The account of ADR 0007 that the ledger implements.  A capture counts   *)
(* as reserved from its transition until its debit rows are written.       *)
(***************************************************************************)
Pending(c) == c.op = "capture" /\ c.pc = "balance"
Unsettled == SumFunctionOnSet([p \in Procs |-> IF Pending(call[p]) THEN call[p].held ELSE 0], Procs)

Account == INSTANCE CreditAccount WITH total <- Total, reserved <- Reserved + Unsettled

\* With the calls apart the ledger implements that account: what is reserved
\* is always covered, and every change of either sum is one of its operations.
ImplementsAccount == Account!Spec
=============================================================================
