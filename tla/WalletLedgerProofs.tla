------------------------- MODULE WalletLedgerProofs -------------------------
(***************************************************************************)
(* Type correctness of the wallet and the safety of its holds, for any     *)
(* number of concurrent callers, holds, references and calls; then, with   *)
(* the calls that must not overlap apart, that its rows add up and that it *)
(* implements the account of ADR 0007.                                     *)
(***************************************************************************)
EXTENDS WalletLedger, Sums

-----------------------------------------------------------------------------
\* allocateAcrossOrigins returns a non-negative share of every origin.
LEMMA AllocateType ==
    ASSUME NEW a \in Int, NEW f \in ByOrigin
    PROVE  AllocateAcrossOrigins(a, f) \in [Origins -> Nat]
<1> DEFINE b == TakeFrom(f["BONUS"], a)
           p == TakeFrom(f["PAID"], a - b)
           c == TakeFrom(f["ADMIN_COMP"], a - b - p)
<1>1. b \in Nat  BY DEF TakeFrom, ByOrigin, Origins
<1>2. p \in Nat  BY <1>1 DEF TakeFrom, ByOrigin, Origins
<1>3. c \in Nat  BY <1>1, <1>2 DEF TakeFrom, ByOrigin, Origins
<1>4. QED  BY <1>1, <1>2, <1>3 DEF AllocateAcrossOrigins, Origins

\* The refund rows that are written carry non-negative amounts.
LEMMA WrittenType ==
    ASSUME NEW f
    PROVE  f \in ByOrigin => Written(f) \in [Origins -> Nat]
BY DEF Written, ByOrigin, Origins

\* allocateProportionally returns an amount for every origin as soon as the
\* refundable total is not negative.
LEMMA ProportionalType ==
    ASSUME NEW a \in Nat, NEW f \in ByOrigin, SumOf(f) \in Nat
    PROVE  AllocateProportionally(a, f) \in ByOrigin
<1> DEFINE total == SumOf(f)
           raw   == [o \in Origins |-> (f[o] * a) \div total]
           room  == [o \in Origins |-> f[o] - raw[o]]
           extra == AllocateAcrossOrigins(a - SumOf(raw), room)
<1>1. CASE total = 0
  BY <1>1 DEF AllocateProportionally, ZeroByOrigin, ByOrigin
<1>2. CASE total > 0
  <2>1. ASSUME NEW o \in Origins PROVE (f[o] * a) \div total \in Int
    <3>1. f[o] * a \in Int  BY <2>1 DEF ByOrigin
    <3>2. total \in Nat \ {0}  BY <1>2
    <3> HIDE DEF total
    <3>3. QED  BY <3>1, <3>2
  <2>2. raw \in ByOrigin  BY <2>1 DEF ByOrigin
  <2> HIDE DEF raw
  <2>3. room \in ByOrigin  BY <2>2 DEF ByOrigin
  <2> HIDE DEF room
  <2>4. a - SumOf(raw) \in Int  BY <2>2 DEF ByOrigin, Origins, SumOf
  <2>5. extra \in [Origins -> Nat]  BY <2>3, <2>4, AllocateType
  <2> HIDE DEF extra
  <2>6. Plus(raw, extra) \in ByOrigin  BY <2>2, <2>5 DEF Plus, ByOrigin
  <2>7. AllocateProportionally(a, f) \in {ZeroByOrigin, f, Plus(raw, extra)}
    BY DEF AllocateProportionally, raw, room, extra
  <2>8. QED  BY <2>6, <2>7 DEF ZeroByOrigin, ByOrigin
<1>3. QED  BY <1>1, <1>2

-----------------------------------------------------------------------------
\* A call that reads a hold, or the debits of a reference, names an existing one.
GoodCall(c) ==
    /\ c \in CallState
    /\ c.pc = "refundable" => c.ref \in Refs
    /\ c.pc \in {"find", "release", "reduce", "capture"} => c.hold \in Holds

TypeInv == TypeOK /\ \A p \in Procs : GoodCall(call[p])

LEMMA IdleGood == GoodCall(Idle)
BY WalletAssumption DEF Idle, GoodCall, CallState, ZeroByOrigin, NothingHeld, ByOrigin, Origins

\* Begin and Goto keep the callers well formed when the new call state is.
LEMMA BeginGood ==
    ASSUME TypeInv, NEW p \in Procs, NEW c, GoodCall(c), Begin(p, c)
    PROVE  /\ call' \in [Procs -> CallState]
           /\ calls' \in 0..MaxCalls /\ aborts' \in 0..MaxAborts
           /\ \A q \in Procs : GoodCall(call'[q])
BY WalletAssumption DEF Begin, TypeInv, TypeOK, GoodCall

LEMMA GotoGood ==
    ASSUME TypeInv, NEW p \in Procs, NEW c, GoodCall(c), Goto(p, c)
    PROVE  /\ call' \in [Procs -> CallState]
           /\ calls' \in 0..MaxCalls /\ aborts' \in 0..MaxAborts
           /\ \A q \in Procs : GoodCall(call'[q])
BY DEF Goto, TypeInv, TypeOK, GoodCall

LEMMA PlusType ==
    ASSUME NEW f \in ByOrigin, NEW g \in [Origins -> Nat]
    PROVE  Plus(f, g) \in ByOrigin /\ Minus(f, g) \in ByOrigin
BY DEF Plus, Minus, ByOrigin

LEMMA PlusNatType ==
    ASSUME NEW f \in [Origins -> Nat], NEW g \in [Origins -> Nat]
    PROVE  Plus(f, g) \in [Origins -> Nat]
BY DEF Plus

LEMMA NatByOrigin == [Origins -> Nat] \subseteq ByOrigin
BY DEF ByOrigin

\* The query of getReservedCents sees non-negative amounts.
LEMMA ActiveAmountsType == TypeOK => ActiveAmounts \in [Holds -> Nat]
BY DEF TypeOK, ActiveAmounts, HoldRow

\* Updates of one field of one row keep the table well typed.
LEMMA AuditAdd ==
    ASSUME NEW f \in [Holds -> AuditSums], NEW h, NEW n \in Nat
    PROVE  /\ [f EXCEPT ![h].created = @ + n] \in [Holds -> AuditSums]
           /\ [f EXCEPT ![h].released = @ + n] \in [Holds -> AuditSums]
           /\ [f EXCEPT ![h].captured = @ + n] \in [Holds -> AuditSums]
           /\ [f EXCEPT ![h].debited = @ + n] \in [Holds -> AuditSums]
<1>1. CASE h \in Holds
  <2>1. f[h] \in AuditSums  BY <1>1
  <2>2. [f[h] EXCEPT !.created = @ + n] \in AuditSums  BY <2>1 DEF AuditSums
  <2>3. [f[h] EXCEPT !.released = @ + n] \in AuditSums  BY <2>1 DEF AuditSums
  <2>4. [f[h] EXCEPT !.captured = @ + n] \in AuditSums  BY <2>1 DEF AuditSums
  <2>5. [f[h] EXCEPT !.debited = @ + n] \in AuditSums  BY <2>1 DEF AuditSums
  <2>6. QED  BY <2>2, <2>3, <2>4, <2>5
<1>2. CASE h \notin Holds
  BY <1>2
<1>3. QED  BY <1>1, <1>2

LEMMA HoldSet ==
    ASSUME NEW f \in [Holds -> HoldRow], NEW h, NEW s \in HoldStatus
    PROVE  [f EXCEPT ![h].status = s] \in [Holds -> HoldRow]
<1>1. CASE h \in Holds
  <2>1. [f[h] EXCEPT !.status = s] \in HoldRow  BY <1>1 DEF HoldRow
  <2>2. QED  BY <2>1
<1>2. CASE h \notin Holds
  BY <1>2
<1>3. QED  BY <1>1, <1>2

LEMMA HoldReduce ==
    ASSUME NEW f \in [Holds -> HoldRow], NEW h \in Holds, NEW n \in Nat,
           f[h].amount >= n
    PROVE  [f EXCEPT ![h].amount = @ - n] \in [Holds -> HoldRow]
<1>1. [f[h] EXCEPT !.amount = @ - n] \in HoldRow  BY DEF HoldRow
<1>2. QED  BY <1>1

LEMMA TotalType == TypeOK => Total \in Int
BY DEF TypeOK, Total, SumOf, ByOrigin, Origins

LEMMA GoodReduced ==
    ASSUME NEW c \in CallState, NEW a \in Nat
    PROVE  GoodCall([c EXCEPT !.pc = "auditReleased", !.held = a])
BY DEF GoodCall, CallState

LEMMA TypeStep == TypeInv /\ [Next]_vars => TypeInv'
<1> SUFFICES ASSUME TypeInv, [Next]_vars PROVE TypeInv'
  OBVIOUS
<1>1. CASE UNCHANGED vars
  BY <1>1 DEF vars, TypeInv, TypeOK, GoodCall
<1>2. ASSUME NEW p \in Procs, Step(p) PROVE TypeInv'
  <2> USE IdleGood, BeginGood, GotoGood
  <2> USE DEF Return
  <2>0. TypeOK /\ GoodCall(call[p]) /\ call[p] \in CallState
    BY DEF TypeInv, GoodCall
  <2>1. CASE CreditAdmin(p)
    <3>1. PICK a \in Amounts :
            /\ Begin(p, Idle)
            /\ balance' = [balance EXCEPT !["ADMIN_COMP"] = @ + a]
            /\ UNCHANGED <<debited, refunded, holds, audit>>
      BY <2>1 DEF CreditAdmin
    <3>2. a \in Nat  BY WalletAssumption
    <3>3. balance' \in ByOrigin  BY <2>0, <3>1, <3>2 DEF TypeOK, ByOrigin, Origins
    <3>4. QED  BY <2>0, <3>1, <3>3 DEF TypeInv, TypeOK
  <2>2. CASE CreditPackPaid(p)
    <3>1. PICK a \in Amounts, bonus \in Amounts \cup {0} :
            /\ Begin(p, IF bonus = 0 THEN Idle
                        ELSE [Idle EXCEPT !.pc = "bonus", !.op = "credit",
                                          !.amount = bonus])
            /\ balance' = [balance EXCEPT !["PAID"] = @ + a]
            /\ UNCHANGED <<debited, refunded, holds, audit>>
      BY <2>2 DEF CreditPackPaid
    <3>2. a \in Nat /\ bonus \in Nat  BY WalletAssumption
    <3>3. balance' \in ByOrigin  BY <2>0, <3>1, <3>2 DEF TypeOK, ByOrigin, Origins
    <3>4. GoodCall([Idle EXCEPT !.pc = "bonus", !.op = "credit", !.amount = bonus])
      BY <3>2 DEF GoodCall, CallState
    <3>5. QED  BY <2>0, <3>1, <3>3, <3>4 DEF TypeInv, TypeOK
  <2>3. CASE CreditPackBonus(p)
    <3>1. call[p].amount \in Nat  BY <2>0 DEF CallState
    <3>2. balance' \in ByOrigin
      BY <2>0, <2>3, <3>1 DEF CreditPackBonus, TypeOK, ByOrigin, Origins
    <3>3. QED  BY <2>0, <2>3, <3>2 DEF CreditPackBonus, TypeInv, TypeOK
  <2>4. CASE ReadTotal(p)
    <3>1. GoodCall([call[p] EXCEPT !.seen = @ \cup {"total"}, !.total = Total])
      BY <2>0, <2>4, TotalType DEF ReadTotal, GoodCall, CallState
    <3>2. QED  BY <2>0, <2>4, <3>1 DEF ReadTotal, db, TypeInv, TypeOK
  <2>5. CASE ReadReserved(p)
    <3>1. GoodCall([call[p] EXCEPT !.seen = @ \cup {"reserved"}, !.reserved = ActiveAmounts])
      BY <2>0, <2>5, ActiveAmountsType DEF ReadReserved, GoodCall, CallState
    <3>2. QED  BY <2>0, <2>5, <3>1 DEF ReadReserved, db, TypeInv, TypeOK
  <2>6. CASE ReadOrigins(p)
    <3>1. GoodCall([call[p] EXCEPT !.seen = @ \cup {"origins"}, !.origins = balance])
      BY <2>0, <2>6 DEF ReadOrigins, GoodCall, CallState, TypeOK
    <3>2. QED  BY <2>0, <2>6, <3>1 DEF ReadOrigins, db, TypeInv, TypeOK
  <2>7. CASE StartDebit(p)
    <3>1. PICK r \in Refs \cup {NoRef}, a \in Amounts :
            /\ Begin(p, [Idle EXCEPT !.pc = "balance", !.op = "debit",
                                 !.ref = r, !.amount = a])
            /\ UNCHANGED db
      BY <2>7 DEF StartDebit
    <3>2. GoodCall([Idle EXCEPT !.pc = "balance", !.op = "debit",
                                 !.ref = r, !.amount = a])
      BY WalletAssumption DEF GoodCall, CallState
    <3>3. QED  BY <2>0, <3>1, <3>2 DEF db, TypeInv, TypeOK
  <2>8. CASE WriteDebit(p)
    <3> DEFINE take == AllocateAcrossOrigins(call[p].amount, call[p].origins)
    <3>1. take \in [Origins -> Nat]  BY <2>0, AllocateType DEF CallState
    <3> HIDE DEF take
    <3>2. /\ balance' = Minus(balance, take)
          /\ debited' = IF call[p].ref = NoRef THEN debited
                        ELSE [debited EXCEPT ![call[p].ref] = Plus(@, take)]
          /\ Goto(p, Idle)
          /\ UNCHANGED <<refunded, holds, audit>>
      BY <2>8 DEF WriteDebit, take
    <3>3. balance' \in ByOrigin  BY <2>0, <3>1, <3>2, PlusType DEF TypeOK
    <3>4. debited' \in [Refs -> [Origins -> Nat]]
      BY <2>0, <3>1, <3>2, PlusNatType DEF TypeOK
    <3>5. QED  BY <2>0, <3>2, <3>3, <3>4 DEF TypeInv, TypeOK
  <2>9. CASE RejectDebit(p)
    BY <2>0, <2>9 DEF RejectDebit, db, TypeInv, TypeOK
  <2>10. CASE StartCreateHold(p)
    <3>1. PICK r \in Refs, a \in Amounts :
            /\ Begin(p, [Idle EXCEPT !.pc = "balance", !.op = "hold",
                                 !.ref = r, !.amount = a])
            /\ UNCHANGED db
      BY <2>10 DEF StartCreateHold
    <3>2. GoodCall([Idle EXCEPT !.pc = "balance", !.op = "hold",
                                 !.ref = r, !.amount = a])
      BY WalletAssumption DEF GoodCall, CallState
    <3>3. QED  BY <2>0, <3>1, <3>2 DEF db, TypeInv, TypeOK
  <2>11. CASE InsertHold(p)
    <3>1. PICK h \in Holds :
            /\ holds' = [holds EXCEPT ![h] =
                            [status |-> "ACTIVE", amount |-> call[p].amount,
                             opened |-> call[p].amount, ref |-> call[p].ref]]
            /\ Goto(p, [call[p] EXCEPT !.pc = "auditCreated", !.hold = h])
      BY <2>11 DEF InsertHold
    <3>2. GoodCall([call[p] EXCEPT !.pc = "auditCreated", !.hold = h])
      BY <2>0 DEF GoodCall, CallState
    <3>3. holds' \in [Holds -> HoldRow]
      BY <2>0, <3>1 DEF TypeOK, CallState, HoldRow, HoldStatus
    <3>4. UNCHANGED <<balance, debited, refunded, audit>>
      BY <2>11 DEF InsertHold
    <3>5. QED  BY <2>0, <3>1, <3>2, <3>3, <3>4 DEF TypeInv, TypeOK
  <2>12. CASE RejectHold(p)
    BY <2>0, <2>12 DEF RejectHold, db, TypeInv, TypeOK
  <2>13. CASE AuditCreated(p)
    <3>1. call[p].amount \in Nat  BY <2>0 DEF CallState
    <3>2. audit' \in [Holds -> AuditSums]
      BY <2>0, <2>13, <3>1, AuditAdd DEF AuditCreated, TypeOK
    <3>3. QED  BY <2>0, <2>13, <3>2 DEF AuditCreated, TypeInv, TypeOK
  <2>14. CASE StartRelease(p)
    <3>1. PICK h \in Holds : Begin(p, FoundForRelease(h)) /\ UNCHANGED db
      BY <2>14 DEF StartRelease
    <3>2. GoodCall(FoundForRelease(h))
      BY <2>0 DEF FoundForRelease, GoodCall, CallState, TypeOK, HoldRow
    <3>3. QED  BY <2>0, <3>1, <3>2 DEF db, TypeInv, TypeOK
  <2>15. CASE StartReleasePartially(p)
    <3>1. PICK h \in Holds, a \in Amounts :
            /\ Begin(p, [Idle EXCEPT !.op = "release", !.hold = h, !.amount = a,
                        !.pc = IF a >= holds[h].amount THEN "find" ELSE "reduce"])
            /\ UNCHANGED db
      BY <2>15 DEF StartReleasePartially
    <3>2. GoodCall([Idle EXCEPT !.op = "release", !.hold = h, !.amount = a,
                        !.pc = IF a >= holds[h].amount THEN "find" ELSE "reduce"])
      BY WalletAssumption DEF GoodCall, CallState
    <3>3. QED  BY <2>0, <3>1, <3>2 DEF db, TypeInv, TypeOK
  <2>16. CASE FindAgain(p)
    <3>1. call[p].hold \in Holds  BY <2>0, <2>16 DEF FindAgain, GoodCall
    <3>2. GoodCall(FoundForRelease(call[p].hold))
      BY <2>0, <3>1 DEF FoundForRelease, GoodCall, CallState, TypeOK, HoldRow
    <3>3. QED  BY <2>0, <2>16, <3>2 DEF FindAgain, db, TypeInv, TypeOK
  <2>17. CASE TransitionReleased(p)
    <3>1. GoodCall([call[p] EXCEPT !.pc = "auditReleased"])
      BY <2>0 DEF GoodCall, CallState
    <3>2. holds' \in [Holds -> HoldRow]
      <4>1. holds' \in {holds, [holds EXCEPT ![call[p].hold].status = "RELEASED"]}
        BY <2>17 DEF TransitionReleased
      <4>2. "RELEASED" \in HoldStatus  BY DEF HoldStatus
      <4>3. QED  BY <2>0, <4>1, <4>2, HoldSet DEF TypeOK
    <3>3. QED  BY <2>0, <2>17, <3>1, <3>2 DEF TransitionReleased, TypeInv, TypeOK
  <2>18. CASE ReduceHoldAmount(p)
    <3>1. GoodCall([call[p] EXCEPT !.pc = "auditReleased", !.held = call[p].amount])
      <4>1. call[p].amount \in Nat  BY <2>0 DEF CallState
      <4>2. QED  BY <2>0, <4>1, GoodReduced
    <3>2. call[p].hold \in Holds  BY <2>0, <2>18 DEF ReduceHoldAmount, GoodCall
    <3>3. holds' \in [Holds -> HoldRow]
      <4>1. call[p].amount \in Nat  BY <2>0 DEF CallState
      <4>2. \/ holds' = holds
            \/ /\ holds[call[p].hold].amount >= call[p].amount
               /\ holds' = [holds EXCEPT ![call[p].hold].amount = @ - call[p].amount]
        BY <2>18 DEF ReduceHoldAmount
      <4>3. QED  BY <2>0, <3>2, <4>1, <4>2, HoldReduce DEF TypeOK
    <3>4. QED  BY <2>0, <2>18, <3>1, <3>3 DEF ReduceHoldAmount, TypeInv, TypeOK
  <2>19. CASE AuditReleased(p)
    <3>1. call[p].held \in Nat  BY <2>0 DEF CallState
    <3>2. audit' \in [Holds -> AuditSums]
      BY <2>0, <2>19, <3>1, AuditAdd DEF AuditReleased, TypeOK
    <3>3. QED  BY <2>0, <2>19, <3>2 DEF AuditReleased, TypeInv, TypeOK
  <2>20. CASE StartCapture(p)
    <3> DEFINE c(h) == [Idle EXCEPT !.pc = "capture", !.op = "capture", !.hold = h,
                                    !.ref = holds[h].ref, !.held = holds[h].amount]
    <3>1. PICK h \in Holds : Begin(p, c(h)) /\ UNCHANGED db
      BY <2>20 DEF StartCapture
    <3>2. GoodCall(c(h))
      BY <2>0 DEF GoodCall, CallState, TypeOK, HoldRow
    <3>3. QED  BY <2>0, <3>1, <3>2 DEF db, TypeInv, TypeOK
  <2>21. CASE TransitionCaptured(p)
    <3>1. GoodCall([call[p] EXCEPT !.pc = "balance"])
      BY <2>0 DEF GoodCall, CallState
    <3>2. holds' \in [Holds -> HoldRow]
      <4>1. holds' \in {holds, [holds EXCEPT ![call[p].hold].status = "CAPTURED"]}
        BY <2>21 DEF TransitionCaptured
      <4>2. "CAPTURED" \in HoldStatus  BY DEF HoldStatus
      <4>3. QED  BY <2>0, <4>1, <4>2, HoldSet DEF TypeOK
    <3>3. QED  BY <2>0, <2>21, <3>1, <3>2 DEF TransitionCaptured, TypeInv, TypeOK
  <2>22. CASE WriteCapture(p)
    <3> DEFINE take == AllocateAcrossOrigins(call[p].held, call[p].origins)
    <3>1. take \in [Origins -> Nat]  BY <2>0, AllocateType DEF CallState
    <3> HIDE DEF take
    <3>2. /\ balance' = Minus(balance, take)
          /\ debited' = [debited EXCEPT ![call[p].ref] = Plus(@, take)]
          /\ audit' = [audit EXCEPT ![call[p].hold].debited = @ + call[p].held]
          /\ Goto(p, [call[p] EXCEPT !.pc = "auditCaptured"])
          /\ UNCHANGED <<refunded, holds>>
      BY <2>22 DEF WriteCapture, take
    <3>3. balance' \in ByOrigin  BY <2>0, <3>1, <3>2, PlusType DEF TypeOK
    <3>4. debited' \in [Refs -> [Origins -> Nat]]
      BY <2>0, <3>1, <3>2, PlusNatType DEF TypeOK
    <3>5. call[p].held \in Nat  BY <2>0 DEF CallState
    <3>6. audit' \in [Holds -> AuditSums]  BY <2>0, <3>2, <3>5, AuditAdd DEF TypeOK
    <3>7. GoodCall([call[p] EXCEPT !.pc = "auditCaptured"])
      BY <2>0 DEF GoodCall, CallState
    <3>8. QED  BY <2>0, <3>2, <3>3, <3>4, <3>6, <3>7 DEF TypeInv, TypeOK
  <2>23. CASE FailCapture(p)
    BY <2>0, <2>23 DEF FailCapture, db, TypeInv, TypeOK
  <2>24. CASE AuditCaptured(p)
    <3>1. call[p].held \in Nat  BY <2>0 DEF CallState
    <3>2. audit' \in [Holds -> AuditSums]
      BY <2>0, <2>24, <3>1, AuditAdd DEF AuditCaptured, TypeOK
    <3>3. QED  BY <2>0, <2>24, <3>2 DEF AuditCaptured, TypeInv, TypeOK
  <2>25. CASE StartRefund(p)
    <3>1. PICK r \in Refs, a \in Amounts :
            /\ Begin(p, [Idle EXCEPT !.pc = "refundable", !.op = "refund",
                                 !.ref = r, !.amount = a])
            /\ UNCHANGED db
      BY <2>25 DEF StartRefund
    <3>2. GoodCall([Idle EXCEPT !.pc = "refundable", !.op = "refund",
                                 !.ref = r, !.amount = a])
      BY WalletAssumption DEF GoodCall, CallState
    <3>3. QED  BY <2>0, <3>1, <3>2 DEF db, TypeInv, TypeOK
  <2>26. CASE ReadDebited(p)
    <3>1. call[p].ref \in Refs  BY <2>0, <2>26 DEF ReadDebited, GoodCall
    <3>2. debited[call[p].ref] \in ByOrigin  BY <2>0, <3>1, NatByOrigin DEF TypeOK
    <3>3. GoodCall([call[p] EXCEPT !.seen = @ \cup {"debited"},
                                   !.origins = debited[call[p].ref]])
      BY <2>0, <3>1, <3>2 DEF GoodCall, CallState
    <3>4. QED  BY <2>0, <2>26, <3>3 DEF ReadDebited, db, TypeInv, TypeOK
  <2>27. CASE ReadRefunded(p)
    <3>1. call[p].ref \in Refs  BY <2>0, <2>27 DEF ReadRefunded, GoodCall
    <3>2. refunded[call[p].ref] \in ByOrigin  BY <2>0, <3>1, NatByOrigin DEF TypeOK
    <3>3. GoodCall([call[p] EXCEPT !.seen = @ \cup {"refunded"},
                                   !.refunded = refunded[call[p].ref]])
      BY <2>0, <3>1, <3>2 DEF GoodCall, CallState
    <3>4. QED  BY <2>0, <2>27, <3>3 DEF ReadRefunded, db, TypeInv, TypeOK
  <2>28. CASE WriteRefund(p)
    <3> DEFINE refundable == Minus(call[p].origins, call[p].refunded)
               rows == Written(AllocateProportionally(call[p].amount, refundable))
    <3>1. refundable \in ByOrigin  BY <2>0 DEF CallState, Minus, ByOrigin
    <3>2. call[p].amount \in Nat  BY <2>0 DEF CallState
    <3>3. SumOf(refundable) \in Int  BY <3>1 DEF ByOrigin, Origins, SumOf
    <3>4. call[p].amount <= SumOf(refundable) => rows \in [Origins -> Nat]
      <4> HIDE DEF refundable
      <4>1. SUFFICES ASSUME call[p].amount <= SumOf(refundable)
                     PROVE  rows \in [Origins -> Nat]
        OBVIOUS
      <4>2. SumOf(refundable) \in Nat  BY <3>2, <3>3, <4>1
      <4>3. QED  BY <3>1, <3>2, <4>2, ProportionalType, WrittenType
    <3> HIDE DEF rows
    <3>5. /\ IF call[p].amount > SumOf(refundable)
             THEN UNCHANGED <<balance, refunded>>
             ELSE /\ balance' = Plus(balance, rows)
                  /\ refunded' = [refunded EXCEPT ![call[p].ref] = Plus(@, rows)]
          /\ Goto(p, Idle)
          /\ UNCHANGED <<debited, holds, audit>>
      BY <2>28 DEF WriteRefund, rows
    <3> HIDE DEF refundable
    <3>6. CASE call[p].amount > SumOf(refundable)
      BY <2>0, <3>5, <3>6 DEF TypeInv, TypeOK
    <3>7. CASE ~(call[p].amount > SumOf(refundable))
      <4>1. rows \in [Origins -> Nat]  BY <3>2, <3>3, <3>4, <3>7
      <4>2. balance' \in ByOrigin  BY <2>0, <3>5, <3>7, <4>1, PlusType DEF TypeOK
      <4>3. refunded' \in [Refs -> [Origins -> Nat]]
        BY <2>0, <3>5, <3>7, <4>1, PlusNatType DEF TypeOK
      <4>4. QED  BY <2>0, <3>5, <4>2, <4>3 DEF TypeInv, TypeOK
    <3>8. QED  BY <3>6, <3>7
  <2>29. CASE Abort(p)
    <3>1. aborts' \in 0..MaxAborts /\ calls' \in 0..MaxCalls
      BY <2>0, <2>29, WalletAssumption DEF Abort, TypeOK
    <3>2. call' \in [Procs -> CallState] /\ \A q \in Procs : GoodCall(call'[q])
      BY <2>0, <2>29 DEF Abort, TypeInv, TypeOK, GoodCall
    <3>3. QED  BY <2>0, <2>29, <3>1, <3>2 DEF Abort, db, TypeInv, TypeOK
  <2>30. QED
    BY <1>2,
       <2>1, <2>2, <2>3, <2>4, <2>5, <2>6, <2>7, <2>8, <2>9, <2>10,
       <2>11, <2>12, <2>13, <2>14, <2>15, <2>16, <2>17, <2>18, <2>19,
       <2>20, <2>21, <2>22, <2>23, <2>24, <2>25, <2>26, <2>27, <2>28,
       <2>29
    DEF Step
<1>3. QED
  BY <1>1, <1>2 DEF Next

LEMMA TypeInit == Init => TypeInv
<1> SUFFICES ASSUME Init PROVE TypeInv
  OBVIOUS
<1>1. ZeroByOrigin \in [Origins -> Nat]  BY DEF ZeroByOrigin
<1>2. NoRow \in HoldRow  BY DEF NoRow, HoldRow, HoldStatus
<1>3. NoAudit \in AuditSums  BY DEF NoAudit, AuditSums
<1>4. balance \in ByOrigin  BY WalletAssumption DEF Init, ByOrigin, Origins
<1>5. QED
  BY <1>1, <1>2, <1>3, <1>4, IdleGood, WalletAssumption
  DEF Init, TypeInv, TypeOK, GoodCall

\* Every row and every value a call keeps between two database calls has its
\* type: in particular no partial release drives a hold below zero, however
\* many of them race (reduceHoldAmount).
THEOREM TypeCorrect == Spec => []TypeOK
<1>1. TypeInv => TypeOK  BY DEF TypeInv
<1>2. QED  BY <1>1, TypeInit, TypeStep, PTL DEF Spec

-----------------------------------------------------------------------------
(***************************************************************************)
(* A hold is spent at most once.  The property is not inductive: it needs  *)
(* what a call keeps from findHoldById to stay a bound on the debit it     *)
(* writes two awaits later, and the conditional update to leave at most    *)
(* one caller between the transition and the debit.                        *)
(***************************************************************************)
HoldInv ==
    \A h \in Holds :
        /\ audit[h].debited <= holds[h].opened
        /\ holds[h].amount <= holds[h].opened
        /\ audit[h].debited > 0 => holds[h].status = "CAPTURED"

CaptureInv ==
    \A p \in Procs :
        /\ call[p].pc = "capture" \/ Pending(call[p]) =>
              /\ call[p].op = "capture"
              /\ call[p].hold \in Holds
              /\ call[p].held <= holds[call[p].hold].opened
              /\ holds[call[p].hold].status # "absent"
        /\ Pending(call[p]) =>
              /\ holds[call[p].hold].status = "CAPTURED"
              /\ audit[call[p].hold].debited = 0

OneCapture ==
    \A p, q \in Procs :
        Pending(call[p]) /\ Pending(call[q]) /\ call[p].hold = call[q].hold => p = q

SpendInv == HoldInv /\ CaptureInv /\ OneCapture

\* A call state from which no debit of a hold can follow, or the one before.
Harmless(c, d) ==
    \/ c.pc # "capture" /\ ~Pending(c)
    \/ c.pc = d.pc /\ c.op = d.op /\ c.hold = d.hold /\ c.held = d.held

\* What a step may do to the rows of a hold without being a capture.
RowsKept ==
    \A h \in Holds :
        /\ audit'[h].debited = audit[h].debited
        /\ holds'[h].amount <= holds'[h].opened
        /\ holds'[h].opened \in Nat
        /\ \/ holds[h].status = "absent"
           \/ /\ holds'[h].opened = holds[h].opened
              /\ holds'[h].status # "absent"
              /\ holds[h].status = "CAPTURED" => holds'[h].status = "CAPTURED"

LEMMA SpendFrame ==
    ASSUME TypeInv, SpendInv, RowsKept,
           NEW p \in Procs, NEW c, Harmless(c, call[p]),
           call' = [call EXCEPT ![p] = c]
    PROVE  SpendInv'
<1>1. /\ call'[p] = c
      /\ \A q \in Procs : q # p => call'[q] = call[q]
  BY DEF TypeInv, TypeOK
<1>2. \A h \in Holds : audit[h].debited \in Nat /\ holds[h].opened \in Nat
  BY DEF TypeInv, TypeOK, AuditSums, HoldRow
<1>3. HoldInv'
  <2> SUFFICES ASSUME NEW h \in Holds
               PROVE  /\ audit'[h].debited <= holds'[h].opened
                      /\ holds'[h].amount <= holds'[h].opened
                      /\ audit'[h].debited > 0 => holds'[h].status = "CAPTURED"
    BY DEF HoldInv
  <2>1. CASE holds[h].status = "absent"
    <3>1. audit[h].debited = 0  BY <2>1, <1>2 DEF SpendInv, HoldInv
    <3>2. QED  BY <3>1 DEF RowsKept
  <2>2. CASE holds[h].status # "absent"
    BY <2>2 DEF SpendInv, HoldInv, RowsKept
  <2>3. QED  BY <2>1, <2>2
<1>4. \A q \in Procs : call'[q].pc = "capture" \/ Pending(call'[q]) =>
          /\ call'[q].pc = call[q].pc /\ call'[q].op = call[q].op
          /\ call'[q].hold = call[q].hold /\ call'[q].held = call[q].held
  BY <1>1 DEF Harmless
<1>5. CaptureInv'
  BY <1>4 DEF SpendInv, CaptureInv, RowsKept, Pending
<1>6. OneCapture'
  BY <1>4 DEF SpendInv, OneCapture, Pending
<1>7. QED  BY <1>3, <1>5, <1>6 DEF SpendInv

\* Steps that leave the hold table and the debit sums alone.
LEMMA SpendSame ==
    ASSUME TypeInv, SpendInv,
           UNCHANGED holds, \A h \in Holds : audit'[h].debited = audit[h].debited,
           NEW p \in Procs, NEW c, Harmless(c, call[p]),
           call' = [call EXCEPT ![p] = c]
    PROVE  SpendInv'
<1>1. RowsKept
  BY DEF RowsKept, SpendInv, HoldInv, TypeInv, TypeOK, HoldRow
<1>2. QED  BY <1>1, SpendFrame

\* Adding to another sum of a hold's audit rows keeps its debits.
LEMMA AuditOther ==
    ASSUME NEW f \in [Holds -> AuditSums], NEW k, NEW n \in Nat
    PROVE  \A h \in Holds :
             /\ [f EXCEPT ![k].created = @ + n][h].debited = f[h].debited
             /\ [f EXCEPT ![k].released = @ + n][h].debited = f[h].debited
             /\ [f EXCEPT ![k].captured = @ + n][h].debited = f[h].debited
BY DEF AuditSums

LEMMA SpendStep == TypeInv /\ SpendInv /\ [Next]_vars => SpendInv'
<1> SUFFICES ASSUME TypeInv, SpendInv, [Next]_vars PROVE SpendInv'
  OBVIOUS
<1>1. CASE UNCHANGED vars
  BY <1>1 DEF vars, SpendInv, HoldInv, CaptureInv, OneCapture
<1>2. ASSUME NEW p \in Procs, Step(p) PROVE SpendInv'
  <2>0. TypeOK /\ call[p] \in CallState
    BY DEF TypeInv, TypeOK
  <2>a. ASSUME NEW c, Harmless(c, call[p]), UNCHANGED <<holds, audit>>,
               Begin(p, c) \/ Goto(p, c)
        PROVE  SpendInv'
    BY <2>a, SpendSame DEF Begin, Goto
  <2>b. Harmless(Idle, call[p])
    BY DEF Harmless, Idle, Pending
  <2>1. CASE CreditAdmin(p)
    BY <2>1, <2>a, <2>b DEF CreditAdmin, Return, db
  <2>2. CASE CreditPackBonus(p)
    BY <2>2, <2>a, <2>b DEF CreditPackBonus, Return, db
  <2>3. CASE WriteDebit(p)
    BY <2>3, <2>a, <2>b DEF WriteDebit, Return, db
  <2>4. CASE RejectDebit(p)
    BY <2>4, <2>a, <2>b DEF RejectDebit, Return, db
  <2>5. CASE RejectHold(p)
    BY <2>5, <2>a, <2>b DEF RejectHold, Return, db
  <2>6. CASE FailCapture(p)
    BY <2>6, <2>a, <2>b DEF FailCapture, Return, db
  <2>7. CASE WriteRefund(p)
    BY <2>7, <2>a, <2>b DEF WriteRefund, Return, db
  <2>8. CASE CreditPackPaid(p)
    <3>1. PICK a \in Amounts, bonus \in Amounts \cup {0} : Begin(p, IF bonus = 0 THEN Idle
                        ELSE [Idle EXCEPT !.pc = "bonus", !.op = "credit",
                                          !.amount = bonus])
      BY <2>8 DEF CreditPackPaid
    <3>2. Harmless(IF bonus = 0 THEN Idle
                        ELSE [Idle EXCEPT !.pc = "bonus", !.op = "credit",
                                          !.amount = bonus], call[p])
      BY DEF Harmless, Pending, Idle
    <3>3. UNCHANGED <<holds, audit>>  BY <2>8 DEF CreditPackPaid, db
    <3>4. QED  BY <2>a, <3>1, <3>2, <3>3
  <2>9. CASE StartDebit(p)
    <3>1. PICK r \in Refs \cup {NoRef}, a \in Amounts : Begin(p, [Idle EXCEPT !.pc = "balance", !.op = "debit",
                                              !.ref = r, !.amount = a])
      BY <2>9 DEF StartDebit
    <3>2. Harmless([Idle EXCEPT !.pc = "balance", !.op = "debit",
                                              !.ref = r, !.amount = a], call[p])
      BY DEF Harmless, Pending, Idle
    <3>3. UNCHANGED <<holds, audit>>  BY <2>9 DEF StartDebit, db
    <3>4. QED  BY <2>a, <3>1, <3>2, <3>3
  <2>10. CASE StartCreateHold(p)
    <3>1. PICK r \in Refs, a \in Amounts : Begin(p, [Idle EXCEPT !.pc = "balance", !.op = "hold",
                                              !.ref = r, !.amount = a])
      BY <2>10 DEF StartCreateHold
    <3>2. Harmless([Idle EXCEPT !.pc = "balance", !.op = "hold",
                                              !.ref = r, !.amount = a], call[p])
      BY DEF Harmless, Pending, Idle
    <3>3. UNCHANGED <<holds, audit>>  BY <2>10 DEF StartCreateHold, db
    <3>4. QED  BY <2>a, <3>1, <3>2, <3>3
  <2>11. CASE StartRefund(p)
    <3>1. PICK r \in Refs, a \in Amounts : Begin(p, [Idle EXCEPT !.pc = "refundable", !.op = "refund",
                                              !.ref = r, !.amount = a])
      BY <2>11 DEF StartRefund
    <3>2. Harmless([Idle EXCEPT !.pc = "refundable", !.op = "refund",
                                              !.ref = r, !.amount = a], call[p])
      BY DEF Harmless, Pending, Idle
    <3>3. UNCHANGED <<holds, audit>>  BY <2>11 DEF StartRefund, db
    <3>4. QED  BY <2>a, <3>1, <3>2, <3>3
  <2>12. CASE StartReleasePartially(p)
    <3>1. PICK h \in Holds, a \in Amounts : Begin(p, [Idle EXCEPT !.op = "release", !.hold = h,
                        !.amount = a,
                        !.pc = IF a >= holds[h].amount THEN "find" ELSE "reduce"])
      BY <2>12 DEF StartReleasePartially
    <3>2. Harmless([Idle EXCEPT !.op = "release", !.hold = h,
                        !.amount = a,
                        !.pc = IF a >= holds[h].amount THEN "find" ELSE "reduce"], call[p])
      BY DEF Harmless, Pending, Idle
    <3>3. UNCHANGED <<holds, audit>>  BY <2>12 DEF StartReleasePartially, db
    <3>4. QED  BY <2>a, <3>1, <3>2, <3>3
  <2>13. CASE StartRelease(p)
    <3>1. PICK h \in Holds : Begin(p, FoundForRelease(h))
      BY <2>13 DEF StartRelease
    <3>2. Harmless(FoundForRelease(h), call[p])
      BY DEF Harmless, Pending, FoundForRelease, Idle
    <3>3. UNCHANGED <<holds, audit>>  BY <2>13 DEF StartRelease, db
    <3>4. QED  BY <2>a, <3>1, <3>2, <3>3
  <2>14. CASE FindAgain(p)
    <3>1. Harmless(FoundForRelease(call[p].hold), call[p])
      BY DEF Harmless, Pending, FoundForRelease, Idle
    <3>2. QED  BY <2>14, <2>a, <3>1 DEF FindAgain, db
  <2>15. CASE ReadTotal(p)
    <3>1. Harmless([call[p] EXCEPT !.seen = @ \cup {"total"}, !.total = Total], call[p])
      BY <2>0 DEF Harmless, CallState
    <3>2. QED  BY <2>15, <2>a, <3>1 DEF ReadTotal, db
  <2>16. CASE ReadReserved(p)
    <3>1. Harmless([call[p] EXCEPT !.seen = @ \cup {"reserved"}, !.reserved = ActiveAmounts], call[p])
      BY <2>0 DEF Harmless, CallState
    <3>2. QED  BY <2>16, <2>a, <3>1 DEF ReadReserved, db
  <2>17. CASE ReadOrigins(p)
    <3>1. Harmless([call[p] EXCEPT !.seen = @ \cup {"origins"}, !.origins = balance], call[p])
      BY <2>0 DEF Harmless, CallState
    <3>2. QED  BY <2>17, <2>a, <3>1 DEF ReadOrigins, db
  <2>18. CASE ReadDebited(p)
    <3>1. Harmless([call[p] EXCEPT !.seen = @ \cup {"debited"},
                                    !.origins = debited[call[p].ref]], call[p])
      BY <2>0 DEF Harmless, CallState
    <3>2. QED  BY <2>18, <2>a, <3>1 DEF ReadDebited, db
  <2>19. CASE ReadRefunded(p)
    <3>1. Harmless([call[p] EXCEPT !.seen = @ \cup {"refunded"},
                                    !.refunded = refunded[call[p].ref]], call[p])
      BY <2>0 DEF Harmless, CallState
    <3>2. QED  BY <2>19, <2>a, <3>1 DEF ReadRefunded, db
  <2>20. CASE AuditCreated(p)
    <3>1. call[p].amount \in Nat  BY <2>0 DEF CallState
    <3>2. \A h \in Holds : audit'[h].debited = audit[h].debited
      BY <2>0, <2>20, <3>1, AuditOther DEF AuditCreated, TypeOK
    <3>3. QED  BY <2>20, <2>b, <3>2, SpendSame DEF AuditCreated, Return, Goto
  <2>21. CASE AuditReleased(p)
    <3>1. call[p].held \in Nat  BY <2>0 DEF CallState
    <3>2. \A h \in Holds : audit'[h].debited = audit[h].debited
      BY <2>0, <2>21, <3>1, AuditOther DEF AuditReleased, TypeOK
    <3>3. QED  BY <2>21, <2>b, <3>2, SpendSame DEF AuditReleased, Return, Goto
  <2>22. CASE AuditCaptured(p)
    <3>1. call[p].held \in Nat  BY <2>0 DEF CallState
    <3>2. \A h \in Holds : audit'[h].debited = audit[h].debited
      BY <2>0, <2>22, <3>1, AuditOther DEF AuditCaptured, TypeOK
    <3>3. QED  BY <2>22, <2>b, <3>2, SpendSame DEF AuditCaptured, Return, Goto
  <2>23. CASE InsertHold(p)
    <3>1. PICK k \in Holds :
            /\ holds[k].status = "absent"
            /\ holds' = [holds EXCEPT ![k] =
                            [status |-> "ACTIVE", amount |-> call[p].amount,
                             opened |-> call[p].amount, ref |-> call[p].ref]]
            /\ Goto(p, [call[p] EXCEPT !.pc = "auditCreated", !.hold = k])
      BY <2>23 DEF InsertHold
    <3>2. call[p].amount \in Nat  BY <2>0 DEF CallState
    <3>3. RowsKept
      BY <2>0, <2>23, <3>1, <3>2
      DEF InsertHold, RowsKept, SpendInv, HoldInv, TypeOK, HoldRow
    <3>4. Harmless([call[p] EXCEPT !.pc = "auditCreated", !.hold = k], call[p])
      BY <2>0 DEF Harmless, Pending, CallState
    <3>5. QED  BY <3>1, <3>3, <3>4, SpendFrame DEF Goto
  <2>24. CASE TransitionReleased(p)
    <3>1. CASE holds[call[p].hold].status # "ACTIVE"
      BY <2>24, <2>a, <2>b, <3>1 DEF TransitionReleased, Return
    <3>2. CASE holds[call[p].hold].status = "ACTIVE"
      <4>1. /\ holds[call[p].hold].status = "ACTIVE"
            /\ holds' = [holds EXCEPT ![call[p].hold].status = "RELEASED"]
            /\ Goto(p, [call[p] EXCEPT !.pc = "auditReleased"])
            /\ UNCHANGED audit
        BY <2>24, <3>2 DEF TransitionReleased
      <4>2. RowsKept
        BY <2>0, <4>1 DEF RowsKept, SpendInv, HoldInv, TypeOK, HoldRow
      <4>3. Harmless([call[p] EXCEPT !.pc = "auditReleased"], call[p])
        BY <2>0 DEF Harmless, Pending, CallState
      <4>4. QED  BY <4>1, <4>2, <4>3, SpendFrame DEF Goto
    <3>3. QED  BY <3>1, <3>2
  <2>25. CASE ReduceHoldAmount(p)
    <3> DEFINE c == [call[p] EXCEPT !.pc = "auditReleased", !.held = call[p].amount]
    <3>1. CASE ~(/\ holds[call[p].hold].status = "ACTIVE"
                 /\ holds[call[p].hold].amount >= call[p].amount)
      BY <2>25, <2>a, <2>b, <3>1 DEF ReduceHoldAmount, Return
    <3>2. CASE /\ holds[call[p].hold].status = "ACTIVE"
               /\ holds[call[p].hold].amount >= call[p].amount
      <4>1. /\ holds' = [holds EXCEPT ![call[p].hold].amount = @ - call[p].amount]
            /\ Goto(p, c)
            /\ UNCHANGED audit
        BY <2>25, <3>2 DEF ReduceHoldAmount
      <4>2. call[p].amount \in Nat  BY <2>0 DEF CallState
      <4>3. ASSUME NEW h \in Holds
            PROVE  /\ holds'[h].amount <= holds[h].amount
                   /\ holds'[h].opened = holds[h].opened
                   /\ holds'[h].status = holds[h].status
                   /\ holds'[h].amount \in Int
        <5>1. holds[h] \in HoldRow /\ holds[h].amount \in Nat
          BY <2>0 DEF TypeOK, HoldRow
        <5>2. CASE h = call[p].hold
          <6>1. holds'[h] = [holds[h] EXCEPT !.amount = @ - call[p].amount]
            BY <2>0, <4>1, <5>2 DEF TypeOK
          <6>2. QED  BY <4>2, <5>1, <6>1 DEF HoldRow
        <5>3. CASE h # call[p].hold
          BY <2>0, <4>1, <5>1, <5>3 DEF TypeOK
        <5>4. QED  BY <5>2, <5>3
      <4>4. RowsKept
        BY <2>0, <4>1, <4>3 DEF RowsKept, SpendInv, HoldInv, TypeOK, HoldRow
      <4>5. Harmless(c, call[p])
        BY <2>0 DEF Harmless, Pending, CallState
      <4> HIDE DEF c
      <4>6. QED  BY <4>1, <4>4, <4>5, SpendFrame DEF Goto
    <3>3. QED  BY <3>1, <3>2
  <2>26. CASE StartCapture(p)
    <3> DEFINE c(h) == [Idle EXCEPT !.pc = "capture", !.op = "capture", !.hold = h,
                                    !.ref = holds[h].ref, !.held = holds[h].amount]
    <3>1. PICK k \in Holds : /\ holds[k].status # "absent"
                             /\ Begin(p, c(k)) /\ UNCHANGED db
      BY <2>26 DEF StartCapture
    <3>2. /\ c(k).pc = "capture" /\ c(k).op = "capture"
          /\ c(k).hold = k /\ c(k).held = holds[k].amount
      BY DEF Idle
    <3> HIDE DEF c
    <3>3. call' = [call EXCEPT ![p] = c(k)] /\ UNCHANGED <<holds, audit>>
      BY <3>1 DEF Begin, db
    <3>4. call'[p] = c(k) /\ \A q \in Procs : q # p => call'[q] = call[q]
      BY <2>0, <3>3 DEF TypeOK
    <3>5. HoldInv'  BY <3>3 DEF SpendInv, HoldInv
    <3>6. CaptureInv'
      BY <3>2, <3>3, <3>4, <3>1 DEF SpendInv, HoldInv, CaptureInv, Pending
    <3>7. OneCapture'
      BY <3>2, <3>4 DEF SpendInv, OneCapture, Pending
    <3>8. QED  BY <3>5, <3>6, <3>7 DEF SpendInv
  <2>27. CASE TransitionCaptured(p)
    <3> DEFINE k == call[p].hold
    <3>1. CASE holds[k].status # "ACTIVE"
      BY <2>27, <2>a, <2>b, <3>1 DEF TransitionCaptured, Return
    <3>2. CASE holds[k].status = "ACTIVE"
      <4>1. /\ holds' = [holds EXCEPT ![k].status = "CAPTURED"]
            /\ call' = [call EXCEPT ![p] = [call[p] EXCEPT !.pc = "balance"]]
            /\ UNCHANGED audit
            /\ call[p].pc = "capture"
        BY <2>27, <3>2 DEF TransitionCaptured, Goto
      <4>2. k \in Holds  BY <4>1 DEF SpendInv, CaptureInv
      <4>3. /\ holds'[k].status = "CAPTURED"
            /\ \A h \in Holds : /\ holds'[h].opened = holds[h].opened
                                 /\ holds'[h].amount = holds[h].amount
                                 /\ h # k => holds'[h] = holds[h]
        BY <2>0, <4>1, <4>2 DEF TypeOK, HoldRow
      <4>4. /\ call'[p].pc = "balance" /\ call'[p].op = call[p].op
            /\ call'[p].hold = k /\ call'[p].held = call[p].held
            /\ \A q \in Procs : q # p => call'[q] = call[q]
        BY <2>0, <4>1 DEF TypeOK, CallState
      <4>5. audit[k].debited = 0
        BY <2>0, <3>2, <4>2 DEF SpendInv, HoldInv, TypeOK, AuditSums
      <4>6. \A q \in Procs : Pending(call[q]) => call[q].hold # k
        BY <3>2 DEF SpendInv, CaptureInv
      <4>7. HoldInv'
        BY <4>1, <4>3, <4>5, <3>2 DEF SpendInv, HoldInv
      <4>8. CaptureInv'
        BY <4>1, <4>2, <4>3, <4>4, <4>5 DEF SpendInv, CaptureInv, Pending
      <4>9. OneCapture'
        BY <4>4, <4>6 DEF SpendInv, OneCapture, Pending
      <4>10. QED  BY <4>7, <4>8, <4>9 DEF SpendInv
    <3>3. QED  BY <3>1, <3>2
  <2>28. CASE WriteCapture(p)
    <3> DEFINE k == call[p].hold
    <3>1. /\ audit' = [audit EXCEPT ![k].debited = @ + call[p].held]
          /\ call' = [call EXCEPT ![p] = [call[p] EXCEPT !.pc = "auditCaptured"]]
          /\ UNCHANGED holds
          /\ Pending(call[p])
      BY <2>28 DEF WriteCapture, Goto, BalanceRead, Pending
    <3>2. /\ k \in Holds /\ call[p].held <= holds[k].opened
          /\ holds[k].status = "CAPTURED" /\ audit[k].debited = 0
      BY <3>1 DEF SpendInv, CaptureInv
    <3>3. call[p].held \in Nat  BY <2>0 DEF CallState
    <3>4. /\ audit'[k].debited = call[p].held
          /\ \A h \in Holds : h # k => audit'[h] = audit[h]
      BY <2>0, <3>1, <3>2, <3>3 DEF TypeOK, AuditSums
    <3>5. /\ call'[p].pc = "auditCaptured"
          /\ \A q \in Procs : q # p => call'[q] = call[q]
      BY <2>0, <3>1 DEF TypeOK, CallState
    <3>6. \A q \in Procs : q # p /\ Pending(call[q]) => call[q].hold # k
      BY <3>1 DEF SpendInv, OneCapture
    <3>7. HoldInv'
      BY <3>1, <3>2, <3>4 DEF SpendInv, HoldInv
    <3>8. CaptureInv'
      BY <3>1, <3>4, <3>5, <3>6 DEF SpendInv, CaptureInv, Pending
    <3>9. OneCapture'
      BY <3>5 DEF SpendInv, OneCapture, Pending
    <3>10. QED  BY <3>7, <3>8, <3>9 DEF SpendInv
  <2>29. CASE Abort(p)
    BY <2>29, <2>b, SpendSame DEF Abort, db
  <2>30. QED
    BY <1>2,
       <2>1, <2>2, <2>3, <2>4, <2>5, <2>6, <2>7, <2>8, <2>9, <2>10,
       <2>11, <2>12, <2>13, <2>14, <2>15, <2>16, <2>17, <2>18, <2>19,
       <2>20, <2>21, <2>22, <2>23, <2>24, <2>25, <2>26, <2>27, <2>28,
       <2>29
    DEF Step
<1>3. QED
  BY <1>1, <1>2 DEF Next

LEMMA SpendInit == Init => SpendInv
BY DEF Init, SpendInv, HoldInv, CaptureInv, OneCapture, Pending, Idle, NoRow, NoAudit

\* captureHold, releaseHold, releaseHoldPartially: whatever runs concurrently, a
\* hold is debited at most once, never after a release, and never for more than
\* it reserved when it was created.
THEOREM SpentAtMostOnce == Spec => []HoldSpentAtMostOnce
<1>1. SpendInv => HoldSpentAtMostOnce
  BY DEF SpendInv, HoldInv, HoldSpentAtMostOnce
<1>2. QED
  BY <1>1, TypeInit, TypeStep, SpendInit, SpendStep, PTL DEF Spec

-----------------------------------------------------------------------------
(***************************************************************************)
(* The promises of the account, when the calls that must not overlap do    *)
(* not.  None of them is inductive.  What a call read has to stay a bound  *)
(* on what it writes: nobody else lowers the credits between its reads and *)
(* its write, nor changes its hold, nor refunds its reference.             *)
(***************************************************************************)
\* Which operation a call is in, and what it was called with
InOp(c) ==
    /\ c.pc = "idle" => c.op = "none"
    /\ c.pc = "balance" => c.op \in {"debit", "hold", "capture"}
    /\ c.pc = "refundable" => c.op = "refund"
    /\ c.pc = "bonus" => c.op = "credit"
    /\ c.pc = "auditCreated" => c.op = "hold"
    /\ c.pc \in {"find", "release", "reduce", "auditReleased"} => c.op = "release"
    /\ c.pc \in {"capture", "auditCaptured"} => c.op = "capture"
    /\ c.pc \in {"auditCreated", "auditReleased", "auditCaptured"} => c.hold \in Holds
    /\ c.pc \in {"balance", "refundable", "bonus", "reduce"} /\ c.op # "capture" => c.amount > 0
    /\ c.hold \in Holds => holds[c.hold].status # "absent"
    /\ c.op = "hold" => c.ref \in Refs

\* What a call read of its hold is still there.
HoldRead(c) ==
    /\ c.pc \in {"release", "capture"} => c.held = holds[c.hold].amount
    /\ c.pc = "reduce" => holds[c.hold].status = "ACTIVE" /\ c.amount < holds[c.hold].amount
    /\ c.pc = "capture" => c.ref = holds[c.hold].ref /\ c.seen = {}
    /\ Pending(c) => c.held > 0 /\ c.ref \in Refs

\* What a call read of the credits bounds them from below, and what it read of
\* the reservations bounds them from above.
BalanceSeen(c) ==
    c.pc = "balance" =>
        /\ "total" \in c.seen => c.total <= Total
        /\ "reserved" \in c.seen => \A h \in Holds : ActiveAmounts[h] <= c.reserved[h]
        /\ "origins" \in c.seen =>
            /\ \A o \in Origins : 0 <= c.origins[o] /\ c.origins[o] <= balance[o]
            /\ c.op = "capture" => c.held <= SumOf(c.origins)

\* What a refund read: its reference was not refunded since.
RefundSeen(c) ==
    c.pc = "refundable" =>
        /\ "debited" \in c.seen =>
            \A o \in Origins : refunded[c.ref][o] <= c.origins[o] /\ c.origins[o] <= debited[c.ref][o]
        /\ "refunded" \in c.seen => c.refunded = refunded[c.ref]

Informed(c) == InOp(c) /\ HoldRead(c) /\ BalanceSeen(c) /\ RefundSeen(c)

\* The rows: no origin is negative, no refund beyond its debit, no empty hold
RowsSound ==
    /\ \A o \in Origins : balance[o] >= 0
    /\ \A r \in Refs : \A o \in Origins : refunded[r][o] <= debited[r][o]
    /\ \A h \in Holds :
        /\ holds[h].status = "ACTIVE" => holds[h].amount > 0
        /\ holds[h].status # "absent" => holds[h].ref \in Refs
        /\ holds[h].status = "absent" => holds[h].opened = 0 /\ audit[h] = NoAudit

\* The audit rows of a hold explain it, but for the row a call still owes.
Owes(p, h, pc) == call[p].pc = pc /\ call[p].hold = h
Settles(p, h) == Owes(p, h, "auditReleased") \/ (Pending(call[p]) /\ call[p].hold = h)
Explained(h, owed) ==
    holds[h].opened = audit[h].released + audit[h].debited + ActiveAmounts[h] + owed

BooksOf(h) ==
    /\ (\A p \in Procs : ~Owes(p, h, "auditCreated")) => audit[h].created = holds[h].opened
    /\ \A p \in Procs : Owes(p, h, "auditCreated") => audit[h].created + call[p].amount = holds[h].opened
    /\ (\A p \in Procs : ~Owes(p, h, "auditCaptured")) => audit[h].captured = audit[h].debited
    /\ \A p \in Procs : Owes(p, h, "auditCaptured") => audit[h].captured + call[p].held = audit[h].debited
    /\ (\A p \in Procs : ~Settles(p, h)) => Explained(h, 0)
    /\ \A p \in Procs : Settles(p, h) => Explained(h, call[p].held)

Books == aborts = 0 => \A h \in Holds : BooksOf(h)

Covered == Reserved + Unsettled <= Total

AccountInv ==
    /\ TypeInv /\ SpendInv /\ Apart /\ RowsSound
    /\ \A p \in Procs : Informed(call[p])
    /\ Covered /\ Books

-----------------------------------------------------------------------------
\* An origin gives at most what is asked, and all it has or all that is asked.
LEMMA TakeBounds ==
    ASSUME NEW a \in Nat, NEW r \in Nat
    PROVE  /\ TakeFrom(a, r) \in Nat /\ TakeFrom(a, r) <= a /\ TakeFrom(a, r) <= r
           /\ TakeFrom(a, r) = a \/ TakeFrom(a, r) = r
BY DEF TakeFrom

\* allocateAcrossOrigins takes no more than an origin holds, and the whole
\* amount when the origins hold that much.
LEMMA AllocateExact ==
    ASSUME NEW a \in Nat, NEW f \in ByOrigin, \A o \in Origins : f[o] >= 0
    PROVE  /\ AllocateAcrossOrigins(a, f) \in [Origins -> Nat]
           /\ \A o \in Origins : AllocateAcrossOrigins(a, f)[o] <= f[o]
           /\ SumOf(AllocateAcrossOrigins(a, f)) <= a
           /\ a <= SumOf(f) => SumOf(AllocateAcrossOrigins(a, f)) = a
<1> DEFINE b == TakeFrom(f["BONUS"], a)
           p == TakeFrom(f["PAID"], a - b)
           c == TakeFrom(f["ADMIN_COMP"], a - b - p)
<1>1. f["BONUS"] \in Nat /\ f["PAID"] \in Nat /\ f["ADMIN_COMP"] \in Nat
  BY DEF ByOrigin, Origins
<1>2. b \in Nat /\ b <= f["BONUS"] /\ b <= a /\ (b = f["BONUS"] \/ b = a)
  BY <1>1, TakeBounds
<1> HIDE DEF b
<1>3. p \in Nat /\ p <= f["PAID"] /\ p <= a - b /\ (p = f["PAID"] \/ p = a - b)
  <2>1. PICK r \in Nat : r = a - b
    BY <1>2
  <2> QED BY <1>1, <2>1, TakeBounds
<1> HIDE DEF p
<1>4. c \in Nat /\ c <= f["ADMIN_COMP"] /\ c <= a - b - p /\ (c = f["ADMIN_COMP"] \/ c = a - b - p)
  <2>1. PICK r \in Nat : r = a - b - p
    BY <1>2, <1>3
  <2> QED BY <1>1, <2>1, TakeBounds
<1> HIDE DEF c
<1>5. AllocateAcrossOrigins(a, f) = [o \in Origins |-> IF o = "BONUS" THEN b ELSE IF o = "PAID" THEN p ELSE c]
  BY DEF AllocateAcrossOrigins, b, p, c
<1>6. SumOf(AllocateAcrossOrigins(a, f)) = b + p + c
  BY <1>5 DEF SumOf, Origins
<1> QED BY <1>1, <1>2, <1>3, <1>4, <1>5, <1>6 DEF SumOf, Origins

\* The whole part of a quotient is below any bound of the quotient.
LEMMA QuotientBound ==
    ASSUME NEW n \in Nat, NEW t \in Nat \ {0}
    PROVE  /\ n \div t \in Nat /\ t * (n \div t) <= n
           /\ \A k \in Nat : n <= t * k => n \div t <= k
<1>1. PICK q \in Int : q = n \div t
  OBVIOUS
<1>2. n = t * q + (n % t) /\ n % t \in 0..(t - 1)
  BY <1>1
<1>3. PICK r \in 0..(t - 1) : n = t * q + r
  BY <1>2
<1>4. q >= 0
  <2>1. SUFFICES ASSUME q <= -1 PROVE FALSE
    OBVIOUS
  <2>2. t * q <= t * (-1)
    BY <2>1
  <2> QED BY <1>3, <2>2
<1>5. ASSUME NEW k \in Nat, n <= t * k PROVE q <= k
  <2>1. SUFFICES ASSUME q >= k + 1 PROVE FALSE
    OBVIOUS
  <2>2. t * q >= t * (k + 1)
    BY <2>1
  <2>3. t * (k + 1) = t * k + t
    OBVIOUS
  <2> QED BY <1>3, <1>5, <2>2, <2>3
<1> QED BY <1>1, <1>3, <1>4, <1>5

\* allocateProportionally gives back exactly what is asked, and to no origin
\* more than what is still refundable to it.
LEMMA ProportionalExact ==
    ASSUME NEW a \in Nat, NEW f \in [Origins -> Nat], a <= SumOf(f)
    PROVE  LET rows == Written(AllocateProportionally(a, f))
           IN  /\ rows \in [Origins -> Nat] /\ SumOf(rows) = a
               /\ \A o \in Origins : rows[o] <= f[o]
<1> DEFINE rows == Written(AllocateProportionally(a, f))
<1>1. PICK total \in Nat : total = SumOf(f)
  BY DEF SumOf, Origins
<1>2. f["BONUS"] \in Nat /\ f["PAID"] \in Nat /\ f["ADMIN_COMP"] \in Nat
      /\ total = f["BONUS"] + f["PAID"] + f["ADMIN_COMP"]
  BY <1>1 DEF SumOf, Origins
<1>3. ASSUME NEW g \in [Origins -> Nat] PROVE Written(g) = g
  BY <1>3 DEF Written
<1>4. CASE total = 0
  <2>1. AllocateProportionally(a, f) = ZeroByOrigin
    BY <1>1, <1>4 DEF AllocateProportionally
  <2>2. ZeroByOrigin \in [Origins -> Nat] /\ SumOf(ZeroByOrigin) = 0
    BY DEF ZeroByOrigin, SumOf, Origins
  <2>3. a = 0
    BY <1>1, <1>4
  <2> QED BY <1>3, <2>1, <2>2, <2>3 DEF ZeroByOrigin
<1>5. CASE total # 0 /\ a = total
  <2>1. AllocateProportionally(a, f) = f
    BY <1>1, <1>5 DEF AllocateProportionally
  <2> QED BY <1>1, <1>3, <1>5, <2>1
<1>6. CASE total # 0 /\ a # total
  <2>1. PICK raw : raw = [o \in Origins |-> (f[o] * a) \div total]
    OBVIOUS
  <2>2. ASSUME NEW o \in Origins
        PROVE  raw[o] \in Nat /\ raw[o] <= f[o] /\ total * raw[o] <= f[o] * a
    <3>1. PICK k \in Nat : k = f[o]
      OBVIOUS
    <3>2. PICK n \in Nat : n = k * a
      OBVIOUS
    <3>3. k * a <= k * total
      BY <1>1
    <3>4. n <= total * k
      BY <3>2, <3>3
    <3>5. raw[o] = n \div total
      BY <2>1, <3>1, <3>2
    <3>6. total \in Nat \ {0}
      BY <1>6
    <3>7. n \div total \in Nat /\ total * (n \div total) <= n /\ n \div total <= k
      BY <3>4, <3>6, QuotientBound
    <3>8. raw[o] \in Nat /\ raw[o] <= k /\ total * raw[o] <= n
      BY <3>5, <3>7
    <3> QED BY <3>1, <3>2, <3>8
  <2>3. PICK x, y, z \in Nat : x = raw["BONUS"] /\ y = raw["PAID"] /\ z = raw["ADMIN_COMP"]
    BY <2>2 DEF Origins
  <2>4. SumOf(raw) = x + y + z
    BY <2>3 DEF SumOf
  <2>5. x + y + z <= a
    <3>1. total * x <= f["BONUS"] * a /\ total * y <= f["PAID"] * a /\ total * z <= f["ADMIN_COMP"] * a
      BY <2>2, <2>3 DEF Origins
    <3>2. total * x + total * y + total * z <= (f["BONUS"] + f["PAID"] + f["ADMIN_COMP"]) * a
      BY <1>2, <3>1
    <3>3. total * (x + y + z) <= total * a
      BY <1>2, <3>2
    <3>4. SUFFICES ASSUME x + y + z >= a + 1 PROVE FALSE
      OBVIOUS
    <3>5. total * (x + y + z) >= total * (a + 1)
      BY <3>4
    <3>6. total * (a + 1) = total * a + total
      OBVIOUS
    <3> QED BY <1>6, <3>3, <3>5, <3>6
  <2>6. PICK room : room = [o \in Origins |-> f[o] - raw[o]]
    OBVIOUS
  <2>7. room \in ByOrigin /\ \A o \in Origins : room[o] >= 0 /\ room[o] = f[o] - raw[o]
    BY <2>2, <2>6 DEF ByOrigin
  <2>8. SumOf(room) = total - (x + y + z)
    BY <1>2, <2>3, <2>7 DEF SumOf, Origins
  <2>9. PICK left \in Nat : left = a - SumOf(raw)
    BY <2>4, <2>5
  <2>10. left <= SumOf(room)
    BY <1>1, <2>4, <2>8, <2>9
  <2>11. PICK extra : extra = AllocateAcrossOrigins(left, room)
    OBVIOUS
  <2>12. extra \in [Origins -> Nat] /\ SumOf(extra) = left /\ \A o \in Origins : extra[o] <= room[o]
    BY <2>7, <2>10, <2>11, AllocateExact
  <2>13. AllocateProportionally(a, f) = Plus(raw, extra)
    BY <1>1, <1>6, <2>1, <2>6, <2>9, <2>11 DEF AllocateProportionally
  <2>14. Plus(raw, extra) \in [Origins -> Nat]
    BY <2>2, <2>12 DEF Plus
  <2>15. SumOf(Plus(raw, extra)) = a
    <3>1. PICK u, v, w \in Nat : u = extra["BONUS"] /\ v = extra["PAID"] /\ w = extra["ADMIN_COMP"]
      BY <2>12 DEF Origins
    <3>2. SumOf(extra) = u + v + w
      BY <3>1 DEF SumOf
    <3>3. SumOf(Plus(raw, extra)) = (x + u) + (y + v) + (z + w)
      BY <2>3, <3>1 DEF Plus, SumOf, Origins
    <3> QED BY <2>4, <2>9, <2>12, <3>2, <3>3
  <2>16. \A o \in Origins : Plus(raw, extra)[o] <= f[o]
    BY <2>2, <2>7, <2>12 DEF Plus
  <2> QED BY <1>3, <2>13, <2>14, <2>15, <2>16
<1> QED BY <1>4, <1>5, <1>6

\* The part of the credits that a capture has left to debit
Owed(c) == IF Pending(c) THEN c.held ELSE 0

\* One call changes: what is left to debit changes by its part.
LEMMA UnsettledStep ==
    ASSUME TypeInv, TypeInv', NEW p \in Procs, \A q \in Procs \ {p} : call'[q] = call[q]
    PROVE  /\ Unsettled \in Nat /\ Unsettled' \in Nat
           /\ Unsettled' = Unsettled - Owed(call[p]) + Owed(call'[p])
<1> DEFINE f == [q \in Procs |-> Owed(call[q])]
           g == [q \in Procs |-> Owed(call'[q])]
<1>1. Unsettled = SumFunctionOnSet(f, Procs) /\ Unsettled' = SumFunctionOnSet(g, Procs)
  BY DEF Unsettled, Owed, Pending
<1>2. \A q \in Procs : f[q] \in Nat /\ g[q] \in Nat
  BY DEF TypeInv, TypeOK, CallState, Owed
<1>3. \A q \in Procs \ {p} : f[q] = g[q]
  OBVIOUS
<1>4. f[p] = Owed(call[p]) /\ g[p] = Owed(call'[p])
  OBVIOUS
<1> HIDE DEF f, g
<1>5. SumFunctionOnSet(f, Procs) \in Nat /\ SumFunctionOnSet(g, Procs) \in Nat
  BY <1>2, SumNat, FiniteAssumption
<1>6. SumFunctionOnSet(g, Procs) = SumFunctionOnSet(f, Procs) - f[p] + g[p]
  BY <1>2, <1>3, SumChange, FiniteAssumption
<1> QED BY <1>1, <1>4, <1>5, <1>6

\* One hold changes: what is reserved changes by its part.
LEMMA ReservedStep ==
    ASSUME TypeInv, TypeInv', NEW h \in Holds, \A k \in Holds \ {h} : ActiveAmounts'[k] = ActiveAmounts[k]
    PROVE  /\ Reserved \in Nat /\ Reserved' \in Nat
           /\ Reserved' = Reserved - ActiveAmounts[h] + ActiveAmounts'[h]
<1>1. \A k \in Holds : ActiveAmounts[k] \in Nat /\ ActiveAmounts'[k] \in Nat
  BY ActiveAmountsType DEF TypeInv, TypeOK, ActiveAmounts, HoldRow
<1>2. PICK f, g : f = ActiveAmounts /\ g = ActiveAmounts'
  OBVIOUS
<1>3. SumFunctionOnSet(f, Holds) \in Nat /\ SumFunctionOnSet(g, Holds) \in Nat
  BY <1>1, <1>2, SumNat, FiniteAssumption
<1>4. SumFunctionOnSet(g, Holds) = SumFunctionOnSet(f, Holds) - f[h] + g[h]
  BY <1>1, <1>2, SumChange, FiniteAssumption
<1> QED BY <1>2, <1>3, <1>4 DEF Reserved, SumOfHolds

LEMMA ReservedSame ==
    ASSUME TypeInv, TypeInv', ActiveAmounts' = ActiveAmounts
    PROVE  Reserved \in Nat /\ Reserved' = Reserved
<1>1. PICK f : f = ActiveAmounts
  OBVIOUS
<1>2. \A k \in Holds : f[k] \in Nat
  BY <1>1 DEF TypeInv, TypeOK, ActiveAmounts, HoldRow
<1>3. SumFunctionOnSet(f, Holds) \in Nat
  BY <1>2, SumNat, FiniteAssumption
<1> QED BY <1>1, <1>3 DEF Reserved, SumOfHolds

\* A reservation one has read bounds what is reserved, if it bounds each hold.
LEMMA ReservedWithin ==
    ASSUME TypeInv, NEW f \in [Holds -> Nat], \A h \in Holds : ActiveAmounts[h] <= f[h]
    PROVE  Reserved \in Nat /\ SumOfHolds(f) \in Nat /\ Reserved <= SumOfHolds(f)
<1>1. PICK g : g = ActiveAmounts
  OBVIOUS
<1>2. \A k \in Holds : g[k] \in Nat
  BY <1>1 DEF TypeInv, TypeOK, ActiveAmounts, HoldRow
<1>3. SumFunctionOnSet(g, Holds) \in Nat /\ SumFunctionOnSet(f, Holds) \in Nat
  BY <1>2, SumNat, FiniteAssumption
<1>4. SumFunctionOnSet(g, Holds) <= SumFunctionOnSet(f, Holds)
  BY <1>1, <1>2, SumMonotonic, FiniteAssumption
<1> QED BY <1>1, <1>3, <1>4 DEF Reserved, SumOfHolds

-----------------------------------------------------------------------------
Spending == {"debit", "hold", "capture"}

\* What a step of p leaves to the calls that may run beside it
Spares(p) ==
    /\ call[p].op \in Spending \/ \A o \in Origins : balance[o] <= balance'[o]
    /\ \A r \in Refs, o \in Origins : debited[r][o] <= debited'[r][o]
    /\ \A r \in Refs : refunded'[r] = refunded[r] \/ (call[p].op = "refund" /\ call[p].ref = r)
    /\ \A h \in Holds : \/ holds'[h] = holds[h] \/ holds[h].status = "absent"
                        \/ call[p].op \in {"release", "capture"} /\ call[p].hold = h
    /\ \A h \in Holds : holds[h].status # "absent" => holds'[h].status # "absent"
    /\ call[p].op \in Spending \/ \A h \in Holds : ActiveAmounts'[h] <= ActiveAmounts[h]

\* A call that still owes no audit row and no debit
NoDebt(c) == c.pc \notin {"auditCreated", "auditReleased", "auditCaptured"} /\ ~Pending(c)
SameDebt(c, d) ==
    \/ NoDebt(c) /\ NoDebt(d)
    \/ c.pc = d.pc /\ c.op = d.op /\ c.hold = d.hold /\ c.held = d.held /\ c.amount = d.amount

\* What a step of p does: the operations of the account, and the invariant of
\* the rows, of the books and of p itself.
StepGood(p) ==
    /\ Spares(p) /\ Informed(call[p])' /\ RowsSound'
    /\ Account!Next \/ UNCHANGED <<Total, Reserved + Unsettled>>
    /\ Books'

OnlyCall(p) == \A q \in Procs \ {p} : call'[q] = call[q]

LEMMA OthersInformed ==
    ASSUME AccountInv, TypeInv', NEW p \in Procs, OnlyCall(p), Spares(p), NEW q \in Procs, q # p
    PROVE  Informed(call[q])'
<1>0. PICK c : c = call[q]
  OBVIOUS
<1>1. call'[q] = c
  BY <1>0 DEF OnlyCall
<1>2. /\ Informed(c) /\ GoodCall(c) /\ c \in CallState
  BY <1>0 DEF AccountInv, TypeInv, GoodCall
<1>3. /\ ~({call[p].op, c.op} \subseteq {"debit", "hold", "capture"})
      /\ {call[p].op, c.op} \subseteq {"release", "capture"} => call[p].hold # c.hold
      /\ {call[p].op, c.op} = {"refund"} => call[p].ref # c.ref
  BY <1>0 DEF AccountInv, Apart
<1>4. InOp(c)'
  BY <1>2 DEF Informed, InOp, Spares
<1>5. c.pc \in {"release", "capture", "reduce"} => c.hold \in Holds /\ holds'[c.hold] = holds[c.hold]
  BY <1>2, <1>3 DEF Informed, InOp, Spares, GoodCall
<1>6. HoldRead(c)'
  BY <1>2, <1>5 DEF Informed, HoldRead
<1>7. BalanceSeen(c)'
  <2>1. SUFFICES ASSUME c.pc = "balance" PROVE BalanceSeen(c)'
    BY DEF BalanceSeen
  <2>2. c.op \in Spending /\ call[p].op \notin Spending
    BY <1>2, <1>3, <2>1 DEF Informed, InOp, Spending
  <2>3. /\ \A o \in Origins : balance[o] <= balance'[o]
        /\ \A h \in Holds : ActiveAmounts'[h] <= ActiveAmounts[h]
    BY <2>2 DEF Spares
  <2>4. \A o \in Origins : balance[o] \in Int /\ balance'[o] \in Int /\ c.origins[o] \in Int
    BY <1>2 DEF AccountInv, TypeInv, TypeOK, ByOrigin, CallState
  <2>5. Total \in Int /\ Total' \in Int /\ Total <= Total' /\ c.total \in Int
    BY <1>2, <2>3, <2>4 DEF Total, SumOf, Origins, CallState
  <2>6. \A h \in Holds : ActiveAmounts'[h] \in Nat /\ ActiveAmounts[h] \in Nat /\ c.reserved[h] \in Nat
    BY <1>2 DEF AccountInv, TypeInv, TypeOK, ActiveAmounts, HoldRow, CallState
  <2> QED BY <1>2, <2>3, <2>4, <2>5, <2>6 DEF Informed, BalanceSeen
<1>8. RefundSeen(c)'
  <2>1. SUFFICES ASSUME c.pc = "refundable" PROVE RefundSeen(c)'
    BY DEF RefundSeen
  <2>2. c.op = "refund" /\ c.ref \in Refs
    BY <1>2, <2>1 DEF Informed, InOp, GoodCall
  <2>3. refunded'[c.ref] = refunded[c.ref]
    BY <1>3, <2>2 DEF Spares
  <2>4. \A o \in Origins : debited[c.ref][o] \in Nat /\ debited'[c.ref][o] \in Nat /\ c.origins[o] \in Int
    BY <1>2, <2>2 DEF AccountInv, TypeInv, TypeOK, ByOrigin, CallState
  <2> QED BY <1>2, <2>2, <2>3, <2>4 DEF Informed, RefundSeen, Spares
<1>9. Informed(c)'
  BY <1>4, <1>6, <1>7, <1>8 DEF Informed
<1> QED BY <1>1, <1>9 DEF Informed, InOp, HoldRead, BalanceSeen, RefundSeen, Pending

LEMMA IdleInformed == Informed(Idle) /\ Informed(Idle)' /\ NoDebt(Idle)
BY WalletAssumption
   DEF Informed, InOp, HoldRead, BalanceSeen, RefundSeen, Pending, Idle, NoDebt

LEMMA InformedAs ==
    ASSUME NEW p \in Procs, NEW c, call'[p] = c, Informed(c)'
    PROVE  Informed(call[p])'
BY DEF Informed, InOp, HoldRead, BalanceSeen, RefundSeen, Pending

\* A step that leaves the holds alone
LEMMA HoldsKept ==
    ASSUME AccountInv, TypeInv', NEW p \in Procs, OnlyCall(p), UNCHANGED <<holds, audit, aborts>>,
           SameDebt(call[p], call'[p])
    PROVE  Reserved' = Reserved /\ Unsettled' = Unsettled /\ Books'
<1>1. TypeOK /\ Books
  BY DEF AccountInv, TypeInv
<1>2. Reserved' = Reserved
  BY DEF Reserved, ActiveAmounts
<1>3. Unsettled' = Unsettled
  <2>1. Owed(call'[p]) = Owed(call[p]) /\ Owed(call[p]) \in Nat
    BY <1>1 DEF SameDebt, Owed, NoDebt, Pending, TypeOK, CallState
  <2>2. /\ Unsettled \in Nat /\ Unsettled' \in Nat
        /\ Unsettled' = Unsettled - Owed(call[p]) + Owed(call'[p])
    BY UnsettledStep DEF AccountInv, OnlyCall
  <2> QED BY <2>1, <2>2
<1>4. Books'
  <2>1. SUFFICES ASSUME aborts = 0, NEW h \in Holds PROVE BooksOf(h)'
    BY DEF Books
  <2>2. BooksOf(h)
    BY <1>1, <2>1 DEF Books
  <2>3. \A q \in Procs : \A pc \in {"auditCreated", "auditReleased", "auditCaptured"} :
            /\ Owes(q, h, pc)' = Owes(q, h, pc)
            /\ Owes(q, h, pc) => call'[q].held = call[q].held /\ call'[q].amount = call[q].amount
    BY DEF Owes, SameDebt, NoDebt, OnlyCall
  <2>4. \A q \in Procs : /\ Settles(q, h)' = Settles(q, h)
                         /\ Settles(q, h) => call'[q].held = call[q].held
    BY <2>3 DEF Settles, SameDebt, NoDebt, OnlyCall, Pending
  <2>5. \A n : Explained(h, n)' = Explained(h, n)
    BY DEF Explained, ActiveAmounts
  <2> QED BY <2>2, <2>3, <2>4, <2>5 DEF BooksOf
<1> QED BY <1>2, <1>3, <1>4

\* A step that only moves a call
LEMMA Unmoved ==
    ASSUME AccountInv, TypeInv', NEW p \in Procs, OnlyCall(p), UNCHANGED <<db, aborts>>,
           SameDebt(call[p], call'[p]), Informed(call'[p])
    PROVE  StepGood(p)
<1>1. TypeOK /\ RowsSound
  BY DEF AccountInv, TypeInv
<1>2. UNCHANGED <<balance, debited, refunded, holds, audit, aborts>>
  BY DEF db
<1>3. Spares(p)
  BY <1>1, <1>2 DEF Spares, TypeOK, ByOrigin, ActiveAmounts, HoldRow
<1>4. Informed(call[p])'
  BY <1>2 DEF Informed, InOp, HoldRead, BalanceSeen, RefundSeen, Pending, ActiveAmounts, Total
<1>5. RowsSound' /\ Total' = Total
  BY <1>1, <1>2 DEF RowsSound, Total
<1>6. Reserved' = Reserved /\ Unsettled' = Unsettled /\ Books'
  BY <1>2, HoldsKept
<1> QED BY <1>3, <1>4, <1>5, <1>6 DEF StepGood

LEMMA CallMoves ==
    ASSUME AccountInv, NEW p \in Procs, NEW c, Begin(p, c) \/ Goto(p, c)
    PROVE  call'[p] = c /\ OnlyCall(p) /\ aborts' = aborts
BY DEF AccountInv, TypeInv, TypeOK, Begin, Goto, OnlyCall

\* The calls that start
LEMMA Starting ==
    ASSUME AccountInv, TypeInv', NEW p \in Procs,
           StartDebit(p) \/ StartCreateHold(p) \/ StartRelease(p) \/ StartReleasePartially(p)
           \/ StartCapture(p) \/ StartRefund(p)
    PROVE  StepGood(p)
<1>1. TypeOK /\ RowsSound /\ Informed(call[p]) /\ \A h \in Holds : holds[h].amount \in Nat
  BY DEF AccountInv, TypeInv, TypeOK, HoldRow
<1>2. ASSUME NEW c, Begin(p, c), UNCHANGED db, NoDebt(c), Informed(c) PROVE StepGood(p)
  <2>1. NoDebt(call[p])
    BY <1>1, <1>2 DEF Begin, NoDebt, Pending
  <2> QED BY <1>2, <2>1, CallMoves, Unmoved DEF SameDebt
<1>3. CASE StartDebit(p)
  <2>1. PICK r \in Refs \cup {NoRef}, a \in Amounts :
            Begin(p, [Idle EXCEPT !.pc = "balance", !.op = "debit", !.ref = r, !.amount = a]) /\ UNCHANGED db
    BY <1>3 DEF StartDebit
  <2>2. PICK c : c = [Idle EXCEPT !.pc = "balance", !.op = "debit", !.ref = r, !.amount = a]
    OBVIOUS
  <2>3. c.pc = "balance" /\ c.op = "debit" /\ c.amount = a /\ c.hold = NoHold /\ c.seen = {} /\ a > 0
    BY <2>2, WalletAssumption DEF Idle
  <2>4. NoDebt(c) /\ Informed(c)
    BY <2>3, WalletAssumption DEF NoDebt, Pending, Informed, InOp, HoldRead, BalanceSeen, RefundSeen
  <2> QED BY <1>2, <2>1, <2>2, <2>4
<1>4. CASE StartCreateHold(p)
  <2>1. PICK r \in Refs, a \in Amounts :
            Begin(p, [Idle EXCEPT !.pc = "balance", !.op = "hold", !.ref = r, !.amount = a]) /\ UNCHANGED db
    BY <1>4 DEF StartCreateHold
  <2>2. PICK c : c = [Idle EXCEPT !.pc = "balance", !.op = "hold", !.ref = r, !.amount = a]
    OBVIOUS
  <2>3. c.pc = "balance" /\ c.op = "hold" /\ c.amount = a /\ c.hold = NoHold /\ c.seen = {} /\ a > 0 /\ c.ref = r
    BY <2>2, WalletAssumption DEF Idle
  <2>4. NoDebt(c) /\ Informed(c)
    BY <2>3, WalletAssumption DEF NoDebt, Pending, Informed, InOp, HoldRead, BalanceSeen, RefundSeen
  <2> QED BY <1>2, <2>1, <2>2, <2>4
<1>5. CASE StartRelease(p)
  <2>1. PICK h \in Holds : holds[h].status # "absent" /\ Begin(p, FoundForRelease(h)) /\ UNCHANGED db
    BY <1>5 DEF StartRelease
  <2>2. PICK c : c = FoundForRelease(h)
    OBVIOUS
  <2>3. c.pc = "release" /\ c.op = "release" /\ c.hold = h /\ c.held = holds[h].amount
    BY <2>2 DEF FoundForRelease, Idle
  <2>4. NoDebt(c) /\ Informed(c)
    BY <2>1, <2>3 DEF NoDebt, Pending, Informed, InOp, HoldRead, BalanceSeen, RefundSeen
  <2> QED BY <1>2, <2>1, <2>2, <2>4
<1>6. CASE StartReleasePartially(p)
  <2>1. PICK h \in Holds, a \in Amounts :
            /\ holds[h].status = "ACTIVE" /\ UNCHANGED db
            /\ Begin(p, [Idle EXCEPT !.op = "release", !.hold = h, !.amount = a,
                            !.pc = IF a >= holds[h].amount THEN "find" ELSE "reduce"])
    BY <1>6 DEF StartReleasePartially
  <2>2. PICK c : c = [Idle EXCEPT !.op = "release", !.hold = h, !.amount = a,
                            !.pc = IF a >= holds[h].amount THEN "find" ELSE "reduce"]
    OBVIOUS
  <2>3. /\ c.pc = (IF a >= holds[h].amount THEN "find" ELSE "reduce")
        /\ c.op = "release" /\ c.hold = h /\ c.amount = a /\ a > 0 /\ a \in Nat
    BY <2>2, WalletAssumption DEF Idle
  <2>4. NoDebt(c) /\ Informed(c)
    BY <1>1, <2>1, <2>3 DEF NoDebt, Pending, Informed, InOp, HoldRead, BalanceSeen, RefundSeen
  <2> QED BY <1>2, <2>1, <2>2, <2>4
<1>7. CASE StartCapture(p)
  <2>1. PICK h \in Holds :
            /\ holds[h].status # "absent" /\ UNCHANGED db
            /\ Begin(p, [Idle EXCEPT !.pc = "capture", !.op = "capture", !.hold = h,
                                     !.ref = holds[h].ref, !.held = holds[h].amount])
    BY <1>7 DEF StartCapture
  <2>2. PICK c : c = [Idle EXCEPT !.pc = "capture", !.op = "capture", !.hold = h,
                                  !.ref = holds[h].ref, !.held = holds[h].amount]
    OBVIOUS
  <2>3. /\ c.pc = "capture" /\ c.op = "capture" /\ c.hold = h /\ c.held = holds[h].amount
        /\ c.ref = holds[h].ref /\ c.seen = {}
    BY <2>2 DEF Idle
  <2>4. NoDebt(c) /\ Informed(c)
    BY <2>1, <2>3 DEF NoDebt, Pending, Informed, InOp, HoldRead, BalanceSeen, RefundSeen
  <2> QED BY <1>2, <2>1, <2>2, <2>4
<1>8. CASE StartRefund(p)
  <2>1. PICK r \in Refs, a \in Amounts :
            Begin(p, [Idle EXCEPT !.pc = "refundable", !.op = "refund", !.ref = r, !.amount = a]) /\ UNCHANGED db
    BY <1>8 DEF StartRefund
  <2>2. PICK c : c = [Idle EXCEPT !.pc = "refundable", !.op = "refund", !.ref = r, !.amount = a]
    OBVIOUS
  <2>3. c.pc = "refundable" /\ c.op = "refund" /\ c.amount = a /\ c.hold = NoHold /\ c.seen = {} /\ a > 0
    BY <2>2, WalletAssumption DEF Idle
  <2>4. NoDebt(c) /\ Informed(c)
    BY <2>3, WalletAssumption DEF NoDebt, Pending, Informed, InOp, HoldRead, BalanceSeen, RefundSeen
  <2> QED BY <1>2, <2>1, <2>2, <2>4
<1> QED BY <1>3, <1>4, <1>5, <1>6, <1>7, <1>8

\* The calls that read
LEMMA Looking ==
    ASSUME AccountInv, TypeInv', NEW p \in Procs,
           ReadTotal(p) \/ ReadReserved(p) \/ ReadOrigins(p) \/ ReadDebited(p) \/ ReadRefunded(p) \/ FindAgain(p)
    PROVE  StepGood(p)
<1>1. TypeOK /\ RowsSound /\ Informed(call[p]) /\ GoodCall(call[p]) /\ call[p] \in CallState
  BY DEF AccountInv, TypeInv, GoodCall
<1>2. PICK d \in CallState : d = call[p]
  BY <1>1
<1>3. ASSUME NEW c, Goto(p, c), UNCHANGED db, SameDebt(d, c), Informed(c) PROVE StepGood(p)
  BY <1>2, <1>3, CallMoves, Unmoved
<1>4. CASE ReadTotal(p)
  <2>1. PICK c : c = [d EXCEPT !.seen = @ \cup {"total"}, !.total = Total]
    OBVIOUS
  <2>2. /\ c.pc = d.pc /\ c.op = d.op /\ c.ref = d.ref /\ c.hold = d.hold /\ c.amount = d.amount
        /\ c.held = d.held /\ c.reserved = d.reserved /\ c.origins = d.origins /\ c.refunded = d.refunded
        /\ c.seen = d.seen \cup {"total"} /\ c.total = Total
    BY <2>1 DEF CallState
  <2>3. d.pc = "balance" /\ Goto(p, c) /\ UNCHANGED db
    BY <1>2, <1>4, <2>1 DEF ReadTotal
  <2>4. Total <= Total
    BY <1>1, TotalType
  <2>5. Informed(c)
    BY <1>1, <1>2, <2>2, <2>3, <2>4 DEF Informed, InOp, HoldRead, BalanceSeen, RefundSeen, Pending
  <2> QED BY <1>3, <2>2, <2>3, <2>5 DEF SameDebt
<1>5. CASE ReadReserved(p)
  <2>1. PICK c : c = [d EXCEPT !.seen = @ \cup {"reserved"}, !.reserved = ActiveAmounts]
    OBVIOUS
  <2>2. /\ c.pc = d.pc /\ c.op = d.op /\ c.ref = d.ref /\ c.hold = d.hold /\ c.amount = d.amount
        /\ c.held = d.held /\ c.total = d.total /\ c.origins = d.origins /\ c.refunded = d.refunded
        /\ c.seen = d.seen \cup {"reserved"} /\ c.reserved = ActiveAmounts
    BY <2>1 DEF CallState
  <2>3. d.pc = "balance" /\ Goto(p, c) /\ UNCHANGED db
    BY <1>2, <1>5, <2>1 DEF ReadReserved
  <2>4. \A h \in Holds : ActiveAmounts[h] <= ActiveAmounts[h]
    BY <1>1, ActiveAmountsType
  <2>5. Informed(c)
    BY <1>1, <1>2, <2>2, <2>3, <2>4 DEF Informed, InOp, HoldRead, BalanceSeen, RefundSeen, Pending
  <2> QED BY <1>3, <2>2, <2>3, <2>5 DEF SameDebt
<1>6. CASE ReadOrigins(p)
  <2>1. PICK c : c = [d EXCEPT !.seen = @ \cup {"origins"}, !.origins = balance]
    OBVIOUS
  <2>2. /\ c.pc = d.pc /\ c.op = d.op /\ c.ref = d.ref /\ c.hold = d.hold /\ c.amount = d.amount
        /\ c.held = d.held /\ c.total = d.total /\ c.reserved = d.reserved /\ c.refunded = d.refunded
        /\ c.seen = d.seen \cup {"origins"} /\ c.origins = balance
    BY <2>1 DEF CallState
  <2>3. d.pc = "balance" /\ Goto(p, c) /\ UNCHANGED db
    BY <1>2, <1>6, <2>1 DEF ReadOrigins
  <2>4. \A o \in Origins : 0 <= balance[o] /\ balance[o] <= balance[o]
    BY <1>1 DEF RowsSound, TypeOK, ByOrigin
  <2>5. d.op = "capture" => d.held <= SumOf(balance)
    <3>1. SUFFICES ASSUME d.op = "capture" PROVE d.held <= Total
      BY DEF Total
    <3>2. Owed(d) = d.held /\ Owed(d) \in Nat
      BY <2>3, <3>1 DEF Owed, Pending, CallState
    <3>3. Owed(d) <= Unsettled /\ Unsettled \in Nat
      <4> DEFINE f == [q \in Procs |-> Owed(call[q])]
      <4>1. Unsettled = SumFunctionOnSet(f, Procs)
        BY DEF Unsettled, Owed, Pending
      <4>2. \A q \in Procs : f[q] \in Nat
        BY <1>1 DEF TypeOK, CallState, Owed
      <4>3. f[p] = Owed(d)
        BY <1>2
      <4> HIDE DEF f
      <4> QED BY <4>1, <4>2, <4>3, SumBounds, SumNat, FiniteAssumption
    <3>4. Reserved \in Nat /\ Reserved + Unsettled <= Total
      <4>1. ActiveAmounts \in [Holds -> Nat] /\ \A h \in Holds : ActiveAmounts[h] <= ActiveAmounts[h]
        BY <1>1, ActiveAmountsType
      <4> QED BY <4>1, ReservedWithin DEF AccountInv, Covered
    <3> QED BY <1>1, <3>2, <3>3, <3>4, TotalType
  <2>6. Informed(c)
    BY <1>1, <1>2, <2>2, <2>3, <2>4, <2>5 DEF Informed, InOp, HoldRead, BalanceSeen, RefundSeen, Pending
  <2> QED BY <1>3, <2>2, <2>3, <2>6 DEF SameDebt
<1>7. CASE ReadDebited(p)
  <2>1. PICK c : c = [d EXCEPT !.seen = @ \cup {"debited"}, !.origins = debited[d.ref]]
    OBVIOUS
  <2>2. /\ c.pc = d.pc /\ c.op = d.op /\ c.ref = d.ref /\ c.hold = d.hold /\ c.amount = d.amount
        /\ c.held = d.held /\ c.total = d.total /\ c.reserved = d.reserved /\ c.refunded = d.refunded
        /\ c.seen = d.seen \cup {"debited"} /\ c.origins = debited[d.ref]
    BY <2>1 DEF CallState
  <2>3. d.pc = "refundable" /\ Goto(p, c) /\ UNCHANGED db /\ d.ref \in Refs
    BY <1>1, <1>2, <1>7, <2>1 DEF ReadDebited, GoodCall
  <2>4. \A o \in Origins : refunded[d.ref][o] <= debited[d.ref][o] /\ debited[d.ref][o] <= debited[d.ref][o]
    BY <1>1, <2>3 DEF RowsSound, TypeOK
  <2>5. Informed(c)
    BY <1>1, <1>2, <2>2, <2>3, <2>4 DEF Informed, InOp, HoldRead, BalanceSeen, RefundSeen, Pending
  <2> QED BY <1>3, <2>2, <2>3, <2>5 DEF SameDebt
<1>8. CASE ReadRefunded(p)
  <2>1. PICK c : c = [d EXCEPT !.seen = @ \cup {"refunded"}, !.refunded = refunded[d.ref]]
    OBVIOUS
  <2>2. /\ c.pc = d.pc /\ c.op = d.op /\ c.ref = d.ref /\ c.hold = d.hold /\ c.amount = d.amount
        /\ c.held = d.held /\ c.total = d.total /\ c.reserved = d.reserved /\ c.origins = d.origins
        /\ c.seen = d.seen \cup {"refunded"} /\ c.refunded = refunded[d.ref]
    BY <2>1 DEF CallState
  <2>3. d.pc = "refundable" /\ Goto(p, c) /\ UNCHANGED db
    BY <1>2, <1>8, <2>1 DEF ReadRefunded
  <2>5. Informed(c)
    BY <1>1, <1>2, <2>2, <2>3 DEF Informed, InOp, HoldRead, BalanceSeen, RefundSeen, Pending
  <2> QED BY <1>3, <2>2, <2>3, <2>5 DEF SameDebt
<1>9. CASE FindAgain(p)
  <2>1. PICK c : c = FoundForRelease(d.hold)
    OBVIOUS
  <2>2. c.pc = "release" /\ c.op = "release" /\ c.hold = d.hold /\ c.held = holds[d.hold].amount
    BY <2>1 DEF FoundForRelease, Idle
  <2>3. d.pc = "find" /\ Goto(p, c) /\ UNCHANGED db
    BY <1>2, <1>9, <2>1 DEF FindAgain
  <2>4. Informed(c)
    BY <1>1, <1>2, <2>2, <2>3 DEF Informed, InOp, HoldRead, BalanceSeen, RefundSeen, Pending
  <2> QED BY <1>3, <2>2, <2>3, <2>4 DEF SameDebt, NoDebt, Pending
<1> QED BY <1>4, <1>5, <1>6, <1>7, <1>8, <1>9

\* The calls that end without writing
LEMMA Ending ==
    ASSUME AccountInv, TypeInv', NEW p \in Procs, Return(p), UNCHANGED db, NoDebt(call[p])
    PROVE  StepGood(p)
BY CallMoves, Unmoved, IdleInformed DEF Return, SameDebt

\* A capture finds the origins it needs.
LEMMA NeverFails == ASSUME AccountInv, NEW p \in Procs, FailCapture(p) PROVE FALSE
<1>1. PICK d \in CallState : d = call[p]
  BY DEF AccountInv, TypeInv, TypeOK
<1>2. d.pc = "balance" /\ d.op = "capture" /\ "origins" \in d.seen
  BY <1>1 DEF FailCapture, BalanceRead
<1>3. d.held \in Nat /\ d.origins \in ByOrigin
  BY DEF CallState
<1>4. \A o \in Origins : 0 <= d.origins[o]
  BY <1>1, <1>2 DEF AccountInv, Informed, BalanceSeen
<1>5. d.held <= SumOf(d.origins)
  BY <1>1, <1>2 DEF AccountInv, Informed, BalanceSeen
<1>6. SumOf(AllocateAcrossOrigins(d.held, d.origins)) = d.held
  BY <1>3, <1>4, <1>5, AllocateExact
<1> QED BY <1>1, <1>6 DEF FailCapture

-----------------------------------------------------------------------------
\* Credits that come in
LEMMA Credited ==
    ASSUME AccountInv, TypeInv', NEW p \in Procs, OnlyCall(p), UNCHANGED <<debited, holds, audit, aborts>>,
           NoDebt(call[p]), NoDebt(call'[p]), Informed(call[p])', Total' > Total,
           \A o \in Origins : balance[o] <= balance'[o],
           \A r \in Refs : refunded'[r] = refunded[r] \/ (call[p].op = "refund" /\ call[p].ref = r),
           \A r \in Refs : \A o \in Origins : refunded'[r][o] <= debited[r][o]
    PROVE  StepGood(p)
<1>1. TypeOK /\ RowsSound
  BY DEF AccountInv, TypeInv
<1>2. Reserved' = Reserved /\ Unsettled' = Unsettled /\ Books'
  BY HoldsKept DEF SameDebt
<1>3. Spares(p)
  BY <1>1 DEF Spares, TypeOK, ActiveAmounts, HoldRow
<1>4. RowsSound'
  <2>1. \A o \in Origins : balance[o] \in Int /\ balance'[o] \in Int
    BY DEF AccountInv, TypeInv, TypeOK, ByOrigin
  <2> QED BY <1>1, <2>1 DEF RowsSound
<1>5. Account!Next
  BY <1>2 DEF Account!Next, Account!Credit
<1> QED BY <1>2, <1>3, <1>4, <1>5 DEF StepGood

LEMMA TotalOf ==
    ASSUME TypeInv, TypeInv'
    PROVE  /\ \A o \in Origins : balance[o] \in Int /\ balance'[o] \in Int
           /\ Total = balance["BONUS"] + balance["PAID"] + balance["ADMIN_COMP"]
           /\ Total' = balance'["BONUS"] + balance'["PAID"] + balance'["ADMIN_COMP"]
           /\ Origins = {"BONUS", "PAID", "ADMIN_COMP"}
BY DEF TypeInv, TypeOK, ByOrigin, Origins, Total, SumOf

LEMMA Crediting ==
    ASSUME AccountInv, TypeInv', NEW p \in Procs,
           CreditAdmin(p) \/ CreditPackPaid(p) \/ CreditPackBonus(p) \/ WriteRefund(p)
    PROVE  StepGood(p)
<1>1. TypeOK /\ RowsSound /\ Informed(call[p]) /\ GoodCall(call[p]) /\ call[p] \in CallState
  BY DEF AccountInv, TypeInv, GoodCall
<1>2. PICK d \in CallState : d = call[p]
  BY <1>1
<1>3. balance \in [Origins -> Int] /\ Origins = {"BONUS", "PAID", "ADMIN_COMP"}
  BY <1>1 DEF TypeOK, ByOrigin, Origins
<1>4. \A r \in Refs : \A o \in Origins : refunded[r][o] <= debited[r][o]
  BY <1>1 DEF RowsSound
<1>5. CASE CreditAdmin(p)
  <2>1. PICK a \in Amounts : Begin(p, Idle) /\ balance' = [balance EXCEPT !["ADMIN_COMP"] = @ + a]
                              /\ UNCHANGED <<debited, refunded, holds, audit>>
    BY <1>5 DEF CreditAdmin
  <2>2. a \in Nat /\ a > 0
    BY WalletAssumption
  <2>3. Total' > Total /\ \A o \in Origins : balance[o] <= balance'[o]
    BY <1>3, <2>1, <2>2, TotalOf DEF AccountInv
  <2>4. call'[p] = Idle /\ OnlyCall(p) /\ aborts' = aborts /\ NoDebt(call[p])
    BY <2>1, CallMoves DEF Begin, NoDebt, Pending
  <2> QED BY <1>4, <2>1, <2>3, <2>4, IdleInformed, InformedAs, Credited
<1>6. CASE CreditPackPaid(p)
  <2>1. PICK a \in Amounts, bonus \in Amounts \cup {0} :
            /\ Begin(p, IF bonus = 0 THEN Idle
                        ELSE [Idle EXCEPT !.pc = "bonus", !.op = "credit", !.amount = bonus])
            /\ balance' = [balance EXCEPT !["PAID"] = @ + a]
            /\ UNCHANGED <<debited, refunded, holds, audit>>
    BY <1>6 DEF CreditPackPaid
  <2>2. a \in Nat /\ a > 0 /\ bonus \in Nat
    BY WalletAssumption
  <2>3. Total' > Total /\ \A o \in Origins : balance[o] <= balance'[o]
    BY <1>3, <2>1, <2>2, TotalOf DEF AccountInv
  <2>4. PICK c : c = [Idle EXCEPT !.pc = "bonus", !.op = "credit", !.amount = bonus]
    OBVIOUS
  <2>5. c.pc = "bonus" /\ c.op = "credit" /\ c.hold = NoHold /\ c.amount = bonus
    BY <2>4 DEF Idle
  <2>6. PICK e : e = IF bonus = 0 THEN Idle ELSE c
    OBVIOUS
  <2>7. call'[p] = e /\ OnlyCall(p) /\ aborts' = aborts /\ NoDebt(call[p])
    BY <2>1, <2>4, <2>6, CallMoves DEF Begin, NoDebt, Pending
  <2>8. bonus # 0 => NoDebt(c) /\ Informed(c)'
    BY <2>2, <2>5, WalletAssumption
       DEF NoDebt, Pending, Informed, InOp, HoldRead, BalanceSeen, RefundSeen
  <2>9. NoDebt(e) /\ Informed(e)'
    BY <2>6, <2>8, IdleInformed
  <2>10. NoDebt(call'[p]) /\ Informed(call[p])'
    BY <2>7, <2>9, InformedAs
  <2> QED BY <1>4, <2>1, <2>3, <2>7, <2>10, Credited
<1>7. CASE CreditPackBonus(p)
  <2>1. d.pc = "bonus" /\ balance' = [balance EXCEPT !["BONUS"] = @ + d.amount] /\ Goto(p, Idle)
        /\ UNCHANGED <<debited, refunded, holds, audit>>
    BY <1>2, <1>7 DEF CreditPackBonus, Return
  <2>2. d.amount \in Nat /\ d.amount > 0
    BY <1>1, <1>2, <2>1 DEF Informed, InOp, CallState
  <2>3. Total' > Total /\ \A o \in Origins : balance[o] <= balance'[o]
    BY <1>3, <2>1, <2>2, TotalOf DEF AccountInv
  <2>4. call'[p] = Idle /\ OnlyCall(p) /\ aborts' = aborts /\ NoDebt(call[p])
    BY <1>2, <2>1, CallMoves DEF NoDebt, Pending
  <2> QED BY <1>4, <2>1, <2>3, <2>4, IdleInformed, InformedAs, Credited
<1>8. CASE WriteRefund(p)
  <2>1. PICK left : left = Minus(d.origins, d.refunded)
    OBVIOUS
  <2>2. PICK rows : rows = Written(AllocateProportionally(d.amount, left))
    OBVIOUS
  <2>3. /\ d.pc = "refundable" /\ d.seen = {"debited", "refunded"} /\ Return(p)
        /\ UNCHANGED <<debited, holds, audit>>
        /\ \/ d.amount > SumOf(left) /\ UNCHANGED <<balance, refunded>>
           \/ /\ ~(d.amount > SumOf(left)) /\ balance' = Plus(balance, rows)
              /\ refunded' = [refunded EXCEPT ![d.ref] = Plus(@, rows)]
    BY <1>2, <1>8, <2>1, <2>2 DEF WriteRefund
  <2>4. NoDebt(d)
    BY <2>3 DEF NoDebt, Pending
  <2>5. CASE UNCHANGED <<balance, refunded>>
    BY <1>2, <2>3, <2>4, <2>5, Ending DEF db
  <2>6. CASE /\ ~(d.amount > SumOf(left)) /\ balance' = Plus(balance, rows)
             /\ refunded' = [refunded EXCEPT ![d.ref] = Plus(@, rows)]
    <3>1. /\ d.ref \in Refs /\ d.op = "refund" /\ d.amount \in Nat /\ d.amount > 0
          /\ d.refunded = refunded[d.ref]
          /\ \A o \in Origins : refunded[d.ref][o] <= d.origins[o] /\ d.origins[o] <= debited[d.ref][o]
      BY <1>1, <1>2, <2>3 DEF Informed, InOp, RefundSeen, GoodCall, CallState
    <3>2. d.origins \in ByOrigin /\ refunded[d.ref] \in [Origins -> Nat]
          /\ debited[d.ref] \in [Origins -> Nat] /\ refunded \in [Refs -> [Origins -> Nat]]
      BY <1>1, <3>1 DEF TypeOK, CallState
    <3>3. left \in [Origins -> Nat] /\ \A o \in Origins : left[o] = d.origins[o] - refunded[d.ref][o]
      BY <2>1, <3>1, <3>2 DEF Minus, ByOrigin
    <3>4. SumOf(left) \in Nat
      BY <3>3 DEF SumOf, Origins
    <3>5. d.amount <= SumOf(left)
      BY <2>6, <3>1, <3>4
    <3>6. rows \in [Origins -> Nat] /\ SumOf(rows) = d.amount /\ \A o \in Origins : rows[o] <= left[o]
      BY <2>2, <3>1, <3>3, <3>5, ProportionalExact
    <3>7. \A o \in Origins : balance'[o] = balance[o] + rows[o]
      BY <2>6 DEF Plus
    <3>8. \A o \in Origins : balance[o] <= balance'[o]
      BY <1>3, <3>6, <3>7
    <3>9. Total' > Total
      <4>1. rows["BONUS"] \in Nat /\ rows["PAID"] \in Nat /\ rows["ADMIN_COMP"] \in Nat
            /\ rows["BONUS"] + rows["PAID"] + rows["ADMIN_COMP"] = d.amount
        BY <3>6 DEF SumOf, Origins
      <4> QED BY <3>1, <3>7, <4>1, TotalOf DEF AccountInv
    <3>10. \A r \in Refs : r # d.ref => refunded'[r] = refunded[r]
      BY <2>6, <3>2
    <3>11. \A o \in Origins : refunded'[d.ref][o] = refunded[d.ref][o] + rows[o]
      BY <2>6, <3>1, <3>2 DEF Plus
    <3>12. \A o \in Origins : refunded'[d.ref][o] <= debited[d.ref][o]
      BY <3>1, <3>2, <3>3, <3>6, <3>11 DEF ByOrigin
    <3>13. call'[p] = Idle /\ OnlyCall(p) /\ aborts' = aborts
      BY <2>3, CallMoves DEF Return
    <3>14. \A r \in Refs : \A o \in Origins : refunded'[r][o] <= debited[r][o]
      BY <1>4, <3>10, <3>12
    <3>15. \A r \in Refs : refunded'[r] = refunded[r] \/ (call[p].op = "refund" /\ call[p].ref = r)
      BY <1>2, <3>1, <3>10
    <3>16. NoDebt(call[p]) /\ NoDebt(call'[p]) /\ Informed(call[p])'
      BY <1>2, <2>4, <3>13, IdleInformed, InformedAs
    <3> QED BY <2>3, <3>8, <3>9, <3>13, <3>14, <3>15, <3>16, Credited
  <2> QED BY <2>3, <2>5, <2>6
<1> QED BY <1>5, <1>6, <1>7, <1>8

-----------------------------------------------------------------------------
\* A call that spends knows what is available: nobody else is spending.
LEMMA Enough ==
    ASSUME AccountInv, NEW p \in Procs, BalanceRead(p, "debit") \/ BalanceRead(p, "hold"), Sufficient(call[p])
    PROVE  /\ call[p].amount > 0 /\ call[p].amount \in Nat
           /\ Reserved \in Nat /\ Unsettled = 0 /\ Total \in Int
           /\ call[p].amount <= Total - (Reserved + Unsettled)
<1>1. PICK d \in CallState : d = call[p]
  BY DEF AccountInv, TypeInv, TypeOK
<1>2. d.pc = "balance" /\ d.op \in {"debit", "hold"} /\ d.seen = {"total", "reserved", "origins"}
  BY <1>1 DEF BalanceRead
<1>3. d.amount > 0 /\ d.total <= Total /\ \A h \in Holds : ActiveAmounts[h] <= d.reserved[h]
  BY <1>1, <1>2 DEF AccountInv, Informed, InOp, BalanceSeen
<1>4. d.amount \in Nat /\ d.total \in Int /\ d.reserved \in [Holds -> Nat]
  BY DEF CallState
<1>5. Total \in Int
  BY TotalType DEF AccountInv, TypeInv
<1>6. Reserved \in Nat /\ SumOfHolds(d.reserved) \in Nat /\ Reserved <= SumOfHolds(d.reserved)
  BY <1>3, <1>4, ReservedWithin DEF AccountInv
<1>7. Unsettled = 0
  <2>1. \A q \in Procs : ~Pending(call[q])
    BY <1>1, <1>2 DEF AccountInv, Apart, Pending
  <2>2. PICK f : f = [q \in Procs |-> IF Pending(call[q]) THEN call[q].held ELSE 0]
    OBVIOUS
  <2>3. \A q \in Procs : f[q] = 0
    BY <2>1, <2>2
  <2> QED BY <2>2, <2>3, SumZero, FiniteAssumption DEF Unsettled
<1>8. d.total - SumOfHolds(d.reserved) >= d.amount
  BY <1>1 DEF Sufficient
<1> QED BY <1>1, <1>3, <1>4, <1>5, <1>6, <1>7, <1>8

LEMMA Debiting == ASSUME AccountInv, TypeInv', NEW p \in Procs, WriteDebit(p) PROVE StepGood(p)
<1>1. TypeOK /\ RowsSound /\ Informed(call[p])
  BY DEF AccountInv, TypeInv
<1>2. PICK d \in CallState : d = call[p]
  BY <1>1 DEF TypeOK
<1>3. PICK take : take = AllocateAcrossOrigins(d.amount, d.origins)
  OBVIOUS
<1>4. /\ BalanceRead(p, "debit") /\ Sufficient(call[p]) /\ SumOf(take) = d.amount /\ balance' = Minus(balance, take)
      /\ debited' = IF d.ref = NoRef THEN debited ELSE [debited EXCEPT ![d.ref] = Plus(@, take)]
      /\ Return(p) /\ UNCHANGED <<refunded, holds, audit>>
  BY <1>2, <1>3 DEF WriteDebit
<1>5. /\ d.amount > 0 /\ d.amount \in Nat /\ Reserved \in Nat /\ Unsettled = 0 /\ Total \in Int
      /\ d.amount <= Total - (Reserved + Unsettled)
  BY <1>2, <1>4, Enough
<1>6. d.pc = "balance" /\ d.op = "debit" /\ d.seen = {"total", "reserved", "origins"}
  BY <1>2, <1>4 DEF BalanceRead
<1>7. d.origins \in ByOrigin /\ \A o \in Origins : 0 <= d.origins[o] /\ d.origins[o] <= balance[o]
  BY <1>1, <1>2, <1>6 DEF Informed, BalanceSeen, CallState
<1>8. take \in [Origins -> Nat] /\ \A o \in Origins : take[o] <= d.origins[o]
  BY <1>3, <1>5, <1>7, AllocateExact
<1>9. \A o \in Origins : balance'[o] = balance[o] - take[o]
  BY <1>4 DEF Minus
<1>10. \A o \in Origins : balance'[o] >= 0
  BY <1>1, <1>7, <1>8, <1>9 DEF TypeOK, ByOrigin
<1>11. Total' = Total - d.amount
  <2>1. take["BONUS"] \in Nat /\ take["PAID"] \in Nat /\ take["ADMIN_COMP"] \in Nat
        /\ take["BONUS"] + take["PAID"] + take["ADMIN_COMP"] = d.amount
    BY <1>4, <1>8 DEF SumOf, Origins
  <2> QED BY <1>9, <2>1, TotalOf DEF AccountInv
<1>12. \A r \in Refs, o \in Origins : debited[r][o] \in Nat /\ debited[r][o] <= debited'[r][o]
  <2>1. debited \in [Refs -> [Origins -> Nat]]
    BY <1>1 DEF TypeOK
  <2>2. SUFFICES ASSUME NEW r \in Refs PROVE \A o \in Origins : debited[r][o] \in Nat /\ debited[r][o] <= debited'[r][o]
    OBVIOUS
  <2>3. debited'[r] = debited[r] \/ debited'[r] = Plus(debited[r], take)
    BY <1>4, <2>1
  <2> QED BY <1>8, <2>1, <2>3 DEF Plus
<1>13. call'[p] = Idle /\ OnlyCall(p) /\ aborts' = aborts
  BY <1>4, CallMoves DEF Return
<1>14. NoDebt(d)
  BY <1>6 DEF NoDebt, Pending
<1>15. Reserved' = Reserved /\ Unsettled' = Unsettled /\ Books'
  BY <1>2, <1>4, <1>13, <1>14, IdleInformed, HoldsKept DEF SameDebt
<1>16. Account!Next
  BY <1>5, <1>11, <1>15 DEF Account!Next, Account!Debit, Account!Available
<1>17. Informed(call[p])'
  BY <1>13, IdleInformed, InformedAs
<1>18. RowsSound'
  <2>1. \A r \in Refs : \A o \in Origins : refunded[r][o] \in Nat /\ refunded[r][o] <= debited[r][o]
    BY <1>1 DEF RowsSound, TypeOK
  <2>2. \A r \in Refs : \A o \in Origins : debited'[r][o] \in Nat
    BY DEF AccountInv, TypeInv, TypeOK
  <2>3. \A r \in Refs : \A o \in Origins : refunded[r][o] <= debited'[r][o]
    BY <1>12, <2>1, <2>2
  <2> QED BY <1>1, <1>4, <1>10, <2>3 DEF RowsSound
<1>19. Spares(p)
  BY <1>1, <1>2, <1>4, <1>6, <1>12 DEF Spares, Spending, TypeOK, ActiveAmounts, HoldRow
<1> QED BY <1>15, <1>16, <1>17, <1>18, <1>19 DEF StepGood

\* Who else may owe a row of the hold that p works on
LEMMA OthersOwe ==
    ASSUME AccountInv, NEW p \in Procs, NEW q \in Procs, q # p, NEW h \in Holds
    PROVE  /\ call[p].op \in {"release", "capture"} /\ call[p].hold = h
                => ~Settles(q, h) /\ ~Owes(q, h, "auditCaptured")
           /\ call[p].op = "hold" => ~Owes(q, h, "auditCreated")
<1>1. Informed(call[q])
  BY DEF AccountInv
<1> QED BY <1>1 DEF AccountInv, Apart, Informed, InOp, Settles, Owes, Pending

LEMMA NobodyOwes ==
    ASSUME AccountInv, NEW q \in Procs, NEW h \in Holds, holds[h].status = "absent"
    PROVE  call[q].hold # h
BY DEF AccountInv, Informed, InOp

\* A step on one hold: the other holds keep their books, and what is reserved
\* moves by the amount of this one.
LEMMA OneHold ==
    ASSUME AccountInv, TypeInv', NEW p \in Procs, NEW h \in Holds, OnlyCall(p), aborts' = aborts,
           NoDebt(call[p]) \/ call[p].hold = h, NoDebt(call'[p]) \/ call'[p].hold = h,
           \A k \in Holds \ {h} : holds'[k] = holds[k] /\ audit'[k] = audit[k],
           aborts = 0 /\ BooksOf(h) => BooksOf(h)'
    PROVE  /\ Books'
           /\ \A k \in Holds \ {h} : ActiveAmounts'[k] = ActiveAmounts[k]
           /\ ActiveAmounts[h] \in Nat /\ ActiveAmounts'[h] \in Nat
           /\ Reserved \in Nat /\ Unsettled \in Nat /\ Reserved' \in Nat /\ Unsettled' \in Nat
           /\ Owed(call[p]) \in Nat /\ Owed(call'[p]) \in Nat
           /\ Reserved' + Unsettled' = Reserved + Unsettled - ActiveAmounts[h] - Owed(call[p])
                                          + ActiveAmounts'[h] + Owed(call'[p])
<1>1. \A k \in Holds \ {h} : ActiveAmounts'[k] = ActiveAmounts[k]
  BY DEF ActiveAmounts
<1>2. /\ Reserved \in Nat /\ Reserved' \in Nat
      /\ Reserved' = Reserved - ActiveAmounts[h] + ActiveAmounts'[h]
  BY <1>1, ReservedStep DEF AccountInv
<1>3. /\ Unsettled \in Nat /\ Unsettled' \in Nat
      /\ Unsettled' = Unsettled - Owed(call[p]) + Owed(call'[p])
  BY UnsettledStep DEF AccountInv, OnlyCall
<1>4. ActiveAmounts[h] \in Nat /\ ActiveAmounts'[h] \in Nat /\ Owed(call[p]) \in Nat /\ Owed(call'[p]) \in Nat
  BY DEF AccountInv, TypeInv, TypeOK, ActiveAmounts, HoldRow, Owed, CallState
<1>5. Books'
  <2>1. SUFFICES ASSUME aborts = 0, NEW k \in Holds PROVE BooksOf(k)'
    BY DEF Books
  <2>2. BooksOf(k)
    BY <2>1 DEF AccountInv, Books
  <2>3. CASE k = h
    BY <2>1, <2>2, <2>3
  <2>4. CASE k # h
    <3>1. \A q \in Procs : \A pc \in {"auditCreated", "auditReleased", "auditCaptured"} :
              /\ Owes(q, k, pc)' = Owes(q, k, pc)
              /\ Owes(q, k, pc) => call'[q].held = call[q].held /\ call'[q].amount = call[q].amount
      BY <2>4 DEF Owes, NoDebt, OnlyCall
    <3>2. \A q \in Procs : /\ Settles(q, k)' = Settles(q, k)
                           /\ Settles(q, k) => call'[q].held = call[q].held
      BY <2>4, <3>1 DEF Settles, NoDebt, OnlyCall, Pending
    <3>3. holds'[k] = holds[k] /\ audit'[k] = audit[k]
      BY <2>4
    <3>4. \A n : Explained(k, n)' = Explained(k, n)
      BY <3>3 DEF Explained, ActiveAmounts
    <3> QED BY <2>2, <3>1, <3>2, <3>3, <3>4 DEF BooksOf
  <2> QED BY <2>3, <2>4
<1> QED BY <1>1, <1>2, <1>3, <1>4, <1>5

\* What such a step leaves to the others, when it moves no credits
LEMMA OneHoldSpares ==
    ASSUME AccountInv, TypeInv', NEW p \in Procs, NEW h \in Holds, UNCHANGED <<balance, debited, refunded>>,
           \A k \in Holds \ {h} : holds'[k] = holds[k] /\ audit'[k] = audit[k],
           \/ holds[h].status = "absent" \/ holds'[h] = holds[h]
           \/ call[p].op \in {"release", "capture"} /\ call[p].hold = h,
           holds[h].status # "absent" => holds'[h].status # "absent",
           call[p].op \in Spending \/ ActiveAmounts'[h] <= ActiveAmounts[h],
           holds'[h].status = "ACTIVE" => holds'[h].amount > 0,
           holds'[h].status # "absent" => holds'[h].ref \in Refs,
           holds'[h].status = "absent" => holds'[h].opened = 0 /\ audit'[h] = NoAudit
    PROVE  Spares(p) /\ RowsSound' /\ Total' = Total
<1>1. TypeOK /\ RowsSound
  BY DEF AccountInv, TypeInv
<1>2. \A k \in Holds \ {h} : ActiveAmounts'[k] = ActiveAmounts[k] /\ ActiveAmounts[k] \in Nat
  BY <1>1 DEF ActiveAmounts, TypeOK, HoldRow
<1>3. Spares(p)
  <2>1. \A r \in Refs, o \in Origins : debited[r][o] <= debited'[r][o]
    BY <1>1 DEF TypeOK
  <2>2. \A o \in Origins : balance[o] <= balance'[o]
    BY <1>1 DEF TypeOK, ByOrigin
  <2>3. call[p].op \in Spending \/ \A k \in Holds : ActiveAmounts'[k] <= ActiveAmounts[k]
    BY <1>2
  <2>4. \A k \in Holds : \/ holds'[k] = holds[k] \/ holds[k].status = "absent"
                         \/ call[p].op \in {"release", "capture"} /\ call[p].hold = k
    OBVIOUS
  <2>5. \A k \in Holds : holds[k].status # "absent" => holds'[k].status # "absent"
    OBVIOUS
  <2> QED BY <2>1, <2>2, <2>3, <2>4, <2>5 DEF Spares
<1>4. RowsSound'
  <2>1. \A k \in Holds \ {h} :
          /\ holds'[k].status = "ACTIVE" => holds'[k].amount > 0
          /\ holds'[k].status # "absent" => holds'[k].ref \in Refs
          /\ holds'[k].status = "absent" => holds'[k].opened = 0 /\ audit'[k] = NoAudit
    BY <1>1 DEF RowsSound
  <2> QED BY <1>1, <2>1 DEF RowsSound
<1> QED BY <1>3, <1>4 DEF Total

LEMMA Reserving == ASSUME AccountInv, TypeInv', NEW p \in Procs, InsertHold(p) PROVE StepGood(p)
<1>1. TypeOK /\ RowsSound /\ Informed(call[p])
  BY DEF AccountInv, TypeInv
<1>2. PICK d \in CallState : d = call[p]
  BY <1>1 DEF TypeOK
<1>3. PICK h \in Holds :
        /\ holds[h].status = "absent"
        /\ holds' = [holds EXCEPT ![h] = [status |-> "ACTIVE", amount |-> d.amount,
                                           opened |-> d.amount, ref |-> d.ref]]
        /\ Goto(p, [d EXCEPT !.pc = "auditCreated", !.hold = h])
  BY <1>2 DEF InsertHold
<1>4. BalanceRead(p, "hold") /\ Sufficient(call[p]) /\ UNCHANGED <<balance, debited, refunded, audit>>
  BY DEF InsertHold
<1>5. /\ d.amount > 0 /\ d.amount \in Nat /\ Reserved \in Nat /\ Unsettled = 0 /\ Total \in Int
      /\ d.amount <= Total - (Reserved + Unsettled)
  BY <1>2, <1>4, Enough
<1>6. d.pc = "balance" /\ d.op = "hold" /\ d.ref \in Refs
  BY <1>1, <1>2, <1>4 DEF BalanceRead, Informed, InOp
<1>7. PICK c : c = [d EXCEPT !.pc = "auditCreated", !.hold = h]
  OBVIOUS
<1>8. c.pc = "auditCreated" /\ c.hold = h /\ c.op = "hold" /\ c.ref = d.ref /\ c.amount = d.amount
  BY <1>6, <1>7 DEF CallState
<1>9. call'[p] = c /\ OnlyCall(p) /\ aborts' = aborts
  BY <1>3, <1>7, CallMoves
<1>10. /\ holds'[h].status = "ACTIVE" /\ holds'[h].amount = d.amount /\ holds'[h].opened = d.amount
       /\ holds'[h].ref = d.ref /\ \A k \in Holds \ {h} : holds'[k] = holds[k] /\ audit'[k] = audit[k]
  BY <1>1, <1>3, <1>4 DEF TypeOK
<1>11. NoDebt(d) /\ Owed(d) = 0 /\ Owed(c) = 0
  BY <1>6, <1>8 DEF NoDebt, Pending, Owed
<1>12. ActiveAmounts[h] = 0 /\ ActiveAmounts'[h] = d.amount
  BY <1>3, <1>10 DEF ActiveAmounts
<1>13. BooksOf(h)'
  <2>1. audit'[h] = NoAudit
    BY <1>1, <1>3, <1>4 DEF RowsSound
  <2>2. audit'[h].created = 0 /\ audit'[h].released = 0 /\ audit'[h].captured = 0 /\ audit'[h].debited = 0
    BY <2>1 DEF NoAudit
  <2>3. \A q \in Procs \ {p} : call'[q].hold # h
    BY <1>3, <1>9, NobodyOwes DEF OnlyCall
  <2>4. \A q \in Procs : ~Owes(q, h, "auditCaptured")' /\ ~Settles(q, h)'
    BY <1>8, <1>9, <2>3 DEF Owes, Settles, Pending
  <2>5. \A q \in Procs : Owes(q, h, "auditCreated")' <=> q = p
    BY <1>8, <1>9, <2>3 DEF Owes
  <2>6. Explained(h, 0)'
    BY <1>5, <1>10, <1>12, <2>2 DEF Explained
  <2> QED BY <1>5, <1>8, <1>9, <1>10, <2>2, <2>4, <2>5, <2>6 DEF BooksOf
<1>14. /\ Books' /\ Reserved' + Unsettled' = Reserved + Unsettled + d.amount
  BY <1>2, <1>5, <1>8, <1>9, <1>10, <1>11, <1>12, <1>13, OneHold
<1>15. Spares(p) /\ RowsSound' /\ Total' = Total
  BY <1>2, <1>3, <1>4, <1>5, <1>6, <1>10, OneHoldSpares DEF Spending
<1>16. Account!Next
  <2>1. PICK r, n : r = Reserved + Unsettled /\ n = Reserved' + Unsettled'
    OBVIOUS
  <2>2. n = r + d.amount /\ r \in Nat
    BY <1>5, <1>14, <2>1
  <2> QED BY <1>5, <1>15, <2>1, <2>2 DEF Account!Next, Account!Reserve, Account!Available
<1>17. Informed(c)'
  BY <1>6, <1>8, <1>10 DEF Informed, InOp, HoldRead, BalanceSeen, RefundSeen, Pending
<1> QED BY <1>9, <1>14, <1>15, <1>16, <1>17, InformedAs DEF StepGood

\* Less is reserved: an operation of the account, or nothing
LEMMA Freed ==
    ASSUME AccountInv, Total' = Total, NEW r \in Nat, NEW n \in Nat,
           r = Reserved + Unsettled, n = Reserved' + Unsettled', n <= r
    PROVE  Account!Next \/ UNCHANGED <<Total, Reserved + Unsettled>>
BY DEF Account!Next, Account!Release

LEMMA Releasing ==
    ASSUME AccountInv, TypeInv', NEW p \in Procs, TransitionReleased(p) \/ ReduceHoldAmount(p)
    PROVE  StepGood(p)
<1>1. TypeOK /\ RowsSound /\ Informed(call[p]) /\ GoodCall(call[p])
  BY DEF AccountInv, TypeInv
<1>2. PICK d \in CallState : d = call[p]
  BY <1>1 DEF TypeOK
<1>3. PICK h \in Holds : h = d.hold
  BY <1>1, <1>2 DEF TransitionReleased, ReduceHoldAmount, GoodCall
<1>4. d.pc \in {"release", "reduce"} /\ d.op = "release" /\ holds[h].status # "absent"
  BY <1>1, <1>2, <1>3 DEF TransitionReleased, ReduceHoldAmount, Informed, InOp
<1>5. NoDebt(d) /\ Owed(d) = 0
  BY <1>4 DEF NoDebt, Pending, Owed
<1>6. holds[h].amount \in Nat /\ holds[h].opened \in Nat /\ d.amount \in Nat /\ holds[h] \in HoldRow
  BY <1>1 DEF TypeOK, HoldRow, CallState
<1>7. SUFFICES ASSUME NEW c, Goto(p, c), c.pc = "auditReleased", c.op = "release", c.hold = h, c.held \in Nat,
                      UNCHANGED <<balance, debited, refunded, audit>>, holds[h].status = "ACTIVE",
                      ActiveAmounts'[h] = ActiveAmounts[h] - c.held,
                      holds'[h].opened = holds[h].opened, holds'[h].ref = holds[h].ref,
                      holds'[h].status = "RELEASED"
                      \/ (holds'[h].status = "ACTIVE" /\ holds'[h].amount > 0),
                      \A k \in Holds \ {h} : holds'[k] = holds[k]
               PROVE  StepGood(p)
  <2>1. CASE TransitionReleased(p)
    <3>1. CASE holds[h].status # "ACTIVE"
      BY <1>2, <1>3, <1>5, <2>1, <3>1, Ending DEF TransitionReleased, db
    <3>2. CASE holds[h].status = "ACTIVE"
      <4>1. PICK c : c = [d EXCEPT !.pc = "auditReleased"]
        OBVIOUS
      <4>2. c.pc = "auditReleased" /\ c.op = "release" /\ c.hold = h /\ c.held = d.held /\ d.held \in Nat
        BY <1>3, <1>4, <4>1 DEF CallState
      <4>3. /\ d.pc = "release" /\ holds' = [holds EXCEPT ![h].status = "RELEASED"] /\ Goto(p, c)
            /\ UNCHANGED <<balance, debited, refunded, audit>>
        BY <1>2, <1>3, <2>1, <3>2, <4>1 DEF TransitionReleased
      <4>4. d.held = holds[h].amount
        BY <1>1, <1>2, <1>3, <4>3 DEF Informed, HoldRead
      <4>5. PICK w : w = [holds[h] EXCEPT !.status = "RELEASED"]
        OBVIOUS
      <4>6. w.status = "RELEASED" /\ w.opened = holds[h].opened /\ w.ref = holds[h].ref
        BY <1>6, <4>5 DEF HoldRow
      <4>7. holds'[h] = w /\ \A k \in Holds \ {h} : holds'[k] = holds[k]
        BY <1>1, <4>3, <4>5 DEF TypeOK
      <4>8. ActiveAmounts'[h] = ActiveAmounts[h] - c.held
        BY <1>6, <3>2, <4>2, <4>4, <4>6, <4>7 DEF ActiveAmounts
      <4> QED BY <1>7, <3>2, <4>2, <4>3, <4>6, <4>7, <4>8
    <3> QED BY <3>1, <3>2
  <2>2. CASE ReduceHoldAmount(p)
    <3>1. CASE ~(holds[h].status = "ACTIVE" /\ holds[h].amount >= d.amount)
      BY <1>2, <1>3, <1>5, <2>2, <3>1, Ending DEF ReduceHoldAmount, db
    <3>2. CASE holds[h].status = "ACTIVE" /\ holds[h].amount >= d.amount
      <4>1. PICK c : c = [d EXCEPT !.pc = "auditReleased", !.held = d.amount]
        OBVIOUS
      <4>2. c.pc = "auditReleased" /\ c.op = "release" /\ c.hold = h /\ c.held = d.amount
        BY <1>3, <1>4, <4>1 DEF CallState
      <4>3. /\ d.pc = "reduce" /\ holds' = [holds EXCEPT ![h].amount = @ - d.amount] /\ Goto(p, c)
            /\ UNCHANGED <<balance, debited, refunded, audit>>
        BY <1>2, <1>3, <2>2, <3>2, <4>1 DEF ReduceHoldAmount
      <4>4. d.amount < holds[h].amount
        BY <1>1, <1>2, <1>3, <4>3 DEF Informed, HoldRead
      <4>5. PICK w : w = [holds[h] EXCEPT !.amount = @ - d.amount]
        OBVIOUS
      <4>6. w.status = "ACTIVE" /\ w.opened = holds[h].opened /\ w.ref = holds[h].ref
            /\ w.amount = holds[h].amount - d.amount
        BY <1>6, <3>2, <4>5 DEF HoldRow
      <4>7. holds'[h] = w /\ \A k \in Holds \ {h} : holds'[k] = holds[k]
        BY <1>1, <4>3, <4>5 DEF TypeOK
      <4>8. ActiveAmounts'[h] = ActiveAmounts[h] - c.held
        BY <1>6, <3>2, <4>2, <4>4, <4>6, <4>7 DEF ActiveAmounts
      <4> QED BY <1>6, <1>7, <3>2, <4>2, <4>3, <4>4, <4>6, <4>7, <4>8
    <3> QED BY <3>1, <3>2
  <2> QED BY <2>1, <2>2
<1>8. call'[p] = c /\ OnlyCall(p) /\ aborts' = aborts
  BY <1>7, CallMoves
<1>9. BooksOf(h) => BooksOf(h)'
  <2>1. SUFFICES ASSUME BooksOf(h) PROVE BooksOf(h)'
    OBVIOUS
  <2>2. \A q \in Procs \ {p} : ~Settles(q, h) /\ ~Owes(q, h, "auditCaptured") /\ call'[q] = call[q]
    BY <1>2, <1>3, <1>4, <1>8, OthersOwe DEF OnlyCall
  <2>3. ~Settles(p, h) /\ ~Owes(p, h, "auditCaptured") /\ ~Owes(p, h, "auditCreated")
    BY <1>2, <1>4 DEF Settles, Owes, Pending
  <2>4. Explained(h, 0) /\ audit[h].captured = audit[h].debited
    BY <2>1, <2>2, <2>3 DEF BooksOf
  <2>5. \A q \in Procs : Settles(q, h)' <=> q = p
    BY <1>7, <1>8, <2>2 DEF Settles, Owes, Pending
  <2>6. \A q \in Procs : ~Owes(q, h, "auditCaptured")'
    BY <1>7, <1>8, <2>2 DEF Owes
  <2>7. \A q \in Procs : /\ Owes(q, h, "auditCreated")' <=> Owes(q, h, "auditCreated")
                         /\ Owes(q, h, "auditCreated") => call'[q].amount = call[q].amount
    BY <1>7, <1>8, <2>2, <2>3 DEF Owes
  <2>8. audit[h].released \in Nat /\ audit[h].debited \in Nat /\ ActiveAmounts[h] \in Nat
    BY <1>1 DEF TypeOK, AuditSums, ActiveAmounts, HoldRow
  <2>9. Explained(h, c.held)'
    BY <1>6, <1>7, <1>8, <2>4, <2>8 DEF Explained
  <2>10. Explained(h, call[p].held)'
    BY <1>8, <2>9 DEF Explained
  <2> QED BY <1>7, <2>1, <2>4, <2>5, <2>6, <2>7, <2>10 DEF BooksOf
<1>10. Owed(c) = 0
  BY <1>7 DEF Owed, Pending
<1>11. /\ Books' /\ ActiveAmounts[h] \in Nat /\ ActiveAmounts'[h] \in Nat
       /\ Reserved \in Nat /\ Unsettled \in Nat /\ Reserved' \in Nat /\ Unsettled' \in Nat
       /\ Reserved' + Unsettled' = Reserved + Unsettled - ActiveAmounts[h] - 0 + ActiveAmounts'[h] + 0
  BY <1>2, <1>3, <1>5, <1>7, <1>8, <1>9, <1>10, OneHold
<1>12. Spares(p) /\ RowsSound' /\ Total' = Total
  <2>1. holds[h].ref \in Refs
    BY <1>1, <1>4 DEF RowsSound
  <2>2. ActiveAmounts'[h] <= ActiveAmounts[h]
    BY <1>7, <1>11
  <2>3. call[p].op = "release" /\ call[p].hold = h
    BY <1>2, <1>3, <1>4
  <2>4. \A k \in Holds \ {h} : holds'[k] = holds[k] /\ audit'[k] = audit[k]
    BY <1>7
  <2> QED BY <1>4, <1>7, <2>1, <2>2, <2>3, <2>4, OneHoldSpares
<1>13. Account!Next \/ UNCHANGED <<Total, Reserved + Unsettled>>
  <2>1. Reserved + Unsettled \in Nat /\ Reserved' + Unsettled' \in Nat
    <3>1. PICK a, b, m, n \in Nat : a = Reserved /\ b = Unsettled /\ m = Reserved' /\ n = Unsettled'
      BY <1>11
    <3>2. a + b \in Nat /\ m + n \in Nat
      OBVIOUS
    <3> QED BY <3>1, <3>2
  <2>2. PICK a, b, m \in Nat : a = ActiveAmounts[h] /\ b = ActiveAmounts'[h] /\ m = c.held
    BY <1>7, <1>11
  <2>3. PICK r \in Nat : r = Reserved + Unsettled
    BY <2>1
  <2>4. PICK n \in Nat : n = Reserved' + Unsettled'
    BY <2>1
  <2>5. n = r - a - 0 + b + 0 /\ b = a - m
    BY <1>7, <1>11, <2>2, <2>3, <2>4
  <2>6. n <= r
    BY <2>5
  <2> QED BY <1>12, <2>3, <2>4, <2>6, Freed
<1>14. Informed(c)'
  BY <1>4, <1>7 DEF Informed, InOp, HoldRead, BalanceSeen, RefundSeen, Pending
<1> QED BY <1>8, <1>11, <1>12, <1>13, <1>14, InformedAs DEF StepGood

\* The audit rows of a creation, a release, a capture
LEMMA Auditing ==
    ASSUME AccountInv, TypeInv', NEW p \in Procs, AuditCreated(p) \/ AuditReleased(p) \/ AuditCaptured(p)
    PROVE  StepGood(p)
<1>1. TypeOK /\ RowsSound /\ Informed(call[p])
  BY DEF AccountInv, TypeInv
<1>2. PICK d \in CallState : d = call[p]
  BY <1>1 DEF TypeOK
<1>3. d.pc \in {"auditCreated", "auditReleased", "auditCaptured"}
  BY <1>2 DEF AuditCreated, AuditReleased, AuditCaptured
<1>4. PICK h \in Holds : h = d.hold
  BY <1>1, <1>2, <1>3 DEF Informed, InOp
<1>5. /\ holds[h].status # "absent" /\ ~Pending(d) /\ Owed(d) = 0 /\ d.held \in Nat /\ d.amount \in Nat
      /\ d.op = IF d.pc = "auditCreated" THEN "hold" ELSE IF d.pc = "auditReleased" THEN "release" ELSE "capture"
  BY <1>1, <1>2, <1>3, <1>4 DEF Informed, InOp, Pending, Owed, CallState
<1>6. /\ Goto(p, Idle) /\ UNCHANGED <<balance, debited, refunded, holds>>
      /\ \/ d.pc = "auditCreated" /\ audit' = [audit EXCEPT ![h].created = @ + d.amount]
         \/ d.pc = "auditReleased" /\ audit' = [audit EXCEPT ![h].released = @ + d.held]
         \/ d.pc = "auditCaptured" /\ audit' = [audit EXCEPT ![h].captured = @ + d.held]
  BY <1>2, <1>4 DEF AuditCreated, AuditReleased, AuditCaptured, Return
<1>7. call'[p] = Idle /\ OnlyCall(p) /\ aborts' = aborts
  BY <1>6, CallMoves
<1>8. NoDebt(Idle) /\ Owed(Idle) = 0 /\ Informed(Idle)'
  BY IdleInformed DEF NoDebt, Owed
<1>9. audit \in [Holds -> AuditSums] /\ audit[h] \in AuditSums
  BY <1>1 DEF TypeOK
<1>10. /\ \A k \in Holds \ {h} : holds'[k] = holds[k] /\ audit'[k] = audit[k]
       /\ audit'[h].created = audit[h].created + (IF d.pc = "auditCreated" THEN d.amount ELSE 0)
       /\ audit'[h].released = audit[h].released + (IF d.pc = "auditReleased" THEN d.held ELSE 0)
       /\ audit'[h].captured = audit[h].captured + (IF d.pc = "auditCaptured" THEN d.held ELSE 0)
       /\ audit'[h].debited = audit[h].debited
  <2>1. CASE d.pc = "auditCreated"
    <3>1. audit' = [audit EXCEPT ![h].created = @ + d.amount]
      BY <1>6, <2>1
    <3> QED BY <1>5, <1>6, <1>9, <2>1, <3>1 DEF AuditSums
  <2>2. CASE d.pc = "auditReleased"
    <3>1. audit' = [audit EXCEPT ![h].released = @ + d.held]
      BY <1>6, <2>2
    <3> QED BY <1>5, <1>6, <1>9, <2>2, <3>1 DEF AuditSums
  <2>3. CASE d.pc = "auditCaptured"
    <3>1. audit' = [audit EXCEPT ![h].captured = @ + d.held]
      BY <1>6, <2>3
    <3> QED BY <1>5, <1>6, <1>9, <2>3, <3>1 DEF AuditSums
  <2> QED BY <1>3, <2>1, <2>2, <2>3
<1>11. BooksOf(h) => BooksOf(h)'
  <2>1. SUFFICES ASSUME BooksOf(h) PROVE BooksOf(h)'
    OBVIOUS
  <2>2. /\ audit[h].created \in Nat /\ audit[h].released \in Nat /\ audit[h].captured \in Nat
        /\ audit[h].debited \in Nat /\ ActiveAmounts[h] \in Nat
    BY <1>1, <1>9 DEF AuditSums, TypeOK, ActiveAmounts, HoldRow
  <2>3. \A q \in Procs \ {p} : call'[q] = call[q]
    BY <1>7 DEF OnlyCall
  <2>4. \A pc \in {"auditCreated", "auditReleased", "auditCaptured"} : ~Owes(p, h, pc)'
    BY <1>7 DEF Owes, Idle
  <2>5. ~Settles(p, h)'
    BY <1>7 DEF Settles, Owes, Pending, Idle
  <2>6. \A q \in Procs \ {p} : \A pc \in {"auditCreated", "auditReleased", "auditCaptured"} :
            Owes(q, h, pc)' <=> Owes(q, h, pc)
    BY <2>3 DEF Owes
  <2>7. \A q \in Procs \ {p} : Settles(q, h)' <=> Settles(q, h)
    BY <2>3 DEF Settles, Owes, Pending
  <2>8. ActiveAmounts'[h] = ActiveAmounts[h]
    BY <1>6 DEF ActiveAmounts
  <2>9. CASE d.pc = "auditCreated"
    <3>1. \A q \in Procs \ {p} : ~Owes(q, h, "auditCreated")
      BY <1>2, <1>5, <2>9, OthersOwe
    <3>2. ~Owes(p, h, "auditReleased") /\ ~Owes(p, h, "auditCaptured") /\ ~Settles(p, h) /\ Owes(p, h, "auditCreated")
      BY <1>2, <1>4, <1>5, <2>9 DEF Owes, Settles
    <3>3. audit'[h].created = holds'[h].opened
      BY <1>2, <1>6, <1>10, <2>1, <2>9, <3>2 DEF BooksOf
    <3>4. audit'[h].released = audit[h].released /\ audit'[h].captured = audit[h].captured
      BY <1>10, <2>2, <2>9
    <3>5. \A n : Explained(h, n)' <=> Explained(h, n)
      BY <1>6, <1>10, <2>8, <3>4 DEF Explained
    <3> QED BY <1>6, <1>10, <2>1, <2>3, <2>4, <2>5, <2>6, <2>7, <3>1, <3>2, <3>3, <3>4, <3>5 DEF BooksOf
  <2>10. CASE d.pc = "auditReleased"
    <3>1. \A q \in Procs \ {p} : ~Settles(q, h) /\ ~Owes(q, h, "auditCaptured")
      BY <1>2, <1>4, <1>5, <2>10, OthersOwe
    <3>2. ~Owes(p, h, "auditCreated") /\ ~Owes(p, h, "auditCaptured") /\ Settles(p, h)
      BY <1>2, <1>4, <1>5, <2>10 DEF Owes, Settles
    <3>3. Explained(h, d.held)
      BY <1>2, <2>1, <3>2 DEF BooksOf
    <3>4. Explained(h, 0)'
      BY <1>5, <1>6, <1>10, <2>2, <2>8, <2>10, <3>3 DEF Explained
    <3>5. audit'[h].created = audit[h].created /\ audit'[h].captured = audit[h].captured
      BY <1>10, <2>2, <2>10
    <3> QED BY <1>6, <1>10, <2>1, <2>3, <2>4, <2>5, <2>6, <2>7, <3>1, <3>2, <3>4, <3>5 DEF BooksOf
  <2>11. CASE d.pc = "auditCaptured"
    <3>1. \A q \in Procs \ {p} : ~Settles(q, h) /\ ~Owes(q, h, "auditCaptured")
      BY <1>2, <1>4, <1>5, <2>11, OthersOwe
    <3>2. ~Owes(p, h, "auditCreated") /\ ~Settles(p, h) /\ Owes(p, h, "auditCaptured")
      BY <1>2, <1>4, <1>5, <2>11 DEF Owes, Settles
    <3>3. audit'[h].captured = audit'[h].debited
      BY <1>2, <1>10, <2>1, <2>11, <3>2 DEF BooksOf
    <3>4. audit'[h].created = audit[h].created /\ audit'[h].released = audit[h].released
      BY <1>10, <2>2, <2>11
    <3>5. Explained(h, 0)'
      BY <1>6, <1>10, <2>1, <2>8, <3>1, <3>2, <3>4 DEF BooksOf, Explained
    <3> QED BY <1>6, <1>10, <2>1, <2>3, <2>4, <2>5, <2>6, <2>7, <3>1, <3>2, <3>3, <3>4, <3>5 DEF BooksOf
  <2> QED BY <1>3, <2>9, <2>10, <2>11
<1>12. ActiveAmounts'[h] = ActiveAmounts[h] /\ ActiveAmounts[h] \in Nat
  BY <1>1, <1>6 DEF ActiveAmounts, TypeOK, HoldRow
<1>13. /\ Books' /\ Reserved \in Nat /\ Unsettled \in Nat /\ Reserved' \in Nat /\ Unsettled' \in Nat
       /\ Reserved' + Unsettled' = Reserved + Unsettled - ActiveAmounts[h] - 0 + ActiveAmounts'[h] + 0
  BY <1>2, <1>4, <1>5, <1>7, <1>8, <1>10, <1>11, OneHold
<1>14. Reserved' + Unsettled' = Reserved + Unsettled
  <2>1. PICK a, b, m, n \in Nat : a = Reserved /\ b = Unsettled /\ m = Reserved' /\ n = Unsettled'
    BY <1>13
  <2>2. PICK x \in Nat : x = ActiveAmounts[h] /\ x = ActiveAmounts'[h]
    BY <1>12
  <2>3. m + n = a + b - x - 0 + x + 0
    BY <1>13, <2>1, <2>2
  <2>4. m + n = a + b
    BY <2>3
  <2> QED BY <2>1, <2>4
<1>15. Spares(p) /\ RowsSound' /\ Total' = Total
  <2>1. /\ holds[h].status = "ACTIVE" => holds[h].amount > 0
        /\ holds[h].ref \in Refs
    BY <1>1, <1>5 DEF RowsSound
  <2>2. ActiveAmounts'[h] <= ActiveAmounts[h]
    BY <1>12
  <2> QED BY <1>5, <1>6, <1>10, <2>1, <2>2, OneHoldSpares
<1> QED BY <1>7, <1>8, <1>13, <1>14, <1>15, InformedAs DEF StepGood

\* The transition of a hold to CAPTURED: its amount is due at once
LEMMA Capturing == ASSUME AccountInv, TypeInv', NEW p \in Procs, TransitionCaptured(p) PROVE StepGood(p)
<1>1. TypeOK /\ RowsSound /\ Informed(call[p]) /\ GoodCall(call[p])
  BY DEF AccountInv, TypeInv
<1>2. PICK d \in CallState : d = call[p]
  BY <1>1 DEF TypeOK
<1>3. PICK h \in Holds : h = d.hold
  BY <1>1, <1>2 DEF TransitionCaptured, GoodCall
<1>4. /\ d.pc = "capture" /\ d.op = "capture" /\ holds[h].status # "absent" /\ d.held = holds[h].amount
      /\ d.ref = holds[h].ref /\ d.seen = {}
  BY <1>1, <1>2, <1>3 DEF TransitionCaptured, Informed, InOp, HoldRead
<1>5. NoDebt(d) /\ Owed(d) = 0
  BY <1>4 DEF NoDebt, Pending, Owed
<1>6. CASE holds[h].status # "ACTIVE"
  BY <1>2, <1>3, <1>5, <1>6, Ending DEF TransitionCaptured, db
<1>7. CASE holds[h].status = "ACTIVE"
  <2>1. PICK c : c = [d EXCEPT !.pc = "balance"]
    OBVIOUS
  <2>2. /\ c.pc = "balance" /\ c.op = "capture" /\ c.hold = h /\ c.held = d.held /\ c.ref = d.ref
        /\ c.seen = {} /\ d.held \in Nat
    BY <1>3, <1>4, <2>1 DEF CallState
  <2>3. /\ holds' = [holds EXCEPT ![h].status = "CAPTURED"] /\ Goto(p, c)
        /\ UNCHANGED <<balance, debited, refunded, audit>>
    BY <1>2, <1>3, <1>7, <2>1 DEF TransitionCaptured
  <2>4. PICK w : w = [holds[h] EXCEPT !.status = "CAPTURED"]
    OBVIOUS
  <2>5. w.status = "CAPTURED" /\ w.opened = holds[h].opened /\ w.ref = holds[h].ref
    BY <1>1, <2>4 DEF TypeOK, HoldRow
  <2>6. holds'[h] = w /\ \A k \in Holds \ {h} : holds'[k] = holds[k] /\ audit'[k] = audit[k]
    BY <1>1, <2>3, <2>4 DEF TypeOK
  <2>7. call'[p] = c /\ OnlyCall(p) /\ aborts' = aborts
    BY <2>3, CallMoves
  <2>8. ActiveAmounts'[h] = 0 /\ ActiveAmounts[h] = d.held /\ d.held > 0 /\ holds[h].ref \in Refs
    BY <1>1, <1>4, <1>7, <2>5, <2>6 DEF ActiveAmounts, RowsSound
  <2>9. Owed(c) = d.held
    BY <2>2 DEF Owed, Pending
  <2>10. BooksOf(h) => BooksOf(h)'
    <3>1. SUFFICES ASSUME BooksOf(h) PROVE BooksOf(h)'
      OBVIOUS
    <3>2. \A q \in Procs \ {p} : ~Settles(q, h) /\ ~Owes(q, h, "auditCaptured") /\ call'[q] = call[q]
      BY <1>2, <1>3, <1>4, <2>7, OthersOwe DEF OnlyCall
    <3>3. ~Settles(p, h) /\ ~Owes(p, h, "auditCaptured") /\ ~Owes(p, h, "auditCreated")
      BY <1>2, <1>4 DEF Settles, Owes, Pending
    <3>4. Explained(h, 0) /\ audit[h].captured = audit[h].debited
      BY <3>1, <3>2, <3>3 DEF BooksOf
    <3>5. \A q \in Procs : Settles(q, h)' <=> q = p
      BY <2>2, <2>7, <3>2 DEF Settles, Owes, Pending
    <3>6. \A q \in Procs : ~Owes(q, h, "auditCaptured")'
      BY <2>2, <2>7, <3>2 DEF Owes
    <3>7. \A q \in Procs : /\ Owes(q, h, "auditCreated")' <=> Owes(q, h, "auditCreated")
                           /\ Owes(q, h, "auditCreated") => call'[q].amount = call[q].amount
      BY <2>2, <2>7, <3>2, <3>3 DEF Owes
    <3>8. audit[h].released \in Nat /\ audit[h].debited \in Nat
      BY <1>1 DEF TypeOK, AuditSums
    <3>9. Explained(h, d.held)'
      BY <2>2, <2>3, <2>5, <2>6, <2>8, <3>4, <3>8 DEF Explained
    <3>10. Explained(h, call[p].held)'
      BY <2>2, <2>7, <3>9 DEF Explained
    <3> QED BY <2>3, <2>5, <2>6, <3>1, <3>4, <3>5, <3>6, <3>7, <3>10 DEF BooksOf
  <2>11. /\ Books' /\ Reserved \in Nat /\ Unsettled \in Nat /\ Reserved' \in Nat /\ Unsettled' \in Nat
         /\ Reserved' + Unsettled' = Reserved + Unsettled - d.held - 0 + 0 + d.held
    BY <1>2, <1>3, <1>5, <2>2, <2>6, <2>7, <2>8, <2>9, <2>10, OneHold
  <2>12. Reserved' + Unsettled' = Reserved + Unsettled
    <3>1. PICK a, b, m, n \in Nat : a = Reserved /\ b = Unsettled /\ m = Reserved' /\ n = Unsettled'
      BY <2>11
    <3>2. m + n = a + b - d.held - 0 + 0 + d.held
      BY <2>11, <3>1
    <3>3. m + n = a + b
      BY <2>2, <3>2
    <3> QED BY <3>1, <3>3
  <2>13. Spares(p) /\ RowsSound' /\ Total' = Total
    BY <1>2, <1>3, <1>4, <2>3, <2>5, <2>6, <2>8, OneHoldSpares DEF Spending
  <2>14. Informed(c)'
    BY <2>2, <2>5, <2>6, <2>8, <1>4 DEF Informed, InOp, HoldRead, BalanceSeen, RefundSeen, Pending
  <2> QED BY <2>7, <2>11, <2>12, <2>13, <2>14, InformedAs DEF StepGood
<1> QED BY <1>6, <1>7

\* The debit of a captured hold
LEMMA Settling == ASSUME AccountInv, TypeInv', NEW p \in Procs, WriteCapture(p) PROVE StepGood(p)
<1>1. TypeOK /\ RowsSound /\ Informed(call[p]) /\ SpendInv
  BY DEF AccountInv, TypeInv
<1>2. PICK d \in CallState : d = call[p]
  BY <1>1 DEF TypeOK
<1>3. PICK take : take = AllocateAcrossOrigins(d.held, d.origins)
  OBVIOUS
<1>4. PICK c : c = [d EXCEPT !.pc = "auditCaptured"]
  OBVIOUS
<1>5. /\ BalanceRead(p, "capture") /\ SumOf(take) = d.held /\ balance' = Minus(balance, take)
      /\ debited' = [debited EXCEPT ![d.ref] = Plus(@, take)]
      /\ audit' = [audit EXCEPT ![d.hold].debited = @ + d.held]
      /\ Goto(p, c) /\ UNCHANGED <<refunded, holds>>
  BY <1>2, <1>3, <1>4 DEF WriteCapture
<1>6. d.pc = "balance" /\ d.op = "capture" /\ "origins" \in d.seen /\ Pending(d)
  BY <1>2, <1>5 DEF BalanceRead, Pending
<1>7. /\ d.held \in Nat /\ d.held > 0 /\ d.ref \in Refs /\ Owed(d) = d.held /\ d.origins \in ByOrigin
      /\ \A o \in Origins : 0 <= d.origins[o] /\ d.origins[o] <= balance[o]
  BY <1>1, <1>2, <1>6 DEF Informed, HoldRead, BalanceSeen, Owed, CallState
<1>8. PICK h \in Holds : h = d.hold /\ holds[h].status = "CAPTURED" /\ audit[h].debited = 0
  BY <1>1, <1>2, <1>6 DEF SpendInv, CaptureInv
<1>9. /\ c.pc = "auditCaptured" /\ c.op = "capture" /\ c.hold = h /\ c.held = d.held /\ c.ref = d.ref
      /\ Owed(c) = 0
  BY <1>4, <1>6, <1>8 DEF CallState, Owed, Pending
<1>10. call'[p] = c /\ OnlyCall(p) /\ aborts' = aborts
  BY <1>5, CallMoves
<1>11. take \in [Origins -> Nat] /\ \A o \in Origins : take[o] <= d.origins[o]
  BY <1>3, <1>7, AllocateExact
<1>12. \A o \in Origins : balance'[o] = balance[o] - take[o]
  BY <1>5 DEF Minus
<1>13. \A o \in Origins : balance'[o] >= 0
  BY <1>1, <1>7, <1>11, <1>12 DEF TypeOK, ByOrigin
<1>14. Total' = Total - d.held
  <2>1. take["BONUS"] \in Nat /\ take["PAID"] \in Nat /\ take["ADMIN_COMP"] \in Nat
        /\ take["BONUS"] + take["PAID"] + take["ADMIN_COMP"] = d.held
    BY <1>5, <1>11 DEF SumOf, Origins
  <2> QED BY <1>12, <2>1, TotalOf DEF AccountInv
<1>15. \A r \in Refs, o \in Origins : debited[r][o] \in Nat /\ debited[r][o] <= debited'[r][o]
  <2>1. debited \in [Refs -> [Origins -> Nat]]
    BY <1>1 DEF TypeOK
  <2>2. SUFFICES ASSUME NEW r \in Refs PROVE \A o \in Origins : debited[r][o] \in Nat /\ debited[r][o] <= debited'[r][o]
    OBVIOUS
  <2>3. debited'[r] = debited[r] \/ debited'[r] = Plus(debited[r], take)
    BY <1>5, <2>1
  <2> QED BY <1>11, <2>1, <2>3 DEF Plus
<1>16. /\ audit'[h].debited = d.held /\ audit'[h].created = audit[h].created
       /\ audit'[h].released = audit[h].released /\ audit'[h].captured = audit[h].captured
       /\ \A k \in Holds \ {h} : holds'[k] = holds[k] /\ audit'[k] = audit[k]
  <2>1. audit' = [audit EXCEPT ![h].debited = @ + d.held] /\ audit[h] \in AuditSums /\ audit \in [Holds -> AuditSums]
    BY <1>1, <1>5, <1>8 DEF TypeOK
  <2> QED BY <1>5, <1>7, <1>8, <2>1 DEF AuditSums
<1>17. ActiveAmounts[h] = 0 /\ ActiveAmounts'[h] = 0
  BY <1>5, <1>8 DEF ActiveAmounts
<1>18. BooksOf(h) => BooksOf(h)'
  <2>1. SUFFICES ASSUME BooksOf(h) PROVE BooksOf(h)'
    OBVIOUS
  <2>2. \A q \in Procs \ {p} : ~Settles(q, h) /\ ~Owes(q, h, "auditCaptured") /\ call'[q] = call[q]
    BY <1>2, <1>6, <1>8, <1>10, OthersOwe DEF OnlyCall
  <2>3. Settles(p, h) /\ ~Owes(p, h, "auditCaptured") /\ ~Owes(p, h, "auditCreated")
    BY <1>2, <1>6, <1>8 DEF Settles, Owes, Pending
  <2>4. Explained(h, d.held) /\ audit[h].captured = audit[h].debited
    BY <1>2, <2>1, <2>2, <2>3 DEF BooksOf
  <2>5. \A q \in Procs : Owes(q, h, "auditCaptured")' <=> q = p
    BY <1>9, <1>10, <2>2 DEF Owes
  <2>6. \A q \in Procs : ~Settles(q, h)'
    BY <1>9, <1>10, <2>2 DEF Settles, Owes, Pending
  <2>7. \A q \in Procs : /\ Owes(q, h, "auditCreated")' <=> Owes(q, h, "auditCreated")
                         /\ Owes(q, h, "auditCreated") => call'[q].amount = call[q].amount
    BY <1>9, <1>10, <2>2, <2>3 DEF Owes
  <2>8. audit[h].released \in Nat /\ audit[h].captured \in Nat /\ holds[h].opened \in Nat
    BY <1>1 DEF TypeOK, AuditSums, HoldRow
  <2>9. Explained(h, 0)'
    BY <1>5, <1>7, <1>8, <1>16, <1>17, <2>4, <2>8 DEF Explained
  <2>10. audit'[h].captured + call'[p].held = audit'[h].debited
    BY <1>7, <1>8, <1>9, <1>10, <1>16, <2>4
  <2> QED BY <1>5, <1>16, <2>1, <2>5, <2>6, <2>7, <2>9, <2>10 DEF BooksOf
<1>19. /\ Books' /\ Reserved \in Nat /\ Unsettled \in Nat /\ Reserved' \in Nat /\ Unsettled' \in Nat
       /\ Reserved' + Unsettled' = Reserved + Unsettled - 0 - d.held + 0 + 0
  BY <1>2, <1>7, <1>8, <1>9, <1>10, <1>16, <1>17, <1>18, OneHold
<1>20. Account!Next
  <2>1. PICK a, b, m, n \in Nat : a = Reserved /\ b = Unsettled /\ m = Reserved' /\ n = Unsettled'
    BY <1>19
  <2>2. m + n = a + b - 0 - d.held + 0 + 0 /\ Total' = Total - d.held /\ Total \in Int
    BY <1>1, <1>14, <1>19, <2>1, TotalType
  <2>3. m + n < a + b /\ m + n >= 0 /\ Total - Total' = (a + b) - (m + n)
    BY <1>7, <2>2
  <2> QED BY <2>1, <2>3 DEF Account!Next, Account!Settle
<1>21. Informed(c)'
  BY <1>5, <1>8, <1>9 DEF Informed, InOp, HoldRead, BalanceSeen, RefundSeen, Pending
<1>22. RowsSound'
  <2>1. \A r \in Refs : \A o \in Origins : refunded[r][o] \in Nat /\ refunded[r][o] <= debited[r][o]
    BY <1>1 DEF RowsSound, TypeOK
  <2>2. \A r \in Refs : \A o \in Origins : debited'[r][o] \in Nat
    BY DEF AccountInv, TypeInv, TypeOK
  <2>3. \A r \in Refs : \A o \in Origins : refunded[r][o] <= debited'[r][o]
    BY <1>15, <2>1, <2>2
  <2>4. \A k \in Holds : holds[k].status = "absent" => audit'[k] = audit[k]
    BY <1>8, <1>16
  <2> QED BY <1>1, <1>5, <1>13, <2>3, <2>4 DEF RowsSound
<1>23. Spares(p)
  BY <1>1, <1>2, <1>5, <1>6, <1>15 DEF Spares, Spending
<1> QED BY <1>10, <1>19, <1>20, <1>21, <1>22, <1>23, InformedAs DEF StepGood

\* A call that dies: what a capture had left to debit is free again.
LEMMA Aborting == ASSUME AccountInv, TypeInv', NEW p \in Procs, Abort(p) PROVE StepGood(p) /\ OnlyCall(p)
<1>1. TypeOK /\ RowsSound
  BY DEF AccountInv, TypeInv
<1>2. /\ UNCHANGED <<balance, debited, refunded, holds, audit>> /\ aborts' = aborts + 1 /\ aborts \in Nat
      /\ call'[p] = Idle /\ OnlyCall(p)
  BY <1>1, WalletAssumption DEF Abort, db, OnlyCall, TypeOK
<1>3. Books'
  BY <1>2 DEF Books
<1>4. Informed(call[p])'
  BY <1>2, IdleInformed, InformedAs
<1>5. Spares(p)
  BY <1>1, <1>2 DEF Spares, TypeOK, ByOrigin, ActiveAmounts, HoldRow
<1>6. RowsSound' /\ Total' = Total /\ Reserved' = Reserved
  BY <1>1, <1>2 DEF RowsSound, Total, Reserved, ActiveAmounts
<1>7. Account!Next \/ UNCHANGED <<Total, Reserved + Unsettled>>
  <2>1. /\ Unsettled \in Nat /\ Unsettled' \in Nat
        /\ Unsettled' = Unsettled - Owed(call[p]) + Owed(call'[p])
    BY <1>2, UnsettledStep DEF AccountInv, OnlyCall
  <2>2. Owed(call'[p]) = 0 /\ Owed(call[p]) \in Nat
    BY <1>1, <1>2 DEF Owed, Pending, Idle, TypeOK, CallState
  <2>3. Reserved \in Nat
    <3>1. ActiveAmounts \in [Holds -> Nat] /\ \A h \in Holds : ActiveAmounts[h] <= ActiveAmounts[h]
      BY <1>1, ActiveAmountsType
    <3> QED BY <3>1, ReservedWithin DEF AccountInv
  <2>4. PICK a, b, n, o \in Nat : a = Reserved /\ b = Unsettled /\ n = Unsettled' /\ o = Owed(call[p])
    BY <2>1, <2>2, <2>3
  <2>5. n = b - o + 0
    BY <2>1, <2>2, <2>4
  <2>6. a + b \in Nat /\ a + n \in Nat /\ a + n <= a + b
    BY <2>5
  <2>7. a + b = Reserved + Unsettled /\ a + n = Reserved' + Unsettled'
    BY <1>6, <2>4
  <2> QED BY <1>6, <2>6, <2>7, Freed
<1> QED BY <1>2, <1>3, <1>4, <1>5, <1>6, <1>7 DEF StepGood

LEMMA EveryStep == ASSUME AccountInv, TypeInv', NEW p \in Procs, Step(p) PROVE StepGood(p) /\ OnlyCall(p)
<1>1. CASE Abort(p)
  BY <1>1, Aborting
<1>2. CASE ~Abort(p)
  <2>1. \E c : Begin(p, c) \/ Goto(p, c)
    BY <1>2 DEF Step, CreditAdmin, CreditPackPaid, CreditPackBonus, ReadTotal, ReadReserved, ReadOrigins, StartDebit,
       WriteDebit, RejectDebit, StartCreateHold, InsertHold, RejectHold, AuditCreated, StartRelease,
       StartReleasePartially, FindAgain, TransitionReleased, ReduceHoldAmount, AuditReleased, StartCapture,
       TransitionCaptured, WriteCapture, FailCapture, AuditCaptured, StartRefund, ReadDebited, ReadRefunded,
       WriteRefund, Return
  <2>2. OnlyCall(p)
    BY <2>1, CallMoves
  <2>3. CASE RejectDebit(p) \/ RejectHold(p)
    <3>1. Return(p) /\ UNCHANGED db /\ NoDebt(call[p])
      BY <2>3 DEF RejectDebit, RejectHold, BalanceRead, NoDebt, Pending
    <3> QED BY <2>2, <3>1, Ending
  <2> QED BY <1>2, <2>2, <2>3, Starting, Looking, Crediting, Debiting, Reserving, Releasing, Auditing, Capturing,
             Settling, NeverFails DEF Step
<1> QED BY <1>1, <1>2

\* What is reserved stays covered by the credits.
LEMMA StaysCovered ==
    ASSUME AccountInv, TypeInv', Account!Next \/ UNCHANGED <<Total, Reserved + Unsettled>>
    PROVE  Covered'
<1>1. Total \in Int /\ Total' \in Int
  BY TotalType DEF AccountInv, TypeInv, TypeOK, Total, SumOf, ByOrigin, Origins
<1>2. Reserved \in Nat /\ Unsettled \in Nat /\ Reserved' \in Nat /\ Unsettled' \in Nat
  <2>1. \A h \in Holds : ActiveAmounts[h] \in Nat /\ ActiveAmounts'[h] \in Nat
    BY DEF AccountInv, TypeInv, TypeOK, ActiveAmounts, HoldRow
  <2>2. \A q \in Procs : Owed(call[q]) \in Nat /\ Owed(call'[q]) \in Nat
    BY DEF AccountInv, TypeInv, TypeOK, CallState, Owed
  <2>3. PICK f, g : f = ActiveAmounts /\ g = ActiveAmounts'
    OBVIOUS
  <2>4. PICK u, v : u = [q \in Procs |-> Owed(call[q])] /\ v = [q \in Procs |-> Owed(call'[q])]
    OBVIOUS
  <2>5. SumFunctionOnSet(f, Holds) \in Nat /\ SumFunctionOnSet(g, Holds) \in Nat
    BY <2>1, <2>3, SumNat, FiniteAssumption
  <2>6. SumFunctionOnSet(u, Procs) \in Nat /\ SumFunctionOnSet(v, Procs) \in Nat
    BY <2>2, <2>4, SumNat, FiniteAssumption
  <2> QED BY <2>3, <2>4, <2>5, <2>6 DEF Reserved, SumOfHolds, Unsettled, Owed, Pending
<1>3. PICK t, u \in Int : t = Total /\ u = Total'
  BY <1>1
<1>4. PICK a, b, m, n \in Nat : a = Reserved /\ b = Unsettled /\ m = Reserved' /\ n = Unsettled'
  BY <1>2
<1>5. a + b <= t
  BY <1>3, <1>4 DEF AccountInv, Covered
<1>6. m + n <= u
  <2>1. \/ u > t /\ m + n = a + b
        \/ u < t /\ t - u <= t - (a + b) /\ m + n = a + b
        \/ m + n > a + b /\ (m + n) - (a + b) <= t - (a + b) /\ u = t
        \/ m + n < a + b /\ u = t
        \/ m + n < a + b /\ t - u = (a + b) - (m + n)
        \/ m + n = a + b /\ u = t
    BY <1>3, <1>4 DEF Account!Next, Account!Credit, Account!Debit, Account!Reserve, Account!Release, Account!Settle,
       Account!Available
  <2> QED BY <1>5, <2>1
<1> QED BY <1>3, <1>4, <1>6 DEF Covered

apartStep == [Next /\ Apart']_vars

LEMMA AccountStart == Init => AccountInv /\ Account!Init
<1> SUFFICES ASSUME Init PROVE AccountInv /\ Account!Init
  OBVIOUS
<1>1. TypeInv /\ SpendInv
  BY TypeInit, SpendInit
<1>2. \A p \in Procs : call[p] = Idle
  BY DEF Init
<1>3. Apart
  BY <1>2 DEF Apart, Idle
<1>4. balance \in [Origins -> Nat]
  BY WalletAssumption DEF Init, Origins
<1>5. \A h \in Holds : holds[h] = NoRow /\ audit[h] = NoAudit
  BY DEF Init
<1>6. RowsSound
  <2>1. \A r \in Refs : \A o \in Origins : refunded[r][o] = 0 /\ debited[r][o] = 0
    BY DEF Init, ZeroByOrigin
  <2> QED BY <1>4, <1>5, <2>1 DEF RowsSound, NoRow
<1>7. \A p \in Procs : Informed(call[p])
  BY <1>2, IdleInformed
<1>8. Reserved = 0 /\ Unsettled = 0
  <2>1. PICK f, u : f = ActiveAmounts /\ u = [q \in Procs |-> IF Pending(call[q]) THEN call[q].held ELSE 0]
    OBVIOUS
  <2>2. \A h \in Holds : f[h] = 0
    BY <1>5, <2>1 DEF ActiveAmounts, NoRow
  <2>3. \A q \in Procs : u[q] = 0
    BY <1>2, <2>1 DEF Pending, Idle
  <2> QED BY <2>1, <2>2, <2>3, SumZero, FiniteAssumption DEF Reserved, SumOfHolds, Unsettled
<1>9. Total \in Nat
  BY <1>4 DEF Total, SumOf, Origins
<1>10. Books
  <2>1. \A h \in Holds : ActiveAmounts[h] = 0
    BY <1>5 DEF ActiveAmounts, NoRow
  <2>2. \A p \in Procs, h \in Holds : /\ ~Settles(p, h)
                                      /\ \A pc \in {"auditCreated", "auditReleased", "auditCaptured"} : ~Owes(p, h, pc)
    BY <1>2 DEF Settles, Owes, Pending, Idle
  <2>3. SUFFICES ASSUME NEW h \in Holds PROVE BooksOf(h)
    BY DEF Books
  <2>4. holds[h].opened = 0 /\ audit[h].created = 0 /\ audit[h].released = 0 /\ audit[h].captured = 0
        /\ audit[h].debited = 0
    BY <1>5 DEF NoRow, NoAudit
  <2> QED BY <2>1, <2>2, <2>4 DEF BooksOf, Explained
<1> QED BY <1>1, <1>3, <1>6, <1>7, <1>8, <1>9, <1>10 DEF AccountInv, Covered, Account!Init

LEMMA AccountKept ==
    AccountInv /\ apartStep => AccountInv' /\ (Account!Next \/ UNCHANGED <<Total, Reserved + Unsettled>>)
<1> SUFFICES ASSUME AccountInv, apartStep
             PROVE  AccountInv' /\ (Account!Next \/ UNCHANGED <<Total, Reserved + Unsettled>>)
  OBVIOUS
<1>1. TypeInv' /\ SpendInv'
  BY TypeStep, SpendStep DEF AccountInv, apartStep
<1>2. CASE UNCHANGED vars
  <2>1. UNCHANGED <<Total, Reserved + Unsettled>> /\ Covered'
    BY <1>2 DEF AccountInv, vars, Total, Reserved, ActiveAmounts, Unsettled, Pending, Covered
  <2>2. Apart' /\ RowsSound' /\ Books'
    BY <1>2 DEF AccountInv, vars, Apart, RowsSound, Books, BooksOf, Owes, Settles, Explained, ActiveAmounts, Pending
  <2>3. \A p \in Procs : Informed(call[p])'
    BY <1>2 DEF AccountInv, vars, Informed, InOp, HoldRead, BalanceSeen, RefundSeen, Pending, ActiveAmounts, Total
  <2> QED BY <1>1, <2>1, <2>2, <2>3 DEF AccountInv
<1>3. CASE Next /\ Apart'
  <2>1. PICK p \in Procs : Step(p)
    BY <1>3 DEF Next
  <2>2. StepGood(p) /\ OnlyCall(p)
    BY <1>1, <2>1, EveryStep
  <2>3. \A q \in Procs : Informed(call[q])'
    BY <1>1, <2>2, OthersInformed DEF StepGood
  <2>4. Covered'
    BY <1>1, <2>2, StaysCovered DEF StepGood
  <2> QED BY <1>1, <1>3, <2>2, <2>3, <2>4 DEF AccountInv, StepGood
<1> QED BY <1>2, <1>3 DEF apartStep

\* wallet.service.ts: as long as the calls that must not overlap do not, the
\* audit rows of a hold explain what became of it: reserved, released, debited
\* or still reserved, for any number of callers, of holds and of calls.
THEOREM HoldsExplained == ApartSpec => []HoldAccounted
<1>1. AccountInv => HoldAccounted
  <2>1. SUFFICES ASSUME AccountInv, Quiet PROVE HoldAccounted
    BY DEF HoldAccounted
  <2>2. \A h \in Holds : holds[h].status = "ACTIVE" => holds[h].amount > 0
    BY <2>1 DEF AccountInv, RowsSound
  <2>3. SUFFICES ASSUME aborts = 0, NEW h \in Holds
                 PROVE  /\ audit[h].created = holds[h].opened /\ audit[h].captured = audit[h].debited
                        /\ holds[h].opened = audit[h].released + audit[h].debited
                                + (IF holds[h].status = "ACTIVE" THEN holds[h].amount ELSE 0)
    BY <2>1, <2>2 DEF HoldAccounted
  <2>4. BooksOf(h)
    BY <2>1, <2>3 DEF AccountInv, Books
  <2>5. \A p \in Procs : /\ ~Settles(p, h)
                         /\ \A pc \in {"auditCreated", "auditReleased", "auditCaptured"} : ~Owes(p, h, pc)
    BY <2>1 DEF Quiet, Settles, Owes, Pending
  <2>6. audit[h].released \in Nat /\ audit[h].debited \in Nat /\ ActiveAmounts[h] \in Nat
    BY <2>1, <2>3 DEF AccountInv, TypeInv, TypeOK, AuditSums, ActiveAmounts, HoldRow
  <2> QED BY <2>3, <2>4, <2>5, <2>6 DEF BooksOf, Explained, ActiveAmounts
<1> QED BY <1>1, AccountStart, AccountKept, PTL DEF ApartSpec, apartStep

\* refundForBooking, refundForNextoreAccount: with the refunds of a reference
\* one after the other, no origin gets back more than was debited from it, and
\* no origin is ever drawn below zero.
THEOREM RefundsBounded == ApartSpec => []RefundsWithinDebits
<1>1. AccountInv => RefundsWithinDebits
  BY DEF AccountInv, RowsSound, RefundsWithinDebits
<1> QED BY <1>1, AccountStart, AccountKept, PTL DEF ApartSpec, apartStep

\* With the calls apart an insufficient balance is refused, as
\* wallet.service.ts:124 says: what is reserved never exceeds the credits, even
\* while releases, refunds and packs run beside the call that spends.
THEOREM NeverOverdrawn == ApartSpec => []NoOverdraft
<1>1. AccountInv => NoOverdraft
  <2>1. SUFFICES ASSUME AccountInv PROVE NoOverdraft
    OBVIOUS
  <2>2. Total \in Int /\ Reserved \in Nat
    <3>1. TypeOK /\ ActiveAmounts \in [Holds -> Nat] /\ \A h \in Holds : ActiveAmounts[h] <= ActiveAmounts[h]
      BY <2>1, ActiveAmountsType DEF AccountInv, TypeInv
    <3> QED BY <2>1, <3>1, ReservedWithin, TotalType DEF AccountInv
  <2>3. Unsettled \in Nat
    <3>1. PICK u : u = [q \in Procs |-> Owed(call[q])]
      OBVIOUS
    <3>2. \A q \in Procs : u[q] \in Nat
      BY <2>1, <3>1 DEF AccountInv, TypeInv, TypeOK, CallState, Owed
    <3> QED BY <3>1, <3>2, SumNat, FiniteAssumption DEF Unsettled, Owed, Pending
  <2> QED BY <2>1, <2>2, <2>3 DEF AccountInv, Covered, NoOverdraft
<1> QED BY <1>1, AccountStart, AccountKept, PTL DEF ApartSpec, apartStep

\* The refinement: the rows and the five database calls of an operation are,
\* seen as a total and a reserved part, the one-step operations of the account
\* of ADR 0007.
THEOREM AccountImplemented == ApartSpec => ImplementsAccount
<1>1. Init => Account!Init
  BY AccountStart
<1>2. AccountInv /\ apartStep => AccountInv' /\ [Account!Next]_<<Total, Reserved + Unsettled>>
  BY AccountKept
<1> QED BY <1>1, <1>2, AccountStart, PTL DEF ApartSpec, apartStep, ImplementsAccount, Account!Spec
=============================================================================
