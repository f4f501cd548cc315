--------------------------- MODULE BarTillProofs ---------------------------
(***************************************************************************)
(* Theorems about BarTill, for any number of handlers, keys, lines and     *)
(* sessions, and any operations run together: a closed account stays       *)
(* closed, a paid account is marked unless a call raises an exception      *)
(* after the payment was written, the wallet is debited for the recorded   *)
(* payments only, and a closed cash session is counted right.              *)
(***************************************************************************)
EXTENDS BarTill, Sums

-----------------------------------------------------------------------------
(***************************************************************************)
(* The inductive invariant.  The amounts are left out: nothing here        *)
(* depends on them.                                                        *)
(***************************************************************************)
Fields == {"op", "pc", "key", "method", "amount", "line", "session", "version", "force", "seen"}
Columns == {"status", "method", "amount", "session", "late"}
Paid == {"RECORDED", "REVERSED"}

\* where a handler holds a key, owns a pending payment, reverses a payment,
\* or has yet to mark the account
Keyed == {"find", "account", "session", "create", "reserve", "findPayment"}
Owning == {"balance", "debit", "failed", "recorded"}
Reversing == {"refundable", "refund", "reversed"}
Marking == {"mark", "update"}

Shape ==
    /\ DOMAIN task = Procs /\ \A p \in Procs : DOMAIN task[p] = Fields
    /\ DOMAIN payments = Keys
    /\ \A k \in Keys : DOMAIN payments[k] = Columns /\ payments[k].status \in PaymentStatus
    /\ \A p \in Procs : task[p].pc \in Keyed \cup Owning \cup Reversing => Key(p) \in Keys

\* every write of the account raises its version and leaves OPEN
Versioned ==
    /\ account \in [status : {"OPEN", "PARTIALLY_PAID", "CLOSED"}, version : Nat]
    /\ account.status = "OPEN" <=> account.version = 0
    /\ \A p \in Procs : At(p, "update") => task[p].version = 0

\* one handler owns a pending payment, and a payment once made stays made
Owned ==
    /\ \A p \in Procs : task[p].pc \in Owning => payments[Key(p)].status = "PENDING"
    /\ \A p, q \in Procs : (p # q /\ task[p].pc \in Owning /\ task[q].pc \in Owning)
                              => Key(p) # Key(q)
    /\ \A p \in Procs : task[p].pc \in Reversing => payments[Key(p)].status \in Paid

\* a payment made on an account still OPEN has a handler about to mark it
Marked ==
    (account.status = "OPEN" /\ \E k \in Keys : payments[k].status \in Paid)
        => \E p \in Procs : task[p].pc \in Marking

TillInv == Shape /\ Versioned /\ Owned

-----------------------------------------------------------------------------
(***************************************************************************)
(* A handler moves and neither the account nor a payment is written.       *)
(***************************************************************************)
LEMMA Moved ==
    ASSUME TillInv, NEW p \in Procs, NEW t, Become(p, t), DOMAIN t = Fields,
           UNCHANGED <<account, payments>>,
           t.pc \in Keyed \cup Owning \cup Reversing => t.key \in Keys,
           t.pc \in Owning => t.key = Key(p) /\ task[p].pc \in Owning,
           t.pc \in Reversing => payments[t.key].status \in Paid,
           t.pc = "update" => t.version = 0
    PROVE  TillInv'
<1>1. \A q \in Procs : task'[q] = IF q = p THEN t ELSE task[q]
  BY DEF Become, TillInv, Shape
<1>2. Shape'  BY <1>1 DEF Become, TillInv, Shape, Key
<1>3. Versioned'  BY <1>1 DEF TillInv, Versioned, At
<1>4. Owned'  BY <1>1 DEF TillInv, Owned, Key
<1> QED  BY <1>2, <1>3, <1>4 DEF TillInv

\* A handler ends.
LEMMA Ended ==
    ASSUME TillInv, NEW p \in Procs, Done(p), UNCHANGED <<account, payments>>
    PROVE  TillInv'
BY Moved DEF Done, Idle, Fields, Keyed, Owning, Reversing

\* A handler goes to its next call, keeping its key.
LEMMA Went ==
    ASSUME TillInv, NEW p \in Procs, NEW pc, Goto(p, pc), UNCHANGED <<account, payments>>,
           pc \in Keyed \cup Owning \cup Reversing =>
               task[p].pc \in Keyed \cup Owning \cup Reversing,
           pc \in Owning => task[p].pc \in Owning,
           pc \in Reversing => task[p].pc \in Reversing,
           pc # "update"
    PROVE  TillInv'
<1> DEFINE t == [task[p] EXCEPT !.pc = pc]
<1>1. DOMAIN t = Fields /\ t.pc = pc /\ t.key = Key(p)
  BY DEF TillInv, Shape, Fields, Key
<1>2. Become(p, t)  BY DEF Goto
<1>3. Key(p) \in Keys \/ pc \notin Keyed \cup Owning \cup Reversing
  BY DEF TillInv, Shape
<1>4. pc \in Reversing => payments[Key(p)].status \in Paid
  BY DEF TillInv, Owned
<1> HIDE DEF t
<1> QED  BY <1>1, <1>2, <1>3, <1>4, Moved

-----------------------------------------------------------------------------
(***************************************************************************)
(* One lemma for each group of actions.                                    *)
(***************************************************************************)
\* A request starts a handler.
LEMMA Requested ==
    ASSUME TillInv, NEW p \in Procs, Request(p)
    PROVE  TillInv'
<1> USE DEF Idle, Fields, Keyed, Owning, Reversing, Start, bar, money
<1>1. CASE StartPay(p)  BY <1>1, Moved DEF StartPay
<1>2. CASE StartReverse(p)  BY <1>2, Moved DEF StartReverse
<1>3. CASE StartAddLine(p)  BY <1>3, Moved DEF StartAddLine
<1>4. CASE StartVoid(p)  BY <1>4, Moved DEF StartVoid
<1>5. CASE StartClose(p)  BY <1>5, Moved DEF StartClose
<1>6. CASE StartOpen(p)  BY <1>6, Moved DEF StartOpen
<1>7. CASE StartMove(p)  BY <1>7, Moved DEF StartMove
<1>8. CASE StartCount(p)  BY <1>8, Moved DEF StartCount
<1> QED  BY <1>1, <1>2, <1>3, <1>4, <1>5, <1>6, <1>7, <1>8 DEF Request

\* The steps that only read, or write neither the account nor a payment.
LEMMA Read ==
    ASSUME TillInv, NEW p \in Procs,
           \/ FindKey(p) \/ CheckAccount(p) \/ ReadBalance(p) \/ DebitWallet(p)
           \/ ReadRefundable(p) \/ RefundWallet(p)
           \/ CheckLineAccount(p) \/ InsertLine(p) \/ FindLine(p) \/ VoidLine(p)
           \/ FindOpen(p) \/ CreateSession(p) \/ FindSession(p) \/ AddMovement(p)
           \/ RefuseVariance(p) \/ CloseSession(p)
    PROVE  TillInv'
<1> USE DEF Keyed, Owning, Reversing, At, bar, money
<1>1. CASE FindKey(p)  BY <1>1, Ended, Went DEF FindKey
<1>2. CASE CheckAccount(p)  BY <1>2, Ended, Went DEF CheckAccount
<1>3. CASE ReadBalance(p)
  <2>1. CASE Goto(p, "failed")  BY <1>3, <2>1, Went DEF ReadBalance
  <2>2. CASE Goto(p, "debit")  BY <1>3, <2>2, Went DEF ReadBalance
  <2> QED  BY <1>3, <2>1, <2>2 DEF ReadBalance
<1>4. CASE DebitWallet(p)  BY <1>4, Went DEF DebitWallet
<1>5. CASE ReadRefundable(p)  BY <1>5, Ended, Went DEF ReadRefundable
<1>6. CASE RefundWallet(p)  BY <1>6, Went DEF RefundWallet
<1>7. CASE CheckLineAccount(p)  BY <1>7, Ended, Went DEF CheckLineAccount
<1>8. CASE InsertLine(p)  BY <1>8, Ended DEF InsertLine
<1>9. CASE FindLine(p)  BY <1>9, Ended, Went DEF FindLine
<1>10. CASE VoidLine(p)  BY <1>10, Ended DEF VoidLine
<1>11. CASE FindOpen(p)  BY <1>11, Ended, Went DEF FindOpen
<1>12. CASE CreateSession(p)  BY <1>12, Ended DEF CreateSession
<1>13. CASE FindSession(p)  BY <1>13, Ended, Went DEF FindSession
<1>14. CASE AddMovement(p)  BY <1>14, Ended DEF AddMovement
<1>15. CASE RefuseVariance(p)  BY <1>15, Ended DEF RefuseVariance
<1>16. CASE CloseSession(p)  BY <1>16, Ended DEF CloseSession
<1> QED  BY <1>1, <1>2, <1>3, <1>4, <1>5, <1>6, <1>7, <1>8, <1>9, <1>10, <1>11, <1>12,
            <1>13, <1>14, <1>15, <1>16

\* The steps that keep what they read.
LEMMA Remembered ==
    ASSUME TillInv, NEW p \in Procs,
           \/ AttachSession(p) \/ ReadAccount(p) \/ FindPayment(p) \/ ReadDue(p)
           \/ FindCounted(p) \/ ReadTheoretical(p)
    PROVE  TillInv'
<1> USE DEF At, bar, money
<1>0. DOMAIN task[p] = Fields  BY DEF TillInv, Shape
<1>1. CASE AttachSession(p)
  <2>1. PICK s : Become(p, [task[p] EXCEPT !.session = s,
                      !.pc = IF task[p].method = "WALLET_CREDIT" THEN "reserve" ELSE "create"])
    BY <1>1 DEF AttachSession
  <2> DEFINE t == [task[p] EXCEPT !.session = s,
                      !.pc = IF task[p].method = "WALLET_CREDIT" THEN "reserve" ELSE "create"]
  <2>2. DOMAIN t = Fields /\ t.pc \in {"reserve", "create"} /\ t.key = Key(p)
    BY <1>0 DEF Fields, Key
  <2>3. Key(p) \in Keys
    BY <1>1 DEF AttachSession, TillInv, Shape, Keyed
  <2> HIDE DEF t
  <2> QED  BY <1>1, <2>1, <2>2, <2>3, Moved DEF AttachSession, Keyed, Owning, Reversing, t
<1>2. CASE ReadAccount(p)
  <2>1. CASE account.status = "OPEN"
    <3> DEFINE t == [task[p] EXCEPT !.pc = "update", !.version = account.version]
    <3>1. DOMAIN t = Fields /\ t.pc = "update" /\ t.version = account.version
      BY <1>0 DEF Fields
    <3>2. account.version = 0  BY <2>1 DEF TillInv, Versioned
    <3>3. Become(p, t)  BY <1>2, <2>1 DEF ReadAccount
    <3> HIDE DEF t
    <3> QED  BY <1>2, <3>1, <3>2, <3>3, Moved DEF ReadAccount, Keyed, Owning, Reversing
  <2> QED  BY <1>2, <2>1, Ended DEF ReadAccount
<1>3. CASE FindPayment(p)
  <2>1. CASE payments[Key(p)].status = "RECORDED"
    <3> DEFINE pay == payments[Key(p)]
               t == [task[p] EXCEPT !.amount = pay.amount,
                       !.pc = IF pay.method = "WALLET_CREDIT" THEN "refundable" ELSE "reversed"]
    <3>1. DOMAIN t = Fields /\ t.pc \in Reversing /\ t.key = Key(p)
      BY <1>0 DEF Fields, Reversing, Key
    <3>2. Key(p) \in Keys  BY <1>3 DEF FindPayment, TillInv, Shape, Keyed
    <3>3. Become(p, t)  BY <1>3, <2>1 DEF FindPayment
    <3> HIDE DEF t
    <3> QED  BY <1>3, <2>1, <3>1, <3>2, <3>3, Moved
             DEF FindPayment, Keyed, Owning, Reversing, Paid
  <2> QED  BY <1>3, <2>1, Ended DEF FindPayment
<1>4. CASE ReadDue(p)
  <2>1. CASE Done(p)  BY <1>4, <2>1, Ended DEF ReadDue
  <2>2. CASE ~ Done(p)
    <3>1. PICK due, total, both :
            Become(p, [task[p] EXCEPT !.amount = due, !.seen = @ \cup {total},
                                      !.pc = IF both THEN "closeAccount" ELSE "due"])
      BY <1>4, <2>2 DEF ReadDue
    <3> DEFINE t == [task[p] EXCEPT !.amount = due, !.seen = @ \cup {total},
                                      !.pc = IF both THEN "closeAccount" ELSE "due"]
    <3>2. DOMAIN t = Fields /\ t.pc \in {"closeAccount", "due"}
      BY <1>0 DEF Fields
    <3> HIDE DEF t
    <3> QED  BY <1>4, <3>1, <3>2, Moved DEF ReadDue, Keyed, Owning, Reversing, t
  <2> QED  BY <2>1, <2>2
<1>5. CASE FindCounted(p)
  <2>1. CASE Done(p)  BY <1>5, <2>1, Ended DEF FindCounted
  <2>2. CASE ~ Done(p)
    <3> DEFINE t == [task[p] EXCEPT !.pc = "theoretical", !.amount = Opening]
    <3>1. DOMAIN t = Fields /\ t.pc = "theoretical"  BY <1>0 DEF Fields
    <3>2. Become(p, t)  BY <1>5, <2>2 DEF FindCounted
    <3> HIDE DEF t
    <3> QED  BY <1>5, <3>1, <3>2, Moved DEF FindCounted, Keyed, Owning, Reversing
  <2> QED  BY <2>1, <2>2
<1>6. CASE ReadTheoretical(p)
  <2>1. PICK read, total :
          Become(p, [task[p] EXCEPT !.seen = @ \cup {total}, !.amount = @ + read,
                       !.pc = IF task[p].seen = {} THEN "theoretical" ELSE "closeSession"])
    BY <1>6 DEF ReadTheoretical
  <2> DEFINE t == [task[p] EXCEPT !.seen = @ \cup {total}, !.amount = @ + read,
                       !.pc = IF task[p].seen = {} THEN "theoretical" ELSE "closeSession"]
  <2>2. DOMAIN t = Fields /\ t.pc \in {"theoretical", "closeSession"}
    BY <1>0 DEF Fields
  <2> HIDE DEF t
  <2> QED  BY <1>6, <2>1, <2>2, Moved DEF ReadTheoretical, Keyed, Owning, Reversing, t
<1> QED  BY <1>1, <1>2, <1>3, <1>4, <1>5, <1>6

\* A handler writes the payment of a key that no other handler owns.
LEMMA Written ==
    ASSUME TillInv, NEW p \in Procs, NEW t, NEW k \in Keys, NEW row,
           Become(p, t), DOMAIN t = Fields, UNCHANGED account,
           payments' = [payments EXCEPT ![k] = row],
           DOMAIN row = Columns, row.status \in PaymentStatus,
           payments[k].status \in Paid => row.status \in Paid,
           \A q \in Procs \ {p} : task[q].pc \in Owning => Key(q) # k,
           t.pc \in Owning => t.key = k /\ row.status = "PENDING",
           t.pc \notin Keyed \cup Reversing \cup {"update"}
    PROVE  TillInv'
<1>1. \A q \in Procs : task'[q] = IF q = p THEN t ELSE task[q]
  BY DEF Become, TillInv, Shape
<1>2. \A x \in Keys : payments'[x] = IF x = k THEN row ELSE payments[x]
  BY DEF TillInv, Shape
<1>3. Shape'  BY <1>1, <1>2 DEF Become, TillInv, Shape, Key
<1>4. Versioned'  BY <1>1 DEF TillInv, Versioned, At
<1>5. Owned'
  <2>1. \A q \in Procs : task[q].pc \in Owning \cup Reversing => Key(q) \in Keys
    BY DEF TillInv, Shape
  <2>2. \A q \in Procs : task'[q].pc \in Owning => payments'[Key(q)'].status = "PENDING"
    BY <1>1, <1>2, <2>1 DEF TillInv, Owned, Key
  <2>3. \A q \in Procs : task'[q].pc \in Reversing => payments'[Key(q)'].status \in Paid
    BY <1>1, <1>2, <2>1 DEF TillInv, Owned, Key
  <2>4. \A q, r \in Procs : (q # r /\ task'[q].pc \in Owning /\ task'[r].pc \in Owning)
                              => Key(q)' # Key(r)'
    BY <1>1 DEF TillInv, Owned, Key
  <2> QED  BY <2>2, <2>3, <2>4 DEF Owned
<1> QED  BY <1>3, <1>4, <1>5 DEF TillInv

\* The steps that write a payment.
LEMMA Recorded ==
    ASSUME TillInv, NEW p \in Procs,
           \/ CreatePayment(p) \/ ReserveKey(p)
           \/ MarkFailed(p) \/ MarkRecorded(p) \/ MarkReversed(p)
    PROVE  TillInv'
<1> DEFINE k == Key(p)
<1>1. k \in Keys /\ DOMAIN task[p] = Fields /\ DOMAIN payments[k] = Columns
  BY DEF CreatePayment, ReserveKey, MarkFailed, MarkRecorded, MarkReversed, Settle, At,
         TillInv, Shape, Keyed, Owning, Reversing
<1>2. ASSUME payments[k].status # "PENDING" \/ task[p].pc \in Owning
      PROVE  \A q \in Procs \ {p} : task[q].pc \in Owning => Key(q) # k
  BY <1>2 DEF TillInv, Owned
<1>3. ASSUME NEW pc, Goto(p, pc)
      PROVE  \E t : Become(p, t) /\ DOMAIN t = Fields /\ t.pc = pc /\ t.key = k
  BY <1>1, <1>3 DEF Goto, Fields, Key
<1>4. ASSUME Done(p)
      PROVE  \E t : Become(p, t) /\ DOMAIN t = Fields /\ t.pc = "idle"
  BY <1>4 DEF Done, Idle, Fields
<1>5. ASSUME NEW st
      PROVE  DOMAIN Row(p, st) = Columns /\ Row(p, st).status = st
  BY DEF Row, Columns
<1>6. ASSUME NEW st
      PROVE  LET row == [payments[k] EXCEPT !.status = st]
             IN  DOMAIN row = Columns /\ row.status = st
  BY <1>1 DEF Columns
<1> USE DEF Keyed, Owning, Reversing, Paid, PaymentStatus, At
<1>7. CASE CreatePayment(p)
  <2>1. CASE payments[k].status = "absent"
    <3>1. PICK t : Become(p, t) /\ DOMAIN t = Fields /\ t.pc = "mark"
      BY <1>3, <1>7, <2>1 DEF CreatePayment
    <3> QED  BY <1>1, <1>2, <1>5, <1>7, <2>1, <3>1, Written DEF CreatePayment, bar
  <2> QED  BY <1>7, <2>1, Ended DEF CreatePayment, bar
<1>8. CASE ReserveKey(p)
  <2>1. CASE payments[k].status = "absent"
    <3>1. PICK t : Become(p, t) /\ DOMAIN t = Fields /\ t.pc = "balance" /\ t.key = k
      BY <1>3, <1>8, <2>1 DEF ReserveKey
    <3> DEFINE row == Row(p, "PENDING")
    <3>2. payments' = [payments EXCEPT ![k] = row] /\ UNCHANGED account
      BY <1>8, <2>1 DEF ReserveKey, bar
    <3>3. DOMAIN row = Columns /\ row.status = "PENDING"  BY <1>5
    <3>4. \A q \in Procs \ {p} : task[q].pc \in Owning => Key(q) # k  BY <1>2, <2>1
    <3> HIDE DEF row
    <3> QED  BY <1>1, <2>1, <3>1, <3>2, <3>3, <3>4, Written
  <2> QED  BY <1>8, <2>1, Ended DEF ReserveKey, bar
<1>9. CASE MarkFailed(p)
  <2>1. PICK t : Become(p, t) /\ DOMAIN t = Fields /\ t.pc = "idle"
    BY <1>4, <1>9 DEF MarkFailed, Settle
  <2>2. payments[k].status = "PENDING" /\ task[p].pc \in Owning
    BY <1>9 DEF MarkFailed, Settle, TillInv, Owned
  <2> DEFINE row == [payments[k] EXCEPT !.status = "FAILED"]
  <2>3. payments' = [payments EXCEPT ![k] = row] /\ UNCHANGED account
    BY <1>9 DEF MarkFailed, Settle, bar
  <2>4. DOMAIN row = Columns /\ row.status = "FAILED"  BY <1>6
  <2>5. \A q \in Procs \ {p} : task[q].pc \in Owning => Key(q) # k  BY <1>2, <2>2
  <2> HIDE DEF row
  <2> QED  BY <1>1, <2>1, <2>2, <2>3, <2>4, <2>5, Written
<1>10. CASE MarkRecorded(p)
  <2>1. PICK t : Become(p, t) /\ DOMAIN t = Fields /\ t.pc = "mark"
    BY <1>3, <1>10 DEF MarkRecorded, Settle
  <2>2. payments' = [payments EXCEPT ![k] = [payments[k] EXCEPT !.status = "RECORDED"]]
    BY <1>10 DEF MarkRecorded, Settle
  <2> QED  BY <1>1, <1>2, <1>6, <1>10, <2>1, <2>2, Written DEF MarkRecorded, Settle, bar
<1>11. CASE MarkReversed(p)
  <2>1. PICK t : Become(p, t) /\ DOMAIN t = Fields /\ t.pc = "idle"
    BY <1>4, <1>11 DEF MarkReversed
  <2>2. payments[k].status \in Paid  BY <1>11 DEF MarkReversed, TillInv, Owned
  <2> DEFINE row == [payments[k] EXCEPT !.status = "REVERSED",
                                       !.late = Closed(payments[k].session)]
  <2>3. payments' = [payments EXCEPT ![k] = row]  BY <1>1, <1>11 DEF MarkReversed, TillInv, Shape
  <2>4. DOMAIN row = Columns /\ row.status = "REVERSED"  BY <1>1 DEF Columns
  <2> HIDE DEF row
  <2> QED  BY <1>1, <1>2, <1>11, <2>1, <2>2, <2>3, <2>4, Written DEF MarkReversed, bar
<1> QED  BY <1>7, <1>8, <1>9, <1>10, <1>11

\* The update of the account, and the handler that ends.
LEMMA Updated ==
    ASSUME TillInv, NEW p \in Procs, NEW status \in {"PARTIALLY_PAID", "CLOSED"},
           UpdateWithVersionCheck(p, status), Done(p), UNCHANGED payments
    PROVE  TillInv'
<1>1. \A q \in Procs : task'[q] = IF q = p THEN Idle ELSE task[q]
  BY DEF Done, Become, TillInv, Shape
<1>2. Shape'
  BY <1>1 DEF Done, Become, TillInv, Shape, Key, Idle, Fields, Keyed, Owning, Reversing
<1>3. account' \in [status : {"OPEN", "PARTIALLY_PAID", "CLOSED"}, version : Nat]
        /\ (account'.status = "OPEN" <=> account'.version = 0)
  BY DEF UpdateWithVersionCheck, TillInv, Versioned
<1>4. Versioned'  BY <1>1, <1>3 DEF TillInv, Versioned, At, Idle
<1>5. Owned'  BY <1>1 DEF TillInv, Owned, Key, Idle, Owning, Reversing
<1> QED  BY <1>2, <1>4, <1>5 DEF TillInv

LEMMA Updating ==
    ASSUME TillInv, NEW p \in Procs, MarkPartiallyPaid(p) \/ CloseAccount(p)
    PROVE  TillInv'
<1>1. CASE MarkPartiallyPaid(p)  BY <1>1, Updated DEF MarkPartiallyPaid, money
<1>2. CASE CloseAccount(p)  BY <1>2, Updated DEF CloseAccount, money
<1> QED  BY <1>1, <1>2

\* A call that raises an exception.
LEMMA Failed ==
    ASSUME TillInv, NEW p \in Procs, Fault(p)
    PROVE  TillInv'
<1>1. CASE task[p].pc \in {"balance", "debit"}
  BY <1>1, Went DEF Fault, bar, money, Keyed, Owning, Reversing
<1>2. CASE task[p].pc \notin {"balance", "debit"}
  BY <1>2, Ended DEF Fault, bar, money
<1> QED  BY <1>1, <1>2

-----------------------------------------------------------------------------
LEMMA TillStarts == Init => TillInv
<1> SUFFICES ASSUME Init PROVE TillInv  OBVIOUS
<1>1. Shape  BY DEF Init, Shape, Idle, Fields, Columns, PaymentStatus, Keyed, Owning, Reversing
<1>2. Versioned  BY DEF Init, Versioned, Idle, At
<1>3. Owned  BY DEF Init, Owned, Idle, Owning, Reversing
<1> QED  BY <1>1, <1>2, <1>3 DEF TillInv

LEMMA TillSteps == TillInv /\ [Next]_vars => TillInv'
<1> SUFFICES ASSUME TillInv, [Next]_vars PROVE TillInv'  OBVIOUS
<1>1. ASSUME NEW p \in Procs, Request(p) PROVE TillInv'  BY <1>1, Requested
<1>2. ASSUME NEW p \in Procs, Handle(p) PROVE TillInv'
  BY <1>2, Read, Remembered, Recorded, Updating, Failed DEF Handle
<1>3. CASE UNCHANGED vars
  BY <1>3 DEF vars, TillInv, Shape, Versioned, Owned, Key, At
<1> QED  BY <1>1, <1>2, <1>3 DEF Next

\* Only two actions write the account.
LEMMA AccountKept ==
    ASSUME NEW p \in Procs, Request(p) \/ Handle(p)
    PROVE  UNCHANGED account \/ MarkPartiallyPaid(p) \/ CloseAccount(p)
<1>1. CASE Request(p)
  BY <1>1 DEF Request, Start, StartPay, StartReverse, StartAddLine, StartVoid, StartClose,
              StartOpen, StartMove, StartCount, bar
<1>2. CASE Handle(p)
  BY <1>2 DEF Handle, FindKey, CheckAccount, AttachSession, CreatePayment, ReserveKey, ReadBalance,
              DebitWallet, MarkFailed, MarkRecorded, Settle, ReadAccount, FindPayment,
              ReadRefundable, RefundWallet, MarkReversed, CheckLineAccount, InsertLine, FindLine,
              VoidLine, ReadDue, FindOpen, CreateSession, FindSession, AddMovement, FindCounted,
              ReadTheoretical, RefuseVariance, CloseSession, Fault, bar
<1> QED  BY <1>1, <1>2

(***************************************************************************)
(* A closed account stays closed, whatever runs with its closing: the mark *)
(* of a late payment carries the version of an account that was OPEN,      *)
(* which is 0, and any write since has raised it (accounts.repository.ts:  *)
(* 30).                                                                    *)
(***************************************************************************)
THEOREM ClosedStaysClosed == Spec => ClosedIsFinal
<1>1. ASSUME TillInv, [Next]_vars
      PROVE  [account.status = "CLOSED" => account'.status = "CLOSED"]_vars
  <2> SUFFICES ASSUME account.status = "CLOSED", NEW p \in Procs, Request(p) \/ Handle(p)
               PROVE  account'.status = "CLOSED"
    BY <1>1 DEF Next
  <2>1. CASE UNCHANGED account  BY <2>1
  <2>2. CASE MarkPartiallyPaid(p)
    BY <1>1, <2>2 DEF MarkPartiallyPaid, UpdateWithVersionCheck, TillInv, Versioned
  <2>3. CASE CloseAccount(p)
    BY <1>1, <2>3 DEF CloseAccount, UpdateWithVersionCheck
  <2> QED  BY <2>1, <2>2, <2>3, AccountKept
<1> QED  BY <1>1, TillStarts, TillSteps, PTL DEF Spec, ClosedIsFinal

-----------------------------------------------------------------------------
(***************************************************************************)
(* A paid account has been marked, or a handler is about to mark it.       *)
(***************************************************************************)
\* a step of a handler leaves the others where they are
LEMMA OthersStay ==
    ASSUME Shape, NEW p \in Procs, Request(p) \/ Handle(p)
    PROVE  \A q \in Procs \ {p} : task'[q] = task[q]
<1>1. ASSUME \E t : Become(p, t) PROVE \A q \in Procs \ {p} : task'[q] = task[q]
  BY <1>1 DEF Become, Shape
<1>2. CASE Request(p)
  BY <1>1, <1>2 DEF Request, Start, StartPay, StartReverse, StartAddLine, StartVoid, StartClose,
                    StartOpen, StartMove, StartCount
<1>3. CASE Handle(p)
  <2> USE DEF Goto, Done
  <2>1. CASE \/ FindKey(p) \/ CheckAccount(p) \/ CreatePayment(p) \/ ReserveKey(p)
             \/ ReadBalance(p) \/ DebitWallet(p) \/ MarkFailed(p) \/ MarkRecorded(p)
    BY <1>1, <2>1 DEF FindKey, CheckAccount, CreatePayment, ReserveKey, ReadBalance, DebitWallet,
                      MarkFailed, MarkRecorded, Settle
  <2>2. CASE AttachSession(p)  BY <1>1, <2>2 DEF AttachSession
  <2>3. CASE ReadAccount(p) \/ MarkPartiallyPaid(p) \/ CloseAccount(p) \/ Fault(p)
    BY <1>1, <2>3 DEF ReadAccount, MarkPartiallyPaid, CloseAccount, Fault
  <2>4. CASE FindPayment(p) \/ ReadRefundable(p) \/ RefundWallet(p) \/ MarkReversed(p)
    BY <1>1, <2>4 DEF FindPayment, ReadRefundable, RefundWallet, MarkReversed
  <2>5. CASE \/ CheckLineAccount(p) \/ InsertLine(p) \/ FindLine(p) \/ VoidLine(p)
             \/ FindOpen(p) \/ CreateSession(p) \/ FindSession(p) \/ AddMovement(p)
             \/ FindCounted(p) \/ RefuseVariance(p) \/ CloseSession(p)
    BY <1>1, <2>5 DEF CheckLineAccount, InsertLine, FindLine, VoidLine, FindOpen, CreateSession,
                      FindSession, AddMovement, FindCounted, RefuseVariance, CloseSession
  <2>6. CASE ReadDue(p)  BY <1>1, <2>6 DEF ReadDue
  <2>7. CASE ReadTheoretical(p)  BY <1>1, <2>7 DEF ReadTheoretical
  <2> QED  BY <1>3, <2>1, <2>2, <2>3, <2>4, <2>5, <2>6, <2>7 DEF Handle
<1> QED  BY <1>2, <1>3

\* a payment is made by a handler that goes on to mark the account
LEMMA PaymentsMade ==
    ASSUME TillInv, NEW p \in Procs, Request(p) \/ Handle(p)
    PROVE  \/ \A k \in Keys : payments'[k].status \in Paid => payments[k].status \in Paid
           \/ task'[p].pc = "mark"
<1> USE DEF bar, money
<1>0. CASE UNCHANGED payments  BY <1>0
<1>1. CASE Request(p)
  BY <1>0, <1>1 DEF Request, Start, StartPay, StartReverse, StartAddLine, StartVoid, StartClose,
                    StartOpen, StartMove, StartCount
<1>2. ASSUME Goto(p, "mark") PROVE task'[p].pc = "mark"
  BY <1>2 DEF Goto, Become, TillInv, Shape, Fields
<1>3. CASE CreatePayment(p)  BY <1>0, <1>2, <1>3 DEF CreatePayment
<1>4. CASE MarkRecorded(p)  BY <1>2, <1>4 DEF MarkRecorded, Settle
<1>5. CASE ReserveKey(p)
  <2>1. CASE payments[Key(p)].status = "absent"
    BY <1>5, <2>1 DEF ReserveKey, Row, Paid, TillInv, Shape
  <2> QED  BY <1>0, <1>5, <2>1 DEF ReserveKey
<1>6. CASE MarkFailed(p)
  BY <1>6 DEF MarkFailed, Settle, Paid, TillInv, Shape, Columns
<1>7. CASE MarkReversed(p)
  <2>1. payments[Key(p)].status \in Paid
    BY <1>7 DEF MarkReversed, At, TillInv, Owned, Reversing
  <2>2. \A k \in Keys : k # Key(p) => payments'[k] = payments[k]
    BY <1>7 DEF MarkReversed, TillInv, Shape
  <2> QED  BY <2>1, <2>2
<1>8. CASE UNCHANGED payments \/ CreatePayment(p) \/ MarkRecorded(p) \/ ReserveKey(p)
           \/ MarkFailed(p) \/ MarkReversed(p)
  BY <1>0, <1>3, <1>4, <1>5, <1>6, <1>7, <1>8
<1>9. CASE Handle(p)
  BY <1>8, <1>9 DEF Handle, FindKey, CheckAccount, AttachSession, ReadBalance, DebitWallet,
       ReadAccount, MarkPartiallyPaid, FindPayment, ReadRefundable, RefundWallet,
       CheckLineAccount, InsertLine, FindLine, VoidLine, ReadDue, CloseAccount, FindOpen,
       CreateSession, FindSession, AddMovement, FindCounted, ReadTheoretical, RefuseVariance,
       CloseSession, Fault
<1> QED  BY <1>1, <1>9

\* the handler that marks the account leaves it marked
LEMMA MarkingEnds ==
    ASSUME TillInv, FaultPoints \cap Marking = {}, NEW p \in Procs, task[p].pc \in Marking,
           Request(p) \/ Handle(p)
    PROVE  task'[p].pc \in Marking \/ account'.status # "OPEN"
<1>1. ReadAccount(p) \/ MarkPartiallyPaid(p)
  BY DEF Request, Start, StartPay, StartReverse, StartAddLine, StartVoid, StartClose,
         StartOpen, StartMove, StartCount,
         Handle, FindKey, CheckAccount, AttachSession, CreatePayment, ReserveKey, ReadBalance,
         DebitWallet, MarkFailed, MarkRecorded, Settle, FindPayment, ReadRefundable, RefundWallet,
         MarkReversed, CheckLineAccount, InsertLine, FindLine, VoidLine, ReadDue, CloseAccount,
         FindOpen, CreateSession, FindSession, AddMovement, FindCounted, ReadTheoretical,
         RefuseVariance, CloseSession, Fault, At, Marking
<1>2. CASE ReadAccount(p)
  BY <1>2 DEF ReadAccount, Become, bar, Marking, TillInv, Shape, Fields
<1>3. CASE MarkPartiallyPaid(p)
  <2>1. task[p].version = 0  BY <1>3 DEF MarkPartiallyPaid, TillInv, Versioned
  <2> QED  BY <1>3, <2>1 DEF MarkPartiallyPaid, UpdateWithVersionCheck, TillInv, Versioned
<1> QED  BY <1>1, <1>2, <1>3

LEMMA MarkedSteps ==
    ASSUME TillInv, Marked, FaultPoints \cap Marking = {}, [Next]_vars
    PROVE  Marked'
<1>1. CASE UNCHANGED vars  BY <1>1 DEF vars, Marked
<1>2. ASSUME NEW p \in Procs, Request(p) \/ Handle(p) PROVE Marked'
  <2> SUFFICES ASSUME account'.status = "OPEN", NEW k \in Keys, payments'[k].status \in Paid
               PROVE  \E q \in Procs : task'[q].pc \in Marking
    BY DEF Marked
  <2>1. account.status = "OPEN"
    <3>1. CASE UNCHANGED account  BY <3>1
    <3>2. CASE MarkPartiallyPaid(p)  BY <3>2 DEF MarkPartiallyPaid, UpdateWithVersionCheck
    <3>3. CASE CloseAccount(p)  BY <3>3 DEF CloseAccount, UpdateWithVersionCheck
    <3> QED  BY <1>2, <3>1, <3>2, <3>3, AccountKept
  <2>2. CASE task'[p].pc = "mark"  BY <2>2 DEF Marking
  <2>3. CASE payments[k].status \in Paid
    <3>1. PICK q \in Procs : task[q].pc \in Marking  BY <2>1, <2>3 DEF Marked
    <3>2. CASE q = p  BY <1>2, <3>1, <3>2, MarkingEnds
    <3>3. CASE q # p  BY <1>2, <3>1, <3>3, OthersStay DEF TillInv
    <3> QED  BY <3>2, <3>3
  <2> QED  BY <1>2, <2>2, <2>3, PaymentsMade
<1> QED  BY <1>1, <1>2 DEF Next

(***************************************************************************)
(* Once the handlers have ended, an account with a payment is out of OPEN  *)
(* (accounts.service.ts:92), if no exception stops a handler between the   *)
(* payment and the mark: the conflict it ignores is always with a write    *)
(* that has marked or closed the account.                                  *)
(***************************************************************************)
THEOREM PaidIsMarked ==
    ASSUME FaultPoints \cap Marking = {}
    PROVE  Spec => []MarkedWhenPaid
<1>1. Init => TillInv /\ Marked
  BY TillStarts DEF Init, Marked, Paid
<1>2. TillInv /\ Marked /\ [Next]_vars => (TillInv /\ Marked)'
  BY TillSteps, MarkedSteps
<1>3. TillInv /\ Marked => MarkedWhenPaid
  BY DEF TillInv, Marked, MarkedWhenPaid, Idling, At, Paid, Marking
<1> QED  BY <1>1, <1>2, <1>3, PTL DEF Spec

-----------------------------------------------------------------------------
(***************************************************************************)
(* What the rows and the handlers hold.                                    *)
(***************************************************************************)
Paying == {"find", "account", "session", "create", "reserve", "balance", "debit", "failed",
           "recorded", "mark", "update"}
GivingBack == {"findPayment", "refundable", "refund", "reversed"}
Moving == {"findSession", "addMovement"}
Counting == {"findCounted", "theoretical", "closeSession"}
Placed == Paying \cup GivingBack \cup Moving \cup Counting

\* a handler serves the request it was started for, with what the request gave
Fits(t) ==
    /\ t.pc \in Paying => /\ t.op = "pay" /\ t.amount \in Nat /\ t.method \in Methods
                          /\ t.session \in Sessions \cup {None}
                          /\ t.pc = "create" => t.method # "WALLET_CREDIT"
                          /\ t.pc = "reserve" => t.method = "WALLET_CREDIT"
    /\ t.pc \in GivingBack => t.op = "reverse" /\ t.amount \in Nat
    /\ t.pc \in Moving => t.op = "move" /\ t.amount \in Int /\ t.session \in Sessions
    /\ t.pc \in Counting => /\ t.op = "count" /\ t.amount \in Int /\ t.session \in Sessions
                            /\ t.pc = "findCounted" => t.seen = {}

Stored ==
    /\ \A k \in Keys : /\ payments[k].amount \in Nat /\ payments[k].method \in Methods
                       /\ payments[k].session \in Sessions \cup {None}
    /\ wallet \in [credits : Int, debited : Int, refunded : Int]
    /\ sessions \in [Sessions -> [status : {"absent", "OPEN", "CLOSED"}, moves : Int,
                                  theoretical : Int]]

Typed == Stored /\ \A p \in Procs : Fits(task[p])

\* the pairs of Apart that the two theorems below rely on
Alone == \A p, q \in Procs : p # q /\ task[p].op = "reverse" => task[q].op # "reverse"
TillAlone == \A p, q \in Procs : task[p].op = "count" => task[q].op \notin {"pay", "move", "reverse"}

-----------------------------------------------------------------------------
Debiting(k) == \E p \in Procs : At(p, "recorded") /\ Key(p) = k
Returning(k) == \E p \in Procs : At(p, "reversed") /\ Key(p) = k

\* what the account took from the wallet for this payment, and did not give back
Taken(k) ==
    IF /\ payments[k].method = "WALLET_CREDIT"
       /\ Debiting(k) \/ (payments[k].status = "RECORDED" /\ ~Returning(k))
    THEN payments[k].amount ELSE 0

\* a pending payment has its handler, and a reversal is about a recorded payment
Served ==
    /\ \A k \in Keys : payments[k].status = "PENDING" =>
           \E p \in Procs : task[p].pc \in Owning /\ Key(p) = k
    /\ \A p \in Procs : task[p].pc \in Owning =>
           payments[Key(p)].method = "WALLET_CREDIT" /\ payments[Key(p)].amount = task[p].amount
    /\ \A p \in Procs : task[p].pc \in Reversing =>
           /\ payments[Key(p)].status = "RECORDED" /\ payments[Key(p)].amount = task[p].amount
           /\ task[p].pc # "reversed" => payments[Key(p)].method = "WALLET_CREDIT"

Ledger == wallet.debited - wallet.refunded = SumFunctionOnSet([k \in Keys |-> Taken(k)], Keys)

LedgerInv == TillInv /\ Typed /\ Alone /\ Served /\ Ledger

-----------------------------------------------------------------------------
\* what a count has read of a session; nothing else runs meanwhile
CashOf == [s \in Sessions |-> CashTotal(s)]
ReadSoFar(seen, cash, moves) ==
    Opening + (IF "cash" \in seen THEN cash ELSE 0) + (IF "moves" \in seen THEN moves ELSE 0)

Counted ==
    \A p \in Procs :
        /\ task[p].pc \in {"theoretical", "closeSession"} =>
              /\ task[p].amount = ReadSoFar(task[p].seen, CashOf[task[p].session],
                                           sessions[task[p].session].moves)
              /\ \A k \in Keys : payments[k].session = task[p].session => ~payments[k].late
        /\ task[p].pc = "theoretical" => task[p].seen \in {{}, {"cash"}, {"moves"}}
        /\ task[p].pc = "closeSession" => task[p].seen = {"cash", "moves"}

Attached ==
    /\ \A p \in Procs : task[p].pc \in {"create", "addMovement"} /\ task[p].session # None =>
           sessions[task[p].session].status = "OPEN"
    /\ \A k \in Keys : payments[k].late => Closed(payments[k].session)
    /\ \A p \in Procs : task[p].pc \in Reversing =>
           LET pay == payments[Key(p)] IN
             pay.status = "REVERSED" /\ Closed(pay.session) => pay.late
    /\ \A k \in Keys : payments[k].status = "PENDING" => payments[k].method # "CASH"

CashInv == TillInv /\ Typed /\ TillAlone /\ Counted /\ Attached /\ SessionBalanced

-----------------------------------------------------------------------------
\* A handler that goes to its next call keeps the request it serves.
LEMMA FitsOn ==
    ASSUME TillInv, NEW p \in Procs, Fits(task[p]), NEW pc,
           pc \in Paying => task[p].pc \in Paying,
           pc \in GivingBack => task[p].pc \in GivingBack,
           pc \in Moving => task[p].pc \in Moving,
           pc \in Counting => task[p].pc \in Counting,
           pc \notin {"create", "reserve", "findCounted"}
    PROVE  LET t == [task[p] EXCEPT !.pc = pc]
           IN  Fits(t) /\ t.op = task[p].op /\ t.key = Key(p) /\ t.pc = pc /\ DOMAIN t = Fields
               /\ t.amount = task[p].amount /\ t.session = task[p].session
BY DEF TillInv, Shape, Fields, Fits, Key, Paying, GivingBack, Moving, Counting

LEMMA FitsIdle == Fits(Idle) /\ Idle.op = "none" /\ DOMAIN Idle = Fields
BY DEF Fits, Idle, Paying, GivingBack, Moving, Counting, Fields

\* A request starts a handler and writes nothing else.
LEMMA Begins ==
    ASSUME TillInv, Typed, BarAssumption, NEW p \in Procs, Request(p)
    PROVE  /\ \E t : /\ Become(p, t) /\ Fits(t) /\ DOMAIN t = Fields /\ Free(t.op)
                     /\ t.pc \in {"find", "findPayment", "lineAccount", "findLine", "closeAccount", "due",
                                  "findOpen", "findSession", "findCounted"}
           /\ At(p, "idle") /\ UNCHANGED <<bar, money, sessions>>
<1> USE DEF Start, Idle, Fields, Fits, Paying, GivingBack, Moving, Counting, BarAssumption, Methods
<1>1. CASE StartPay(p)
  <2>1. PICK k \in Keys, m \in Methods, a \in Amounts :
          Start(p, [Idle EXCEPT !.op = "pay", !.pc = "find", !.key = k, !.method = m, !.amount = a])
    BY <1>1 DEF StartPay
  <2> DEFINE t == [Idle EXCEPT !.op = "pay", !.pc = "find", !.key = k, !.method = m, !.amount = a]
  <2>2. Fits(t) /\ DOMAIN t = Fields /\ t.op = "pay" /\ t.pc = "find"  OBVIOUS
  <2>3. Become(p, t) /\ Free(t.op) /\ At(p, "idle") /\ UNCHANGED <<bar, money, sessions>>
    BY <2>1
  <2> HIDE DEF t
  <2> QED  BY <2>2, <2>3
<1>2. CASE StartReverse(p)
  <2>1. PICK k \in Keys : Start(p, [Idle EXCEPT !.op = "reverse", !.pc = "findPayment", !.key = k])
    BY <1>2 DEF StartReverse
  <2> DEFINE t == [Idle EXCEPT !.op = "reverse", !.pc = "findPayment", !.key = k]
  <2>2. Fits(t) /\ DOMAIN t = Fields /\ t.op = "reverse" /\ t.pc = "findPayment"  OBVIOUS
  <2>3. Become(p, t) /\ Free(t.op) /\ At(p, "idle") /\ UNCHANGED <<bar, money, sessions>>
    BY <2>1
  <2> HIDE DEF t
  <2> QED  BY <2>2, <2>3
<1>3. CASE StartAddLine(p)
  <2> DEFINE t == [Idle EXCEPT !.op = "line", !.pc = "lineAccount"]
  <2>2. Fits(t) /\ DOMAIN t = Fields /\ t.op = "line" /\ t.pc = "lineAccount"  OBVIOUS
  <2>3. Become(p, t) /\ Free(t.op) /\ At(p, "idle") /\ UNCHANGED <<bar, money, sessions>>
    BY <1>3 DEF StartAddLine
  <2> HIDE DEF t
  <2> QED  BY <2>2, <2>3
<1>4. CASE StartVoid(p)
  <2>1. PICK l : Start(p, [Idle EXCEPT !.op = "void", !.pc = "findLine", !.line = l])
    BY <1>4 DEF StartVoid
  <2> DEFINE t == [Idle EXCEPT !.op = "void", !.pc = "findLine", !.line = l]
  <2>2. Fits(t) /\ DOMAIN t = Fields /\ t.op = "void" /\ t.pc = "findLine"  OBVIOUS
  <2>3. Become(p, t) /\ Free(t.op) /\ At(p, "idle") /\ UNCHANGED <<bar, money, sessions>>
    BY <2>1
  <2> HIDE DEF t
  <2> QED  BY <2>2, <2>3
<1>5. CASE StartClose(p)
  <2>1. PICK v, force : Start(p, [Idle EXCEPT !.op = "close", !.version = v, !.force = force,
                                              !.pc = IF force THEN "closeAccount" ELSE "due"])
    BY <1>5 DEF StartClose
  <2> DEFINE t == [Idle EXCEPT !.op = "close", !.version = v, !.force = force,
                               !.pc = IF force THEN "closeAccount" ELSE "due"]
  <2>2. Fits(t) /\ DOMAIN t = Fields /\ t.op = "close" /\ t.pc \in {"closeAccount", "due"}  OBVIOUS
  <2>3. Become(p, t) /\ Free(t.op) /\ At(p, "idle") /\ UNCHANGED <<bar, money, sessions>>
    BY <2>1
  <2> HIDE DEF t
  <2> QED  BY <2>2, <2>3
<1>6. CASE StartOpen(p)
  <2> DEFINE t == [Idle EXCEPT !.op = "open", !.pc = "findOpen"]
  <2>2. Fits(t) /\ DOMAIN t = Fields /\ t.op = "open" /\ t.pc = "findOpen"  OBVIOUS
  <2>3. Become(p, t) /\ Free(t.op) /\ At(p, "idle") /\ UNCHANGED <<bar, money, sessions>>
    BY <1>6 DEF StartOpen
  <2> HIDE DEF t
  <2> QED  BY <2>2, <2>3
<1>7. CASE StartMove(p)
  <2>1. PICK s \in Sessions, a \in Amounts, sign \in {1, -1} :
          Start(p, [Idle EXCEPT !.op = "move", !.pc = "findSession", !.session = s,
                                !.amount = sign * a])
    BY <1>7 DEF StartMove
  <2>0. a \in Int /\ sign * a \in Int
    <3>1. a \in Nat  OBVIOUS
    <3> QED  BY <3>1
  <2> DEFINE t == [Idle EXCEPT !.op = "move", !.pc = "findSession", !.session = s,
                               !.amount = sign * a]
  <2>2. Fits(t) /\ DOMAIN t = Fields /\ t.op = "move" /\ t.pc = "findSession"  BY <2>0
  <2>3. Become(p, t) /\ Free(t.op) /\ At(p, "idle") /\ UNCHANGED <<bar, money, sessions>>
    BY <2>1
  <2> HIDE DEF t
  <2> QED  BY <2>2, <2>3
<1>8. CASE StartCount(p)
  <2>1. PICK s \in Sessions :
          Start(p, [Idle EXCEPT !.op = "count", !.pc = "findCounted", !.session = s])
    BY <1>8 DEF StartCount
  <2> DEFINE t == [Idle EXCEPT !.op = "count", !.pc = "findCounted", !.session = s]
  <2>2. Fits(t) /\ DOMAIN t = Fields /\ t.op = "count" /\ t.pc = "findCounted"  OBVIOUS
  <2>3. Become(p, t) /\ Free(t.op) /\ At(p, "idle") /\ UNCHANGED <<bar, money, sessions>>
    BY <2>1
  <2> HIDE DEF t
  <2> QED  BY <2>2, <2>3
<1> QED  BY <1>1, <1>2, <1>3, <1>4, <1>5, <1>6, <1>7, <1>8 DEF Request

(***************************************************************************)
(* The calls that write no payment, no wallet and no session, by where     *)
(* they lead.                                                              *)
(***************************************************************************)
Quiet(p, t) ==
    /\ Become(p, t) /\ DOMAIN t = Fields /\ Fits(t) /\ t.op \in {"none", task[p].op}
    /\ UNCHANGED <<payments, wallet, sessions>>
    /\ task[p].pc \in Owning => t.pc \in Owning \/ task[p].pc \in FaultPoints \cap {"failed", "recorded"}
    /\ task[p].pc = "reversed" => "reversed" \in FaultPoints
    /\ t.pc \in Owning => /\ t.pc # "recorded" /\ task[p].pc \in {"balance", "debit"}
                          /\ t.key = Key(p) /\ t.amount = task[p].amount
    /\ t.pc \in Reversing =>
         /\ t.key = Key(p)
         /\ \/ /\ task[p].pc = "findPayment"
               /\ payments[Key(p)].status = "RECORDED" /\ t.amount = payments[Key(p)].amount
               /\ t.pc = IF payments[Key(p)].method = "WALLET_CREDIT" THEN "refundable" ELSE "reversed"
            \/ task[p].pc = "refundable" /\ t.pc = "refund" /\ t.amount = task[p].amount
    /\ t.pc \in {"create", "addMovement"} /\ t.session # None => sessions[t.session].status = "OPEN"
    /\ t.pc \in {"theoretical", "closeSession"} =>
         /\ t.session = task[p].session
         /\ \/ /\ task[p].pc = "findCounted" /\ sessions[t.session].status = "OPEN"
               /\ t.pc = "theoretical" /\ t.amount = Opening /\ t.seen = {}
            \/ /\ task[p].pc = "theoretical"
               /\ \E total \in {"cash", "moves"} \ task[p].seen :
                    /\ t.seen = task[p].seen \cup {total}
                    /\ t.amount = task[p].amount + IF total = "cash" THEN CashTotal(t.session)
                                                   ELSE sessions[t.session].moves
               /\ t.pc = IF task[p].seen = {} THEN "theoretical" ELSE "closeSession"

LEMMA QuietEnd ==
    ASSUME NEW p \in Procs, Done(p), UNCHANGED <<payments, wallet, sessions>>,
           task[p].pc \in Owning => task[p].pc \in FaultPoints \cap {"failed", "recorded"},
           task[p].pc = "reversed" => "reversed" \in FaultPoints
    PROVE  Quiet(p, Idle)
<1>1. Fits(Idle) /\ DOMAIN Idle = Fields /\ Idle.op = "none" /\ Idle.pc = "idle"
  BY FitsIdle DEF Idle
<1> QED  BY <1>1 DEF Done, Quiet, Owning, Reversing

\* a call that only goes on to the next one
LEMMA QuietOn ==
    ASSUME TillInv, Typed, NEW p \in Procs, NEW pc, Goto(p, pc),
           UNCHANGED <<payments, wallet, sessions>>,
           \/ pc \in {"account", "session", "mark"} /\ task[p].pc \in Paying \ Owning
           \/ pc \in {"debit", "failed"} /\ task[p].pc \in {"balance", "debit"}
           \/ pc = "refund" /\ task[p].pc = "refundable"
           \/ pc \in {"insertLine", "voidLine", "createSession"}
              /\ task[p].pc \notin Placed
           \/ pc = "addMovement" /\ task[p].pc = "findSession"
              /\ sessions[task[p].session].status = "OPEN"
    PROVE  \E t : Quiet(p, t)
<1> DEFINE t == [task[p] EXCEPT !.pc = pc]
<1>1. Fits(task[p])  BY DEF Typed
<1>2. Fits(t) /\ t.op = task[p].op /\ t.key = Key(p) /\ t.pc = pc /\ DOMAIN t = Fields
      /\ t.amount = task[p].amount /\ t.session = task[p].session
  BY <1>1, FitsOn DEF Paying, GivingBack, Moving, Counting, Placed, Owning
<1>3. Become(p, t)  BY DEF Goto
<1> HIDE DEF t
<1>4. Quiet(p, t)
  BY <1>2, <1>3 DEF Quiet, Paying, GivingBack, Moving, Counting, Placed, Owning, Reversing
<1> QED  BY <1>4

\* the sums of payments, when there are finitely many keys
LEMMA TotalIsInt ==
    ASSUME Stored, IsFiniteSet(Keys), NEW K \in SUBSET Keys
    PROVE  Total(K) \in Int
<1>1. IsFiniteSet(K)  BY FS_Subset
<1> DEFINE f == [k \in Keys |-> payments[k].amount]
<1>2. \A x \in K : f[x] \in Int  BY DEF Stored
<1> HIDE DEF f
<1>3. SumFunctionOnSet(f, K) \in Int  BY <1>1, <1>2, SumInt
<1> QED  BY <1>3 DEF Total, f

LEMMA CashIsInt ==
    ASSUME Stored, IsFiniteSet(Keys), NEW s
    PROVE  CashTotal(s) \in Int
BY TotalIsInt DEF CashTotal, CashIn

LEMMA Quietly ==
    ASSUME TillInv, Typed, BarAssumption, IsFiniteSet(Keys), NEW p \in Procs,
           \/ FindKey(p) \/ CheckAccount(p) \/ AttachSession(p) \/ ReadBalance(p)
           \/ ReadAccount(p) \/ MarkPartiallyPaid(p)
           \/ FindPayment(p) \/ ReadRefundable(p)
           \/ CheckLineAccount(p) \/ InsertLine(p) \/ FindLine(p) \/ VoidLine(p)
           \/ ReadDue(p) \/ CloseAccount(p)
           \/ FindOpen(p) \/ FindSession(p)
           \/ FindCounted(p) \/ ReadTheoretical(p) \/ RefuseVariance(p)
           \/ Fault(p)
    PROVE  \E t : Quiet(p, t)
<1> USE DEF Paying, GivingBack, Moving, Counting, Placed, Owning, Reversing, At, bar, money
<1>0. Fits(task[p]) /\ DOMAIN task[p] = Fields  BY DEF Typed, TillInv, Shape
<1>1. CASE FindKey(p)  BY <1>1, QuietEnd, QuietOn DEF FindKey
<1>2. CASE CheckAccount(p)  BY <1>2, QuietEnd, QuietOn DEF CheckAccount
<1>3. CASE AttachSession(p)
  <2>1. PICK s \in IF OpenSessions = {} THEN {None} ELSE OpenSessions :
          Become(p, [task[p] EXCEPT !.session = s,
                      !.pc = IF task[p].method = "WALLET_CREDIT" THEN "reserve" ELSE "create"])
    BY <1>3 DEF AttachSession
  <2>2. s \in Sessions \cup {None} /\ (s # None => sessions[s].status = "OPEN")
    BY DEF OpenSessions
  <2>3. task[p].op = "pay" /\ task[p].amount \in Nat /\ task[p].method \in Methods
        /\ task[p].pc = "session" /\ UNCHANGED <<payments, wallet, sessions>>
    BY <1>0, <1>3 DEF Fits, AttachSession
  <2> DEFINE t == [task[p] EXCEPT !.session = s,
                      !.pc = IF task[p].method = "WALLET_CREDIT" THEN "reserve" ELSE "create"]
  <2>4. /\ DOMAIN t = Fields /\ t.op = "pay" /\ t.amount \in Nat /\ t.session = s
        /\ t.method = task[p].method
        /\ t.pc = IF task[p].method = "WALLET_CREDIT" THEN "reserve" ELSE "create"
    BY <1>0, <2>3 DEF Fields
  <2>5. Become(p, t)  BY <2>1
  <2> HIDE DEF t
  <2>6. Fits(t)  BY <2>2, <2>3, <2>4 DEF Fits
  <2>7. Quiet(p, t)  BY <2>2, <2>3, <2>4, <2>5, <2>6 DEF Quiet
  <2> QED  BY <2>7
<1>4. CASE ReadBalance(p)
  <2>1. CASE Goto(p, "failed")  BY <1>4, <2>1, QuietOn DEF ReadBalance
  <2>2. CASE Goto(p, "debit")  BY <1>4, <2>2, QuietOn DEF ReadBalance
  <2> QED  BY <1>4, <2>1, <2>2 DEF ReadBalance
<1>5. CASE ReadAccount(p)
  <2>1. CASE account.status = "OPEN"
    <3> DEFINE t == [task[p] EXCEPT !.pc = "update", !.version = account.version]
    <3>1. Become(p, t) /\ task[p].pc = "mark" /\ UNCHANGED <<payments, wallet, sessions>>
      BY <1>5, <2>1 DEF ReadAccount
    <3>2. /\ DOMAIN t = Fields /\ t.op = task[p].op /\ t.amount = task[p].amount
          /\ t.session = task[p].session /\ t.method = task[p].method /\ t.pc = "update"
      BY <1>0 DEF Fields
    <3> HIDE DEF t
    <3>3. Fits(t)  BY <1>0, <3>1, <3>2 DEF Fits
    <3>4. Quiet(p, t)  BY <3>1, <3>2, <3>3 DEF Quiet
    <3> QED  BY <3>4
  <2> QED  BY <1>5, <2>1, QuietEnd DEF ReadAccount
<1>6. CASE MarkPartiallyPaid(p)  BY <1>6, QuietEnd DEF MarkPartiallyPaid
<1>7. CASE FindPayment(p)
  <2>1. CASE payments[Key(p)].status = "RECORDED"
    <3> DEFINE pay == payments[Key(p)]
               t == [task[p] EXCEPT !.amount = pay.amount,
                       !.pc = IF pay.method = "WALLET_CREDIT" THEN "refundable" ELSE "reversed"]
    <3>1. Become(p, t) /\ task[p].pc = "findPayment" /\ UNCHANGED <<payments, wallet, sessions>>
      BY <1>7, <2>1 DEF FindPayment
    <3>2. /\ DOMAIN t = Fields /\ t.op = task[p].op /\ t.amount = payments[Key(p)].amount
          /\ t.pc = (IF payments[Key(p)].method = "WALLET_CREDIT" THEN "refundable" ELSE "reversed")
          /\ t.key = Key(p)
      BY <1>0 DEF Fields, Key
    <3>3. payments[Key(p)].amount \in Nat  BY <3>1 DEF TillInv, Shape, Keyed, Typed, Stored
    <3> HIDE DEF t
    <3>4. Fits(t)  BY <1>0, <3>1, <3>2, <3>3 DEF Fits
    <3>5. Quiet(p, t)  BY <2>1, <3>1, <3>2, <3>4 DEF Quiet
    <3> QED  BY <3>5
  <2> QED  BY <1>7, <2>1, QuietEnd DEF FindPayment
<1>8. CASE ReadRefundable(p)  BY <1>8, QuietEnd, QuietOn DEF ReadRefundable
<1>9. CASE CheckLineAccount(p)  BY <1>9, QuietEnd, QuietOn DEF CheckLineAccount
<1>10. CASE InsertLine(p)  BY <1>10, QuietEnd DEF InsertLine
<1>11. CASE FindLine(p)  BY <1>11, QuietEnd, QuietOn DEF FindLine
<1>12. CASE VoidLine(p)  BY <1>12, QuietEnd DEF VoidLine
<1>13. CASE ReadDue(p)
  <2>1. CASE Done(p)  BY <1>13, <2>1, QuietEnd DEF ReadDue
  <2>2. CASE ~ Done(p)
    <3>1. PICK due, total, both :
            Become(p, [task[p] EXCEPT !.amount = due, !.seen = @ \cup {total},
                                      !.pc = IF both THEN "closeAccount" ELSE "due"])
      BY <1>13, <2>2 DEF ReadDue
    <3> DEFINE t == [task[p] EXCEPT !.amount = due, !.seen = @ \cup {total},
                                      !.pc = IF both THEN "closeAccount" ELSE "due"]
    <3>2. DOMAIN t = Fields /\ t.pc \in {"closeAccount", "due"} /\ t.op = task[p].op
      BY <1>0 DEF Fields
    <3>3. task[p].pc = "due" /\ UNCHANGED <<payments, wallet, sessions>>  BY <1>13 DEF ReadDue
    <3>4. Become(p, t)  BY <3>1
    <3> HIDE DEF t
    <3>5. Fits(t)  BY <3>2 DEF Fits
    <3>6. Quiet(p, t)  BY <3>2, <3>3, <3>4, <3>5 DEF Quiet
    <3> QED  BY <3>6
  <2> QED  BY <2>1, <2>2
<1>14. CASE CloseAccount(p)  BY <1>14, QuietEnd DEF CloseAccount
<1>15. CASE FindOpen(p)  BY <1>15, QuietEnd, QuietOn DEF FindOpen
<1>16. CASE FindSession(p)  BY <1>16, QuietEnd, QuietOn DEF FindSession
<1>17. CASE FindCounted(p)
  <2>1. CASE sessions[task[p].session].status = "OPEN"
    <3> DEFINE t == [task[p] EXCEPT !.pc = "theoretical", !.amount = Opening]
    <3>1. Become(p, t) /\ task[p].pc = "findCounted" /\ UNCHANGED <<payments, wallet, sessions>>
      BY <1>17, <2>1 DEF FindCounted
    <3>2. /\ DOMAIN t = Fields /\ t.pc = "theoretical" /\ t.op = task[p].op /\ t.amount = Opening
          /\ t.session = task[p].session /\ t.seen = task[p].seen
      BY <1>0 DEF Fields
    <3>3. Opening \in Int  BY DEF BarAssumption
    <3> HIDE DEF t
    <3>4. Fits(t) /\ t.seen = {}  BY <1>0, <3>1, <3>2, <3>3 DEF Fits
    <3>5. Quiet(p, t)  BY <2>1, <3>1, <3>2, <3>4 DEF Quiet
    <3> QED  BY <3>5
  <2> QED  BY <1>17, <2>1, QuietEnd DEF FindCounted
<1>18. CASE ReadTheoretical(p)
  <2>1. PICK total \in {"cash", "moves"} \ task[p].seen :
         Become(p, [task[p] EXCEPT !.seen = @ \cup {total},
                      !.amount = @ + IF total = "cash" THEN CashTotal(task[p].session)
                                                       ELSE sessions[task[p].session].moves,
                      !.pc = IF task[p].seen = {} THEN "theoretical" ELSE "closeSession"])
    BY <1>18 DEF ReadTheoretical
  <2>2. PICK read : read = IF total = "cash" THEN CashTotal(task[p].session)
                                             ELSE sessions[task[p].session].moves
    OBVIOUS
  <2> DEFINE t == [task[p] EXCEPT !.seen = @ \cup {total}, !.amount = @ + read,
                      !.pc = IF task[p].seen = {} THEN "theoretical" ELSE "closeSession"]
  <2>3. Become(p, t) /\ task[p].pc = "theoretical" /\ UNCHANGED <<payments, wallet, sessions>>
    BY <1>18, <2>1, <2>2 DEF ReadTheoretical
  <2>4. /\ DOMAIN t = Fields /\ t.op = task[p].op /\ t.session = task[p].session
        /\ t.seen = task[p].seen \cup {total} /\ t.amount = task[p].amount + read
        /\ t.pc = IF task[p].seen = {} THEN "theoretical" ELSE "closeSession"
    BY <1>0 DEF Fields
  <2> HIDE DEF t
  <2>5. read \in Int
    <3>1. task[p].session \in Sessions  BY <1>0, <2>3 DEF Fits
    <3> QED  BY <2>2, <3>1, CashIsInt DEF Typed, Stored
  <2>6. Fits(t)  BY <1>0, <2>3, <2>4, <2>5 DEF Fits
  <2>7. Quiet(p, t)  BY <2>2, <2>3, <2>4, <2>6 DEF Quiet
  <2> QED  BY <2>7
<1>19. CASE RefuseVariance(p)  BY <1>19, QuietEnd DEF RefuseVariance
<1>20. CASE Fault(p)
  <2>1. CASE task[p].pc \in {"balance", "debit"}  BY <1>20, <2>1, QuietOn DEF Fault
  <2> QED  BY <1>20, <2>1, QuietEnd DEF Fault
<1> QED  BY <1>1, <1>2, <1>3, <1>4, <1>5, <1>6, <1>7, <1>8, <1>9, <1>10, <1>11, <1>12,
            <1>13, <1>14, <1>15, <1>16, <1>17, <1>18, <1>19, <1>20

(***************************************************************************)
(* The calls that write a payment, the wallet or a session: where they     *)
(* lead and what they write.                                               *)
(***************************************************************************)
Ends(p, t) == t.pc = "idle" /\ t.op = "none"
Leads(p, t, pc) == t.pc = pc /\ t.op = task[p].op /\ t.key = Key(p) /\ t.amount = task[p].amount

\* payments' differs from payments by the row of k
Rewrites(k, row) ==
    DOMAIN payments' = Keys /\ \A x \in Keys : payments'[x] = IF x = k THEN row ELSE payments[x]

Creates(p, t) ==
    /\ task[p].pc = "create" /\ Leads(p, t, "mark") /\ payments[Key(p)].status = "absent"
    /\ Rewrites(Key(p), Row(p, "RECORDED")) /\ UNCHANGED <<wallet, sessions>>
Reserves(p, t) ==
    /\ task[p].pc = "reserve" /\ Leads(p, t, "balance") /\ payments[Key(p)].status = "absent"
    /\ Rewrites(Key(p), Row(p, "PENDING")) /\ UNCHANGED <<wallet, sessions>>
Debits(p, t) ==
    /\ task[p].pc = "debit" /\ Leads(p, t, "recorded") /\ UNCHANGED <<payments, sessions>>
    /\ wallet' = [wallet EXCEPT !.credits = @ - task[p].amount, !.debited = @ + task[p].amount]
Fails(p, t) ==
    /\ task[p].pc = "failed" /\ Ends(p, t)
    /\ Rewrites(Key(p), [payments[Key(p)] EXCEPT !.status = "FAILED"]) /\ UNCHANGED <<wallet, sessions>>
Records(p, t) ==
    /\ task[p].pc = "recorded" /\ Leads(p, t, "mark")
    /\ Rewrites(Key(p), [payments[Key(p)] EXCEPT !.status = "RECORDED"]) /\ UNCHANGED <<wallet, sessions>>
Refunds(p, t) ==
    /\ task[p].pc = "refund" /\ Leads(p, t, "reversed") /\ UNCHANGED <<payments, sessions>>
    /\ wallet' = [wallet EXCEPT !.credits = @ + task[p].amount, !.refunded = @ + task[p].amount]
Reverses(p, t) ==
    /\ task[p].pc = "reversed" /\ Ends(p, t)
    /\ Rewrites(Key(p), [payments[Key(p)] EXCEPT !.status = "REVERSED",
                                                 !.late = Closed(payments[Key(p)].session)])
    /\ UNCHANGED <<wallet, sessions>>
Opens(p, t) ==
    /\ task[p].pc = "createSession" /\ Ends(p, t) /\ UNCHANGED <<payments, wallet>>
    /\ \E s \in Sessions : /\ sessions[s].status = "absent"
                           /\ sessions' = [sessions EXCEPT ![s].status = "OPEN"]
Moves(p, t) ==
    /\ task[p].pc = "addMovement" /\ Ends(p, t) /\ UNCHANGED <<payments, wallet>>
    /\ sessions' = [sessions EXCEPT ![task[p].session].moves = @ + task[p].amount]
Closes(p, t) ==
    /\ task[p].pc = "closeSession" /\ Ends(p, t) /\ UNCHANGED <<payments, wallet>>
    /\ sessions' = [sessions EXCEPT ![task[p].session].status = "CLOSED",
                                    ![task[p].session].theoretical = task[p].amount]

Loud(p, t) ==
    /\ Become(p, t) /\ DOMAIN t = Fields /\ Fits(t) /\ t.op \in {"none", task[p].op}
    /\ \/ Creates(p, t) \/ Reserves(p, t) \/ Debits(p, t) \/ Fails(p, t) \/ Records(p, t)
       \/ Refunds(p, t) \/ Reverses(p, t) \/ Opens(p, t) \/ Moves(p, t) \/ Closes(p, t)

LEMMA Ending ==
    ASSUME NEW p \in Procs, Done(p)
    PROVE  \E t : /\ Become(p, t) /\ DOMAIN t = Fields /\ Fits(t) /\ t.op \in {"none", task[p].op}
                  /\ Ends(p, t)
<1>1. Fits(Idle) /\ DOMAIN Idle = Fields /\ Idle.op = "none" /\ Idle.pc = "idle"
  BY FitsIdle DEF Idle
<1> QED  BY <1>1 DEF Done, Ends

LEMMA Leading ==
    ASSUME TillInv, Typed, NEW p \in Procs, NEW pc, Goto(p, pc),
           \/ pc \in {"balance", "recorded", "mark"} /\ task[p].pc \in Paying
           \/ pc = "reversed" /\ task[p].pc = "refund"
    PROVE  \E t : /\ Become(p, t) /\ DOMAIN t = Fields /\ Fits(t) /\ t.op \in {"none", task[p].op}
                  /\ Leads(p, t, pc)
<1> DEFINE t == [task[p] EXCEPT !.pc = pc]
<1>1. Fits(task[p])  BY DEF Typed
<1>2. Fits(t) /\ t.op = task[p].op /\ t.key = Key(p) /\ t.pc = pc /\ DOMAIN t = Fields
      /\ t.amount = task[p].amount
  BY <1>1, FitsOn DEF Paying, GivingBack, Moving, Counting
<1>3. Become(p, t)  BY DEF Goto
<1> HIDE DEF t
<1> QED  BY <1>2, <1>3 DEF Leads

LEMMA Rewritten ==
    ASSUME TillInv, NEW k \in Keys, NEW row, payments' = [payments EXCEPT ![k] = row]
    PROVE  Rewrites(k, row)
BY DEF TillInv, Shape, Rewrites

LEMMA Loudly ==
    ASSUME TillInv, Typed, NEW p \in Procs,
           \/ CreatePayment(p) \/ ReserveKey(p) \/ DebitWallet(p) \/ MarkFailed(p) \/ MarkRecorded(p)
           \/ RefundWallet(p) \/ MarkReversed(p) \/ CreateSession(p) \/ AddMovement(p) \/ CloseSession(p)
    PROVE  \E t : Quiet(p, t) \/ Loud(p, t)
<1> USE DEF At, bar, money
<1>0. task[p].pc \in {"create", "reserve", "failed", "recorded", "reversed"} => Key(p) \in Keys
  BY DEF TillInv, Shape, Keyed, Owning, Reversing
<1>1. CASE CreatePayment(p)
  <2>1. CASE payments[Key(p)].status = "absent"
    <3>1. PICK t : /\ Become(p, t) /\ DOMAIN t = Fields /\ Fits(t) /\ t.op \in {"none", task[p].op}
                   /\ Leads(p, t, "mark")
      BY <1>1, <2>1, Leading DEF CreatePayment, Paying
    <3>2. Creates(p, t)  BY <1>0, <1>1, <2>1, <3>1, Rewritten DEF CreatePayment, Creates
    <3> QED  BY <3>1, <3>2 DEF Loud
  <2> QED  BY <1>1, <2>1, QuietEnd DEF CreatePayment, Owning
<1>2. CASE ReserveKey(p)
  <2>1. CASE payments[Key(p)].status = "absent"
    <3>1. PICK t : /\ Become(p, t) /\ DOMAIN t = Fields /\ Fits(t) /\ t.op \in {"none", task[p].op}
                   /\ Leads(p, t, "balance")
      BY <1>2, <2>1, Leading DEF ReserveKey, Paying
    <3>2. Reserves(p, t)  BY <1>0, <1>2, <2>1, <3>1, Rewritten DEF ReserveKey, Reserves
    <3> QED  BY <3>1, <3>2 DEF Loud
  <2> QED  BY <1>2, <2>1, QuietEnd DEF ReserveKey, Owning
<1>3. CASE DebitWallet(p)
  <2>1. PICK t : /\ Become(p, t) /\ DOMAIN t = Fields /\ Fits(t) /\ t.op \in {"none", task[p].op}
                 /\ Leads(p, t, "recorded")
    BY <1>3, Leading DEF DebitWallet, Paying
  <2>2. Debits(p, t)  BY <1>3, <2>1 DEF DebitWallet, Debits
  <2> QED  BY <2>1, <2>2 DEF Loud
<1>4. CASE MarkFailed(p)
  <2>1. PICK t : /\ Become(p, t) /\ DOMAIN t = Fields /\ Fits(t) /\ t.op \in {"none", task[p].op}
                 /\ Ends(p, t)
    BY <1>4, Ending DEF MarkFailed, Settle
  <2>2. payments' = [payments EXCEPT ![Key(p)] = [payments[Key(p)] EXCEPT !.status = "FAILED"]]
    BY <1>4 DEF MarkFailed, Settle
  <2>3. Fails(p, t)  BY <1>0, <1>4, <2>1, <2>2, Rewritten DEF MarkFailed, Settle, Fails
  <2> QED  BY <2>1, <2>3 DEF Loud
<1>5. CASE MarkRecorded(p)
  <2>1. PICK t : /\ Become(p, t) /\ DOMAIN t = Fields /\ Fits(t) /\ t.op \in {"none", task[p].op}
                 /\ Leads(p, t, "mark")
    BY <1>5, Leading DEF MarkRecorded, Settle, Paying
  <2>2. payments' = [payments EXCEPT ![Key(p)] = [payments[Key(p)] EXCEPT !.status = "RECORDED"]]
    BY <1>5 DEF MarkRecorded, Settle
  <2>3. Records(p, t)  BY <1>0, <1>5, <2>1, <2>2, Rewritten DEF MarkRecorded, Settle, Records
  <2> QED  BY <2>1, <2>3 DEF Loud
<1>6. CASE RefundWallet(p)
  <2>1. PICK t : /\ Become(p, t) /\ DOMAIN t = Fields /\ Fits(t) /\ t.op \in {"none", task[p].op}
                 /\ Leads(p, t, "reversed")
    BY <1>6, Leading DEF RefundWallet
  <2>2. Refunds(p, t)  BY <1>6, <2>1 DEF RefundWallet, Refunds
  <2> QED  BY <2>1, <2>2 DEF Loud
<1>7. CASE MarkReversed(p)
  <2>1. PICK t : /\ Become(p, t) /\ DOMAIN t = Fields /\ Fits(t) /\ t.op \in {"none", task[p].op}
                 /\ Ends(p, t)
    BY <1>7, Ending DEF MarkReversed
  <2> DEFINE row == [payments[Key(p)] EXCEPT !.status = "REVERSED",
                                             !.late = Closed(payments[Key(p)].session)]
  <2>2. payments' = [payments EXCEPT ![Key(p)] = row]
    BY <1>0, <1>7 DEF MarkReversed, TillInv, Shape
  <2>3. Rewrites(Key(p), row)
    <3> HIDE DEF row
    <3> QED  BY <1>0, <1>7, <2>2, Rewritten DEF MarkReversed
  <2>4. Reverses(p, t)  BY <1>7, <2>1, <2>3 DEF MarkReversed, Reverses
  <2> QED  BY <2>1, <2>4 DEF Loud
<1>8. CASE CreateSession(p)
  <2>1. PICK t : /\ Become(p, t) /\ DOMAIN t = Fields /\ Fits(t) /\ t.op \in {"none", task[p].op}
                 /\ Ends(p, t)
    BY <1>8, Ending DEF CreateSession
  <2>2. Opens(p, t)  BY <1>8, <2>1 DEF CreateSession, Opens
  <2> QED  BY <2>1, <2>2 DEF Loud
<1>9. CASE AddMovement(p)
  <2>1. PICK t : /\ Become(p, t) /\ DOMAIN t = Fields /\ Fits(t) /\ t.op \in {"none", task[p].op}
                 /\ Ends(p, t)
    BY <1>9, Ending DEF AddMovement
  <2>2. Moves(p, t)  BY <1>9, <2>1 DEF AddMovement, Moves
  <2> QED  BY <2>1, <2>2 DEF Loud
<1>10. CASE CloseSession(p)
  <2>1. PICK t : /\ Become(p, t) /\ DOMAIN t = Fields /\ Fits(t) /\ t.op \in {"none", task[p].op}
                 /\ Ends(p, t)
    BY <1>10, Ending DEF CloseSession
  <2>2. Closes(p, t)  BY <1>10, <2>1 DEF CloseSession, Closes
  <2> QED  BY <2>1, <2>2 DEF Loud
<1> QED  BY <1>1, <1>2, <1>3, <1>4, <1>5, <1>6, <1>7, <1>8, <1>9, <1>10

\* Every step of a handler is one of these.
LEMMA Turns ==
    ASSUME TillInv, Typed, BarAssumption, IsFiniteSet(Keys), NEW p \in Procs, Handle(p)
    PROVE  \E t : Quiet(p, t) \/ Loud(p, t)
<1>1. CASE \/ CreatePayment(p) \/ ReserveKey(p) \/ DebitWallet(p) \/ MarkFailed(p) \/ MarkRecorded(p)
           \/ RefundWallet(p) \/ MarkReversed(p) \/ CreateSession(p) \/ AddMovement(p) \/ CloseSession(p)
  BY <1>1, Loudly
<1>2. CASE ~ (\/ CreatePayment(p) \/ ReserveKey(p) \/ DebitWallet(p) \/ MarkFailed(p) \/ MarkRecorded(p)
              \/ RefundWallet(p) \/ MarkReversed(p) \/ CreateSession(p) \/ AddMovement(p)
              \/ CloseSession(p))
  BY <1>2, Quietly DEF Handle
<1> QED  BY <1>1, <1>2

-----------------------------------------------------------------------------
LEMMA TaskAfter ==
    ASSUME TillInv, NEW p \in Procs, NEW t, Become(p, t)
    PROVE  \A q \in Procs : task'[q] = IF q = p THEN t ELSE task[q]
BY DEF Become, TillInv, Shape

\* what a step writes is an amount, and what it reads fits its request
LEMMA TypedTurn ==
    ASSUME TillInv, Typed, NEW p \in Procs, NEW t, Quiet(p, t) \/ Loud(p, t)
    PROVE  Typed'
<1>1. \A q \in Procs : task'[q] = IF q = p THEN t ELSE task[q]
  BY TaskAfter DEF Quiet, Loud
<1>2. Fits(t) /\ \A q \in Procs : Fits(task[q])  BY DEF Quiet, Loud, Typed
<1>3. \A q \in Procs : Fits(task'[q])  BY <1>1, <1>2
<1>4. Stored'
  <2>1. CASE UNCHANGED <<payments, wallet, sessions>>  BY <2>1 DEF Typed, Stored
  <2> USE DEF Paying, GivingBack, Moving, Counting
  <2>2. Fits(task[p])  BY <1>2
  <2>3. ASSUME NEW st, task[p].pc \in {"create", "reserve"}
        PROVE  LET r == Row(p, st) IN r.amount \in Nat /\ r.method \in Methods
                                      /\ r.session \in Sessions \cup {None}
    BY <2>2, <2>3 DEF Fits, Row
  <2>4. CASE Creates(p, t)  BY <2>3, <2>4 DEF Creates, Rewrites, Typed, Stored
  <2>5. CASE Reserves(p, t)  BY <2>3, <2>5 DEF Reserves, Rewrites, Typed, Stored
  <2>6. ASSUME task[p].pc \in {"failed", "recorded", "reversed"}
        PROVE  Key(p) \in Keys /\ DOMAIN payments[Key(p)] = Columns
    BY <2>6 DEF TillInv, Shape, Owning, Reversing
  <2>7. CASE Fails(p, t)
    BY <2>6, <2>7 DEF Fails, Rewrites, Typed, Stored, Columns
  <2>8. CASE Records(p, t)
    BY <2>6, <2>8 DEF Records, Rewrites, Typed, Stored, Columns
  <2>9. CASE Reverses(p, t)
    BY <2>6, <2>9 DEF Reverses, Rewrites, Typed, Stored, Columns
  <2>10. CASE Debits(p, t) \/ Refunds(p, t)
    <3>1. task[p].amount \in Nat  BY <2>2, <2>10 DEF Debits, Refunds, Fits
    <3>2. wallet \in [credits : Int, debited : Int, refunded : Int]  BY DEF Typed, Stored
    <3>3. PICK a \in Nat : a = task[p].amount  BY <3>1
    <3>4. PICK c, d, r \in Int : wallet = [credits |-> c, debited |-> d, refunded |-> r]
      BY <3>2
    <3>5. \/ wallet' = [credits |-> c - a, debited |-> d + a, refunded |-> r]
          \/ wallet' = [credits |-> c + a, debited |-> d, refunded |-> r + a]
      BY <2>10, <3>3, <3>4 DEF Debits, Refunds
    <3>6. c - a \in Int /\ d + a \in Int /\ c + a \in Int /\ r + a \in Int  OBVIOUS
    <3>7. wallet' \in [credits : Int, debited : Int, refunded : Int]
      BY <3>5, <3>6
    <3> QED  BY <2>10, <3>7 DEF Debits, Refunds, Typed, Stored
  <2>11. CASE Opens(p, t)  BY <2>11 DEF Opens, Typed, Stored
  <2>12. CASE Moves(p, t)
    <3>1. task[p].amount \in Int /\ task[p].session \in Sessions  BY <2>2, <2>12 DEF Moves, Fits
    <3> QED  BY <2>12, <3>1 DEF Moves, Typed, Stored
  <2>13. CASE Closes(p, t)
    <3>1. task[p].amount \in Int /\ task[p].session \in Sessions  BY <2>2, <2>13 DEF Closes, Fits
    <3> QED  BY <2>13, <3>1 DEF Closes, Typed, Stored
  <2> QED  BY <2>1, <2>4, <2>5, <2>7, <2>8, <2>9, <2>10, <2>11, <2>12, <2>13 DEF Quiet, Loud
<1> QED  BY <1>3, <1>4 DEF Typed

LEMMA TypedBegin ==
    ASSUME TillInv, Typed, BarAssumption, NEW p \in Procs, Request(p)
    PROVE  Typed'
<1>1. PICK t : Become(p, t) /\ Fits(t) /\ UNCHANGED <<payments, wallet, sessions>>
  BY Begins DEF bar, money
<1>2. \A q \in Procs : task'[q] = IF q = p THEN t ELSE task[q]  BY <1>1, TaskAfter
<1> QED  BY <1>1, <1>2 DEF Typed, Stored

\* no two handlers serve requests that the staff keeps apart
LEMMA AloneSteps ==
    ASSUME TillInv, Typed, BarAssumption, IsFiniteSet(Keys), NEW p \in Procs, Request(p) \/ Handle(p)
    PROVE  /\ {"reverse"} \in Apart /\ Alone => Alone'
           /\ {{"pay", "count"}, {"move", "count"}, {"reverse", "count"}} \subseteq Apart /\ TillAlone
                => TillAlone'
<1>1. PICK t : Become(p, t) /\ (Free(t.op) \/ t.op \in {"none", task[p].op})
  BY Begins, Turns DEF Quiet, Loud
<1>2. \A q \in Procs : task'[q] = IF q = p THEN t ELSE task[q]  BY <1>1, TaskAfter
<1>3. ASSUME {"reverse"} \in Apart, Alone PROVE Alone'
  <2>1. ASSUME t.op = "reverse", NEW q \in Procs, q # p PROVE task[q].op # "reverse"
    <3>1. {"reverse", "reverse"} = {"reverse"}  OBVIOUS
    <3> QED  BY <1>1, <1>3, <2>1, <3>1 DEF Free, Alone
  <2> QED  BY <1>2, <1>3, <2>1 DEF Alone
<1>4. ASSUME {{"pay", "count"}, {"move", "count"}, {"reverse", "count"}} \subseteq Apart, TillAlone
      PROVE  TillAlone'
  <2>1. ASSUME NEW o \in {"pay", "move", "reverse"} PROVE {"count", o} \in Apart /\ {o, "count"} \in Apart
    <3>1. {"count", o} = {o, "count"}  OBVIOUS
    <3> QED  BY <1>4, <2>1, <3>1
  <2>2. \A q \in Procs : q # p => (t.op = "count" => task[q].op \notin {"pay", "move", "reverse"})
                                  /\ (task[q].op = "count" => t.op \notin {"pay", "move", "reverse"})
    BY <1>1, <1>4, <2>1 DEF Free, TillAlone
  <2> QED  BY <1>2, <1>4, <2>2 DEF TillAlone
<1> QED  BY <1>3, <1>4

-----------------------------------------------------------------------------
(***************************************************************************)
(* The ledger: one payment at most changes what was taken for it.          *)
(***************************************************************************)
LEMMA LedgerShift ==
    ASSUME IsFiniteSet(Keys), Stored, Stored', Ledger, NEW k \in Keys, NEW d \in Int,
           \A x \in Keys \ {k} : Taken(x)' = Taken(x),
           Taken(k)' = Taken(k) + d,
           wallet'.debited - wallet'.refunded = (wallet.debited - wallet.refunded) + d
    PROVE  Ledger'
<1>1. PICK f, g : f = [x \in Keys |-> Taken(x)] /\ g = [x \in Keys |-> Taken(x)']  OBVIOUS
<1>2. \A x \in Keys : Taken(x) \in Int /\ Taken(x)' \in Int  BY DEF Taken, Stored
<1>3. \A x \in Keys : f[x] \in Int /\ g[x] \in Int  BY <1>1, <1>2
<1>4. \A x \in Keys \ {k} : g[x] = f[x]  BY <1>1
<1>5. g[k] = f[k] + d  BY <1>1
<1>6. SumFunctionOnSet(g, Keys) = SumFunctionOnSet(f, Keys) - f[k] + g[k]
  BY <1>3, <1>4, SumChange
<1>7. SumFunctionOnSet(f, Keys) \in Int  BY <1>3, SumInt
<1>8. wallet.debited - wallet.refunded = SumFunctionOnSet(f, Keys)  BY <1>1 DEF Ledger
<1>9. f[k] \in Int  BY <1>3
<1>10. wallet'.debited - wallet'.refunded = SumFunctionOnSet(g, Keys)
  BY <1>5, <1>6, <1>7, <1>8, <1>9
<1> QED  BY <1>1, <1>10 DEF Ledger

LEMMA LedgerStays ==
    ASSUME Ledger, UNCHANGED wallet, \A x \in Keys : Taken(x)' = Taken(x)
    PROVE  Ledger'
BY DEF Ledger

\* who else holds the key of a handler
LEMMA KeyHolders ==
    ASSUME TillInv, Typed, Alone, Served, NEW p \in Procs
    PROVE  /\ \A q \in Procs : task[q].pc \in Owning =>
                 Key(q) \in Keys /\ payments[Key(q)].status = "PENDING"
           /\ \A q \in Procs : task[q].pc \in Reversing =>
                 Key(q) \in Keys /\ payments[Key(q)].status = "RECORDED"
           /\ \A q \in Procs : q # p /\ task[p].pc \in Owning /\ task[q].pc \in Owning => Key(q) # Key(p)
           /\ \A q \in Procs : q # p /\ task[p].pc \in Reversing => task[q].pc \notin Reversing
<1>1. \A q \in Procs : task[q].pc \in Reversing => task[q].op = "reverse"
  BY DEF Typed, Fits, GivingBack, Reversing
<1> QED  BY <1>1 DEF TillInv, Shape, Owned, Alone, Served

LEMMA LedgerQuiet ==
    ASSUME LedgerInv, FaultPoints \cap {"failed", "recorded", "reversed"} = {},
           NEW p \in Procs, NEW t, Quiet(p, t)
    PROVE  Served' /\ Ledger'
<1>1. \A q \in Procs : task'[q] = IF q = p THEN t ELSE task[q]
  BY TaskAfter DEF Quiet, LedgerInv
<1>2. task[p].pc \in Owning => t.pc \in Owning  BY DEF Quiet
<1>3. Served'
  <2>1. \A k \in Keys : payments'[k].status = "PENDING" =>
           \E q \in Procs : task'[q].pc \in Owning /\ Key(q)' = k
    <3> SUFFICES ASSUME NEW k \in Keys, payments[k].status = "PENDING"
                 PROVE  \E q \in Procs : task'[q].pc \in Owning /\ Key(q)' = k
      BY DEF Quiet
    <3>1. PICK q \in Procs : task[q].pc \in Owning /\ Key(q) = k  BY DEF LedgerInv, Served
    <3>2. t.pc \in Owning => t.key = Key(p)  BY DEF Quiet
    <3>3. task'[q].pc \in Owning /\ Key(q)' = k  BY <1>1, <1>2, <3>1, <3>2 DEF Key
    <3> QED  BY <3>3
  <2>2. \A q \in Procs : task'[q].pc \in Owning =>
           payments'[Key(q)'].method = "WALLET_CREDIT" /\ payments'[Key(q)'].amount = task'[q].amount
    BY <1>1 DEF Quiet, LedgerInv, Served, Key, Owning
  <2>3. \A q \in Procs : task'[q].pc \in Reversing =>
           /\ payments'[Key(q)'].status = "RECORDED" /\ payments'[Key(q)'].amount = task'[q].amount
           /\ task'[q].pc # "reversed" => payments'[Key(q)'].method = "WALLET_CREDIT"
    BY <1>1 DEF Quiet, LedgerInv, Served, Key, Reversing
  <2> QED  BY <2>1, <2>2, <2>3 DEF Served
<1>4. \A x \in Keys : Taken(x)' = Taken(x)
  <2>1. task[p].pc \notin {"recorded", "reversed"} /\ t.pc # "recorded"
    BY DEF Quiet, Owning
  <2>2. t.pc = "reversed" => payments[t.key].method # "WALLET_CREDIT"
    BY DEF Quiet, Reversing
  <2> SUFFICES ASSUME NEW x \in Keys PROVE Taken(x)' = Taken(x)  OBVIOUS
  <2>3. Debiting(x)' <=> Debiting(x)  BY <1>1, <2>1 DEF Debiting, At, Key
  <2>4. payments[x].method = "WALLET_CREDIT" => (Returning(x)' <=> Returning(x))
    BY <1>1, <2>1, <2>2 DEF Returning, At, Key
  <2>5. payments' = payments  BY DEF Quiet
  <2> QED  BY <2>3, <2>4, <2>5 DEF Taken
<1>5. Ledger'  BY <1>4, LedgerStays DEF Quiet, LedgerInv
<1> QED  BY <1>3, <1>5

\* A payment is made: nothing is taken for it yet.
LEMMA LedgerMade ==
    ASSUME LedgerInv, Stored', NEW p \in Procs, NEW t, Loud(p, t), Creates(p, t) \/ Reserves(p, t)
    PROVE  Served' /\ Ledger'
<1>0. PICK k : k = Key(p)  OBVIOUS
<1> USE <1>0
<1>1. \A q \in Procs : task'[q] = IF q = p THEN t ELSE task[q]
  BY TaskAfter DEF Loud, LedgerInv
<1>2. /\ \A q \in Procs : task[q].pc \in Owning \cup Reversing => Key(q) # k
      /\ k \in Keys
  <2>1. payments[k].status = "absent" /\ task[p].pc \in {"create", "reserve"}
    BY DEF Creates, Reserves
  <2>2. k \in Keys  BY <2>1 DEF LedgerInv, TillInv, Shape, Keyed
  <2> QED  BY <2>1, <2>2, KeyHolders DEF LedgerInv
<1>3. PICK st \in {"RECORDED", "PENDING"} :
        /\ DOMAIN payments' = Keys
        /\ \A x \in Keys : payments'[x] = IF x = k THEN Row(p, st) ELSE payments[x]
        /\ UNCHANGED wallet /\ t.pc = (IF st = "PENDING" THEN "balance" ELSE "mark")
        /\ t.key = k /\ t.amount = task[p].amount
        /\ task[p].pc = (IF st = "PENDING" THEN "reserve" ELSE "create")
  BY DEF Creates, Reserves, Rewrites, Leads
<1>4. /\ Row(p, st).method = task[p].method /\ Row(p, st).amount = task[p].amount
      /\ Row(p, st).status = st
  BY DEF Row
<1>5. task[p].method = "WALLET_CREDIT" <=> st = "PENDING"
  BY <1>3 DEF LedgerInv, Typed, Fits, Paying
<1>6. Served'
  <2> USE DEF Owning, Reversing
  <2>1. \A x \in Keys : payments'[x].status = "PENDING" =>
           \E q \in Procs : task'[q].pc \in Owning /\ Key(q)' = x
    <3> SUFFICES ASSUME NEW x \in Keys, payments'[x].status = "PENDING"
                 PROVE  \E q \in Procs : task'[q].pc \in Owning /\ Key(q)' = x
      OBVIOUS
    <3>1. CASE x = k
      <4>1. st = "PENDING"  BY <1>3, <1>4, <3>1
      <4> QED  BY <1>1, <1>3, <3>1, <4>1 DEF Key
    <3>2. CASE x # k
      <4>1. PICK q \in Procs : task[q].pc \in Owning /\ Key(q) = x
        BY <1>3, <3>2 DEF LedgerInv, Served
      <4>2. q # p  BY <1>3, <4>1
      <4> QED  BY <1>1, <4>1, <4>2 DEF Key
    <3> QED  BY <3>1, <3>2
  <2>2. \A q \in Procs : task'[q].pc \in Owning =>
           payments'[Key(q)'].method = "WALLET_CREDIT" /\ payments'[Key(q)'].amount = task'[q].amount
    <3> SUFFICES ASSUME NEW q \in Procs, task'[q].pc \in Owning
                 PROVE  payments'[Key(q)'].method = "WALLET_CREDIT"
                        /\ payments'[Key(q)'].amount = task'[q].amount
      OBVIOUS
    <3>1. CASE q = p  BY <1>1, <1>2, <1>3, <1>4, <1>5, <3>1 DEF Key
    <3>2. CASE q # p
      <4>1. task[q].pc \in Owning /\ Key(q)' = Key(q) /\ task'[q] = task[q]  BY <1>1, <3>2 DEF Key
      <4>2. Key(q) \in Keys /\ Key(q) # k  BY <1>2, <4>1, KeyHolders DEF LedgerInv
      <4>3. payments'[Key(q)] = payments[Key(q)]  BY <1>3, <4>2
      <4> QED  BY <4>1, <4>3 DEF LedgerInv, Served
    <3> QED  BY <3>1, <3>2
  <2>3. \A q \in Procs : task'[q].pc \in Reversing =>
           /\ payments'[Key(q)'].status = "RECORDED" /\ payments'[Key(q)'].amount = task'[q].amount
           /\ task'[q].pc # "reversed" => payments'[Key(q)'].method = "WALLET_CREDIT"
    <3> SUFFICES ASSUME NEW q \in Procs, task'[q].pc \in Reversing
           PROVE  /\ payments'[Key(q)'].status = "RECORDED" /\ payments'[Key(q)'].amount = task'[q].amount
                  /\ task'[q].pc # "reversed" => payments'[Key(q)'].method = "WALLET_CREDIT"
      OBVIOUS
    <3>1. q # p  BY <1>1, <1>3
    <3>2. task[q].pc \in Reversing /\ Key(q)' = Key(q) /\ task'[q] = task[q]  BY <1>1, <3>1 DEF Key
    <3>3. Key(q) \in Keys /\ Key(q) # k  BY <1>2, <3>2, KeyHolders DEF LedgerInv
    <3>4. payments'[Key(q)] = payments[Key(q)]  BY <1>3, <3>3
    <3> QED  BY <3>2, <3>4 DEF LedgerInv, Served
  <2> QED  BY <2>1, <2>2, <2>3 DEF Served
<1>7. \A x \in Keys : Taken(x)' = Taken(x)
  <2> SUFFICES ASSUME NEW x \in Keys PROVE Taken(x)' = Taken(x)  OBVIOUS
  <2>1. (Debiting(x)' <=> Debiting(x)) /\ (Returning(x)' <=> Returning(x))
    BY <1>1, <1>3 DEF Debiting, Returning, At, Key
  <2>2. CASE x = k
    <3>1. ~ Debiting(k)  BY <1>2 DEF Debiting, At, Owning
    <3>2. payments[k].status = "absent"  BY DEF Creates, Reserves
    <3>3. Taken(k) = 0  BY <3>1, <3>2 DEF Taken
    <3>4. payments'[k] = Row(p, st)  BY <1>2, <1>3
    <3>5. Taken(k)' = 0  BY <1>4, <1>5, <2>1, <2>2, <3>1, <3>4 DEF Taken
    <3> QED  BY <2>2, <3>3, <3>5
  <2>3. CASE x # k
    <3>1. payments'[x] = payments[x]  BY <1>3, <2>3
    <3> QED  BY <2>1, <3>1 DEF Taken
  <2> QED  BY <2>2, <2>3
<1> QED  BY <1>3, <1>6, <1>7, LedgerStays DEF LedgerInv

\* The payment of a handler changes its status: nothing more is taken for it.
LEMMA LedgerSettled ==
    ASSUME LedgerInv, Stored', NEW p \in Procs, NEW t, Loud(p, t),
           Fails(p, t) \/ Records(p, t) \/ Reverses(p, t)
    PROVE  Served' /\ Ledger'
<1>0. PICK k : k = Key(p)  OBVIOUS
<1> USE <1>0
<1>1. \A q \in Procs : task'[q] = IF q = p THEN t ELSE task[q]
  BY TaskAfter DEF Loud, LedgerInv
<1>2. task[p].pc \in {"failed", "recorded", "reversed"} /\ UNCHANGED wallet
  BY DEF Fails, Records, Reverses
<1>3. k \in Keys /\ DOMAIN payments[k] = Columns
  BY <1>2 DEF LedgerInv, TillInv, Shape, Owning, Reversing
<1>4. PICK row : /\ DOMAIN payments' = Keys
                 /\ \A x \in Keys : payments'[x] = IF x = k THEN row ELSE payments[x]
                 /\ row.method = payments[k].method /\ row.amount = payments[k].amount
                 /\ row.status = CASE task[p].pc = "failed" -> "FAILED"
                                   [] task[p].pc = "recorded" -> "RECORDED"
                                   [] task[p].pc = "reversed" -> "REVERSED"
  <2>1. ASSUME NEW st
        PROVE  LET r == [payments[k] EXCEPT !.status = st]
               IN  r.method = payments[k].method /\ r.amount = payments[k].amount /\ r.status = st
    BY <1>3 DEF Columns
  <2>2. ASSUME NEW st, NEW late
        PROVE  LET r == [payments[k] EXCEPT !.status = st, !.late = late]
               IN  r.method = payments[k].method /\ r.amount = payments[k].amount /\ r.status = st
    BY <1>3 DEF Columns
  <2>3. CASE Fails(p, t)  BY <2>1, <2>3 DEF Fails, Rewrites
  <2>4. CASE Records(p, t)  BY <2>1, <2>4 DEF Records, Rewrites
  <2>5. CASE Reverses(p, t)
    <3>1. PICK late : late = Closed(payments[k].session)  OBVIOUS
    <3>2. PICK row : row = [payments[k] EXCEPT !.status = "REVERSED", !.late = late]  OBVIOUS
    <3>3. Rewrites(k, row) /\ task[p].pc = "reversed"  BY <2>5, <3>1, <3>2 DEF Reverses
    <3>4. row.method = payments[k].method /\ row.amount = payments[k].amount /\ row.status = "REVERSED"
      BY <2>2, <3>2
    <3> QED  BY <3>3, <3>4 DEF Rewrites
  <2> QED  BY <2>3, <2>4, <2>5
<1>5. t.pc \in {"idle", "mark"}  BY DEF Fails, Records, Reverses, Ends, Leads
<1>6. \A q \in Procs : q # p /\ task[q].pc \in Owning \cup Reversing => Key(q) # k /\ Key(q) \in Keys
  <2>1. payments[k].status = IF task[p].pc = "reversed" THEN "RECORDED" ELSE "PENDING"
    BY <1>2, KeyHolders DEF LedgerInv, Owning, Reversing
  <2> QED  BY <1>2, <2>1, KeyHolders DEF LedgerInv, Owning, Reversing
<1>7. Served'
  <2> USE DEF Owning, Reversing
  <2>0. \A q \in Procs : task'[q].pc \in Owning \cup Reversing =>
          /\ q # p /\ task'[q] = task[q] /\ Key(q)' = Key(q)
          /\ payments'[Key(q)] = payments[Key(q)]
    BY <1>1, <1>4, <1>5, <1>6 DEF Key
  <2>1. \A x \in Keys : payments'[x].status = "PENDING" =>
           \E q \in Procs : task'[q].pc \in Owning /\ Key(q)' = x
    <3> SUFFICES ASSUME NEW x \in Keys, payments'[x].status = "PENDING"
                 PROVE  \E q \in Procs : task'[q].pc \in Owning /\ Key(q)' = x
      OBVIOUS
    <3>1. x # k  BY <1>2, <1>4
    <3>2. PICK q \in Procs : task[q].pc \in Owning /\ Key(q) = x
      BY <1>4, <3>1 DEF LedgerInv, Served
    <3>3. q # p  BY <3>1, <3>2
    <3> QED  BY <1>1, <3>2, <3>3 DEF Key
  <2>2. \A q \in Procs : task'[q].pc \in Owning =>
           payments'[Key(q)'].method = "WALLET_CREDIT" /\ payments'[Key(q)'].amount = task'[q].amount
    BY <2>0 DEF LedgerInv, Served
  <2>3. \A q \in Procs : task'[q].pc \in Reversing =>
           /\ payments'[Key(q)'].status = "RECORDED" /\ payments'[Key(q)'].amount = task'[q].amount
           /\ task'[q].pc # "reversed" => payments'[Key(q)'].method = "WALLET_CREDIT"
    BY <2>0 DEF LedgerInv, Served
  <2> QED  BY <2>1, <2>2, <2>3 DEF Served
<1>8. \A x \in Keys : Taken(x)' = Taken(x)
  <2> SUFFICES ASSUME NEW x \in Keys PROVE Taken(x)' = Taken(x)  OBVIOUS
  <2>1. CASE x # k
    <3>1. payments'[x] = payments[x]  BY <1>4, <2>1
    <3>2. (Debiting(x)' <=> Debiting(x)) /\ (Returning(x)' <=> Returning(x))
      BY <1>1, <1>5, <2>1 DEF Debiting, Returning, At, Key
    <3> QED  BY <3>1, <3>2 DEF Taken
  <2>2. CASE x = k
    <3>1. ~ Debiting(k)' /\ ~ Returning(k)'
      BY <1>1, <1>5, <1>6 DEF Debiting, Returning, At, Key, Owning, Reversing
    <3>2. payments'[k] = row  BY <1>3, <1>4
    <3>3. CASE task[p].pc = "failed"
      <4>1. ~ Debiting(k) /\ payments[k].status = "PENDING"
        BY <1>6, <3>3, KeyHolders DEF Debiting, At, Owning, LedgerInv
      <4> QED  BY <1>4, <2>2, <3>1, <3>2, <3>3, <4>1 DEF Taken
    <3>4. CASE task[p].pc = "recorded"
      <4>1. Debiting(k)  BY <3>4 DEF Debiting, At
      <4> QED  BY <1>4, <2>2, <3>1, <3>2, <3>4, <4>1 DEF Taken
    <3>5. CASE task[p].pc = "reversed"
      <4>1. Returning(k) /\ ~ Debiting(k)
        BY <1>6, <3>5 DEF Debiting, Returning, At, Owning
      <4> QED  BY <1>4, <2>2, <3>1, <3>2, <3>5, <4>1 DEF Taken
    <3> QED  BY <1>2, <3>3, <3>4, <3>5
  <2> QED  BY <2>1, <2>2
<1> QED  BY <1>2, <1>7, <1>8, LedgerStays DEF LedgerInv

\* The wallet is debited or credited: as much is taken for the payment, or no more.
LEMMA LedgerPaid ==
    ASSUME IsFiniteSet(Keys), LedgerInv, Stored', NEW p \in Procs, NEW t, Loud(p, t),
           Debits(p, t) \/ Refunds(p, t)
    PROVE  Served' /\ Ledger'
<1>0. PICK k : k = Key(p)  OBVIOUS
<1> USE <1>0
<1>1. \A q \in Procs : task'[q] = IF q = p THEN t ELSE task[q]
  BY TaskAfter DEF Loud, LedgerInv
<1>2. /\ task[p].pc \in {"debit", "refund"} /\ UNCHANGED payments
      /\ t.pc = (IF task[p].pc = "debit" THEN "recorded" ELSE "reversed")
      /\ t.key = k /\ t.amount = task[p].amount
  BY DEF Debits, Refunds, Leads
<1>3. /\ k \in Keys /\ payments[k].method = "WALLET_CREDIT" /\ payments[k].amount = task[p].amount
      /\ payments[k].status = IF task[p].pc = "debit" THEN "PENDING" ELSE "RECORDED"
      /\ task[p].amount \in Nat
  BY <1>2, KeyHolders DEF LedgerInv, Served, Owning, Reversing, Typed, Fits, Paying, GivingBack
<1>4. \A q \in Procs : q # p /\ task[q].pc \in {"recorded", "reversed"} => Key(q) # k
  BY <1>2, <1>3, KeyHolders DEF LedgerInv, Owning, Reversing
<1>5. PICK d \in Int : /\ d = (IF task[p].pc = "debit" THEN task[p].amount ELSE - task[p].amount)
                       /\ wallet'.debited - wallet'.refunded = (wallet.debited - wallet.refunded) + d
  <2>1. PICK a \in Nat : a = task[p].amount  BY <1>3
  <2>2. PICK c, b, r \in Int : wallet = [credits |-> c, debited |-> b, refunded |-> r]
    BY DEF LedgerInv, Typed, Stored
  <2>3. CASE task[p].pc = "debit"
    <3>1. wallet' = [credits |-> c - a, debited |-> b + a, refunded |-> r]
      BY <2>1, <2>2, <2>3 DEF Debits, Refunds
    <3>2. wallet'.debited - wallet'.refunded = (wallet.debited - wallet.refunded) + a
      BY <2>2, <3>1
    <3> QED  BY <2>1, <2>3, <3>2
  <2>4. CASE task[p].pc # "debit"
    <3>1. wallet' = [credits |-> c + a, debited |-> b, refunded |-> r + a]
      BY <2>1, <2>2, <2>4 DEF Debits, Refunds
    <3>2. wallet'.debited - wallet'.refunded = (wallet.debited - wallet.refunded) + (- a)
      BY <2>2, <3>1
    <3> QED  BY <2>1, <2>4, <3>2
  <2> QED  BY <2>3, <2>4
<1>6. Served'
  <2> USE DEF Owning, Reversing
  <2>1. \A q \in Procs : Key(q)' = Key(q)  BY <1>1, <1>2 DEF Key
  <2>2. \A q \in Procs : task'[q].amount = task[q].amount
                         /\ (task'[q].pc \in Owning <=> task[q].pc \in Owning)
                         /\ (task'[q].pc \in Reversing <=> task[q].pc \in Reversing)
                         /\ (task'[q].pc # "reversed" => task[q].pc # "reversed")
    BY <1>1, <1>2
  <2>3. Served  BY DEF LedgerInv
  <2> QED  BY <1>2, <2>1, <2>2, <2>3 DEF Served
<1>7. \A x \in Keys \ {k} : Taken(x)' = Taken(x)
  <2> SUFFICES ASSUME NEW x \in Keys \ {k} PROVE Taken(x)' = Taken(x)  OBVIOUS
  <2>1. (Debiting(x)' <=> Debiting(x)) /\ (Returning(x)' <=> Returning(x))
    BY <1>1, <1>2 DEF Debiting, Returning, At, Key
  <2> QED  BY <1>2, <2>1 DEF Taken
<1>8. Taken(k)' = Taken(k) + d
  <2>1. PICK a \in Nat : a = task[p].amount  BY <1>3
  <2>2. ~ Debiting(k) /\ ~ Returning(k)
    BY <1>2, <1>4 DEF Debiting, Returning, At
  <2>3. CASE task[p].pc = "debit"
    <3>1. Debiting(k)'  BY <1>1, <1>2, <2>3 DEF Debiting, At, Key
    <3>2. Taken(k) = 0  BY <1>3, <2>2, <2>3 DEF Taken
    <3>3. Taken(k)' = a  BY <1>2, <1>3, <2>1, <3>1 DEF Taken
    <3> QED  BY <1>5, <2>1, <2>3, <3>2, <3>3
  <2>4. CASE task[p].pc = "refund"
    <3>1. Returning(k)'  BY <1>1, <1>2, <2>4 DEF Returning, At, Key
    <3>2. ~ Debiting(k)'  BY <1>1, <1>2, <1>4, <2>4 DEF Debiting, At, Key
    <3>3. Taken(k) = a  BY <1>3, <2>1, <2>2, <2>4 DEF Taken
    <3>4. Taken(k)' = 0  BY <1>2, <1>3, <3>1, <3>2 DEF Taken
    <3> QED  BY <1>5, <2>1, <2>4, <3>3, <3>4
  <2> QED  BY <1>2, <2>3, <2>4
<1>9. k \in Keys /\ Stored /\ Ledger  BY <1>3 DEF LedgerInv, Typed
<1> QED  BY <1>5, <1>6, <1>7, <1>8, <1>9, LedgerShift

\* The cash session is written: the ledger does not see it.
LEMMA LedgerAside ==
    ASSUME LedgerInv, NEW p \in Procs, NEW t, Become(p, t), UNCHANGED <<payments, wallet>>,
           task[p].pc \notin Owning \cup Reversing, t.pc \notin Owning \cup Reversing
    PROVE  Served' /\ Ledger'
<1>1. \A q \in Procs : task'[q] = IF q = p THEN t ELSE task[q]
  BY TaskAfter DEF LedgerInv
<1>2. \A q \in Procs : task'[q].pc \in Owning \cup Reversing => task'[q] = task[q]
  BY <1>1
<1>3. \A q \in Procs : task[q].pc \in Owning \cup Reversing => task'[q] = task[q]
  BY <1>1
<1>4. Served  BY DEF LedgerInv
<1>5. Served'
  <2>1. \A x \in Keys : payments'[x].status = "PENDING" =>
           \E q \in Procs : task'[q].pc \in Owning /\ Key(q)' = x
    BY <1>3, <1>4 DEF Served, Key
  <2>2. \A q \in Procs : task'[q].pc \in Owning \cup Reversing => Key(q)' = Key(q)
    BY <1>2 DEF Key
  <2> QED  BY <1>2, <1>4, <2>1, <2>2 DEF Served
<1>6. \A x \in Keys : Taken(x)' = Taken(x)
  <2> SUFFICES ASSUME NEW x \in Keys PROVE Taken(x)' = Taken(x)  OBVIOUS
  <2>1. (Debiting(x)' <=> Debiting(x)) /\ (Returning(x)' <=> Returning(x))
    BY <1>1 DEF Debiting, Returning, At, Key, Owning, Reversing
  <2> QED  BY <2>1 DEF Taken
<1> QED  BY <1>5, <1>6, LedgerStays DEF LedgerInv

LEMMA LedgerStarts ==
    ASSUME Init, BarAssumption, IsFiniteSet(Keys)
    PROVE  LedgerInv
<1>1. TillInv  BY TillStarts
<1>2. Typed
  <2>1. \A p \in Procs : Fits(task[p])  BY FitsIdle DEF Init
  <2>2. Stored  BY DEF Init, Stored, BarAssumption, Methods
  <2> QED  BY <2>1, <2>2 DEF Typed
<1>3. Alone  BY DEF Init, Idle, Alone
<1>4. Served  BY DEF Init, Idle, Served, Owning, Reversing
<1>5. Ledger
  <2>1. PICK f : f = [k \in Keys |-> Taken(k)]  OBVIOUS
  <2>2. wallet.debited - wallet.refunded = 0  BY DEF Init
  <2>3. \A k \in Keys : f[k] = 0  BY <2>1 DEF Taken, Init, Debiting, At, Idle
  <2> QED  BY <2>1, <2>2, <2>3, SumZero DEF Ledger
<1> QED  BY <1>1, <1>2, <1>3, <1>4, <1>5 DEF LedgerInv

LEMMA LedgerSteps ==
    ASSUME BarAssumption, IsFiniteSet(Keys), {"reverse"} \in Apart,
           FaultPoints \cap {"failed", "recorded", "reversed"} = {},
           LedgerInv, [Next]_vars
    PROVE  LedgerInv'
<1>1. CASE UNCHANGED vars
  <2>1. TillInv'  BY TillSteps DEF LedgerInv
  <2>2. Typed' /\ Alone'  BY <1>1 DEF vars, LedgerInv, Typed, Stored, Alone
  <2>3. Served'  BY <1>1 DEF vars, LedgerInv, Served, Key
  <2>4. \A x \in Keys : Taken(x)' = Taken(x)
    BY <1>1 DEF vars, Taken, Debiting, Returning, At, Key
  <2>5. Ledger'  BY <1>1, <2>4, LedgerStays DEF vars, LedgerInv
  <2> QED  BY <2>1, <2>2, <2>3, <2>5 DEF LedgerInv
<1>2. ASSUME NEW p \in Procs, Request(p) \/ Handle(p) PROVE LedgerInv'
  <2>1. TillInv'  BY TillSteps DEF LedgerInv
  <2>2. Alone'  BY <1>2, AloneSteps DEF LedgerInv
  <2>3. Typed'  BY <1>2, Turns, TypedTurn, TypedBegin DEF LedgerInv
  <2>4. Served' /\ Ledger'
    <3>1. CASE Request(p)
      <4>1. PICK t : /\ Become(p, t) /\ UNCHANGED <<payments, wallet>>
                     /\ task[p].pc \notin Owning \cup Reversing /\ t.pc \notin Owning \cup Reversing
        BY <3>1, Begins DEF LedgerInv, At, money, Owning, Reversing
      <4> QED  BY <4>1, LedgerAside
    <3>2. CASE Handle(p)
      <4>1. PICK t : Quiet(p, t) \/ Loud(p, t)  BY <3>2, Turns DEF LedgerInv
      <4>2. CASE Quiet(p, t)  BY <4>2, LedgerQuiet
      <4>3. CASE Loud(p, t)
        <5>1. Stored'  BY <2>3 DEF Typed
        <5>2. CASE Creates(p, t) \/ Reserves(p, t)  BY <4>3, <5>1, <5>2, LedgerMade
        <5>3. CASE Fails(p, t) \/ Records(p, t) \/ Reverses(p, t)
          BY <4>3, <5>1, <5>3, LedgerSettled
        <5>4. CASE Debits(p, t) \/ Refunds(p, t)  BY <4>3, <5>1, <5>4, LedgerPaid
        <5>5. CASE Opens(p, t) \/ Moves(p, t) \/ Closes(p, t)
          <6>1. Become(p, t) /\ UNCHANGED <<payments, wallet>>
                /\ task[p].pc \notin Owning \cup Reversing /\ t.pc \notin Owning \cup Reversing
            BY <4>3, <5>5 DEF Loud, Opens, Moves, Closes, Ends, Owning, Reversing
          <6> QED  BY <6>1, LedgerAside
        <5> QED  BY <4>3, <5>2, <5>3, <5>4, <5>5 DEF Loud
      <4> QED  BY <4>1, <4>2, <4>3
    <3> QED  BY <1>2, <3>1, <3>2
  <2> QED  BY <2>1, <2>2, <2>3, <2>4 DEF LedgerInv
<1> QED  BY <1>1, <1>2 DEF Next

LEMMA LedgerHolds ==
    ASSUME IsFiniteSet(Keys), LedgerInv, Idling
    PROVE  LedgerMatches
<1>1. \A p \in Procs : task[p].pc = "idle"  BY DEF Idling, At
<1>2. \A k \in Keys : payments[k].status # "PENDING"
  BY <1>1 DEF LedgerInv, Served, Owning
<1>3. PICK f, g : f = [k \in Keys |-> Taken(k)] /\ g = [k \in Keys |-> payments[k].amount]
  OBVIOUS
<1>4. PICK W : W = {k \in Keys : Wallet(k)}  OBVIOUS
<1>5. \A k \in Keys : f[k] = IF k \in W THEN g[k] ELSE 0
  BY <1>1, <1>3, <1>4 DEF Taken, Debiting, Returning, At, Wallet
<1>6. \A k \in Keys : g[k] \in Int  BY <1>3 DEF LedgerInv, Typed, Stored
<1>7. W \subseteq Keys /\ IsFiniteSet(W)  BY <1>4, FS_Subset
<1>8. \A k \in Keys : f[k] \in Int  BY <1>5, <1>6
<1>9. \A k \in Keys \ W : f[k] = 0  BY <1>5
<1>10. SumFunctionOnSet(f, Keys) = SumFunctionOnSet(f, W)  BY <1>7, <1>8, <1>9, SumWithin
<1>11. \A k \in W : f[k] = g[k]  BY <1>5, <1>7
<1>12. SumFunctionOnSet(f, W) = SumFunctionOnSet(g, W)  BY <1>7, <1>11, SumSame
<1>13. wallet.debited - wallet.refunded = Total(W)
  BY <1>3, <1>10, <1>12 DEF LedgerInv, Ledger, Total
<1> QED  BY <1>2, <1>4, <1>13 DEF LedgerMatches

(***************************************************************************)
(* What a bar account took from the wallet is the sum of its recorded      *)
(* payments by credits, whichever keys are sent twice and however the      *)
(* handlers run together ("Aucun double debit credits", ADR 0040:45), if   *)
(* reversals are entered one at a time and no call fails between the       *)
(* movement of the wallet and the status that records it.                  *)
(***************************************************************************)
THEOREM NoDoubleDebit ==
    ASSUME IsFiniteSet(Keys), {"reverse"} \in Apart,
           FaultPoints \cap {"failed", "recorded", "reversed"} = {}
    PROVE  Spec => []LedgerMatches
<1>1. Init => LedgerInv  BY LedgerStarts, BarAssumption
<1>2. LedgerInv /\ [Next]_vars => LedgerInv'  BY LedgerSteps, BarAssumption
<1>3. LedgerInv => LedgerMatches  BY LedgerHolds DEF LedgerMatches
<1> QED  BY <1>1, <1>2, <1>3, PTL DEF Spec

-----------------------------------------------------------------------------
(***************************************************************************)
(* The cash sessions: while a session is counted nothing that it counts    *)
(* changes, and once it is closed its payments keep counting.              *)
(***************************************************************************)
LEMMA CountedKept ==
    ASSUME CashInv, UNCHANGED payments, NEW p \in Procs, NEW t, Become(p, t),
           \A s \in Sessions : sessions'[s].moves = sessions[s].moves,
           t.pc \in {"theoretical", "closeSession"} =>
              /\ t.session \in Sessions
              /\ t.amount = ReadSoFar(t.seen, CashOf[t.session], sessions[t.session].moves)
              /\ \A k \in Keys : payments[k].session = t.session => ~payments[k].late
              /\ t.pc = "theoretical" => t.seen \in {{}, {"cash"}, {"moves"}}
              /\ t.pc = "closeSession" => t.seen = {"cash", "moves"}
    PROVE  Counted'
<1>1. \A q \in Procs : task'[q] = IF q = p THEN t ELSE task[q]
  BY TaskAfter DEF CashInv
<1>2. CashOf' = CashOf  BY DEF CashOf, CashTotal, CashIn, Total
<1>4. \A q \in Procs : task[q].pc \in {"theoretical", "closeSession"} => task[q].session \in Sessions
  BY DEF CashInv, Typed, Fits, Counting
<1>5. Counted  BY DEF CashInv
<1> SUFFICES ASSUME NEW q \in Procs, NEW u, u = task'[q]
             PROVE  /\ u.pc \in {"theoretical", "closeSession"} =>
                         /\ u.amount = ReadSoFar(u.seen, CashOf[u.session], sessions'[u.session].moves)
                         /\ \A k \in Keys : payments[k].session = u.session => ~payments[k].late
                    /\ u.pc = "theoretical" => u.seen \in {{}, {"cash"}, {"moves"}}
                    /\ u.pc = "closeSession" => u.seen = {"cash", "moves"}
  BY <1>2 DEF Counted, ReadSoFar
<1>6. CASE q = p
  <2>1. u = t  BY <1>1, <1>6
  <2> QED  BY <2>1
<1>7. CASE q # p
  <2>1. u = task[q]  BY <1>1, <1>7
  <2> QED  BY <1>4, <1>5, <2>1 DEF Counted
<1> QED  BY <1>6, <1>7

\* nobody counts while a payment, a movement or a reversal is under way
LEMMA NobodyCounts ==
    ASSUME CashInv, NEW p \in Procs, task[p].op \in {"pay", "move", "reverse"},
           NEW t, Become(p, t), t.pc \notin Counting
    PROVE  Counted'
<1>1. \A q \in Procs : task'[q] = IF q = p THEN t ELSE task[q]
  BY TaskAfter DEF CashInv
<1>2. \A q \in Procs : task[q].pc \in Counting => task[q].op = "count"
  BY DEF CashInv, Typed, Fits
<1>3. \A q \in Procs : task[q].op # "count"  BY DEF CashInv, TillAlone
<1>4. \A q \in Procs : task'[q].pc \notin Counting  BY <1>1, <1>2, <1>3
<1> QED  BY <1>4 DEF Counted, Counting

LEMMA BalanceKept ==
    ASSUME SessionBalanced, Stored, IsFiniteSet(Keys),
           \A s \in Sessions : sessions'[s].status = "CLOSED" =>
              /\ sessions[s].status = "CLOSED"
              /\ sessions'[s].theoretical = sessions[s].theoretical
              /\ sessions'[s].moves = sessions[s].moves
              /\ CountedIn(s)' = CountedIn(s)
              /\ \A k \in CountedIn(s) : payments'[k].amount = payments[k].amount
    PROVE  SessionBalanced'
<1> SUFFICES ASSUME NEW s \in Sessions, sessions'[s].status = "CLOSED"
             PROVE  sessions'[s].theoretical = Opening + sessions'[s].moves + Total(CountedIn(s))'
  BY DEF SessionBalanced
<1>1. PICK C : C = CountedIn(s)  OBVIOUS
<1>2. C \subseteq Keys /\ IsFiniteSet(C)  BY <1>1, FS_Subset DEF CountedIn, CashIn
<1>3. PICK f, g : f = [k \in Keys |-> payments[k].amount] /\ g = [k \in Keys |-> payments'[k].amount]
  OBVIOUS
<1>4. \A k \in C : f[k] = g[k]  BY <1>1, <1>2, <1>3
<1>5. SumFunctionOnSet(f, C) = SumFunctionOnSet(g, C)  BY <1>2, <1>4, SumSame
<1>6. CountedIn(s)' = C  BY <1>1
<1>7. Total(CountedIn(s))' = SumFunctionOnSet(g, C)  BY <1>3, <1>6 DEF Total
<1>8. Total(CountedIn(s)) = SumFunctionOnSet(f, C)  BY <1>1, <1>3 DEF Total
<1> QED  BY <1>5, <1>7, <1>8 DEF SessionBalanced

\* Neither a payment nor a session is written.
LEMMA CashQuiet ==
    ASSUME CashInv, IsFiniteSet(Keys), BarAssumption, NEW p \in Procs, NEW t, Quiet(p, t)
    PROVE  Counted' /\ Attached' /\ SessionBalanced'
<1>0. Become(p, t) /\ UNCHANGED <<payments, sessions>> /\ Fits(t)  BY DEF Quiet
<1>1. \A q \in Procs : task'[q] = IF q = p THEN t ELSE task[q]
  BY <1>0, TaskAfter DEF CashInv
<1>2. Attached'
  <2>1. \A q \in Procs : task'[q].pc \in {"create", "addMovement"} /\ task'[q].session # None =>
           sessions'[task'[q].session].status = "OPEN"
    BY <1>0, <1>1 DEF Quiet, CashInv, Attached
  <2>2. \A q \in Procs : task'[q].pc \in Reversing /\
            payments[task'[q].key].status = "REVERSED" /\ Closed(payments[task'[q].key].session)
              => payments[task'[q].key].late
    <3> SUFFICES ASSUME NEW q \in Procs, task'[q].pc \in Reversing,
                        payments[task'[q].key].status = "REVERSED",
                        Closed(payments[task'[q].key].session)
                 PROVE  payments[task'[q].key].late
      OBVIOUS
    <3>1. CASE q # p  BY <1>1, <3>1 DEF CashInv, Attached, Key
    <3>2. CASE q = p
      <4>1. task'[q] = t  BY <1>1, <3>2
      <4>2. t.key = Key(p) /\ task[p].pc \in Reversing  BY <4>1 DEF Quiet, Reversing
      <4> QED  BY <4>1, <4>2 DEF CashInv, Attached
    <3> QED  BY <3>1, <3>2
  <2> QED  BY <1>0, <2>1, <2>2 DEF CashInv, Attached, Closed, Key
<1>3. SessionBalanced'
  BY <1>0, BalanceKept DEF CashInv, Typed, CountedIn, CashIn
<1>4. Counted'
  <2>1. ASSUME t.pc \in {"theoretical", "closeSession"}
        PROVE  /\ t.session \in Sessions
               /\ t.amount = ReadSoFar(t.seen, CashOf[t.session], sessions[t.session].moves)
               /\ \A k \in Keys : payments[k].session = t.session => ~payments[k].late
               /\ t.pc = "theoretical" => t.seen \in {{}, {"cash"}, {"moves"}}
               /\ t.pc = "closeSession" => t.seen = {"cash", "moves"}
    <3>1. t.session \in Sessions /\ t.session = task[p].session
      BY <1>0, <2>1 DEF Quiet, Fits, Counting
    <3>2. PICK o, c, m \in Int : o = Opening /\ c = CashTotal(t.session) /\ m = sessions[t.session].moves
      BY <3>1, CashIsInt DEF BarAssumption, CashInv, Typed, Stored
    <3>3. \A seen : ReadSoFar(seen, CashOf[t.session], sessions[t.session].moves) =
                      o + (IF "cash" \in seen THEN c ELSE 0) + (IF "moves" \in seen THEN m ELSE 0)
      BY <3>1, <3>2 DEF ReadSoFar, CashOf
    <3>4. CASE task[p].pc = "findCounted"
      <4>1. sessions[t.session].status = "OPEN" /\ t.pc = "theoretical" /\ t.amount = Opening /\ t.seen = {}
        BY <2>1, <3>4 DEF Quiet
      <4>2. \A k \in Keys : payments[k].session = t.session => ~payments[k].late
        BY <4>1 DEF CashInv, Attached, Closed
      <4> QED  BY <3>1, <3>2, <3>3, <4>1, <4>2
    <3>5. CASE task[p].pc = "theoretical"
      <4>1. PICK total \in {"cash", "moves"} \ task[p].seen :
                    /\ t.seen = task[p].seen \cup {total}
                    /\ t.amount = task[p].amount + IF total = "cash" THEN CashTotal(t.session)
                                                   ELSE sessions[t.session].moves
        BY <2>1, <3>5 DEF Quiet
      <4>2. t.pc = IF task[p].seen = {} THEN "theoretical" ELSE "closeSession"
        BY <2>1, <3>5 DEF Quiet
      <4>3. task[p].amount = ReadSoFar(task[p].seen, CashOf[t.session], sessions[t.session].moves)
            /\ task[p].seen \in {{}, {"cash"}, {"moves"}}
            /\ \A k \in Keys : payments[k].session = t.session => ~payments[k].late
        BY <3>1, <3>5 DEF CashInv, Counted
      <4>4. PICK e : e = task[p].seen  OBVIOUS
      <4>5. t.amount = (o + (IF "cash" \in e THEN c ELSE 0) + (IF "moves" \in e THEN m ELSE 0))
                          + (IF total = "cash" THEN c ELSE m)
        BY <3>2, <3>3, <4>1, <4>3, <4>4
      <4>6. CASE e = {}
        <5>1. t.seen = {total} /\ t.pc = "theoretical" /\ total \in {"cash", "moves"}
          BY <4>1, <4>2, <4>4, <4>6
        <5>2. t.amount = ReadSoFar(t.seen, CashOf[t.session], sessions[t.session].moves)
          BY <3>2, <3>3, <4>5, <4>6, <5>1
        <5> QED  BY <3>1, <4>3, <5>1, <5>2
      <4>7. CASE e # {}
        <5>1. t.seen = {"cash", "moves"} /\ t.pc = "closeSession"
          BY <4>1, <4>2, <4>3, <4>4, <4>7
        <5>2. \/ e = {"cash"} /\ total = "moves"
              \/ e = {"moves"} /\ total = "cash"
          BY <4>1, <4>3, <4>4, <4>7
        <5>3. t.amount = o + c + m
          BY <3>2, <4>5, <5>2
        <5>4. t.amount = ReadSoFar(t.seen, CashOf[t.session], sessions[t.session].moves)
          BY <3>2, <3>3, <5>1, <5>3
        <5> QED  BY <3>1, <4>3, <5>1, <5>4
      <4> QED  BY <4>6, <4>7
    <3> QED  BY <2>1, <3>4, <3>5 DEF Quiet
  <2> QED  BY <1>0, <2>1, CountedKept
<1> QED  BY <1>2, <1>3, <1>4

\* A payment is written: none that a closed session counts, unless it stays counted.
LEMMA CashPaid ==
    ASSUME CashInv, IsFiniteSet(Keys), BarAssumption, NEW p \in Procs, NEW t, Loud(p, t),
           Creates(p, t) \/ Reserves(p, t) \/ Fails(p, t) \/ Records(p, t) \/ Reverses(p, t)
    PROVE  Counted' /\ Attached' /\ SessionBalanced'
<1>0. PICK k : k = Key(p)  OBVIOUS
<1> USE <1>0
<1>1. \A q \in Procs : task'[q] = IF q = p THEN t ELSE task[q]
  BY TaskAfter DEF Loud, CashInv
<1>2. /\ UNCHANGED sessions /\ t.pc \in {"idle", "mark", "balance"}
      /\ task[p].pc \in {"create", "reserve", "failed", "recorded", "reversed"}
  BY DEF Creates, Reserves, Fails, Records, Reverses, Ends, Leads
<1>3. k \in Keys /\ DOMAIN payments[k] = Columns
  BY <1>2 DEF CashInv, TillInv, Shape, Keyed, Owning, Reversing
<1>4. task[p].op \in {"pay", "reverse"}
  BY <1>2 DEF CashInv, Typed, Fits, Paying, GivingBack
<1>5. Counted'
  BY <1>2, <1>4, NobodyCounts DEF Loud, Counting
<1> DEFINE Kept(r) == /\ r.method = payments[k].method /\ r.amount = payments[k].amount
                      /\ r.session = payments[k].session
<1>6. PICK row : /\ DOMAIN payments' = Keys
                 /\ \A x \in Keys : payments'[x] = IF x = k THEN row ELSE payments[x]
                 /\ \/ /\ task[p].pc \in {"create", "reserve"} /\ payments[k].status = "absent"
                       /\ row.session = task[p].session /\ row.late = FALSE
                       /\ row.method = task[p].method
                       /\ row.status = IF task[p].pc = "create" THEN "RECORDED" ELSE "PENDING"
                    \/ /\ task[p].pc \in {"failed", "recorded"} /\ Kept(row) /\ row.late = payments[k].late
                       /\ row.status \in {"FAILED", "RECORDED"}
                    \/ /\ task[p].pc = "reversed" /\ Kept(row) /\ row.status = "REVERSED"
                       /\ row.late = Closed(payments[k].session)
  <2>1. ASSUME NEW st
        PROVE  LET r == [payments[k] EXCEPT !.status = st]
               IN  Kept(r) /\ r.late = payments[k].late /\ r.status = st
    BY <1>3 DEF Columns
  <2>2. ASSUME NEW st, NEW late
        PROVE  LET r == [payments[k] EXCEPT !.status = st, !.late = late]
               IN  Kept(r) /\ r.late = late /\ r.status = st
    BY <1>3 DEF Columns
  <2>3. CASE Fails(p, t)
    <3>1. PICK row : row = [payments[k] EXCEPT !.status = "FAILED"]  OBVIOUS
    <3>2. Rewrites(k, row) /\ task[p].pc = "failed"  BY <2>3, <3>1 DEF Fails
    <3>3. Kept(row) /\ row.late = payments[k].late /\ row.status = "FAILED"  BY <2>1, <3>1
    <3> QED  BY <3>2, <3>3 DEF Rewrites
  <2>4. CASE Records(p, t)  BY <2>1, <2>4 DEF Records, Rewrites
  <2>5. CASE Reverses(p, t)
    <3>1. PICK late : late = Closed(payments[k].session)  OBVIOUS
    <3>2. PICK row : row = [payments[k] EXCEPT !.status = "REVERSED", !.late = late]  OBVIOUS
    <3>3. Rewrites(k, row) /\ task[p].pc = "reversed"  BY <2>5, <3>1, <3>2 DEF Reverses
    <3>4. Kept(row) /\ row.late = late /\ row.status = "REVERSED"  BY <2>2, <3>2
    <3> QED  BY <3>1, <3>3, <3>4 DEF Rewrites
  <2>6. CASE Creates(p, t)
    <3>1. PICK row : row = Row(p, "RECORDED")  OBVIOUS
    <3>2. Rewrites(k, row) /\ task[p].pc = "create" /\ payments[k].status = "absent"
      BY <2>6, <3>1 DEF Creates
    <3>3. /\ row.session = task[p].session /\ row.late = FALSE /\ row.method = task[p].method
          /\ row.status = "RECORDED"
      BY <3>1 DEF Row
    <3> QED  BY <3>2, <3>3 DEF Rewrites
  <2>7. CASE Reserves(p, t)
    <3>1. PICK row : row = Row(p, "PENDING")  OBVIOUS
    <3>2. Rewrites(k, row) /\ task[p].pc = "reserve" /\ payments[k].status = "absent"
      BY <2>7, <3>1 DEF Reserves
    <3>3. /\ row.session = task[p].session /\ row.late = FALSE /\ row.method = task[p].method
          /\ row.status = "PENDING"
      BY <3>1 DEF Row
    <3> QED  BY <3>2, <3>3 DEF Rewrites
  <2> QED  BY <2>3, <2>4, <2>5, <2>6, <2>7
<1>7. task[p].pc = "reserve" => task[p].method = "WALLET_CREDIT"
  BY DEF CashInv, Typed, Fits, Paying
<1>8. task[p].pc \in {"failed", "recorded"} => payments[k].status = "PENDING" /\ payments[k].method # "CASH"
  BY <1>3 DEF CashInv, TillInv, Owned, Owning, Attached
<1>9. task[p].pc = "reversed" =>
         /\ payments[k].status \in Paid
         /\ payments[k].status = "REVERSED" /\ Closed(payments[k].session) => payments[k].late
  BY DEF CashInv, TillInv, Owned, Attached, Reversing
<1>10. task[p].pc = "create" /\ task[p].session # None => sessions[task[p].session].status = "OPEN"
  BY DEF CashInv, Attached
<1>11. Attached'
  <2>1. \A q \in Procs : task'[q].pc \in {"create", "addMovement"} /\ task'[q].session # None =>
           sessions'[task'[q].session].status = "OPEN"
    BY <1>1, <1>2 DEF CashInv, Attached
  <2>2. \A x \in Keys : payments'[x].late => Closed(payments'[x].session)
    BY <1>6 DEF CashInv, Attached
  <2>3. \A x \in Keys : payments'[x].status = "PENDING" => payments'[x].method # "CASH"
    BY <1>6, <1>7 DEF CashInv, Attached
  <2>4. \A q \in Procs : task'[q].pc \in Reversing /\
            payments'[task'[q].key].status = "REVERSED" /\ Closed(payments'[task'[q].key].session)
              => payments'[task'[q].key].late
    <3> SUFFICES ASSUME NEW q \in Procs, task'[q].pc \in Reversing
                 PROVE  payments'[task'[q].key].status = "REVERSED"
                          /\ Closed(payments'[task'[q].key].session) => payments'[task'[q].key].late
      OBVIOUS
    <3>1. q # p /\ task'[q] = task[q]  BY <1>1, <1>2 DEF Reversing
    <3>2. PICK x \in Keys : x = Key(q)  BY <3>1 DEF CashInv, TillInv, Shape
    <3>3. payments[x].status \in Paid
          /\ (payments[x].status = "REVERSED" /\ Closed(payments[x].session) => payments[x].late)
      BY <3>1, <3>2 DEF CashInv, TillInv, Owned, Attached
    <3>4. task'[q].key = x  BY <3>1, <3>2 DEF Key
    <3>5. CASE x # k  BY <1>6, <3>3, <3>4, <3>5
    <3>6. CASE x = k
      <4>1. task[p].pc \notin {"create", "reserve"}  BY <1>6, <3>3, <3>6 DEF Paid
      <4>2. task[p].pc \notin {"failed", "recorded"}  BY <1>8, <3>3, <3>6 DEF Paid
      <4> QED  BY <1>2, <1>6, <3>4, <3>6, <4>1, <4>2
    <3> QED  BY <3>5, <3>6
  <2> QED  BY <1>2, <2>1, <2>2, <2>3, <2>4 DEF Attached, Closed, Key
<1> HIDE DEF Kept
<1>12. SessionBalanced'
  <2>1. ASSUME NEW s \in Sessions, sessions'[s].status = "CLOSED"
        PROVE  /\ CountedIn(s)' = CountedIn(s)
               /\ \A x \in CountedIn(s) : payments'[x].amount = payments[x].amount
    <3>1. Closed(s)  BY <1>2, <2>1 DEF Closed, BarAssumption
    <3>2. CASE task[p].pc \in {"create", "reserve"}
      <4>1. k \notin CountedIn(s)  BY <1>6, <3>2 DEF CountedIn
      <4>2. row.method # "CASH" \/ row.session # s
        BY <1>2, <1>6, <1>7, <1>10, <2>1, <3>2 DEF BarAssumption
      <4>3. k \notin CountedIn(s)'  BY <1>3, <1>6, <4>2 DEF CountedIn, CashIn
      <4>4. \A x \in Keys \ {k} : payments'[x] = payments[x]  BY <1>6
      <4>5. \A x \in Keys \ {k} : x \in CountedIn(s)' <=> x \in CountedIn(s)
        BY <4>4 DEF CountedIn, CashIn
      <4>6. CountedIn(s) \subseteq Keys /\ CountedIn(s)' \subseteq Keys  BY DEF CountedIn, CashIn
      <4> QED  BY <4>1, <4>3, <4>4, <4>5, <4>6
    <3>3. CASE task[p].pc \in {"failed", "recorded", "reversed"}
      <4>1. row.amount = payments[k].amount /\ row.method = payments[k].method
            /\ row.session = payments[k].session
        BY <1>6, <3>3 DEF Kept
      <4>2. \A x \in Keys \ {k} : payments'[x] = payments[x]  BY <1>6
      <4>3. payments'[k] = row  BY <1>3, <1>6
      <4>4. k \in CountedIn(s)' <=> k \in CountedIn(s)
        <5>1. CASE task[p].pc \in {"failed", "recorded"}
          BY <1>8, <4>1, <4>3, <5>1 DEF CountedIn, CashIn
        <5>2. CASE task[p].pc = "reversed"
          <6>1. row.status = "REVERSED" /\ row.late = Closed(payments[k].session)  BY <1>6, <5>2
          <6>2. payments[k].session = s => row.late  BY <3>1, <6>1
          <6>3. payments[k].session = s => (payments[k].status = "RECORDED"
                                            \/ (payments[k].status = "REVERSED" /\ payments[k].late))
            BY <1>9, <3>1, <5>2 DEF Paid
          <6> QED  BY <1>3, <4>1, <4>3, <6>1, <6>2, <6>3 DEF CountedIn, CashIn
        <5> QED  BY <3>3, <5>1, <5>2
      <4>5. \A x \in Keys \ {k} : x \in CountedIn(s)' <=> x \in CountedIn(s)
        BY <4>2 DEF CountedIn, CashIn
      <4>6. CountedIn(s) \subseteq Keys /\ CountedIn(s)' \subseteq Keys  BY DEF CountedIn, CashIn
      <4> QED  BY <4>1, <4>2, <4>3, <4>4, <4>5, <4>6
    <3> QED  BY <1>2, <3>2, <3>3
  <2> QED  BY <1>2, <2>1, BalanceKept DEF CashInv, Typed
<1> QED  BY <1>5, <1>11, <1>12

\* A session is opened, moved or closed, or the wallet alone is written.
LEMMA CashWritten ==
    ASSUME CashInv, IsFiniteSet(Keys), BarAssumption, NEW p \in Procs, NEW t, Loud(p, t),
           Debits(p, t) \/ Refunds(p, t) \/ Opens(p, t) \/ Moves(p, t) \/ Closes(p, t)
    PROVE  Counted' /\ Attached' /\ SessionBalanced'
<1>1. \A q \in Procs : task'[q] = IF q = p THEN t ELSE task[q]
  BY TaskAfter DEF Loud, CashInv
<1>2. /\ UNCHANGED payments /\ t.pc \in {"idle", "recorded", "reversed"} /\ Become(p, t)
      /\ t.pc = "reversed" => t.key = Key(p) /\ task[p].pc = "refund"
  BY DEF Debits, Refunds, Opens, Moves, Closes, Ends, Leads, Loud
<1>3. \A s \in Sessions : /\ sessions[s].status \in {"absent", "OPEN", "CLOSED"}
                          /\ DOMAIN sessions[s] = {"status", "moves", "theoretical"}
  BY DEF CashInv, Typed, Stored
<1>4. DOMAIN sessions = Sessions  BY DEF CashInv, Typed, Stored
<1>5. CASE Debits(p, t) \/ Refunds(p, t)
  <2>1. UNCHANGED sessions  BY <1>5 DEF Debits, Refunds
  <2>2. Counted'  BY <1>2, <2>1, CountedKept
  <2>3. Attached'  BY <1>1, <1>2, <2>1 DEF CashInv, Attached, Closed, Key, Reversing
  <2>4. SessionBalanced'
    BY <1>2, <2>1, BalanceKept DEF CashInv, Typed, CountedIn, CashIn
  <2> QED  BY <2>2, <2>3, <2>4
<1>6. CASE Opens(p, t)
  <2>1. PICK s \in Sessions : /\ sessions[s].status = "absent"
                              /\ sessions' = [sessions EXCEPT ![s].status = "OPEN"]
    BY <1>6 DEF Opens
  <2>2. \A x \in Sessions : /\ sessions'[x].moves = sessions[x].moves
                            /\ sessions'[x].theoretical = sessions[x].theoretical
                            /\ sessions'[x].status = IF x = s THEN "OPEN" ELSE sessions[x].status
    BY <1>3, <1>4, <2>1
  <2>3. Counted'  BY <1>2, <2>2, CountedKept
  <2>4. \A x \in Sessions \cup {None} : Closed(x)' <=> Closed(x)
    BY <2>1, <2>2 DEF Closed
  <2>5. \A k \in Keys : payments[k].session \in Sessions \cup {None}  BY DEF CashInv, Typed, Stored
  <2>6. Attached'
    <3>1. \A q \in Procs : task'[q].pc \in {"create", "addMovement"} /\ task'[q].session # None =>
             sessions'[task'[q].session].status = "OPEN"
      <4>1. \A q \in Procs : task[q].pc \in {"create", "addMovement"} =>
                                task[q].session \in Sessions \cup {None}
        BY DEF CashInv, Typed, Fits, Paying, Moving
      <4> QED  BY <1>1, <1>2, <2>2, <4>1 DEF CashInv, Attached
    <3>2. \A q \in Procs : task'[q].pc \in Reversing =>
            task[q].pc \in Reversing /\ task'[q].key = task[q].key /\ Key(q) \in Keys
      BY <1>1, <1>2 DEF Reversing, Key, CashInv, TillInv, Shape
    <3>3. \A k \in Keys : Closed(payments[k].session)' <=> Closed(payments[k].session)
      BY <1>2, <2>4, <2>5 DEF Closed
    <3>4. \A q \in Procs : task'[q].pc \in Reversing =>
            LET pay == payments[task[q].key] IN
              pay.status = "REVERSED" /\ Closed(pay.session)' => pay.late
      BY <1>2, <3>2, <3>3 DEF CashInv, Attached, Key, Closed
    <3>5. \A k \in Keys : payments[k].late => Closed(payments[k].session)'
      BY <3>3 DEF CashInv, Attached
    <3> QED  BY <1>2, <3>1, <3>2, <3>4, <3>5 DEF CashInv, Attached, Key, Closed
  <2>7. SessionBalanced'
    BY <1>2, <2>2, BalanceKept DEF CashInv, Typed, CountedIn, CashIn
  <2> QED  BY <2>3, <2>6, <2>7
<1>7. CASE Moves(p, t)
  <2>1. PICK s \in Sessions : s = task[p].session
    BY <1>7 DEF Moves, CashInv, Typed, Fits, Moving
  <2>2. task[p].op = "move" /\ sessions[s].status = "OPEN"
    BY <1>7, <2>1 DEF Moves, CashInv, Typed, Fits, Moving, Attached, BarAssumption
  <2>3. \A x \in Sessions : /\ sessions'[x].status = sessions[x].status
                            /\ sessions'[x].theoretical = sessions[x].theoretical
                            /\ x # s => sessions'[x].moves = sessions[x].moves
    BY <1>3, <1>4, <1>7, <2>1 DEF Moves
  <2>4. Counted'  BY <1>2, <2>2, NobodyCounts DEF Counting
  <2>5. \A x \in Sessions \cup {None} : Closed(x)' <=> Closed(x)
    BY <2>3 DEF Closed
  <2>6. \A k \in Keys : payments[k].session \in Sessions \cup {None}  BY DEF CashInv, Typed, Stored
  <2>7. Attached'
    <3>1. \A q \in Procs : task'[q].pc \in {"create", "addMovement"} /\ task'[q].session # None =>
             sessions'[task'[q].session].status = "OPEN"
      <4>1. \A q \in Procs : task[q].pc \in {"create", "addMovement"} =>
                                task[q].session \in Sessions \cup {None}
        BY DEF CashInv, Typed, Fits, Paying, Moving
      <4> QED  BY <1>1, <1>2, <2>3, <4>1 DEF CashInv, Attached
    <3>2. \A q \in Procs : task'[q].pc \in Reversing =>
            task[q].pc \in Reversing /\ task'[q].key = task[q].key /\ Key(q) \in Keys
      BY <1>1, <1>2 DEF Reversing, Key, CashInv, TillInv, Shape
    <3>3. \A k \in Keys : Closed(payments[k].session)' <=> Closed(payments[k].session)
      BY <1>2, <2>5, <2>6 DEF Closed
    <3>4. \A q \in Procs : task'[q].pc \in Reversing =>
            LET pay == payments[task[q].key] IN
              pay.status = "REVERSED" /\ Closed(pay.session)' => pay.late
      BY <1>2, <3>2, <3>3 DEF CashInv, Attached, Key, Closed
    <3>5. \A k \in Keys : payments[k].late => Closed(payments[k].session)'
      BY <3>3 DEF CashInv, Attached
    <3> QED  BY <1>2, <3>1, <3>2, <3>4, <3>5 DEF CashInv, Attached, Key, Closed
  <2>8. SessionBalanced'
    BY <1>2, <2>2, <2>3, BalanceKept DEF CashInv, Typed, CountedIn, CashIn
  <2> QED  BY <2>4, <2>7, <2>8
<1>8. CASE Closes(p, t)
  <2>1. PICK s \in Sessions, a \in Int : s = task[p].session /\ a = task[p].amount
    BY <1>8 DEF Closes, CashInv, Typed, Fits, Counting
  <2>2. task[p].op = "count" /\ task[p].pc = "closeSession"
    BY <1>8 DEF Closes, CashInv, Typed, Fits, Counting
  <2>3. sessions' = [sessions EXCEPT ![s].status = "CLOSED", ![s].theoretical = a]
    BY <1>8, <2>1 DEF Closes
  <2>4. \A x \in Sessions : /\ sessions'[x].moves = sessions[x].moves
                            /\ x # s => sessions'[x] = sessions[x]
                            /\ x = s => sessions'[x].status = "CLOSED" /\ sessions'[x].theoretical = a
    BY <1>3, <1>4, <2>3
  <2>5. Counted'  BY <1>2, <1>8, <2>4, CountedKept DEF Closes, Ends
  <2>6. \A q \in Procs : /\ task'[q].pc \notin Reversing
                         /\ task'[q].pc \notin {"create", "addMovement"}
    <3>1. \A q \in Procs : task[q].op \notin {"pay", "move", "reverse"}
      BY <2>2 DEF CashInv, TillAlone
    <3>2. \A q \in Procs : task[q].pc \notin Reversing \cup {"create", "addMovement"}
      BY <3>1 DEF CashInv, Typed, Fits, Paying, Moving, GivingBack, Reversing
    <3>3. t.pc = "idle"  BY <1>8 DEF Closes, Ends
    <3> QED  BY <1>1, <3>2, <3>3 DEF Reversing
  <2>7. \A x \in Sessions : sessions[x].status = "CLOSED" => sessions'[x].status = "CLOSED"
    BY <2>4
  <2>8. \A k \in Keys : payments[k].session \in Sessions \cup {None}  BY DEF CashInv, Typed, Stored
  <2>9. Attached'
    BY <1>2, <2>6, <2>7, <2>8 DEF CashInv, Attached, Closed
  <2>10. a = Opening + sessions[s].moves + Total(CountedIn(s))
    <3>1. PICK o, c, m \in Int : o = Opening /\ c = CashTotal(s) /\ m = sessions[s].moves
      BY CashIsInt DEF BarAssumption, CashInv, Typed, Stored
    <3>2. a = ReadSoFar({"cash", "moves"}, CashOf[s], sessions[s].moves)
      BY <2>1, <2>2 DEF CashInv, Counted
    <3>3. a = o + c + m  BY <3>1, <3>2 DEF ReadSoFar, CashOf
    <3>4. \A k \in Keys : payments[k].session = s => ~payments[k].late
      BY <2>1, <2>2 DEF CashInv, Counted
    <3>5. CountedIn(s) = {k \in CashIn(s) : payments[k].status = "RECORDED"}
      BY <3>4 DEF CountedIn, CashIn
    <3>6. Total(CountedIn(s)) = c  BY <3>1, <3>5 DEF CashTotal
    <3> QED  BY <3>1, <3>3, <3>6
  <2>11. SessionBalanced'
    <3>1. \A x \in Sessions : CountedIn(x)' = CountedIn(x) /\ Total(CountedIn(x))' = Total(CountedIn(x))
      BY <1>2 DEF CountedIn, CashIn, Total
    <3> SUFFICES ASSUME NEW x \in Sessions, sessions'[x].status = "CLOSED"
                 PROVE  sessions'[x].theoretical = Opening + sessions'[x].moves + Total(CountedIn(x))'
      BY DEF SessionBalanced
    <3>2. CASE x = s  BY <2>4, <2>10, <3>1, <3>2
    <3>3. CASE x # s  BY <2>4, <3>1, <3>3 DEF CashInv, SessionBalanced
    <3> QED  BY <3>2, <3>3
  <2> QED  BY <2>5, <2>9, <2>11
<1> QED  BY <1>5, <1>6, <1>7, <1>8

\* A request starts a handler.
LEMMA CashBegins ==
    ASSUME CashInv, IsFiniteSet(Keys), BarAssumption, NEW p \in Procs, Request(p)
    PROVE  Counted' /\ Attached' /\ SessionBalanced'
<1>1. PICK t : /\ Become(p, t) /\ UNCHANGED <<payments, sessions>>
               /\ t.pc \in {"find", "findPayment", "lineAccount", "findLine", "closeAccount", "due",
                            "findOpen", "findSession", "findCounted"}
  BY Begins DEF CashInv, money
<1>2. \A q \in Procs : task'[q] = IF q = p THEN t ELSE task[q]
  BY <1>1, TaskAfter DEF CashInv
<1>3. Counted'  BY <1>1, CountedKept
<1>4. Attached'  BY <1>1, <1>2 DEF CashInv, Attached, Closed, Key, Reversing
<1>5. SessionBalanced'
  BY <1>1, BalanceKept DEF CashInv, Typed, CountedIn, CashIn
<1> QED  BY <1>3, <1>4, <1>5

LEMMA CashStarts ==
    ASSUME Init, BarAssumption
    PROVE  CashInv
<1>1. TillInv  BY TillStarts
<1>2. Typed
  <2>1. \A p \in Procs : Fits(task[p])  BY FitsIdle DEF Init
  <2>2. Stored  BY DEF Init, Stored, BarAssumption, Methods
  <2> QED  BY <2>1, <2>2 DEF Typed
<1> QED  BY <1>1, <1>2 DEF CashInv, Init, Idle, TillAlone, Counted, Attached, SessionBalanced, Reversing

LEMMA CashSteps ==
    ASSUME BarAssumption, IsFiniteSet(Keys),
           {{"pay", "count"}, {"move", "count"}, {"reverse", "count"}} \subseteq Apart,
           CashInv, [Next]_vars
    PROVE  CashInv'
<1>1. CASE UNCHANGED vars
  <2>1. TillInv'  BY TillSteps DEF CashInv
  <2>2. Typed' /\ TillAlone'  BY <1>1 DEF vars, CashInv, Typed, Stored, TillAlone
  <2>3. Counted'
    BY <1>1 DEF vars, CashInv, Counted, CashOf, CashTotal, CashIn, Total, ReadSoFar
  <2>4. Attached'  BY <1>1 DEF vars, CashInv, Attached, Closed, Key
  <2>5. SessionBalanced'  BY <1>1 DEF vars, CashInv, SessionBalanced, CountedIn, CashIn, Total
  <2> QED  BY <2>1, <2>2, <2>3, <2>4, <2>5 DEF CashInv
<1>2. ASSUME NEW p \in Procs, Request(p) \/ Handle(p) PROVE CashInv'
  <2>1. TillInv'  BY TillSteps DEF CashInv
  <2>2. TillAlone'  BY <1>2, AloneSteps DEF CashInv
  <2>3. Typed'  BY <1>2, Turns, TypedTurn, TypedBegin DEF CashInv
  <2>4. Counted' /\ Attached' /\ SessionBalanced'
    <3>1. CASE Request(p)  BY <3>1, CashBegins
    <3>2. CASE Handle(p)
      <4>1. PICK t : Quiet(p, t) \/ Loud(p, t)  BY <3>2, Turns DEF CashInv
      <4>2. CASE Quiet(p, t)  BY <4>2, CashQuiet
      <4>3. CASE Loud(p, t)
        <5>1. CASE Creates(p, t) \/ Reserves(p, t) \/ Fails(p, t) \/ Records(p, t) \/ Reverses(p, t)
          BY <4>3, <5>1, CashPaid
        <5>2. CASE Debits(p, t) \/ Refunds(p, t) \/ Opens(p, t) \/ Moves(p, t) \/ Closes(p, t)
          BY <4>3, <5>2, CashWritten
        <5> QED  BY <4>3, <5>1, <5>2 DEF Loud
      <4> QED  BY <4>1, <4>2, <4>3
    <3> QED  BY <1>2, <3>1, <3>2
  <2> QED  BY <2>1, <2>2, <2>3, <2>4 DEF CashInv
<1> QED  BY <1>1, <1>2 DEF Next

(***************************************************************************)
(* The theoretical content of a closed cash session is its opening, its    *)
(* movements and its cash payments, less what was given back before the    *)
(* closing (CASH-007, cash-session.service.ts:22), whichever calls fail,   *)
(* if nobody sells, moves cash or reverses while the till is counted.      *)
(* Several counts may run together.                                        *)
(***************************************************************************)
THEOREM SessionCountedRight ==
    ASSUME IsFiniteSet(Keys),
           {{"pay", "count"}, {"move", "count"}, {"reverse", "count"}} \subseteq Apart
    PROVE  Spec => []SessionBalanced
<1>1. Init => CashInv  BY CashStarts, BarAssumption
<1>2. CashInv /\ [Next]_vars => CashInv'  BY CashSteps, BarAssumption
<1>3. CashInv => SessionBalanced  BY DEF CashInv
<1> QED  BY <1>1, <1>2, <1>3, PTL DEF Spec
=============================================================================
