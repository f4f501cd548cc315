------------------------------ MODULE BarTill ------------------------------
(***************************************************************************)
(* The bar till (apps/api/src/modules/nextore): one account of the bar     *)
(* with its sale lines, the payments made on it, the credits of its        *)
(* customer and the cash sessions of the till.  Each member of Procs is an *)
(* HTTP handler and performs one database call per step; no call holds a   *)
(* lock or a transaction, so any other handler may run in between.         *)
(*                                                                         *)
(* A payment is named by its idempotency key, which is unique.  The wallet *)
(* is reduced to the sums the refund of a bar account reads (see           *)
(* WalletLedger); participants, articles and the audit log are left out.   *)
(***************************************************************************)
EXTENDS Integers, FiniteSets, Functions

CONSTANTS
    Procs,        \* concurrent handlers
    Keys,         \* idempotency keys
    Lines,        \* identifiers of sale lines
    Sessions,     \* identifiers of cash sessions
    None,         \* null: no session, no key, no line
    Prices,       \* price of a line in cents
    Amounts,      \* amounts paid, and amounts of cash movements
    Opening,      \* declaredOpeningCents
    Credits,      \* credits of the customer at the start
    Apart,        \* pairs of operations that the staff never runs at the same time
    FaultPoints,  \* calls that may raise an exception
    MaxFaults,    \* bound: exceptions
    MaxRequests   \* bound: requests

ASSUME BarAssumption ==
    /\ None \notin Sessions \cup Keys \cup Lines
    /\ Prices \subseteq Nat /\ Amounts \subseteq Nat \ {0}
    /\ Opening \in Nat /\ Credits \in Nat
    /\ MaxFaults \in Nat /\ MaxRequests \in Nat

VARIABLES
    account,   \* nextore_accounts: status and version
    lines,     \* nextore_sale_lines
    payments,  \* nextore_payments; late: reversedAt follows the closedAt of its session
    wallet,    \* credits, and the sums debited and refunded for this account
    sessions,  \* nextore_cash_sessions; moves is the net of their movements
    task,      \* what each handler is doing
    counts     \* counters for the bounds

vars == <<account, lines, payments, wallet, sessions, task, counts>>

-----------------------------------------------------------------------------
Ops == {"pay", "reverse", "line", "void", "close", "open", "move", "count"}
Methods == {"CASH", "CARD", "WALLET_CREDIT"}
PaymentStatus == {"absent", "PENDING", "RECORDED", "FAILED", "REVERSED"}

Task == [op : Ops \cup {"none"},
         pc : {"idle", "find", "account", "session", "create", "reserve", "balance", "debit",
               "failed", "recorded", "mark", "update", "findPayment", "refundable", "refund",
               "reversed", "lineAccount", "insertLine", "findLine", "voidLine", "due",
               "closeAccount", "findOpen", "createSession", "findSession", "addMovement",
               "findCounted", "theoretical", "closeSession"},
         key : Keys \cup {None}, method : Methods, amount : Int,
         line : Lines \cup {None}, session : Sessions \cup {None},
         version : Nat, force : BOOLEAN,
         seen : SUBSET {"sales", "paid", "moves", "cash"}]

Idle == [op |-> "none", pc |-> "idle", key |-> None, method |-> "CASH", amount |-> 0,
         line |-> None, session |-> None, version |-> 0, force |-> FALSE, seen |-> {}]

Init ==
    /\ account = [status |-> "OPEN", version |-> 0]
    /\ lines = [l \in Lines |-> [status |-> "absent", price |-> 0]]
    /\ payments = [k \in Keys |-> [status |-> "absent", method |-> "CASH", amount |-> 0,
                                   session |-> None, late |-> FALSE]]
    /\ wallet = [credits |-> Credits, debited |-> 0, refunded |-> 0]
    /\ sessions = [s \in Sessions |-> [status |-> "absent", moves |-> 0, theoretical |-> 0]]
    /\ task = [p \in Procs |-> Idle]
    /\ counts = [requests |-> 0, faults |-> 0]

At(p, pc) == task[p].pc = pc
Become(p, t) == task' = [task EXCEPT ![p] = t]
Goto(p, pc) == Become(p, [task[p] EXCEPT !.pc = pc])
Done(p) == Become(p, Idle)
Key(p) == task[p].key

\* what a step leaves alone, by the part of the state it writes
bar == <<account, lines>>
money == <<payments, wallet>>

Takes == account.status \in {"OPEN", "PARTIALLY_PAID"}

SalesTotal == SumFunctionOnSet([l \in Lines |-> lines[l].price], {l \in Lines : lines[l].status = "ACTIVE"})
Total(keys) == SumFunctionOnSet([k \in Keys |-> payments[k].amount], keys)
RecordedTotal == Total({k \in Keys : payments[k].status = "RECORDED"})
CashIn(s) == {k \in Keys : payments[k].method = "CASH" /\ payments[k].session = s}
CashTotal(s) == Total({k \in CashIn(s) : payments[k].status = "RECORDED"})

Free(op) == \A q \in Procs : {op, task[q].op} \notin Apart

\* a request starts a handler
Start(p, t) ==
    /\ At(p, "idle") /\ Free(t.op)
    /\ counts.requests < MaxRequests
    /\ counts' = [counts EXCEPT !.requests = @ + 1]
    /\ Become(p, t)
    /\ UNCHANGED <<bar, money, sessions>>

-----------------------------------------------------------------------------
(***************************************************************************)
(* NextorePaymentsService.recordPayment.  A double click or a retry sends  *)
(* the same key again; the amount due is only read for the answer.         *)
(***************************************************************************)
StartPay(p) ==
    \E k \in Keys, m \in Methods, a \in Amounts :
       Start(p, [Idle EXCEPT !.op = "pay", !.pc = "find", !.key = k, !.method = m, !.amount = a])

FindKey(p) ==
    /\ At(p, "find")
    /\ IF payments[Key(p)].status # "absent" THEN Done(p) ELSE Goto(p, "account")
    /\ UNCHANGED <<bar, money, sessions, counts>>

CheckAccount(p) ==
    /\ At(p, "account")
    /\ IF Takes THEN Goto(p, "session") ELSE Done(p)
    /\ UNCHANGED <<bar, money, sessions, counts>>

OpenSessions == {s \in Sessions : sessions[s].status = "OPEN"}

\* mutant: the last session is taken whatever its status
AttachAny(p) ==
    /\ At(p, "session")
    /\ \E s \in {x \in Sessions : sessions[x].status # "absent"} :
         Become(p, [task[p] EXCEPT !.session = s,
                      !.pc = IF task[p].method = "WALLET_CREDIT" THEN "reserve" ELSE "create"])
    /\ UNCHANGED <<bar, money, sessions, counts>>

AttachSession(p) ==
    /\ At(p, "session")
    /\ \E s \in IF OpenSessions = {} THEN {None} ELSE OpenSessions :
         Become(p, [task[p] EXCEPT !.session = s,
                      !.pc = IF task[p].method = "WALLET_CREDIT" THEN "reserve" ELSE "create"])
    /\ UNCHANGED <<bar, money, sessions, counts>>

Row(p, status) == [status |-> status, method |-> task[p].method, amount |-> task[p].amount,
                   session |-> task[p].session, late |-> FALSE]

\* the unique constraint on the key stops the second of two racing handlers
CreatePayment(p) ==
    /\ At(p, "create")
    /\ IF payments[Key(p)].status # "absent"
       THEN UNCHANGED payments /\ Done(p)
       ELSE payments' = [payments EXCEPT ![Key(p)] = Row(p, "RECORDED")] /\ Goto(p, "mark")
    /\ UNCHANGED <<bar, wallet, sessions, counts>>

\* mutant: no unique constraint, each of two clicks debits the wallet
ReserveTwice(p) ==
    /\ At(p, "reserve")
    /\ payments' = [payments EXCEPT ![Key(p)] = Row(p, "PENDING")] /\ Goto(p, "balance")
    /\ UNCHANGED <<bar, wallet, sessions, counts>>

ReserveKey(p) ==
    /\ At(p, "reserve")
    /\ IF payments[Key(p)].status # "absent"
       THEN UNCHANGED payments /\ Done(p)
       ELSE payments' = [payments EXCEPT ![Key(p)] = Row(p, "PENDING")] /\ Goto(p, "balance")
    /\ UNCHANGED <<bar, wallet, sessions, counts>>

ReadBalance(p) ==
    /\ At(p, "balance")
    /\ Goto(p, IF wallet.credits < task[p].amount THEN "failed" ELSE "debit")
    /\ UNCHANGED <<bar, money, sessions, counts>>

DebitWallet(p) ==
    /\ At(p, "debit")
    /\ wallet' = [wallet EXCEPT !.credits = @ - task[p].amount, !.debited = @ + task[p].amount]
    /\ Goto(p, "recorded")
    /\ UNCHANGED <<bar, payments, sessions, counts>>

Settle(p, pc, status, next) ==
    /\ At(p, pc)
    /\ payments' = [payments EXCEPT ![Key(p)].status = status]
    /\ IF next = "idle" THEN Done(p) ELSE Goto(p, next)
    /\ UNCHANGED <<bar, wallet, sessions, counts>>

MarkFailed(p) == Settle(p, "failed", "FAILED", "idle")
MarkRecorded(p) == Settle(p, "recorded", "RECORDED", "mark")

(***************************************************************************)
(* NextoreAccountsService.markPartiallyPaidIfOpen: the version read with   *)
(* the status guards the update, and a conflict is ignored.                *)
(***************************************************************************)
ReadAccount(p) ==
    /\ At(p, "mark")
    /\ IF account.status = "OPEN"
       THEN Become(p, [task[p] EXCEPT !.pc = "update", !.version = account.version])
       ELSE Done(p)
    /\ UNCHANGED <<bar, money, sessions, counts>>

\* mutant: the update does not check the version
UpdateBlindly(p, status) ==
    account' = [status |-> status, version |-> account.version + 1]

UpdateWithVersionCheck(p, status) ==
    IF account.version = task[p].version
    THEN account' = [status |-> status, version |-> account.version + 1]
    ELSE UNCHANGED account

\* mutant: only the payment that settles the account marks it
MarkWhenSettled(p) ==
    /\ At(p, "update")
    /\ IF SalesTotal = RecordedTotal THEN UpdateWithVersionCheck(p, "PARTIALLY_PAID")
                                     ELSE UNCHANGED account
    /\ Done(p)
    /\ UNCHANGED <<lines, money, sessions, counts>>

MarkPartiallyPaid(p) ==
    /\ At(p, "update")
    /\ UpdateWithVersionCheck(p, "PARTIALLY_PAID") /\ Done(p)
    /\ UNCHANGED <<lines, money, sessions, counts>>

-----------------------------------------------------------------------------
(***************************************************************************)
(* NextorePaymentsService.reversePayment: the payment is marked, never     *)
(* deleted, and the credits are given back.  What may be given back is     *)
(* counted for the whole account, not for the payment.                     *)
(***************************************************************************)
StartReverse(p) ==
    \E k \in Keys : Start(p, [Idle EXCEPT !.op = "reverse", !.pc = "findPayment", !.key = k])

FindPayment(p) ==
    /\ At(p, "findPayment")
    /\ LET pay == payments[Key(p)] IN
         IF pay.status = "RECORDED"
         THEN Become(p, [task[p] EXCEPT !.amount = pay.amount,
                  !.pc = IF pay.method = "WALLET_CREDIT" THEN "refundable" ELSE "reversed"])
         ELSE Done(p)
    /\ UNCHANGED <<bar, money, sessions, counts>>

ReadRefundable(p) ==
    /\ At(p, "refundable")
    /\ IF task[p].amount > wallet.debited - wallet.refunded THEN Done(p) ELSE Goto(p, "refund")
    /\ UNCHANGED <<bar, money, sessions, counts>>

RefundWallet(p) ==
    /\ At(p, "refund")
    /\ wallet' = [wallet EXCEPT !.credits = @ + task[p].amount, !.refunded = @ + task[p].amount]
    /\ Goto(p, "reversed")
    /\ UNCHANGED <<bar, payments, sessions, counts>>

Closed(s) == s # None /\ sessions[s].status = "CLOSED"

MarkReversed(p) ==
    /\ At(p, "reversed")
    /\ payments' = [payments EXCEPT ![Key(p)].status = "REVERSED",
                                    ![Key(p)].late = Closed(payments[Key(p)].session)]
    /\ Done(p)
    /\ UNCHANGED <<bar, wallet, sessions, counts>>

-----------------------------------------------------------------------------
(***************************************************************************)
(* NextoreAccountsService: lines, and the closing of the account.          *)
(***************************************************************************)
Running(op) == {q \in Procs : task[q].op = op}

StartAddLine(p) ==
    /\ Cardinality(Running("line")) < Cardinality({l \in Lines : lines[l].status = "absent"})
    /\ Start(p, [Idle EXCEPT !.op = "line", !.pc = "lineAccount"])

CheckLineAccount(p) ==
    /\ At(p, "lineAccount")
    /\ IF Takes THEN Goto(p, "insertLine") ELSE Done(p)
    /\ UNCHANGED <<bar, money, sessions, counts>>

\* the price of the article is copied into the line
InsertLine(p) ==
    /\ At(p, "insertLine")
    /\ \E l \in {x \in Lines : lines[x].status = "absent"}, price \in Prices :
         lines' = [lines EXCEPT ![l] = [status |-> "ACTIVE", price |-> price]]
    /\ Done(p)
    /\ UNCHANGED <<account, money, sessions, counts>>

StartVoid(p) ==
    \E l \in {x \in Lines : lines[x].status # "absent"} :
       Start(p, [Idle EXCEPT !.op = "void", !.pc = "findLine", !.line = l])

\* neither step looks at the status of the account
FindLine(p) ==
    /\ At(p, "findLine")
    /\ IF lines[task[p].line].status = "VOIDED" THEN Done(p) ELSE Goto(p, "voidLine")
    /\ UNCHANGED <<bar, money, sessions, counts>>

VoidLine(p) ==
    /\ At(p, "voidLine")
    /\ lines' = [lines EXCEPT ![task[p].line].status = "VOIDED"] /\ Done(p)
    /\ UNCHANGED <<account, money, sessions, counts>>

\* expectedVersion is the one of the screen the request comes from
StartClose(p) ==
    \E v \in 0..account.version, force \in BOOLEAN :
       Start(p, [Idle EXCEPT !.op = "close", !.version = v, !.force = force,
                             !.pc = IF force THEN "closeAccount" ELSE "due"])

\* Promise.all: the two totals are read in either order, then compared
ReadDue(p) ==
    /\ At(p, "due")
    /\ \E total \in {"sales", "paid"} \ task[p].seen :
         LET due == IF total = "sales" THEN task[p].amount + SalesTotal
                                       ELSE task[p].amount - RecordedTotal
             both == task[p].seen # {}
         IN  IF both /\ due # 0 THEN Done(p)
             ELSE Become(p, [task[p] EXCEPT !.amount = due, !.seen = @ \cup {total},
                                            !.pc = IF both THEN "closeAccount" ELSE "due"])
    /\ UNCHANGED <<bar, money, sessions, counts>>

CloseAccount(p) ==
    /\ At(p, "closeAccount")
    /\ UpdateWithVersionCheck(p, "CLOSED") /\ Done(p)
    /\ UNCHANGED <<lines, money, sessions, counts>>

-----------------------------------------------------------------------------
(***************************************************************************)
(* NextoreCashSessionService: one session at a time, whose theoretical     *)
(* content is computed when it is closed.                                  *)
(***************************************************************************)
StartOpen(p) ==
    /\ Cardinality(Running("open")) < Cardinality({s \in Sessions : sessions[s].status = "absent"})
    /\ Start(p, [Idle EXCEPT !.op = "open", !.pc = "findOpen"])

FindOpen(p) ==
    /\ At(p, "findOpen")
    /\ IF OpenSessions # {} THEN Done(p) ELSE Goto(p, "createSession")
    /\ UNCHANGED <<bar, money, sessions, counts>>

CreateSession(p) ==
    /\ At(p, "createSession")
    /\ \E s \in {x \in Sessions : sessions[x].status = "absent"} :
         sessions' = [sessions EXCEPT ![s].status = "OPEN"]
    /\ Done(p)
    /\ UNCHANGED <<bar, money, counts>>

\* recordMovement: IN or OUT
StartMove(p) ==
    \E s \in Sessions, a \in Amounts, sign \in {1, -1} :
       Start(p, [Idle EXCEPT !.op = "move", !.pc = "findSession", !.session = s,
                             !.amount = sign * a])

FindSession(p) ==
    /\ At(p, "findSession")
    /\ IF sessions[task[p].session].status = "OPEN" THEN Goto(p, "addMovement") ELSE Done(p)
    /\ UNCHANGED <<bar, money, sessions, counts>>

AddMovement(p) ==
    /\ At(p, "addMovement")
    /\ sessions' = [sessions EXCEPT ![task[p].session].moves = @ + task[p].amount] /\ Done(p)
    /\ UNCHANGED <<bar, money, counts>>

StartCount(p) ==
    \E s \in Sessions :
       Start(p, [Idle EXCEPT !.op = "count", !.pc = "findCounted", !.session = s])

FindCounted(p) ==
    /\ At(p, "findCounted")
    /\ IF sessions[task[p].session].status = "OPEN"
       THEN Become(p, [task[p] EXCEPT !.pc = "theoretical", !.amount = Opening])
       ELSE Done(p)
    /\ UNCHANGED <<bar, money, sessions, counts>>

\* Promise.all of the cash payments and the movements
ReadTheoretical(p) ==
    /\ At(p, "theoretical")
    /\ \E total \in {"cash", "moves"} \ task[p].seen :
         Become(p, [task[p] EXCEPT !.seen = @ \cup {total},
                      !.amount = @ + IF total = "cash" THEN CashTotal(task[p].session)
                                                       ELSE sessions[task[p].session].moves,
                      !.pc = IF task[p].seen = {} THEN "theoretical" ELSE "closeSession"])
    /\ UNCHANGED <<bar, money, sessions, counts>>

\* a variance above the threshold without a justification is refused
RefuseVariance(p) ==
    /\ At(p, "closeSession")
    /\ Done(p)
    /\ UNCHANGED <<bar, money, sessions, counts>>

CloseSession(p) ==
    /\ At(p, "closeSession")
    /\ sessions' = [sessions EXCEPT ![task[p].session].status = "CLOSED",
                                    ![task[p].session].theoretical = task[p].amount]
    /\ Done(p)
    /\ UNCHANGED <<bar, money, counts>>

-----------------------------------------------------------------------------
\* an exception before the call had an effect; only the debit has a handler
Fault(p) ==
    /\ task[p].pc \in FaultPoints \ {"idle"} /\ counts.faults < MaxFaults
    /\ counts' = [counts EXCEPT !.faults = @ + 1]
    /\ IF task[p].pc \in {"balance", "debit"} THEN Goto(p, "failed") ELSE Done(p)
    /\ UNCHANGED <<bar, money, sessions>>

Handle(p) ==
    \/ FindKey(p) \/ CheckAccount(p) \/ AttachSession(p) \/ CreatePayment(p) \/ ReserveKey(p)
    \/ ReadBalance(p) \/ DebitWallet(p) \/ MarkFailed(p) \/ MarkRecorded(p)
    \/ ReadAccount(p) \/ MarkPartiallyPaid(p)
    \/ FindPayment(p) \/ ReadRefundable(p) \/ RefundWallet(p) \/ MarkReversed(p)
    \/ CheckLineAccount(p) \/ InsertLine(p) \/ FindLine(p) \/ VoidLine(p)
    \/ ReadDue(p) \/ CloseAccount(p)
    \/ FindOpen(p) \/ CreateSession(p) \/ FindSession(p) \/ AddMovement(p)
    \/ FindCounted(p) \/ ReadTheoretical(p) \/ RefuseVariance(p) \/ CloseSession(p)
    \/ Fault(p)

Request(p) ==
    \/ StartPay(p) \/ StartReverse(p) \/ StartAddLine(p) \/ StartVoid(p) \/ StartClose(p)
    \/ StartOpen(p) \/ StartMove(p) \/ StartCount(p)

Next == \E p \in Procs : Handle(p) \/ Request(p)

Spec == Init /\ [][Next]_vars

-----------------------------------------------------------------------------
(***************************************************************************)
(* Properties                                                              *)
(***************************************************************************)
TypeOK ==
    /\ account \in [status : {"OPEN", "PARTIALLY_PAID", "CLOSED"}, version : Nat]
    /\ lines \in [Lines -> [status : {"absent", "ACTIVE", "VOIDED"}, price : Nat]]
    /\ payments \in [Keys -> [status : PaymentStatus, method : Methods, amount : Nat,
                              session : Sessions \cup {None}, late : BOOLEAN]]
    /\ wallet \in [credits : Int, debited : Nat, refunded : Nat]
    /\ sessions \in [Sessions -> [status : {"absent", "OPEN", "CLOSED"}, moves : Int,
                                  theoretical : Int]]
    /\ task \in [Procs -> Task]
    /\ counts \in [{"requests", "faults"} -> Nat]

Idling == \A p \in Procs : At(p, "idle")

(***************************************************************************)
(* "Aucun double debit credits : somme coherente avec les paiements        *)
(* WALLET_CREDIT correspondants" (ADR 0040:45).  Once the handlers have    *)
(* ended, whatever keys were sent twice, what the account took from the    *)
(* wallet is the sum of its recorded payments by credits, and no payment   *)
(* is left pending.                                                        *)
(***************************************************************************)
Wallet(k) == payments[k].method = "WALLET_CREDIT" /\ payments[k].status = "RECORDED"

LedgerMatches ==
    Idling =>
        /\ \A k \in Keys : payments[k].status # "PENDING"
        /\ wallet.debited - wallet.refunded = Total({k \in Keys : Wallet(k)})

(***************************************************************************)
(* A payment moves its account out of OPEN (accounts.service.ts:92): the   *)
(* version conflict that markPartiallyPaidIfOpen ignores never means that  *)
(* the mark is lost.                                                       *)
(***************************************************************************)
MarkedWhenPaid ==
    (Idling /\ \E k \in Keys : payments[k].status \in {"RECORDED", "REVERSED"})
        => account.status # "OPEN"

(***************************************************************************)
(* A payment that ends after the closing never reopens the account, though *)
(* it read the status before: the version check of CDC Nextore 30.3.       *)
(***************************************************************************)
ClosedIsFinal == [][account.status = "CLOSED" => account'.status = "CLOSED"]_vars

(***************************************************************************)
(* CASH-007 (cash-session.service.ts:22): the theoretical content of a     *)
(* closed session is the declared opening, its movements and the cash      *)
(* payments attached to it, less what was given back before the closing.   *)
(***************************************************************************)
CountedIn(s) ==
    {k \in CashIn(s) : \/ payments[k].status = "RECORDED"
                       \/ payments[k].status = "REVERSED" /\ payments[k].late}

SessionBalanced ==
    \A s \in Sessions : sessions[s].status = "CLOSED" =>
        sessions[s].theoretical = Opening + sessions[s].moves + Total(CountedIn(s))
=============================================================================
