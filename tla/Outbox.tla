------------------------------- MODULE Outbox -------------------------------
(***************************************************************************)
(* The notification outbox (apps/api/src/modules/notifications).  Rows are *)
(* queued by the other services and sent by POST                           *)
(* /admin/notifications/dispatch-due, which nothing prevents from running  *)
(* twice at the same time: each dispatcher reads the due rows, then sends  *)
(* and updates them one by one, knowing only the attempts it read.         *)
(***************************************************************************)
EXTENDS ClubBase

CONSTANTS
    Notices,       \* notifications
    Dispatchers,   \* concurrent requests dispatch-due
    MaxAttempts    \* MAX_DISPATCH_ATTEMPTS

ASSUME OutboxAssumption == MaxAttempts \in Nat \ {0} /\ None \notin Notices

VARIABLES
    outbox,    \* notification_outbox, with the e-mails that left
    dispatch   \* each dispatcher: rows still to treat, with the attempts it read

outboxVars == <<outbox, dispatch>>

NoticeRow == [status : {"absent", "PENDING", "SENT", "FAILED"}, attempts : Nat, mails : Nat, shared : BOOLEAN]
Batch == [due : SUBSET Notices, seen : [Notices -> Nat], at : Notices \cup {None}]

OutboxTypeOK == outbox \in [Notices -> NoticeRow] /\ dispatch \in [Dispatchers -> Batch]

Waiting == [due |-> {}, seen |-> [n \in Notices |-> 0], at |-> None]

OutboxInit ==
    /\ outbox = [n \in Notices |-> [status |-> "absent", attempts |-> 0, mails |-> 0, shared |-> FALSE]]
    /\ dispatch = [d \in Dispatchers |-> Waiting]

Busy(d) == dispatch[d].due # {}
\* the row is in the hands of another dispatcher
HeldByOther(d, n) == \E e \in Dispatchers \ {d} : n \in dispatch[e].due

\* mutants: a row sent is due again; only the first attempt is made
DueAgain == {n \in Notices : outbox[n].status \in {"PENDING", "SENT"}}
DueOnce == {n \in Notices : outbox[n].status = "PENDING" /\ outbox[n].attempts = 0}

findDue == {n \in Notices : outbox[n].status = "PENDING"}
markSent(n) == [outbox EXCEPT ![n].status = "SENT"]
\* markFailed: the attempts the dispatcher read, plus one
markFailed(n, read) ==
    [outbox EXCEPT ![n].attempts = read + 1,
                   ![n].status = IF read + 1 >= MaxAttempts THEN "FAILED" ELSE "PENDING"]

enqueue(n) ==
    /\ Request("outbox")
    /\ outbox[n].status = "absent"
    /\ outbox' = [outbox EXCEPT ![n].status = "PENDING"]
    /\ UNCHANGED dispatch

dispatchDue(d) ==
    /\ Step("outbox")
    /\ ~Busy(d) /\ findDue # {}
    /\ dispatch' = [dispatch EXCEPT ![d] = [due |-> findDue, at |-> None,
                                            seen |-> [n \in Notices |-> outbox[n].attempts]]]
    /\ outbox' = [n \in Notices |-> IF n \in findDue /\ HeldByOther(d, n)
                                    THEN [outbox[n] EXCEPT !.shared = TRUE] ELSE outbox[n]]

\* the batch of d without the row treated
Without(batch, n) == [batch EXCEPT !.due = batch.due \ {n}, !.at = None]
Treated(d, n) == [dispatch EXCEPT ![d] = Without(dispatch[d], n)]

\* resolveRecipientEmail and sendTemplatedEmail
SendMail(d, n) ==
    /\ Step("outbox")
    /\ dispatch[d].at = None /\ n \in dispatch[d].due
    /\ outbox' = [outbox EXCEPT ![n].mails = @ + 1]
    /\ dispatch' = [dispatch EXCEPT ![d].at = n]

\* no address, or the mail server refuses
SendMailFails(d, n) ==
    /\ Fault("outbox")
    /\ dispatch[d].at = None /\ n \in dispatch[d].due
    /\ outbox' = markFailed(n, dispatch[d].seen[n])
    /\ dispatch' = Treated(d, n)

MailSent(d) ==
    /\ Step("outbox")
    /\ dispatch[d].at # None
    /\ outbox' = markSent(dispatch[d].at)
    /\ dispatch' = Treated(d, dispatch[d].at)

\* markSent fails after the sending: the catch counts a failure of the sending
MarkSentFails(d) ==
    /\ Fault("outbox")
    /\ dispatch[d].at # None
    /\ outbox' = markFailed(dispatch[d].at, dispatch[d].seen[dispatch[d].at])
    /\ dispatch' = Treated(d, dispatch[d].at)

\* the process stops in the middle of a batch
DispatchRestart(d) ==
    /\ Fault("outbox")
    /\ Busy(d)
    /\ dispatch' = [dispatch EXCEPT ![d] = Waiting]
    /\ UNCHANGED outbox

OutboxNext ==
    \/ \E n \in Notices : enqueue(n)
    \/ \E d \in Dispatchers :
        \/ dispatchDue(d) \/ MailSent(d) \/ MarkSentFails(d) \/ DispatchRestart(d)
        \/ \E n \in Notices : SendMail(d, n) \/ SendMailFails(d, n)

OutboxSpec == BaseInit /\ OutboxInit /\ [][OutboxNext]_<<baseVars, outboxVars>>

-----------------------------------------------------------------------------
(* A notification that no two dispatchers held together is sent again only *)
(* after an attempt that was counted as failed or cut by a restart, and    *)
(* once SENT or FAILED it stays so.                                        *)
Settled(n) == outbox[n].status \in {"SENT", "FAILED"}
SentIsFinal ==
    [][\A n \in Notices :
        Settled(n) /\ ~outbox[n].shared =>
            outbox'[n].status = outbox[n].status /\ outbox'[n].mails = outbox[n].mails]_<<baseVars, outboxVars>>

(* Nothing schedules dispatch-due: an administrator calls it.  While         *)
(* somebody does so again and again, every notification ends SENT or FAILED. *)
CalledAgain == WF_outboxVars(\E d \in Dispatchers : dispatchDue(d))
NoticesSettle == CalledAgain => []<>(\A n \in Notices : outbox[n].status # "PENDING")

\* how a batch goes on when nothing fails
DispatcherStep(d) == MailSent(d) \/ \E n \in Notices : SendMail(d, n)
=============================================================================
