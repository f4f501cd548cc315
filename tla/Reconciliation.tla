---------------------------- MODULE Reconciliation ----------------------------
(***************************************************************************)
(* The bank statements of the bar (nextore/reconciliation).  A statement   *)
(* is imported as rows; then each row, in the order of the bank dates, is  *)
(* compared with the card payments of the till: the payments already       *)
(* matched are read, then the payments of exactly its amount in a window   *)
(* of days, then the row is written.  Two imports may run at once, and an  *)
(* administrator confirms a match by hand at any moment.                   *)
(*                                                                         *)
(* The payments are those of BarTill: here they are recorded and reversed. *)
(***************************************************************************)
EXTENDS ClubBase

CONSTANTS
    Imports,        \* importBatch, by request
    BankRows,       \* nextore_reconciliation_entries
    CardPayments,   \* nextore_payments
    TillPayments,   \* method, amount and day of the payments that the till may record
    StatementRows,  \* amount and day of the rows that a statement may hold
    MatchWindow     \* MATCH_WINDOW_DAYS

ASSUME ReconciliationAssumption ==
    /\ TillPayments \subseteq [method : {"CARD", "CASH"}, amount : Nat, day : Nat]
    /\ StatementRows \subseteq [amount : Nat \ {0}, day : Nat]
    /\ MatchWindow \in Nat /\ None \notin CardPayments \cup BankRows \cup Imports

VARIABLES
    taken,      \* nextore_payments
    bankRows,   \* nextore_reconciliation_entries; how each one was last written
    matching    \* importBatch: rows still to treat, the one in hand, what was read for it

bankVars == <<taken, bankRows, matching>>

NoMatching == [pc |-> "idle", todo |-> {}, row |-> None, excluded |-> {}, found |-> {}, overtaken |-> FALSE]
NoRow == [status |-> "absent", amount |-> 0, day |-> 0, payment |-> None, byHand |-> FALSE, overtaken |-> FALSE]

BankTypeOK ==
    /\ taken \in [CardPayments -> [status : {"absent", "RECORDED", "REVERSED"}, method : {"CARD", "CASH"},
                                   amount : Nat, day : Nat]]
    /\ bankRows \in [BankRows -> [status : {"absent", "UNMATCHED", "MATCHED", "AMBIGUOUS"}, amount : Nat,
                            day : Nat, payment : CardPayments \cup {None}, byHand : BOOLEAN, overtaken : BOOLEAN]]
    /\ matching \in [Imports -> [pc : {"idle", "exclude", "find", "write"}, todo : SUBSET BankRows,
                            row : BankRows \cup {None}, excluded : SUBSET CardPayments,
                            found : SUBSET CardPayments, overtaken : BOOLEAN]]

BankInit ==
    /\ taken = [p \in CardPayments |-> [status |-> "absent", method |-> "CARD", amount |-> 0, day |-> 0]]
    /\ bankRows = [e \in BankRows |-> NoRow]
    /\ matching = [i \in Imports |-> NoMatching]

-----------------------------------------------------------------------------
(* The till *)
PaymentRecorded(p) ==
    /\ Request("bank")
    /\ taken[p].status = "absent"
    /\ \E t \in TillPayments :
        taken' = [taken EXCEPT ![p] = [status |-> "RECORDED", method |-> t.method,
                                       amount |-> t.amount, day |-> t.day]]
    /\ UNCHANGED <<bankRows, matching>>

PaymentReversed(p) ==
    /\ Request("bank")
    /\ taken[p].status = "RECORDED"
    /\ taken' = [taken EXCEPT ![p].status = "REVERSED"]
    /\ UNCHANGED <<bankRows, matching>>

-----------------------------------------------------------------------------
(* importBatch: all the rows are created, UNMATCHED, before the first match *)
importBatch(i, rows) ==
    /\ Request("bank")
    /\ matching[i] = NoMatching
    /\ rows # {} /\ \A e \in rows : bankRows[e] = NoRow
    /\ \E line \in [rows -> StatementRows] :
        bankRows' = [e \in BankRows |->
            IF e \in rows THEN [NoRow EXCEPT !.status = "UNMATCHED", !.amount = line[e].amount, !.day = line[e].day]
            ELSE bankRows[e]]
    /\ matching' = [matching EXCEPT ![i] = [NoMatching EXCEPT !.pc = "exclude", !.todo = rows]]
    /\ UNCHANGED taken

\* the payments of the rows MATCHED now, read for the earliest row left
ReadMatched(i, e) ==
    /\ Step("bank")
    /\ matching[i].pc = "exclude" /\ e \in matching[i].todo
    /\ \A o \in matching[i].todo : bankRows[e].day <= bankRows[o].day
    /\ matching' = [matching EXCEPT ![i] =
            [@ EXCEPT !.pc = "find", !.row = e, !.todo = matching[i].todo \ {e}, !.overtaken = FALSE,
                      !.excluded = {bankRows[o].payment : o \in {r \in BankRows : bankRows[r].status = "MATCHED"}}]]
    /\ UNCHANGED <<taken, bankRows>>

InWindow(p, e) == taken[p].day \in (bankRows[e].day - MatchWindow)..(bankRows[e].day + MatchWindow)

\* mutant: a payment already matched is a candidate again
CandidatesAgain(e, excluded) ==
    {p \in CardPayments : /\ taken[p].method = "CARD" /\ taken[p].status = "RECORDED"
                          /\ taken[p].amount = bankRows[e].amount /\ InWindow(p, e)}

findCandidatePayments(e, excluded) ==
    {p \in CardPayments \ excluded : /\ taken[p].method = "CARD" /\ taken[p].status = "RECORDED"
                                     /\ taken[p].amount = bankRows[e].amount /\ InWindow(p, e)}

FindCandidates(i) ==
    /\ Step("bank")
    /\ matching[i].pc = "find"
    /\ matching' = [matching EXCEPT ![i] =
            [@ EXCEPT !.pc = "write", !.found = findCandidatePayments(matching[i].row, matching[i].excluded)]]
    /\ UNCHANGED <<taken, bankRows>>

\* a match written now is not in what the others have read
Overtakes(i) ==
    [j \in Imports |-> IF j # i /\ matching[j].pc \in {"find", "write"}
                       THEN [matching[j] EXCEPT !.overtaken = TRUE] ELSE matching[j]]

\* autoMatchEntry: one candidate is a match, several are left to a person;
\* without a match the payment of the row stays as it is
WriteRow(i) ==
    LET m == matching[i]
        written == [bankRows[m.row] EXCEPT !.overtaken = m.overtaken]
    IN  /\ Step("bank")
        /\ m.pc = "write"
        /\ \/ /\ \E p \in m.found :
                    /\ m.found = {p}
                    /\ bankRows' = [bankRows EXCEPT ![m.row] =
                            [written EXCEPT !.status = "MATCHED", !.payment = p, !.byHand = FALSE]]
              /\ matching' = [Overtakes(i) EXCEPT ![i] = [NoMatching EXCEPT !.todo = m.todo,
                                    !.pc = IF m.todo = {} THEN "idle" ELSE "exclude"]]
           \/ /\ Cardinality(m.found) # 1
              /\ bankRows' = [bankRows EXCEPT ![m.row] =
                            [written EXCEPT !.status = IF m.found = {} THEN "UNMATCHED" ELSE "AMBIGUOUS"]]
              /\ matching' = [matching EXCEPT ![i] = [NoMatching EXCEPT !.todo = m.todo,
                                    !.pc = IF m.todo = {} THEN "idle" ELSE "exclude"]]
        /\ UNCHANGED taken

\* confirmMatch asks nothing of the payment, nor of the status of the row
confirmMatch(e, p) ==
    /\ Request("bank")
    /\ bankRows[e].status # "absent"
    /\ bankRows' = [bankRows EXCEPT ![e] = [@ EXCEPT !.status = "MATCHED", !.payment = p, !.byHand = TRUE]]
    /\ matching' = Overtakes(None)
    /\ UNCHANGED taken

\* the server stops: the rows not treated yet stay UNMATCHED
ImportCut ==
    /\ Fault("bank")
    /\ \E i \in Imports : matching[i] # NoMatching
    /\ matching' = [i \in Imports |-> NoMatching]
    /\ UNCHANGED <<taken, bankRows>>

BankNext ==
    \/ \E p \in CardPayments : PaymentRecorded(p) \/ PaymentReversed(p)
    \/ \E i \in Imports :
        \/ \E rows \in SUBSET BankRows : importBatch(i, rows)
        \/ \E e \in BankRows : ReadMatched(i, e)
        \/ FindCandidates(i) \/ WriteRow(i)
    \/ \E e \in BankRows, p \in CardPayments : confirmMatch(e, p)
    \/ ImportCut

BankSpec == BaseInit /\ BankInit /\ [][BankNext]_<<baseVars, bankVars>>

-----------------------------------------------------------------------------
(* A payment explains one row of the bank, unless a person decided or a     *)
(* match was written after the rows already matched had been read           *)
(* (reconciliation.repository.ts:43-57 reads in two queries, the row is     *)
(* written in a third: no index forbids the second match).  A match found   *)
(* by the import has exactly the amount of the row and its window           *)
(* (REC0-007), and it never takes a payment off a row: only a decision by   *)
(* hand or such an overtaking leaves one on a row that is not MATCHED.      *)
MatchedOnce ==
    /\ \A e, o \in BankRows :
        /\ e # o /\ bankRows[e].status = "MATCHED" /\ bankRows[o].status = "MATCHED"
        /\ bankRows[e].payment = bankRows[o].payment
        => \/ bankRows[e].byHand \/ bankRows[e].overtaken
           \/ bankRows[o].byHand \/ bankRows[o].overtaken
    /\ \A e \in BankRows :
        bankRows[e].status = "MATCHED" /\ ~bankRows[e].byHand =>
            /\ taken[bankRows[e].payment].method = "CARD"
            /\ taken[bankRows[e].payment].amount = bankRows[e].amount
            /\ InWindow(bankRows[e].payment, e)
    /\ \A e \in BankRows :
        bankRows[e].payment # None => bankRows[e].status = "MATCHED" \/ bankRows[e].byHand \/ bankRows[e].overtaken
=============================================================================
