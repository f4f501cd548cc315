------------------------------ MODULE MemberSync ------------------------------
(***************************************************************************)
(* The import of the members of the club from AFPadel (modules/afpadel).   *)
(* One synchronisation at a time: the provider signs in, reads the pages   *)
(* of the list one after the other, then every member is written, then the *)
(* sheet of each one is read and written, an error on one of them being    *)
(* counted and passed over.  AFPadel is external: its list is ordered, and *)
(* members join and leave it between two pages.  A page is a window of     *)
(* PageSize entries that slides back to stay full at the end of the list.  *)
(***************************************************************************)
EXTENDS ClubBase, SequencesExt

CONSTANTS
    Members,    \* players of AFPadel
    PageSize,   \* 100 at AFPadel
    MaxPages    \* maxIterations

ASSUME MembersAssumption == IsFiniteSet(Members) /\ PageSize \in Nat \ {0} /\ MaxPages \in Nat

VARIABLES
    roster,    \* external: the list of the club at AFPadel
    listing,   \* the synchronisation: its step, and what the provider has read
    rows,      \* afp_members: members written, and those with their sheet
    result     \* lastResult

membersVars == <<roster, listing, rows, result>>

Off == [pc |-> "off", found |-> << >>, next |-> 0, pages |-> 0, written |-> 0, failed |-> {},
        since |-> {}, shrunk |-> FALSE]

MembersTypeOK ==
    /\ roster \in Seq(Members) /\ listing.found \in Seq(Members)
    /\ listing.pc \in {"off", "signin", "first", "pages", "rows", "sheets"}
    /\ listing.next \in Nat \cup {-1} /\ listing.pages \in 0..MaxPages
    /\ rows \in [known : SUBSET Members, sheets : SUBSET Members]
    /\ result \in [ended : BOOLEAN, failed : BOOLEAN, found : Nat, sheets : Nat, errors : Nat]

NoResult == [ended |-> FALSE, failed |-> FALSE, found |-> 0, sheets |-> 0, errors |-> 0]

MembersInit ==
    /\ roster \in IF focus = "afpadel" THEN {SetToSeq(s) : s \in SUBSET Members} ELSE {<< >>}
    /\ listing = Off
    /\ rows = [known |-> {}, sheets |-> {}]
    /\ result = NoResult

-----------------------------------------------------------------------------
(* AFPadel *)
Join(m, i) ==
    /\ Request("afpadel")
    /\ m \notin Range(roster) /\ i \in 1..(Len(roster) + 1)
    /\ roster' = InsertAt(roster, i, m)
    /\ UNCHANGED <<listing, rows, result>>

Leave(i) ==
    /\ Request("afpadel")
    /\ i \in 1..Len(roster)
    /\ roster' = RemoveAt(roster, i)
    /\ listing' = [listing EXCEPT !.shrunk = TRUE, !.since = @ \ {roster[i]}]
    /\ UNCHANGED <<rows, result>>

\* the window asked from an index on, and the index of the next one
From(i) == IF i + PageSize > Len(roster) /\ Len(roster) > PageSize THEN Len(roster) - PageSize ELSE i
Window(i) == SubSeq(roster, From(i) + 1, IF From(i) + PageSize < Len(roster) THEN From(i) + PageSize
                                         ELSE Len(roster))
\* mutant: a last window of one entry is not asked for
NextButOne(i) == IF i + PageSize + 1 < Len(roster) THEN i + PageSize ELSE -1

NextOf(i) == IF i + PageSize < Len(roster) THEN i + PageSize ELSE -1

-----------------------------------------------------------------------------
(* POST /admin/afp-members/sync answers 409 while a synchronisation runs *)
runInBackground ==
    /\ Request("afpadel")
    /\ listing.pc = "off"
    /\ listing' = [Off EXCEPT !.pc = "signin"]
    /\ UNCHANGED <<roster, rows, result>>

authenticate ==
    /\ Step("afpadel")
    /\ listing.pc = "signin"
    /\ listing' = [listing EXCEPT !.pc = "first"]
    /\ UNCHANGED <<roster, rows, result>>

\* addPage: one entry after the other, those already seen are skipped
addPage(found, window) ==
    LET seen[n \in 0..Len(window)] ==
            IF n = 0 THEN found
            ELSE IF window[n] \in Range(seen[n - 1]) THEN seen[n - 1]
            ELSE Append(seen[n - 1], window[n])
    IN  seen[Len(window)]
PageRead(i, pages) ==
    [listing EXCEPT !.found = addPage(@, Window(i)), !.next = NextOf(i), !.pages = pages,
                    !.pc = IF NextOf(i) < 0 \/ pages = MaxPages THEN "rows" ELSE "pages"]

FirstPage ==
    /\ Step("afpadel")
    /\ listing.pc = "first"
    /\ listing' = [PageRead(0, 0) EXCEPT !.since = Range(roster), !.shrunk = FALSE]
    /\ UNCHANGED <<roster, rows, result>>

NextPage ==
    /\ Step("afpadel")
    /\ listing.pc = "pages"
    /\ listing' = PageRead(listing.next, listing.pages + 1)
    /\ UNCHANGED <<roster, rows, result>>

upsertListRow ==
    /\ Step("afpadel")
    /\ listing.pc = "rows"
    /\ LET n == listing.written + 1
       IN  IF n > Len(listing.found)
           THEN /\ listing' = [listing EXCEPT !.pc = "sheets", !.written = 0]
                /\ UNCHANGED rows
           ELSE /\ rows' = [rows EXCEPT !.known = @ \cup {listing.found[n]}]
                /\ listing' = [listing EXCEPT !.written = n]
    /\ UNCHANGED <<roster, result>>

CurrentMember == listing.found[listing.written + 1]
MoreSheets == listing.pc = "sheets" /\ listing.written < Len(listing.found)

getPlayerDetail ==
    /\ Step("afpadel")
    /\ MoreSheets
    /\ rows' = [rows EXCEPT !.sheets = @ \cup {CurrentMember}]
    /\ listing' = [listing EXCEPT !.written = @ + 1]
    /\ UNCHANGED <<roster, result>>

SheetFails ==
    /\ Fault("afpadel")
    /\ MoreSheets
    /\ listing' = [listing EXCEPT !.written = @ + 1, !.failed = @ \cup {CurrentMember}]
    /\ UNCHANGED <<roster, rows, result>>

SyncEnds ==
    /\ Step("afpadel")
    /\ listing.pc = "sheets" /\ ~MoreSheets
    /\ result' = [ended |-> TRUE, failed |-> FALSE, found |-> Len(listing.found),
                  sheets |-> Len(listing.found) - Cardinality(listing.failed),
                  errors |-> Cardinality(listing.failed)]
    /\ listing' = Off
    /\ UNCHANGED <<roster, rows>>

\* the sign-in, a page or a row fails: the synchronisation ends there
SyncFails ==
    /\ Fault("afpadel")
    /\ listing.pc \in {"signin", "first", "pages", "rows"}
    /\ result' = [NoResult EXCEPT !.ended = TRUE, !.failed = TRUE, !.errors = 1]
    /\ listing' = Off
    /\ UNCHANGED <<roster, rows>>

MembersNext ==
    \/ \E m \in Members : \E i \in 1..(Len(roster) + 1) : Join(m, i)
    \/ \E i \in 1..Len(roster) : Leave(i)
    \/ runInBackground \/ authenticate \/ FirstPage \/ NextPage
    \/ upsertListRow \/ getPlayerDetail \/ SheetFails \/ SyncEnds \/ SyncFails

MembersSpec == BaseInit /\ MembersInit /\ [][MembersNext]_<<baseVars, membersVars>>

-----------------------------------------------------------------------------
(* A synchronisation that reached its end has written every member who was  *)
(* at the club from its first page to its last, and has the sheet of each   *)
(* one or an error for it, however the windows overlap and whoever joins    *)
(* meanwhile; only a departure, which moves the list back under the next    *)
(* window, may hide somebody (playwright-afpadel-provider.ts:170-195).      *)
NobodyForgotten ==
    /\ listing.pc \in {"rows", "sheets"} /\ ~listing.shrunk /\ listing.next < 0
        => listing.since \subseteq Range(listing.found)
    /\ listing.pc = "sheets" =>
        /\ Range(listing.found) \subseteq rows.known
        /\ \A n \in 1..listing.written : listing.found[n] \in rows.sheets \cup listing.failed
    /\ Len(listing.found) = Cardinality(Range(listing.found))
=============================================================================
