----------------------------- MODULE Migration -----------------------------
(***************************************************************************)
(* The clients of Doinsport become users of the club                       *)
(* (modules/legacy-doinsport: importClients, client-dedup,                 *)
(* migration-invitation; modules/admin: legacy-migration-admin).  The      *)
(* import lists the clients never treated and links each one to the        *)
(* account with its address; an administrator invites, links, disables or  *)
(* resets a client; the player opens the invitation and chooses a          *)
(* password.  Each of them reads the client, then writes it without a      *)
(* condition.  An account is named by its address, which is unique.        *)
(***************************************************************************)
EXTENDS ClubBase

CONSTANTS
    Clients,        \* legacy_clients
    Emails,         \* addresses; one account at most for each
    Invitations     \* client_migration_invitations (the tokens sent)

ASSUME MigrationAssumption ==
    None \notin Clients \cup Emails \cup Invitations \cup {"MIGRATED", "MERGE_REQUIRED"}

VARIABLES
    clients,      \* status and linked account of each client
    contact,      \* address of each client, and whether its telephone is an account's
    accounts,     \* users, by address
    invitations,  \* client, use and expiry of each token
    importing,    \* the import: clients still to treat, the one it decided on
    reviewing,    \* the request of the administrator, between its read and its write
    joining       \* the request of the player, between its steps

migrationVars == <<clients, contact, accounts, invitations, importing, reviewing, joining>>

MigrationStatus ==
    {"LEGACY_ONLY", "INVITED", "MIGRATION_PENDING", "MIGRATED", "MERGE_REQUIRED", "DISABLED"}
Decision == {"MIGRATED", "MERGE_REQUIRED"}
Addresses == Emails \cup {None}

ClientRow == [status : MigrationStatus, user : Addresses]
Contact == [email : Addresses, phoneKnown : BOOLEAN]
InvitationRow == [client : Clients \cup {None}, used : BOOLEAN, expired : BOOLEAN]
ImportTask == [todo : SUBSET Clients, client : Clients \cup {None}, decision : Decision \cup {None}]
ReviewTask == [op : {"none", "invite", "link"}, client : Clients \cup {None}, user : Addresses]
JoinTask == [pc : {"none", "open", "create", "link", "use"}, token : Invitations \cup {None}]

MigrationTypeOK ==
    /\ clients \in [Clients -> ClientRow] /\ contact \in [Clients -> Contact]
    /\ accounts \subseteq Emails
    /\ invitations \in [Invitations -> InvitationRow]
    /\ importing \in ImportTask /\ reviewing \in ReviewTask /\ joining \in JoinTask

NotImporting == [todo |-> {}, client |-> None, decision |-> None]
NotReviewing == [op |-> "none", client |-> None, user |-> None]
NotJoining == [pc |-> "none", token |-> None]

MigrationInit ==
    /\ contact \in IF focus = "migration"
                   THEN [Clients -> Contact]
                   ELSE {[c \in Clients |-> [email |-> None, phoneKnown |-> FALSE]]}
    /\ clients = [c \in Clients |-> [status |-> "LEGACY_ONLY", user |-> None]]
    /\ accounts = {}
    /\ invitations = [i \in Invitations |-> [client |-> None, used |-> FALSE, expired |-> FALSE]]
    /\ importing = NotImporting /\ reviewing = NotReviewing /\ joining = NotJoining

\* linkedUserId is unique
LinkedElsewhere(c, e) == \E d \in Clients \ {c} : clients[d].user = e

\* a player registers without an invitation
registerDirectly(e) ==
    /\ Request("migration")
    /\ e \notin accounts
    /\ accounts' = accounts \cup {e}
    /\ UNCHANGED <<clients, contact, invitations, importing, reviewing, joining>>

-----------------------------------------------------------------------------
(* importClients: the list is read once; each client is then decided and   *)
(* written.  The address decides alone, the telephone only asks for a      *)
(* review.                                                                 *)
\* mutant: the telephone links like the address
LinkByPhone(c) == IF contact[c].phoneKnown \/ contact[c].email \in accounts THEN "MIGRATED" ELSE None

decideClientLink(c) ==
    CASE contact[c].email \in accounts -> "MIGRATED"
      [] contact[c].email \notin accounts /\ contact[c].phoneKnown -> "MERGE_REQUIRED"
      [] OTHER -> None

importClients ==
    /\ Request("migration")
    /\ importing = NotImporting
    /\ importing' = [NotImporting EXCEPT !.todo = {c \in Clients : clients[c].status = "LEGACY_ONLY"}]
    /\ UNCHANGED <<clients, contact, accounts, invitations, reviewing, joining>>

ImportDecides(c) ==
    /\ Step("migration")
    /\ importing.client = None /\ c \in importing.todo
    /\ LET decision == decideClientLink(c)
           flagged == decision = "MIGRATED" /\ LinkedElsewhere(c, contact[c].email)
       IN  importing' = [todo |-> importing.todo \ {c},
                         client |-> IF decision = None THEN None ELSE c,
                         decision |-> IF flagged THEN "MERGE_REQUIRED" ELSE decision]
    /\ UNCHANGED <<clients, contact, accounts, invitations, reviewing, joining>>

ImportWrites ==
    /\ Step("migration")
    /\ importing.client # None
    /\ LET c == importing.client
           e == contact[c].email
           linked == importing.decision = "MIGRATED"
       IN  IF linked /\ LinkedElsewhere(c, e)       \* the unique index refuses: the run fails
           THEN importing' = NotImporting /\ UNCHANGED clients
           ELSE /\ clients' = [clients EXCEPT ![c] = [status |-> importing.decision,
                                                      user |-> IF linked THEN e ELSE @.user]]
                /\ importing' = [importing EXCEPT !.client = None, !.decision = None]
    /\ UNCHANGED <<contact, accounts, invitations, reviewing, joining>>

-----------------------------------------------------------------------------
(* The administrator *)
invite(i, c) ==
    /\ Request("migration")
    /\ reviewing = NotReviewing
    /\ clients[c].status \in {"LEGACY_ONLY", "INVITED"}
    /\ contact[c].email # None /\ contact[c].email \notin accounts
    /\ invitations[i].client = None
    /\ invitations' = [invitations EXCEPT ![i].client = c]
    /\ reviewing' = [NotReviewing EXCEPT !.op = "invite", !.client = c]
    /\ UNCHANGED <<clients, contact, accounts, importing, joining>>

linkToUser(c, e) ==
    /\ Request("migration")
    /\ reviewing = NotReviewing
    /\ clients[c].status \in {"MERGE_REQUIRED", "LEGACY_ONLY"}
    /\ e \in accounts /\ ~LinkedElsewhere(c, e)
    /\ reviewing' = [op |-> "link", client |-> c, user |-> e]
    /\ UNCHANGED <<clients, contact, accounts, invitations, importing, joining>>

ReviewWrites ==
    /\ Step("migration")
    /\ reviewing # NotReviewing
    /\ LET c == reviewing.client
       IN  clients' = CASE reviewing.op = "invite" -> [clients EXCEPT ![c].status = "INVITED"]
                        [] reviewing.op = "link" /\ LinkedElsewhere(c, reviewing.user) -> clients
                        [] OTHER -> [clients EXCEPT ![c] = [status |-> "MIGRATED", user |-> reviewing.user]]
    /\ reviewing' = NotReviewing
    /\ UNCHANGED <<contact, accounts, invitations, importing, joining>>

\* whatever the status was
disable(c) ==
    /\ Request("migration")
    /\ clients[c].status # "DISABLED"
    /\ clients' = [clients EXCEPT ![c].status = "DISABLED"]
    /\ UNCHANGED <<contact, accounts, invitations, importing, reviewing, joining>>

resetToPending(c) ==
    /\ Request("migration")
    /\ clients' = [clients EXCEPT ![c] = [status |-> "LEGACY_ONLY", user |-> None]]
    /\ UNCHANGED <<contact, accounts, invitations, importing, reviewing, joining>>

-----------------------------------------------------------------------------
(* The player *)
findValidInvitation(i) ==
    /\ invitations[i].client # None /\ ~invitations[i].used /\ ~invitations[i].expired
    /\ clients[invitations[i].client].status \in {"INVITED", "MIGRATION_PENDING"}

InvitationExpires(i) ==
    /\ Step("migration")
    /\ invitations[i].client # None /\ ~invitations[i].expired
    /\ invitations' = [invitations EXCEPT ![i].expired = TRUE]
    /\ UNCHANGED <<clients, contact, accounts, importing, reviewing, joining>>

\* the client is read with the invitation; nothing is written unless it is INVITED
validateToken(i) ==
    /\ Request("migration")
    /\ joining = NotJoining /\ findValidInvitation(i)
    /\ clients[invitations[i].client].status = "INVITED"
    /\ joining' = [pc |-> "open", token |-> i]
    /\ UNCHANGED <<clients, contact, accounts, invitations, importing, reviewing>>

confirm(i) ==
    /\ Request("migration")
    /\ joining = NotJoining /\ findValidInvitation(i)
    /\ contact[invitations[i].client].email \notin accounts
    /\ joining' = [pc |-> "create", token |-> i]
    /\ UNCHANGED <<clients, contact, accounts, invitations, importing, reviewing>>

JoinWrites ==
    LET c == invitations[joining.token].client
        e == contact[c].email
    IN  /\ Step("migration")
        /\ \/ /\ joining.pc = "open"
              /\ clients' = [clients EXCEPT ![c].status = "MIGRATION_PENDING"]
              /\ joining' = NotJoining
              /\ UNCHANGED <<accounts, invitations>>
           \/ /\ joining.pc = "create"               \* createUser: the address is unique
              /\ accounts' = accounts \cup {e}
              /\ joining' = IF e \in accounts THEN NotJoining ELSE [joining EXCEPT !.pc = "link"]
              /\ UNCHANGED <<clients, invitations>>
           \/ /\ joining.pc = "link"
              /\ clients' = IF LinkedElsewhere(c, e) THEN clients
                            ELSE [clients EXCEPT ![c] = [status |-> "MIGRATED", user |-> e]]
              /\ joining' = IF LinkedElsewhere(c, e) THEN NotJoining ELSE [joining EXCEPT !.pc = "use"]
              /\ UNCHANGED <<accounts, invitations>>
           \/ /\ joining.pc = "use"
              /\ invitations' = [invitations EXCEPT ![joining.token].used = TRUE]
              /\ joining' = NotJoining
              /\ UNCHANGED <<clients, accounts>>
        /\ UNCHANGED <<contact, importing, reviewing>>

\* the server stops: what was in progress is not resumed
MigrationCrash ==
    /\ Fault("migration")
    /\ importing # NotImporting \/ reviewing # NotReviewing \/ joining # NotJoining
    /\ importing' = NotImporting /\ reviewing' = NotReviewing /\ joining' = NotJoining
    /\ UNCHANGED <<clients, contact, accounts, invitations>>

MigrationNext ==
    \/ importClients \/ ImportWrites \/ ReviewWrites \/ JoinWrites \/ MigrationCrash
    \/ \E e \in Emails : registerDirectly(e)
    \/ \E c \in Clients :
        \/ ImportDecides(c) \/ disable(c) \/ resetToPending(c)
        \/ \E i \in Invitations : invite(i, c)
        \/ \E e \in Emails : linkToUser(c, e)
    \/ \E i \in Invitations : InvitationExpires(i) \/ validateToken(i) \/ confirm(i)

MigrationSpec == BaseInit /\ MigrationInit /\ [][MigrationNext]_<<baseVars, migrationVars>>

-----------------------------------------------------------------------------
(* However the import, the administrator and the player interleave, an      *)
(* account is the account of one client, it exists, a client that is        *)
(* MIGRATED has one, and the import gives a client no account but the one   *)
(* with its own address (client-dedup.ts:25; legacy-import.service.ts:49).  *)
OneClientPerAccount ==
    /\ \A c \in Clients :
        /\ clients[c].user # None => clients[c].user \in accounts /\ ~LinkedElsewhere(c, clients[c].user)
        /\ clients[c].status = "MIGRATED" => clients[c].user # None
        /\ clients[c].status = "LEGACY_ONLY" => clients[c].user = None
    /\ importing.decision = "MIGRATED" => contact[importing.client].email \in accounts

=============================================================================
