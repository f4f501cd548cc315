------------------------------ MODULE Identity ------------------------------
(***************************************************************************)
(* Accounts, sessions and what they open (modules/identity,                *)
(* http/auth-middleware, the role change of admin/crm.service).  A login   *)
(* reads the failures, then the account, then creates the session; a       *)
(* password reset writes the password, then its token, then revokes the    *)
(* sessions: each is several calls, and they interleave.                   *)
(*                                                                         *)
(* A password is the number of times it was changed.  An account has one   *)
(* token of each kind at a time here.  Names, addresses and telephones     *)
(* are left out, the uniqueness of the address being kept by Migration.    *)
(***************************************************************************)
EXTENDS ClubBase, Routes

CONSTANTS
    Users,         \* accounts
    Sessions,      \* sessions, and the logins that open them
    MaxFailures,   \* LOGIN_MAX_FAILED_ATTEMPTS
    MaxPasswords   \* bound: changes of one password

ASSUME IdentityAssumption == MaxFailures \in Nat \ {0} /\ MaxPasswords \in Nat

VARIABLES
    users,      \* users: status, role, password, password of the last completed reset
    userSessions,  \* sessions
    logins,     \* login handlers, after the password was verified
    guesses,    \* recorded failures of each account, and attempts being verified
    tokens,     \* email_verification_tokens, password_reset_tokens, email_change_tokens
    resets,     \* handlers of verifyEmail, resetPassword, confirmEmailChange
    request     \* a request past its guards: its route, the role it was given

identityVars == <<users, userSessions, logins, guesses, tokens, resets, request>>

Kinds == {"verify", "reset", "change"}
NoLogin == [user |-> None, password |-> 0, overtaken |-> FALSE]
NoReset == [pc |-> "none", password |-> 0]
NoRequest == [area |-> "none", needs |-> "none", role |-> "none"]

IdentityTypeOK ==
    /\ users \in [Users -> [status : {"absent", "PENDING_VERIFICATION", "ACTIVE"}, role : Roles,
                            password : 0..MaxPasswords, floor : 0..MaxPasswords]]
    /\ userSessions \in [Sessions -> [user : Users \cup {None}, live : BOOLEAN, late : BOOLEAN,
                                   password : 0..MaxPasswords, overtaken : BOOLEAN]]
    /\ logins \in [Sessions -> [user : Users \cup {None}, password : 0..MaxPasswords, overtaken : BOOLEAN]]
    /\ guesses \in [Users -> [failed : Nat, pending : Nat]]
    /\ tokens \in [Users \X Kinds -> {"none", "valid", "used", "expired"}]
    /\ resets \in [Users -> [pc : {"none", "activate", "mark", "revoke", "markChange"},
                             password : 0..MaxPasswords]]
    /\ request \in [area : Areas, needs : Needs, role : Roles \cup {"none"}] \cup {NoRequest}

IdentityInit ==
    /\ users = [u \in Users |-> [status |-> "absent", role |-> "CUSTOMER", password |-> 0, floor |-> 0]]
    /\ userSessions = [s \in Sessions |-> [user |-> None, live |-> FALSE, late |-> FALSE,
                                        password |-> 0, overtaken |-> FALSE]]
    /\ logins = [s \in Sessions |-> NoLogin]
    /\ guesses = [u \in Users |-> [failed |-> 0, pending |-> 0]]
    /\ tokens = [t \in Users \X Kinds |-> "none"]
    /\ resets = [u \in Users |-> NoReset]
    /\ request = NoRequest

\* findActiveSessionByTokenHash
Active(s) == userSessions[s].live /\ ~userSessions[s].late
createToken(u, kind) == tokens' = [tokens EXCEPT ![<<u, kind>>] = "valid"]
useToken(u, kind) == tokens' = [tokens EXCEPT ![<<u, kind>>] = "used"]

-----------------------------------------------------------------------------
(* Registration and verification of the address *)
register(u) ==
    /\ Request("identity")
    /\ users[u].status = "absent"
    /\ users' = [users EXCEPT ![u].status = "PENDING_VERIFICATION"]
    /\ createToken(u, "verify")
    /\ UNCHANGED <<userSessions, logins, guesses, resets, request>>

resendVerificationEmail(u) ==
    /\ Request("identity")
    /\ users[u].status = "PENDING_VERIFICATION" /\ tokens[<<u, "verify">>] # "valid"
    /\ createToken(u, "verify")
    /\ UNCHANGED <<users, userSessions, logins, guesses, resets, request>>

verifyEmail(u) ==
    /\ Request("identity")
    /\ tokens[<<u, "verify">>] = "valid" /\ resets[u] = NoReset
    /\ useToken(u, "verify")
    /\ resets' = [resets EXCEPT ![u].pc = "activate"]
    /\ UNCHANGED <<users, userSessions, logins, guesses, request>>

activateUser(u) ==
    /\ Step("identity")
    /\ resets[u].pc = "activate"
    /\ users' = [users EXCEPT ![u].status = "ACTIVE"]
    /\ resets' = [resets EXCEPT ![u] = NoReset]
    /\ UNCHANGED <<userSessions, logins, guesses, tokens, request>>

TokenDeadline(u, kind) ==
    /\ Step("identity")
    /\ tokens[<<u, kind>>] = "valid"
    /\ tokens' = [tokens EXCEPT ![<<u, kind>>] = "expired"]
    /\ UNCHANGED <<users, userSessions, logins, guesses, resets, request>>

-----------------------------------------------------------------------------
(* Login: the recent failures are counted first *)
NotBlocked(u) == guesses[u].failed < MaxFailures

login(s, u) ==
    /\ Request("identity")
    /\ NotBlocked(u) /\ users[u].status = "ACTIVE"
    /\ userSessions[s].user = None /\ logins[s] = NoLogin
    /\ logins' = [logins EXCEPT ![s] = [user |-> u, password |-> users[u].password, overtaken |-> FALSE]]
    /\ UNCHANGED <<users, userSessions, guesses, tokens, resets, request>>

openSession(s) ==
    /\ Step("identity")
    /\ logins[s] # NoLogin
    /\ userSessions' = [userSessions EXCEPT ![s] = [user |-> logins[s].user, live |-> TRUE, late |-> FALSE,
                            password |-> logins[s].password, overtaken |-> logins[s].overtaken]]
    /\ logins' = [logins EXCEPT ![s] = NoLogin]
    /\ UNCHANGED <<users, guesses, tokens, resets, request>>

\* a wrong password is verified, then recorded
WrongPassword(u) ==
    /\ Request("identity")
    /\ NotBlocked(u)
    /\ guesses' = [guesses EXCEPT ![u].pending = @ + 1]
    /\ UNCHANGED <<users, userSessions, logins, tokens, resets, request>>

recordLoginAttempt(u) ==
    /\ Step("identity")
    /\ guesses[u].pending > 0
    /\ guesses' = [guesses EXCEPT ![u] = [failed |-> @.failed + 1, pending |-> @.pending - 1]]
    /\ UNCHANGED <<users, userSessions, logins, tokens, resets, request>>

\* the window of countRecentFailedAttempts moves on
FailuresForgotten(u) ==
    /\ Step("identity")
    /\ guesses[u].failed > 0
    /\ guesses' = [guesses EXCEPT ![u].failed = 0]
    /\ UNCHANGED <<users, userSessions, logins, tokens, resets, request>>

-----------------------------------------------------------------------------
(* The end of sessions *)
logout(s) ==
    /\ Request("identity")
    /\ userSessions[s].live
    /\ userSessions' = [userSessions EXCEPT ![s].live = FALSE]
    /\ UNCHANGED <<users, logins, guesses, tokens, resets, request>>

SessionExpires(s) ==
    /\ Step("identity")
    /\ Active(s)
    /\ userSessions' = [userSessions EXCEPT ![s].late = TRUE]
    /\ UNCHANGED <<users, logins, guesses, tokens, resets, request>>

revokeAllSessionsForUser(u) ==
    userSessions' = [s \in Sessions |-> IF userSessions[s].user = u THEN [userSessions[s] EXCEPT !.live = FALSE]
                                     ELSE userSessions[s]]

logoutAll(s) ==
    /\ Request("identity")
    /\ Active(s)
    /\ revokeAllSessionsForUser(userSessions[s].user)
    /\ UNCHANGED <<users, logins, guesses, tokens, resets, request>>

-----------------------------------------------------------------------------
(* Passwords and addresses *)
NewPassword(u) == users' = [users EXCEPT ![u].password = @ + 1]

requestPasswordReset(u) ==
    /\ Request("identity")
    /\ users[u].status # "absent" /\ tokens[<<u, "reset">>] # "valid"
    /\ createToken(u, "reset")
    /\ UNCHANGED <<users, userSessions, logins, guesses, resets, request>>

resetPassword(u) ==
    /\ Request("identity")
    /\ tokens[<<u, "reset">>] = "valid" /\ resets[u] = NoReset
    /\ users[u].password < MaxPasswords
    /\ NewPassword(u)
    /\ resets' = [resets EXCEPT ![u] = [pc |-> "mark", password |-> users[u].password + 1]]
    /\ UNCHANGED <<userSessions, logins, guesses, tokens, request>>

markPasswordResetTokenUsed(u) ==
    /\ Step("identity")
    /\ resets[u].pc = "mark"
    /\ useToken(u, "reset")
    /\ resets' = [resets EXCEPT ![u].pc = "revoke"]
    /\ UNCHANGED <<users, userSessions, logins, guesses, request>>

\* mutant: a reset leaves the sessions open
ResetKeepsSessions(u) ==
    /\ Step("identity")
    /\ resets[u].pc = "revoke"
    /\ logins' = [s \in Sessions |-> [logins[s] EXCEPT !.overtaken = @ \/ logins[s].user = u]]
    /\ users' = [users EXCEPT ![u].floor = resets[u].password]
    /\ resets' = [resets EXCEPT ![u] = NoReset]
    /\ UNCHANGED <<userSessions, guesses, tokens, request>>

ResetRevokes(u) ==
    /\ Step("identity")
    /\ resets[u].pc = "revoke"
    /\ revokeAllSessionsForUser(u)
    /\ logins' = [s \in Sessions |-> [logins[s] EXCEPT !.overtaken = @ \/ logins[s].user = u]]
    /\ users' = [users EXCEPT ![u].floor = resets[u].password]
    /\ resets' = [resets EXCEPT ![u] = NoReset]
    /\ UNCHANGED <<guesses, tokens, request>>

\* the other sessions stay open
changePassword(s) ==
    /\ Request("identity")
    /\ Active(s) /\ users[userSessions[s].user].password < MaxPasswords
    /\ NewPassword(userSessions[s].user)
    /\ UNCHANGED <<userSessions, logins, guesses, tokens, resets, request>>

requestEmailChange(s) ==
    /\ Request("identity")
    /\ Active(s) /\ tokens[<<userSessions[s].user, "change">>] # "valid"
    /\ createToken(userSessions[s].user, "change")
    /\ UNCHANGED <<users, userSessions, logins, guesses, resets, request>>

\* the address is written, then the token
confirmEmailChange(u) ==
    /\ Request("identity")
    /\ tokens[<<u, "change">>] = "valid" /\ resets[u] = NoReset
    /\ resets' = [resets EXCEPT ![u].pc = "markChange"]
    /\ UNCHANGED <<users, userSessions, logins, guesses, tokens, request>>

markEmailChangeTokenUsed(u) ==
    /\ Step("identity")
    /\ resets[u].pc = "markChange"
    /\ useToken(u, "change")
    /\ resets' = [resets EXCEPT ![u] = NoReset]
    /\ UNCHANGED <<users, userSessions, logins, guesses, request>>

-----------------------------------------------------------------------------
(* What a session opens.  attachAuthUser reads the role once; the guards    *)
(* of the route use what it read, and the handler runs later.               *)
changeRole(u, role) ==
    /\ Request("identity")
    /\ users[u].status # "absent" /\ users[u].role # role
    /\ users' = [users EXCEPT ![u].role = role]
    /\ UNCHANGED <<userSessions, logins, guesses, tokens, resets, request>>

requireAuth(route) == route.needs \in {"user"} \cup Roles
Allowed(route, role) == route.needs = "user" \/ (route.needs \in Roles /\ roleAtLeast(role, route.needs))

attachAuthUser(s, route) ==
    /\ Request("identity")
    /\ request = NoRequest
    /\ Active(s) /\ requireAuth(route) /\ Allowed(route, users[userSessions[s].user].role)
    /\ request' = [area |-> route.area, needs |-> route.needs, role |-> users[userSessions[s].user].role]
    /\ UNCHANGED <<users, userSessions, logins, guesses, tokens, resets>>

\* no session is looked for: the route is open, or has its own proof
WithoutSession(route) ==
    /\ Request("identity")
    /\ request = NoRequest /\ ~requireAuth(route)
    /\ request' = [area |-> route.area, needs |-> route.needs, role |-> "none"]
    /\ UNCHANGED <<users, userSessions, logins, guesses, tokens, resets>>

Handled ==
    /\ Step("identity")
    /\ request # NoRequest
    /\ request' = NoRequest
    /\ UNCHANGED <<users, userSessions, logins, guesses, tokens, resets>>

\* the server stops
IdentityRestart ==
    /\ Fault("identity")
    /\ \/ \E s \in Sessions : logins[s] # NoLogin
       \/ \E u \in Users : resets[u] # NoReset
    /\ logins' = [s \in Sessions |-> NoLogin] /\ resets' = [u \in Users |-> NoReset]
    /\ guesses' = [u \in Users |-> [guesses[u] EXCEPT !.pending = 0]] /\ request' = NoRequest
    /\ UNCHANGED <<users, userSessions, tokens>>

\* routes that ask for the same thing in the same area are the same here
RouteClasses == {[area |-> r.area, needs |-> r.needs] : r \in Routes}

IdentityNext ==
    \/ \E u \in Users :
        \/ register(u) \/ resendVerificationEmail(u) \/ verifyEmail(u) \/ activateUser(u)
        \/ WrongPassword(u) \/ recordLoginAttempt(u) \/ FailuresForgotten(u)
        \/ requestPasswordReset(u) \/ resetPassword(u) \/ markPasswordResetTokenUsed(u)
        \/ ResetRevokes(u) \/ confirmEmailChange(u) \/ markEmailChangeTokenUsed(u)
        \/ \E kind \in Kinds : TokenDeadline(u, kind)
        \/ \E role \in Roles : changeRole(u, role)
        \/ \E s \in Sessions : login(s, u)
    \/ \E s \in Sessions :
        \/ openSession(s) \/ logout(s) \/ logoutAll(s) \/ SessionExpires(s)
        \/ changePassword(s) \/ requestEmailChange(s)
        \/ \E route \in RouteClasses : attachAuthUser(s, route)
    \/ \E route \in RouteClasses : WithoutSession(route)
    \/ Handled \/ IdentityRestart

IdentitySpec == BaseInit /\ IdentityInit /\ [][IdentityNext]_<<baseVars, identityVars>>

-----------------------------------------------------------------------------
(* Once a reset is over, no session opened with an earlier password is     *)
(* still open, unless its login was under way when the sessions were       *)
(* revoked (identity.service.ts:180-183 writes the password first and      *)
(* revokes last; login creates its session after both reads).  And what    *)
(* the desk or the administration does is done for somebody who was at     *)
(* least STAFF when the request was received.                              *)
SessionsFollowPasswords ==
    /\ \A s \in Sessions :
        userSessions[s].live /\ ~userSessions[s].overtaken =>
            userSessions[s].password >= users[userSessions[s].user].floor
    /\ \A s \in Sessions :
        logins[s] # NoLogin /\ ~logins[s].overtaken =>
            logins[s].password >= users[logins[s].user].floor
    /\ request.area \in {"admin", "nextore"} => request.role \in Roles /\ roleAtLeast(request.role, "STAFF")
=============================================================================
