-------------------------- MODULE ComponentProofs --------------------------
(***************************************************************************)
(* What the components of the club guarantee, each for itself.             *)
(*                                                                         *)
(* What members see of the club: the codes of the doors, for any number    *)
(* of bookings and of codes and any interleaving of provisioning,          *)
(* cancellation, failures and restarts; the commands of the device that    *)
(* opens them, for any number of polls, of lost answers and of restarts    *)
(* of the device; what concurrent calls of dispatch-due may not undo, for  *)
(* any number of notices, of dispatchers and of attempts; one client for   *)
(* one account, however the import, the administrator and the player       *)
(* interleave and wherever the server stops; no session that survives a    *)
(* change of the password it was opened with; no member forgotten by a     *)
(* synchronisation that reads a list growing under it.                     *)
(*                                                                         *)
(* What is sold and taken at the counter: one booking per session and the  *)
(* capacity of the courts, for any number of telephones that scan and of   *)
(* requests that add participants; the credit of a pack and its refunds,   *)
(* for any number of deliveries of the webhook beside the purchase, of     *)
(* requests of refund and of failures; each payment explained by one       *)
(* movement of the bank, for any number of imports that run together.  And *)
(* the pages that take the orders: the visitor pays what he was shown, in  *)
(* whatever order the answers come.                                        *)
(***************************************************************************)
EXTENDS DeviceSync, Outbox, CreditPacks, Desk, Migration, Identity, BookingPages, MemberSync,
        Reconciliation, Sums, SequenceTheorems, FiniteSetTheorems, TLAPS

-----------------------------------------------------------------------------
(***************************************************************************)
(* Access codes and the notification outbox.                               *)
(***************************************************************************)
accessStep == [AccessNext]_<<baseVars, accessVars>>

-----------------------------------------------------------------------------
\* How far a booking is: it generates a code once, before its row exists, and
\* a provisioning that outlives the cancellation is marked overtaken.
InOrder(b) ==
    /\ booked[b] = "CHECKOUT_PENDING" => granting[b] = "none" /\ revoking[b] = "none"
    /\ booked[b] = "CHECKOUT_PENDING" \/ granting[b] = "generate" =>
        grants[b].status = "absent" /\ grants[b].saw = {}
    /\ booked[b] = "CONFIRMED" => revoking[b] = "none"
    /\ booked[b] = "CANCELED" /\ granting[b] # "none" => grants[b].overtaken
    /\ granting[b] = "create" => grants[b].status = "absent"
    /\ revoking[b] = "write" => grants[b].status # "absent"

Revoked(b) == booked[b] = "CANCELED" /\ revoking[b] = "none" /\ Live(b) => grants[b].overtaken

\* A generation that saw the row of a booking chose another code, and the code
\* of a booking does not change once its row exists.
Apart(b, c) ==
    b # c /\ b \in grants[c].saw => grants[b].status # "absent" /\ grants[b].code # grants[c].code

AccessInv ==
    /\ AccessTypeOK
    /\ \A b \in Bookings : InOrder(b) /\ Revoked(b)
    /\ \A b, c \in Bookings : Apart(b, c)

-----------------------------------------------------------------------------
\* The first state satisfies the invariant.
LEMMA AccessStart == AccessInit => AccessInv
BY DEF AccessInit, AccessInv, AccessTypeOK, GrantStatus, InOrder, Revoked, Apart, Live

GrantRow == [status : GrantStatus, code : Codes \cup {None}, origin : {"V2_GENERATED", "LEGACY_IMPORTED"},
             saw : SUBSET Bookings, overtaken : BOOLEAN]

\* A row written by its handler keeps the rest of the row, and the other rows.
LEMMA StatusWritten ==
    ASSUME AccessTypeOK, NEW b \in Bookings, NEW s \in GrantStatus, updateStatus(b, s)
    PROVE  /\ grants' \in [Bookings -> GrantRow]
           /\ grants'[b].status = s
           /\ grants'[b].code = grants[b].code /\ grants'[b].origin = grants[b].origin
           /\ grants'[b].saw = grants[b].saw /\ grants'[b].overtaken = grants[b].overtaken
           /\ \A c \in Bookings \ {b} : grants'[c] = grants[c]
BY DEF AccessTypeOK, GrantRow, updateStatus

\* A status other than "absent" keeps the codes apart.
LEMMA ApartAfterStatus ==
    ASSUME AccessInv, NEW b \in Bookings, NEW s \in GrantStatus \ {"absent"}, updateStatus(b, s)
    PROVE  \A d, c \in Bookings : Apart(d, c)'
<1> USE StatusWritten DEF GrantRow, AccessInv
<1> SUFFICES ASSUME NEW d \in Bookings, NEW c \in Bookings  PROVE Apart(d, c)'
  OBVIOUS
<1>1. grants'[d].code = grants[d].code /\ grants'[c].code = grants[c].code /\ grants'[c].saw = grants[c].saw
  OBVIOUS
<1>2. grants[d].status # "absent" => grants'[d].status # "absent"
  OBVIOUS
<1> QED  BY <1>1, <1>2 DEF Apart

\* Provisioning: confirmation, import or generation, row, answer of the provider.
LEMMA GrantingKeeps ==
    ASSUME AccessInv, NEW b \in Bookings,
           \/ Confirm(b) \/ GenerationExhausted(b) \/ CreateGrant(b) \/ Provisioned(b)
           \/ ProvisioningFailed(b)
           \/ \E code \in Codes : ImportLegacyGrant(b, code) \/ GenerateCode(b, code)
    PROVE  AccessInv'
<1> USE DEF AccessInv, AccessTypeOK
<1>1. CASE Confirm(b)
  BY <1>1 DEF Confirm, InOrder, Revoked, Apart, Live
<1>2. CASE GenerationExhausted(b)
  BY <1>2 DEF GenerationExhausted, InOrder, Revoked, Apart, Live
<1>3. CASE CreateGrant(b)
  <2>1. "PENDING" \in GrantStatus \ {"absent"}  BY DEF GrantStatus
  <2>2. \A d, c \in Bookings : Apart(d, c)'  BY <1>3, <2>1, ApartAfterStatus DEF CreateGrant
  <2>3. AccessTypeOK'  BY <1>3, <2>1, StatusWritten DEF GrantRow, CreateGrant
  <2>4. \A c \in Bookings : InOrder(c)' /\ Revoked(c)'
    BY <1>3, <2>1, StatusWritten DEF GrantRow, CreateGrant, InOrder, Revoked, Live
  <2> QED  BY <2>2, <2>3, <2>4
<1>4. CASE Provisioned(b)
  <2>1. "ACTIVE" \in GrantStatus \ {"absent"}  BY DEF GrantStatus
  <2>2. \A d, c \in Bookings : Apart(d, c)'  BY <1>4, <2>1, ApartAfterStatus DEF Provisioned
  <2>3. AccessTypeOK'  BY <1>4, <2>1, StatusWritten DEF GrantRow, Provisioned
  <2>4. \A c \in Bookings : InOrder(c)' /\ Revoked(c)'
    BY <1>4, <2>1, StatusWritten DEF GrantRow, Provisioned, InOrder, Revoked, Live
  <2> QED  BY <2>2, <2>3, <2>4
<1>5. CASE ProvisioningFailed(b)
  <2>1. "FAILED" \in GrantStatus \ {"absent"}  BY DEF GrantStatus
  <2>2. \A d, c \in Bookings : Apart(d, c)'  BY <1>5, <2>1, ApartAfterStatus DEF ProvisioningFailed
  <2>3. AccessTypeOK'  BY <1>5, <2>1, StatusWritten DEF GrantRow, ProvisioningFailed
  <2>4. \A c \in Bookings : InOrder(c)' /\ Revoked(c)'
    BY <1>5, <2>1, StatusWritten DEF GrantRow, ProvisioningFailed, InOrder, Revoked, Live
  <2> QED  BY <2>2, <2>3, <2>4
<1>6. ASSUME NEW code \in Codes, ImportLegacyGrant(b, code)  PROVE AccessInv'
  <2> DEFINE row == [grants[b] EXCEPT !.status = "ACTIVE", !.code = code, !.origin = "LEGACY_IMPORTED"]
  <2>r. grants' = [grants EXCEPT ![b] = row]  BY <1>6 DEF ImportLegacyGrant
  <2>i. granting[b] = "generate" /\ UNCHANGED <<booked, revoking, others>>
    BY <1>6 DEF ImportLegacyGrant
  <2>n. granting' = [granting EXCEPT ![b] = "none"]  BY <1>6 DEF ImportLegacyGrant
  <2>g. grants[b] \in GrantRow /\ code \in Codes \cup {None}  BY <1>6 DEF GrantRow
  <2>f. /\ row \in GrantRow /\ row.status = "ACTIVE"
        /\ row.saw = grants[b].saw /\ row.overtaken = grants[b].overtaken
    BY <2>g DEF GrantRow, GrantStatus
  <2> HIDE DEF row
  <2>1. /\ grants'[b].status = "ACTIVE"
        /\ grants'[b].saw = grants[b].saw /\ grants'[b].overtaken = grants[b].overtaken
        /\ \A c \in Bookings \ {b} : grants'[c] = grants[c]
    BY <2>r, <2>f
  <2>2. AccessTypeOK'  BY <2>i, <2>n, <2>r, <2>f DEF GrantRow
  <2>3. grants[b].status = "absent" /\ grants[b].saw = {}  BY <1>6 DEF ImportLegacyGrant, InOrder
  <2>4. \A c \in Bookings : InOrder(c)' /\ Revoked(c)'
    BY <2>i, <2>n, <2>1, <2>3 DEF InOrder, Revoked, Live
  <2>5. \A d, c \in Bookings : Apart(d, c)'  BY <2>1, <2>3 DEF Apart
  <2> QED  BY <2>2, <2>4, <2>5
<1>7. ASSUME NEW code \in Codes, GenerateCode(b, code)  PROVE AccessInv'
  <2> DEFINE row == [grants[b] EXCEPT !.code = code, !.saw = findOverlappingActive]
  <2>r. grants' = [grants EXCEPT ![b] = row]  BY <1>7 DEF GenerateCode
  <2>i. granting[b] = "generate" /\ UNCHANGED <<booked, revoking, others>>
    BY <1>7 DEF GenerateCode
  <2>n. granting' = [granting EXCEPT ![b] = "create"]  BY <1>7 DEF GenerateCode
  <2>s. findOverlappingActive \in SUBSET Bookings  BY DEF findOverlappingActive
  <2>g. grants[b] \in GrantRow /\ code \in Codes \cup {None}  BY <1>7 DEF GrantRow
  <2>f. /\ row \in GrantRow /\ row.status = grants[b].status /\ row.overtaken = grants[b].overtaken
        /\ row.code = code /\ row.saw = findOverlappingActive
    BY <2>g, <2>s DEF GrantRow
  <2> HIDE DEF row
  <2>1. /\ grants'[b].status = grants[b].status /\ grants'[b].overtaken = grants[b].overtaken
        /\ grants'[b].code = code /\ grants'[b].saw = findOverlappingActive
        /\ \A c \in Bookings \ {b} : grants'[c] = grants[c]
    BY <2>r, <2>f
  <2>2. AccessTypeOK'  BY <2>i, <2>n, <2>r, <2>f DEF GrantRow
  <2>3. grants[b].status = "absent"  BY <1>7 DEF GenerateCode, InOrder
  <2>4. \A c \in Bookings : InOrder(c)' /\ Revoked(c)'
    BY <2>i, <2>n, <2>1, <2>3 DEF InOrder, Revoked, Live
  <2>5. \A c \in findOverlappingActive : grants[c].status # "absent" /\ grants[c].code # code
    BY <1>7 DEF GenerateCode, Collides, findOverlappingActive, Live
  <2>6. \A d, c \in Bookings : Apart(d, c)'  BY <2>1, <2>3, <2>5 DEF Apart
  <2> QED  BY <2>2, <2>4, <2>6
<1> QED  BY <1>1, <1>2, <1>3, <1>4, <1>5, <1>6, <1>7

\* Cancellation, revocation and the restart that cuts them.
LEMMA RevokingKeeps ==
    ASSUME AccessInv, NEW b \in Bookings,
           CancelBooked(b) \/ RevokeFind(b) \/ RevokeWrite(b) \/ AccessRestart(b)
    PROVE  AccessInv'
<1> USE DEF AccessInv, AccessTypeOK
<1>1. CASE CancelBooked(b)
  <2>b. PICK late \in BOOLEAN : late <=> granting[b] # "none"
    OBVIOUS
  <2>g. grants' = [grants EXCEPT ![b].overtaken = late]
    <3>1. CASE late  BY <1>1, <3>1, <2>b DEF CancelBooked
    <3>2. CASE ~late  BY <1>1, <3>2, <2>b DEF CancelBooked
    <3> QED  BY <3>1, <3>2
  <2>1. /\ grants'[b].status = grants[b].status /\ grants'[b].code = grants[b].code
        /\ grants'[b].saw = grants[b].saw /\ grants'[b].overtaken = late
        /\ \A c \in Bookings \ {b} : grants'[c] = grants[c]
    BY <2>g
  <2>2. AccessTypeOK'  BY <1>1, <2>g DEF CancelBooked
  <2>3. \A c \in Bookings : InOrder(c)' /\ Revoked(c)'
    BY <1>1, <2>1, <2>b DEF CancelBooked, InOrder, Revoked, Live
  <2>4. \A d, c \in Bookings : Apart(d, c)'  BY <2>1 DEF Apart
  <2> QED  BY <2>2, <2>3, <2>4
<1>2. CASE RevokeFind(b)
  BY <1>2 DEF RevokeFind, findActiveByBookingId, InOrder, Revoked, Apart, Live
<1>3. CASE RevokeWrite(b)
  <2>1. "REVOKED" \in GrantStatus \ {"absent"}  BY DEF GrantStatus
  <2>2. \A d, c \in Bookings : Apart(d, c)'  BY <1>3, <2>1, ApartAfterStatus DEF RevokeWrite
  <2>3. AccessTypeOK'  BY <1>3, <2>1, StatusWritten DEF GrantRow, RevokeWrite
  <2>4. \A c \in Bookings : InOrder(c)' /\ Revoked(c)'
    BY <1>3, <2>1, StatusWritten DEF GrantRow, RevokeWrite, InOrder, Revoked, Live
  <2> QED  BY <2>2, <2>3, <2>4
<1>4. CASE AccessRestart(b)
  <2>1. /\ grants'[b].status = grants[b].status /\ grants'[b].code = grants[b].code
        /\ grants'[b].saw = grants[b].saw /\ grants'[b].overtaken
        /\ \A c \in Bookings \ {b} : grants'[c] = grants[c]
    BY <1>4 DEF AccessRestart
  <2>2. AccessTypeOK'  BY <1>4 DEF AccessRestart
  <2>3. \A c \in Bookings : InOrder(c)' /\ Revoked(c)'
    BY <1>4, <2>1 DEF AccessRestart, InOrder, Revoked, Live
  <2>4. \A d, c \in Bookings : Apart(d, c)'  BY <2>1 DEF Apart
  <2> QED  BY <2>2, <2>3, <2>4
<1> QED  BY <1>1, <1>2, <1>3, <1>4

\* The codes of the staff and of Doinsport touch no booking.
LEMMA OthersKeep ==
    ASSUME AccessInv,
           \/ \E code \in OtherCodes : createStaffCode(code)
           \/ revokeStaffCode \/ StaffCodeDeadline
           \/ \E code \in OtherCodes \cup {None} : DoinsportCode(code)
           \/ UNCHANGED <<baseVars, accessVars>>
    PROVE  AccessInv'
<1>1. UNCHANGED <<booked, grants, granting, revoking>>
  BY DEF createStaffCode, revokeStaffCode, StaffCodeDeadline, DoinsportCode, accessVars
<1> DEFINE Others == [staff : Codes \cup {None}, staffLate : BOOLEAN, doinsport : Codes \cup {None}]
<1>2. others \in Others  BY DEF AccessInv, AccessTypeOK
<1>3. others' \in Others
  <2>1. ASSUME NEW code \in OtherCodes, createStaffCode(code)  PROVE others' \in Others
    <3>1. code \in Codes  BY <2>1, AccessAssumption
    <3> QED  BY <1>2, <2>1, <3>1 DEF createStaffCode
  <2>2. CASE revokeStaffCode  BY <1>2, <2>2 DEF revokeStaffCode
  <2>3. CASE StaffCodeDeadline  BY <1>2, <2>3 DEF StaffCodeDeadline
  <2>4. ASSUME NEW code \in OtherCodes \cup {None}, DoinsportCode(code)  PROVE others' \in Others
    <3>1. code \in Codes \cup {None}  BY <2>4, AccessAssumption
    <3> QED  BY <1>2, <2>4, <3>1 DEF DoinsportCode
  <2>5. CASE UNCHANGED <<baseVars, accessVars>>  BY <1>2, <2>5 DEF accessVars
  <2> HIDE DEF Others
  <2> QED  BY <2>1, <2>2, <2>3, <2>4, <2>5
<1>4. AccessTypeOK'  BY <1>1, <1>3 DEF AccessInv, AccessTypeOK
<1> QED  BY <1>1, <1>4 DEF AccessInv, InOrder, Revoked, Apart, Live

-----------------------------------------------------------------------------
\* Every step keeps the invariant.
LEMMA AccessKeeps == AccessInv /\ accessStep => AccessInv'
BY GrantingKeeps, RevokingKeeps, OthersKeep DEF accessStep, AccessNext

\* The invariant gives the property: generated codes that saw one another differ.
LEMMA CodesFromInv == AccessInv => CodesFollowBookings
BY DEF AccessInv, CodesFollowBookings, Revoked, Apart

\* The rows of the grants, their handlers and the other codes keep their types.
THEOREM AccessTyped == AccessSpec => []AccessTypeOK
<1>1. AccessInv => AccessTypeOK  BY DEF AccessInv
<1> QED  BY <1>1, AccessStart, AccessKeeps, PTL DEF AccessSpec, accessStep

\* However a provisioning, a cancellation, failures and restarts interleave, no
\* canceled booking keeps a working code once its revocation is over, unless
\* the provisioning was under way or a restart cut one of the two, and a
\* generated code differs from every code its generation could see.
THEOREM CodesFollow == AccessSpec => []CodesFollowBookings
BY AccessStart, AccessKeeps, CodesFromInv, PTL DEF AccessSpec, accessStep

-----------------------------------------------------------------------------
outboxStep == [OutboxNext]_<<baseVars, outboxVars>>

-----------------------------------------------------------------------------
\* A dispatcher sends a notification of its own batch.
InBatch == \A d \in Dispatchers : dispatch[d].at # None => dispatch[d].at \in dispatch[d].due

\* A notification never held by two dispatchers together has one holder at
\* most, and none once it is settled.
OneHolder ==
    \A n \in Notices : ~outbox[n].shared =>
        /\ \A d, e \in Dispatchers : n \in dispatch[d].due /\ n \in dispatch[e].due => d = e
        /\ Settled(n) => \A d \in Dispatchers : n \notin dispatch[d].due

OutboxInv == OutboxTypeOK /\ InBatch /\ OneHolder

-----------------------------------------------------------------------------
\* The first state satisfies the invariant.
LEMMA OutboxStart == OutboxInit => OutboxInv
BY DEF OutboxInit, OutboxInv, OutboxTypeOK, NoticeRow, Batch, Waiting, InBatch, OneHolder

\* A dispatcher treats a notification of its batch, and the row gets a status.
LEMMA RowTreated ==
    ASSUME OutboxInv, NEW d \in Dispatchers, NEW n \in dispatch[d].due, NEW row \in NoticeRow,
           n \in Notices, row.shared = outbox[n].shared,
           outbox' = [outbox EXCEPT ![n] = row], dispatch' = Treated(d, n)
    PROVE  OutboxInv'
<1> USE DEF OutboxInv
<1> DEFINE batch == Without(dispatch[d], n)
<1>t. dispatch[d] \in Batch /\ dispatch \in [Dispatchers -> Batch] /\ outbox \in [Notices -> NoticeRow]
  BY DEF OutboxTypeOK
<1>b. dispatch' = [dispatch EXCEPT ![d] = batch]  BY DEF Treated
<1>c. batch \in Batch /\ batch.due = dispatch[d].due \ {n} /\ batch.at = None
  <2> HIDE DEF OutboxInv
  <2> QED  BY <1>t DEF Batch, Without
<1> HIDE DEF batch
<1>1. /\ \A m \in Notices : outbox'[m] = IF m = n THEN row ELSE outbox[m]
      /\ \A e \in Dispatchers :
            /\ dispatch'[e].due = IF e = d THEN dispatch[d].due \ {n} ELSE dispatch[e].due
            /\ dispatch'[e].at = IF e = d THEN None ELSE dispatch[e].at
  BY <1>t, <1>b, <1>c
<1>2. OutboxTypeOK'
  BY <1>t, <1>b, <1>c DEF OutboxTypeOK
<1>3. InBatch'  BY <1>1 DEF InBatch
<1>4. OneHolder'
  <2> SUFFICES ASSUME NEW m \in Notices, ~outbox'[m].shared
               PROVE  /\ \A a, b \in Dispatchers : m \in dispatch'[a].due /\ m \in dispatch'[b].due => a = b
                      /\ Settled(m)' => \A a \in Dispatchers : m \notin dispatch'[a].due
    BY DEF OneHolder
  <2>1. ~outbox[m].shared  BY <1>1
  <2>2. \A a, b \in Dispatchers : m \in dispatch'[a].due /\ m \in dispatch'[b].due => a = b
    BY <1>1, <2>1 DEF OneHolder
  <2>3. CASE m = n  BY <1>1, <2>1, <2>2, <2>3 DEF OneHolder
  <2>4. CASE m # n  BY <1>1, <2>1, <2>2, <2>4 DEF OneHolder, Settled
  <2> QED  BY <2>3, <2>4
<1> QED  BY <1>2, <1>3, <1>4

\* A row marked, as SENT or after a failure, is still a row.
LEMMA Marked ==
    ASSUME OutboxTypeOK, NEW n \in Notices, NEW read \in Nat
    PROVE  /\ [outbox[n] EXCEPT !.status = "SENT"] \in NoticeRow
           /\ markSent(n) = [outbox EXCEPT ![n] = [outbox[n] EXCEPT !.status = "SENT"]]
           /\ [outbox[n] EXCEPT !.attempts = read + 1,
                                !.status = IF read + 1 >= MaxAttempts THEN "FAILED" ELSE "PENDING"] \in NoticeRow
           /\ markFailed(n, read) =
                [outbox EXCEPT ![n] = [outbox[n] EXCEPT !.attempts = read + 1,
                                !.status = IF read + 1 >= MaxAttempts THEN "FAILED" ELSE "PENDING"]]
<1> DEFINE s == IF read + 1 >= MaxAttempts THEN "FAILED" ELSE "PENDING"
<1>1. outbox[n] \in NoticeRow /\ outbox \in [Notices -> NoticeRow]  BY DEF OutboxTypeOK
<1>2. s \in {"FAILED", "PENDING"} /\ read + 1 \in Nat  OBVIOUS
<1>3. markFailed(n, read) = [outbox EXCEPT ![n].attempts = read + 1, ![n].status = s]
  BY DEF markFailed
<1> HIDE DEF s
<1>4. [outbox[n] EXCEPT !.attempts = read + 1, !.status = s] \in NoticeRow
  BY <1>1, <1>2 DEF NoticeRow
<1>5. [outbox EXCEPT ![n].attempts = read + 1, ![n].status = s]
        = [outbox EXCEPT ![n] = [outbox[n] EXCEPT !.attempts = read + 1, !.status = s]]
  BY <1>1 DEF NoticeRow
<1>6. [outbox[n] EXCEPT !.status = "SENT"] \in NoticeRow  BY <1>1 DEF NoticeRow
<1>7. markSent(n) = [outbox EXCEPT ![n] = [outbox[n] EXCEPT !.status = "SENT"]]
  BY <1>1 DEF markSent
<1> QED  BY <1>3, <1>4, <1>5, <1>6, <1>7 DEF s

\* Every step keeps the invariant.
LEMMA OutboxStep == OutboxInv /\ outboxStep => OutboxInv'
<1> SUFFICES ASSUME OutboxInv, outboxStep PROVE OutboxInv'
  OBVIOUS
<1>t. outbox \in [Notices -> NoticeRow] /\ dispatch \in [Dispatchers -> Batch]
  BY DEF OutboxInv, OutboxTypeOK
<1>1. ASSUME NEW n \in Notices, enqueue(n) PROVE OutboxInv'
  <2>1. \A m \in Notices : outbox'[m] = IF m = n THEN [outbox[n] EXCEPT !.status = "PENDING"] ELSE outbox[m]
    BY <1>1, <1>t DEF enqueue
  <2>2. outbox' \in [Notices -> NoticeRow]
    <3>1. [outbox[n] EXCEPT !.status = "PENDING"] \in NoticeRow  BY <1>t DEF NoticeRow
    <3> QED  BY <1>1, <1>t, <3>1 DEF enqueue
  <2>3. /\ \A m \in Notices : outbox'[m].shared = outbox[m].shared
        /\ outbox'[n].status = "PENDING"
    BY <2>1, <1>t DEF NoticeRow
  <2>4. dispatch' = dispatch  BY <1>1 DEF enqueue
  <2> QED  BY <2>1, <2>2, <2>3, <2>4 DEF OutboxInv, OutboxTypeOK, InBatch, OneHolder, Settled
<1>2. ASSUME NEW d \in Dispatchers, dispatchDue(d) PROVE OutboxInv'
  <2> DEFINE seen == [n \in Notices |-> outbox[n].attempts]
  <2>1. /\ \A e \in Dispatchers : dispatch'[e] = IF e = d THEN [due |-> findDue, at |-> None, seen |-> seen]
                                                ELSE dispatch[e]
        /\ dispatch[d].due = {}
    BY <1>2, <1>t DEF dispatchDue, Busy
  <2>2. seen \in [Notices -> Nat] /\ findDue \in SUBSET Notices  BY <1>t DEF NoticeRow, findDue
  <2>3. \A n \in Notices : outbox'[n] = IF n \in findDue /\ HeldByOther(d, n)
                                        THEN [outbox[n] EXCEPT !.shared = TRUE] ELSE outbox[n]
    BY <1>2 DEF dispatchDue
  <2>4. \A n \in Notices : [outbox[n] EXCEPT !.shared = TRUE] \in NoticeRow  BY <1>t DEF NoticeRow
  <2>5. OutboxTypeOK'
    <3>1. outbox' \in [Notices -> NoticeRow]  BY <1>2, <1>t, <2>4 DEF dispatchDue
    <3>2. [due |-> findDue, at |-> None, seen |-> seen] \in Batch  BY <2>2 DEF Batch
    <3>3. dispatch' \in [Dispatchers -> Batch]  BY <1>2, <1>t, <3>2 DEF dispatchDue
    <3> QED  BY <3>1, <3>3 DEF OutboxTypeOK
  <2>6. InBatch'
    <3>1. \A e \in Dispatchers : e = d \/ dispatch'[e] = dispatch[e]  BY <2>1
    <3>2. dispatch'[d].at = None
      <4> HIDE DEF seen
      <4> QED  BY <2>1
    <3> QED  BY <3>1, <3>2 DEF OutboxInv, InBatch
  <2>7. \A n \in Notices : /\ outbox'[n].status = outbox[n].status
                           /\ outbox'[n].shared = (outbox[n].shared \/ (n \in findDue /\ HeldByOther(d, n)))
    BY <2>3, <1>t DEF NoticeRow
  <2>8. \A e \in Dispatchers : dispatch'[e].due = IF e = d THEN findDue ELSE dispatch[e].due
    <3> HIDE DEF seen
    <3> QED  BY <2>1
  <2>9. OneHolder'
    BY <2>7, <2>8 DEF OutboxInv, OneHolder, HeldByOther, findDue, Settled
  <2> QED  BY <2>5, <2>6, <2>9 DEF OutboxInv
<1>3. ASSUME NEW d \in Dispatchers, NEW n \in Notices, SendMail(d, n) PROVE OutboxInv'
  <2>1. \A m \in Notices : outbox'[m] = IF m = n THEN [outbox[n] EXCEPT !.mails = @ + 1] ELSE outbox[m]
    BY <1>3, <1>t DEF SendMail
  <2>2. \A e \in Dispatchers : dispatch'[e] = IF e = d THEN [dispatch[d] EXCEPT !.at = n] ELSE dispatch[e]
    BY <1>3, <1>t DEF SendMail
  <2>3. OutboxTypeOK'
    <3>1. [outbox[n] EXCEPT !.mails = @ + 1] \in NoticeRow  BY <1>t DEF NoticeRow
    <3>2. [dispatch[d] EXCEPT !.at = n] \in Batch  BY <1>t DEF Batch
    <3> QED  BY <1>3, <1>t, <3>1, <3>2 DEF SendMail, OutboxTypeOK
  <2>4. \A m \in Notices : outbox'[m].status = outbox[m].status /\ outbox'[m].shared = outbox[m].shared
    BY <2>1, <1>t DEF NoticeRow
  <2>5. \A e \in Dispatchers : /\ dispatch'[e].due = dispatch[e].due
                               /\ dispatch'[e].at = IF e = d THEN n ELSE dispatch[e].at
    BY <2>2, <1>t DEF Batch
  <2>6. n \in dispatch[d].due  BY <1>3 DEF SendMail
  <2> QED  BY <2>3, <2>4, <2>5, <2>6 DEF OutboxInv, InBatch, OneHolder, Settled
<1>4. ASSUME NEW d \in Dispatchers, NEW n \in Notices, SendMailFails(d, n) PROVE OutboxInv'
  <2>1. dispatch[d].seen[n] \in Nat /\ n \in dispatch[d].due
    BY <1>4, <1>t DEF SendMailFails, Batch
  <2> DEFINE row == [outbox[n] EXCEPT !.attempts = dispatch[d].seen[n] + 1,
                         !.status = IF dispatch[d].seen[n] + 1 >= MaxAttempts THEN "FAILED" ELSE "PENDING"]
  <2>2. row \in NoticeRow /\ outbox' = [outbox EXCEPT ![n] = row]
    BY <1>4, <2>1, Marked DEF SendMailFails, OutboxInv
  <2>3. row.shared = outbox[n].shared  BY <1>t DEF NoticeRow
  <2>4. dispatch' = Treated(d, n)  BY <1>4 DEF SendMailFails
  <2> HIDE DEF row
  <2> QED  BY <2>1, <2>2, <2>3, <2>4, RowTreated
<1>5. ASSUME NEW d \in Dispatchers, MailSent(d) \/ MarkSentFails(d) PROVE OutboxInv'
  <2> DEFINE n == dispatch[d].at
  <2>1. n \in Notices /\ n \in dispatch[d].due /\ dispatch[d].seen[n] \in Nat
    <3>1. n # None  BY <1>5 DEF MailSent, MarkSentFails
    <3>2. dispatch[d] \in Batch  BY <1>t
    <3> QED  BY <3>1, <3>2 DEF Batch, OutboxInv, InBatch
  <2>2. dispatch' = Treated(d, n)  BY <1>5 DEF MailSent, MarkSentFails
  <2>3. CASE MailSent(d)
    <3> DEFINE row == [outbox[n] EXCEPT !.status = "SENT"]
    <3>1. row \in NoticeRow /\ outbox' = [outbox EXCEPT ![n] = row]
      BY <2>3, <2>1, Marked DEF MailSent, OutboxInv
    <3>2. row.shared = outbox[n].shared  BY <1>t, <2>1 DEF NoticeRow
    <3> HIDE DEF row, n
    <3> QED  BY <2>1, <2>2, <3>1, <3>2, RowTreated
  <2>4. CASE MarkSentFails(d)
    <3> DEFINE row == [outbox[n] EXCEPT !.attempts = dispatch[d].seen[n] + 1,
                         !.status = IF dispatch[d].seen[n] + 1 >= MaxAttempts THEN "FAILED" ELSE "PENDING"]
    <3>1. row \in NoticeRow /\ outbox' = [outbox EXCEPT ![n] = row]
      BY <2>4, <2>1, Marked DEF MarkSentFails, OutboxInv
    <3>2. row.shared = outbox[n].shared  BY <1>t, <2>1 DEF NoticeRow
    <3> HIDE DEF row, n
    <3> QED  BY <2>1, <2>2, <3>1, <3>2, RowTreated
  <2> QED  BY <1>5, <2>3, <2>4
<1>6. ASSUME NEW d \in Dispatchers, DispatchRestart(d) PROVE OutboxInv'
  <2>1. \A e \in Dispatchers : dispatch'[e] = IF e = d THEN Waiting ELSE dispatch[e]
    BY <1>6, <1>t DEF DispatchRestart
  <2>2. outbox' = outbox  BY <1>6 DEF DispatchRestart
  <2>3. Waiting \in Batch /\ Waiting.due = {} /\ Waiting.at = None  BY DEF Waiting, Batch
  <2>4. dispatch' \in [Dispatchers -> Batch]  BY <1>6, <1>t, <2>3 DEF DispatchRestart
  <2> QED  BY <2>1, <2>2, <2>3, <2>4 DEF OutboxInv, OutboxTypeOK, InBatch, OneHolder, Settled
<1>7. CASE UNCHANGED <<baseVars, outboxVars>>
  BY <1>7 DEF outboxVars, OutboxInv, OutboxTypeOK, InBatch, OneHolder, Settled
<1> QED  BY <1>1, <1>2, <1>3, <1>4, <1>5, <1>6, <1>7 DEF outboxStep, OutboxNext

\* The rows of the outbox and the batches of the dispatchers keep their types.
THEOREM OutboxTyped == OutboxSpec => []OutboxTypeOK
<1>1. OutboxInv => OutboxTypeOK  BY DEF OutboxInv
<1> QED  BY <1>1, OutboxStart, OutboxStep, PTL DEF OutboxSpec, outboxStep

-----------------------------------------------------------------------------
\* A settled notification that two dispatchers never held together is neither
\* sent again nor given another status.
LEMMA SettledStays ==
    ASSUME OutboxInv, outboxStep, NEW n \in Notices, Settled(n), ~outbox[n].shared
    PROVE  outbox'[n].status = outbox[n].status /\ outbox'[n].mails = outbox[n].mails
<1>t. outbox \in [Notices -> NoticeRow]  BY DEF OutboxInv, OutboxTypeOK
<1>1. \A d \in Dispatchers : n \notin dispatch[d].due  BY DEF OutboxInv, OneHolder
<1>2. ASSUME NEW m \in Notices, enqueue(m) PROVE outbox'[n] = outbox[n]
  <2>1. m # n  BY <1>2 DEF enqueue, Settled
  <2> QED  BY <1>2, <1>t, <2>1 DEF enqueue
<1>3. ASSUME NEW d \in Dispatchers, dispatchDue(d)
      PROVE  outbox'[n].status = outbox[n].status /\ outbox'[n].mails = outbox[n].mails
  <2>1. n \notin findDue  BY DEF findDue, Settled
  <2>2. outbox'[n] = outbox[n]  BY <1>3, <2>1 DEF dispatchDue
  <2> QED  BY <2>2
<1>4. ASSUME NEW d \in Dispatchers, NEW m \in Notices, SendMail(d, m) \/ SendMailFails(d, m)
      PROVE  outbox'[n] = outbox[n]
  <2>1. m # n  BY <1>1, <1>4 DEF SendMail, SendMailFails
  <2> QED  BY <1>4, <1>t, <2>1 DEF SendMail, SendMailFails, markFailed
<1>5. ASSUME NEW d \in Dispatchers, MailSent(d) \/ MarkSentFails(d) PROVE outbox'[n] = outbox[n]
  <2>1. dispatch[d].at # n
    BY <1>1, <1>5 DEF OutboxInv, InBatch, MailSent, MarkSentFails
  <2> QED  BY <1>5, <1>t, <2>1 DEF MailSent, MarkSentFails, markSent, markFailed
<1>6. ASSUME \/ \E d \in Dispatchers : DispatchRestart(d)
             \/ UNCHANGED <<baseVars, outboxVars>>
      PROVE  outbox'[n] = outbox[n]
  BY <1>6 DEF DispatchRestart, outboxVars
<1> QED  BY <1>2, <1>3, <1>4, <1>5, <1>6 DEF outboxStep, OutboxNext

\* Whatever dispatchers run together, fail or stop, a notification that no two
\* of them held is neither sent again nor written again once it is SENT or FAILED.
THEOREM SettledForGood == OutboxSpec => SentIsFinal
<1>1. OutboxInv /\ outboxStep =>
        [\A n \in Notices : Settled(n) /\ ~outbox[n].shared =>
            outbox'[n].status = outbox[n].status /\ outbox'[n].mails = outbox[n].mails]_<<baseVars, outboxVars>>
  BY SettledStays
<1> QED  BY <1>1, OutboxStart, OutboxStep, PTL DEF OutboxSpec, outboxStep, SentIsFinal

-----------------------------------------------------------------------------
(***************************************************************************)
(* Clients of Doinsport and accounts.                                      *)
(***************************************************************************)
migrationStep == [MigrationNext]_<<baseVars, migrationVars>>

-----------------------------------------------------------------------------
\* What is kept of the clients: the three parts of OneClientPerAccount.
ClientKept(c) ==
    /\ clients[c].user # None => clients[c].user \in accounts /\ ~LinkedElsewhere(c, clients[c].user)
    /\ clients[c].status = "MIGRATED" => clients[c].user # None
    /\ clients[c].status = "LEGACY_ONLY" => clients[c].user = None
ClientsKept == \A c \in Clients : ClientKept(c)

\* What each request in progress may rely on when it writes.
ImportKnows ==
    /\ importing.client = None <=> importing.decision = None
    /\ importing.decision = "MIGRATED" => contact[importing.client].email \in accounts
ReviewKnows ==
    /\ reviewing.op = "none" => reviewing = NotReviewing
    /\ reviewing.op # "none" => reviewing.client \in Clients
    /\ reviewing.op = "link" => reviewing.user \in accounts
InvitationsKnown ==
    \A i \in Invitations : invitations[i].client # None => contact[invitations[i].client].email \in Emails
JoinKnows ==
    /\ joining.pc # "none" => joining.token \in Invitations /\ invitations[joining.token].client \in Clients
    /\ joining.pc \in {"link", "use"} => contact[invitations[joining.token].client].email \in accounts

MigrationInv ==
    MigrationTypeOK /\ ClientsKept /\ ImportKnows /\ ReviewKnows /\ InvitationsKnown /\ JoinKnows

-----------------------------------------------------------------------------
\* The first state satisfies the invariant.
LEMMA MigrationStart == BaseInit /\ MigrationInit => MigrationInv
<1> SUFFICES ASSUME MigrationInit PROVE MigrationInv
  OBVIOUS
<1> USE MigrationAssumption DEF MigrationInit
<1>1. contact \in [Clients -> Contact]
  <2>1. CASE focus = "migration"  BY <2>1
  <2>2. CASE focus # "migration"
    <3>1. contact = [c \in Clients |-> [email |-> None, phoneKnown |-> FALSE]]  BY <2>2
    <3> QED  BY <3>1 DEF Contact, Addresses
  <2> QED  BY <2>1, <2>2
<1>2. clients \in [Clients -> ClientRow] /\ invitations \in [Invitations -> InvitationRow]
  BY DEF ClientRow, MigrationStatus, Addresses, InvitationRow
<1>3. importing \in ImportTask /\ reviewing \in ReviewTask /\ joining \in JoinTask
  BY DEF NotImporting, NotReviewing, NotJoining, ImportTask, ReviewTask, JoinTask, Addresses
<1>4. ClientsKept  BY DEF ClientsKept, ClientKept, LinkedElsewhere
<1>5. ImportKnows /\ ReviewKnows /\ InvitationsKnown /\ JoinKnows
  BY DEF ImportKnows, ReviewKnows, InvitationsKnown, JoinKnows, NotImporting, NotReviewing, NotJoining
<1> QED  BY <1>1, <1>2, <1>3, <1>4, <1>5 DEF MigrationInv, MigrationTypeOK

\* The account of a client is replaced by an account that nobody else has.
LEMMA ClientLinked ==
    ASSUME MigrationTypeOK, ClientsKept, NEW c \in Clients, NEW e \in accounts, ~LinkedElsewhere(c, e),
           clients' = [clients EXCEPT ![c] = [status |-> "MIGRATED", user |-> e]], accounts \subseteq accounts'
    PROVE  ClientsKept' /\ clients' \in [Clients -> ClientRow]
<1>1. \A d \in Clients : clients'[d] = IF d = c THEN [status |-> "MIGRATED", user |-> e] ELSE clients[d]
  BY DEF MigrationTypeOK
<1>2. e \in Emails /\ e # None  BY MigrationAssumption DEF MigrationTypeOK
<1>3. clients' \in [Clients -> ClientRow]
  <2>1. [status |-> "MIGRATED", user |-> e] \in ClientRow  BY <1>2 DEF ClientRow, MigrationStatus, Addresses
  <2> QED  BY <2>1 DEF MigrationTypeOK
<1>4. ASSUME NEW d \in Clients PROVE ClientKept(d)'
  <2>1. CASE d = c
    BY <1>1, <1>2, <2>1 DEF ClientKept, LinkedElsewhere
  <2>2. CASE d # c
    <3>1. clients[d].user # e  BY <2>2 DEF LinkedElsewhere
    <3> QED  BY <1>1, <2>2, <3>1 DEF ClientsKept, ClientKept, LinkedElsewhere
  <2> QED  BY <2>1, <2>2
<1> QED  BY <1>3, <1>4 DEF ClientsKept

\* A client gets another status, and keeps its account or loses it.
LEMMA ClientMarked ==
    ASSUME MigrationTypeOK, ClientsKept, NEW c \in Clients, NEW s \in MigrationStatus,
           NEW u \in {None, clients[c].user},
           clients' = [clients EXCEPT ![c] = [status |-> s, user |-> u]], accounts \subseteq accounts',
           s # "MIGRATED", s = "LEGACY_ONLY" => u = None
    PROVE  ClientsKept' /\ clients' \in [Clients -> ClientRow]
<1>1. \A d \in Clients : clients'[d] = IF d = c THEN [status |-> s, user |-> u] ELSE clients[d]
  BY DEF MigrationTypeOK
<1>2. clients' \in [Clients -> ClientRow]
  <2>1. [status |-> s, user |-> u] \in ClientRow  BY DEF MigrationTypeOK, ClientRow, Addresses
  <2> QED  BY <2>1 DEF MigrationTypeOK
<1>3. ASSUME NEW d \in Clients PROVE ClientKept(d)'
  BY <1>1 DEF ClientsKept, ClientKept, LinkedElsewhere
<1> QED  BY <1>2, <1>3 DEF ClientsKept

\* Changing the status alone is writing the row with the same account.
LEMMA ClientStatusWritten ==
    ASSUME MigrationTypeOK, NEW c \in Clients, NEW s
    PROVE  [clients EXCEPT ![c].status = s] = [clients EXCEPT ![c] = [status |-> s, user |-> clients[c].user]]
<1>1. clients[c] \in ClientRow /\ clients \in [Clients -> ClientRow]  BY DEF MigrationTypeOK
<1>2. [clients[c] EXCEPT !.status = s] = [status |-> s, user |-> clients[c].user]  BY <1>1 DEF ClientRow
<1> QED  BY <1>2

-----------------------------------------------------------------------------
\* The import.
LEMMA ImportStep ==
    ASSUME MigrationInv, importClients \/ ImportWrites \/ \E c \in Clients : ImportDecides(c)
    PROVE  MigrationInv'
<1> USE DEF MigrationInv
<1>1. UNCHANGED <<contact, accounts, invitations, reviewing, joining>>
  BY DEF importClients, ImportWrites, ImportDecides
<1>o. InvitationsKnown' /\ ReviewKnows' /\ JoinKnows'
  BY <1>1 DEF InvitationsKnown, ReviewKnows, JoinKnows
<1>2. CASE importClients
  <2>1. importing' = [NotImporting EXCEPT !.todo = {c \in Clients : clients[c].status = "LEGACY_ONLY"}]
        /\ clients' = clients
    BY <1>2 DEF importClients
  <2>2. importing' \in ImportTask /\ importing'.client = None /\ importing'.decision = None
    BY <2>1 DEF NotImporting, ImportTask, Decision
  <2>3. ImportKnows'  BY <2>2, MigrationAssumption DEF ImportKnows
  <2>4. ClientsKept'  BY <1>1, <2>1 DEF ClientsKept, ClientKept, LinkedElsewhere
  <2> QED  BY <1>1, <1>o, <2>1, <2>2, <2>3, <2>4 DEF MigrationTypeOK
<1>3. ASSUME NEW c \in Clients, ImportDecides(c) PROVE MigrationInv'
  <2> DEFINE decision == decideClientLink(c)
             written == IF decision = "MIGRATED" /\ LinkedElsewhere(c, contact[c].email) THEN "MERGE_REQUIRED"
                        ELSE decision
             client == IF decision = None THEN None ELSE c
  <2>1. decision \in {"MIGRATED", "MERGE_REQUIRED", None}
        /\ (decision = "MIGRATED" => contact[c].email \in accounts)
    <3>1. CASE contact[c].email \in accounts
      BY <3>1 DEF decideClientLink
    <3>2. CASE contact[c].email \notin accounts /\ contact[c].phoneKnown
      BY <3>2 DEF decideClientLink
    <3>3. CASE contact[c].email \notin accounts /\ ~contact[c].phoneKnown
      BY <3>3, MigrationAssumption DEF decideClientLink
    <3> QED  BY <3>1, <3>2, <3>3
  <2>2. importing' = [todo |-> importing.todo \ {c}, client |-> client, decision |-> written]
        /\ clients' = clients
    BY <1>3 DEF ImportDecides
  <2> HIDE DEF decision
  <2>3. importing' \in ImportTask
    <3>1. importing.todo \ {c} \in SUBSET Clients  BY DEF MigrationTypeOK, ImportTask
    <3>2. client \in Clients \cup {None} /\ written \in Decision \cup {None}  BY <2>1 DEF Decision
    <3> QED  BY <2>2, <3>1, <3>2 DEF ImportTask
  <2>4. ImportKnows'
    BY <1>1, <2>1, <2>2, MigrationAssumption DEF ImportKnows
  <2>5. ClientsKept'  BY <1>1, <2>2 DEF ClientsKept, ClientKept, LinkedElsewhere
  <2> QED  BY <1>1, <1>o, <2>2, <2>3, <2>4, <2>5 DEF MigrationTypeOK
<1>4. CASE ImportWrites
  <2> DEFINE c == importing.client
             e == contact[c].email
             linked == importing.decision = "MIGRATED"
  <2>1. c \in Clients /\ importing.decision \in Decision
    BY <1>4, MigrationAssumption DEF ImportWrites, MigrationTypeOK, ImportTask, ImportKnows
  <2>2. CASE linked /\ LinkedElsewhere(c, e)
    <3>1. importing' = NotImporting /\ clients' = clients  BY <1>4, <2>2 DEF ImportWrites
    <3>2. NotImporting \in ImportTask /\ NotImporting.client = None /\ NotImporting.decision = None
      BY DEF NotImporting, ImportTask, Decision
    <3>3. ClientsKept'  BY <1>1, <3>1 DEF ClientsKept, ClientKept, LinkedElsewhere
    <3>4. ImportKnows'  BY <3>1, <3>2, MigrationAssumption DEF ImportKnows
    <3> QED  BY <1>1, <1>o, <3>1, <3>2, <3>3, <3>4 DEF MigrationTypeOK
  <2>3. CASE ~(linked /\ LinkedElsewhere(c, e))
    <3>1. /\ clients' = [clients EXCEPT ![c] = [status |-> importing.decision,
                                                user |-> IF linked THEN e ELSE clients[c].user]]
          /\ importing' = [importing EXCEPT !.client = None, !.decision = None]
      BY <1>4, <2>3 DEF ImportWrites
    <3>2. importing' \in ImportTask /\ importing'.client = None /\ importing'.decision = None
      BY <3>1 DEF MigrationTypeOK, ImportTask
    <3>3. ImportKnows'  BY <3>2, MigrationAssumption DEF ImportKnows
    <3>4. ClientsKept' /\ clients' \in [Clients -> ClientRow]
      <4>1. CASE linked
        <5>1. e \in accounts  BY <4>1 DEF ImportKnows
        <5>2. clients' = [clients EXCEPT ![c] = [status |-> "MIGRATED", user |-> e]]  BY <3>1, <4>1
        <5> HIDE DEF c, e
        <5> QED  BY <1>1, <2>1, <2>3, <4>1, <5>1, <5>2, ClientLinked
      <4>2. CASE ~linked
        <5>1. importing.decision = "MERGE_REQUIRED"  BY <2>1, <4>2 DEF Decision
        <5>2. clients' = [clients EXCEPT ![c] = [status |-> "MERGE_REQUIRED", user |-> clients[c].user]]
          BY <3>1, <4>2, <5>1
        <5>3. "MERGE_REQUIRED" \in MigrationStatus  BY DEF MigrationStatus
        <5> HIDE DEF c, e
        <5> QED  BY <1>1, <2>1, <5>2, <5>3, ClientMarked
      <4> QED  BY <4>1, <4>2
    <3> QED  BY <1>1, <1>o, <3>2, <3>3, <3>4 DEF MigrationTypeOK
  <2> QED  BY <2>2, <2>3
<1> QED  BY <1>2, <1>3, <1>4

\* Nothing that the invariant speaks of is written, but the accounts may grow.
LEMMA ClientsUntouched ==
    ASSUME ClientsKept, clients' = clients, accounts \subseteq accounts'
    PROVE  ClientsKept'
BY DEF ClientsKept, ClientKept, LinkedElsewhere

\* The administrator, and the players who register by themselves.
LEMMA ReviewStep ==
    ASSUME MigrationInv,
           \/ \E i \in Invitations, c \in Clients : invite(i, c)
           \/ \E c \in Clients, e \in Emails : linkToUser(c, e)
           \/ ReviewWrites
    PROVE  MigrationInv'
<1> USE DEF MigrationInv
<1>1. UNCHANGED <<contact, accounts, importing, joining>>
  BY DEF invite, linkToUser, ReviewWrites
<1>i. ImportKnows'  BY <1>1 DEF ImportKnows
<1>2. ASSUME NEW i \in Invitations, NEW c \in Clients, invite(i, c) PROVE MigrationInv'
  <2>1. /\ \A j \in Invitations : invitations'[j] = IF j = i THEN [invitations[i] EXCEPT !.client = c] ELSE invitations[j]
        /\ clients' = clients /\ reviewing' = [NotReviewing EXCEPT !.op = "invite", !.client = c]
        /\ contact[c].email # None /\ invitations[i].client = None
    BY <1>2 DEF invite, MigrationTypeOK
  <2>2. /\ invitations' \in [Invitations -> InvitationRow] /\ invitations'[i].client = c
    <3>1. [invitations[i] EXCEPT !.client = c] \in InvitationRow  BY DEF MigrationTypeOK, InvitationRow
    <3>2. [invitations[i] EXCEPT !.client = c].client = c  BY DEF MigrationTypeOK, InvitationRow
    <3> QED  BY <1>2, <2>1, <3>1, <3>2 DEF invite, MigrationTypeOK
  <2>3. reviewing' \in ReviewTask /\ reviewing'.op = "invite" /\ reviewing'.client = c
    BY <2>1 DEF NotReviewing, ReviewTask, Addresses
  <2>4. contact[c].email \in Emails  BY <2>1 DEF MigrationTypeOK, Contact, Addresses
  <2>5. InvitationsKnown'  BY <1>1, <2>1, <2>2, <2>4 DEF InvitationsKnown
  <2>6. JoinKnows'  BY <1>1, <2>1, MigrationAssumption DEF JoinKnows
  <2>7. ReviewKnows'  BY <2>3 DEF ReviewKnows
  <2>8. ClientsKept'  BY <1>1, <2>1, ClientsUntouched
  <2> QED  BY <1>1, <1>i, <2>1, <2>2, <2>3, <2>5, <2>6, <2>7, <2>8 DEF MigrationTypeOK
<1>3. ASSUME NEW c \in Clients, NEW e \in Emails, linkToUser(c, e) PROVE MigrationInv'
  <2>1. /\ UNCHANGED <<clients, invitations>> /\ reviewing' = [op |-> "link", client |-> c, user |-> e]
        /\ e \in accounts
    BY <1>3 DEF linkToUser
  <2>2. reviewing' \in ReviewTask  BY <2>1 DEF ReviewTask, Addresses
  <2>3. ReviewKnows'  BY <1>1, <2>1 DEF ReviewKnows
  <2>4. InvitationsKnown' /\ JoinKnows'  BY <1>1, <2>1 DEF InvitationsKnown, JoinKnows
  <2>5. ClientsKept'  BY <1>1, <2>1, ClientsUntouched
  <2> QED  BY <1>1, <1>i, <2>1, <2>2, <2>3, <2>4, <2>5 DEF MigrationTypeOK
<1>4. CASE ReviewWrites
  <2> DEFINE c == reviewing.client
             e == reviewing.user
  <2>1. /\ UNCHANGED invitations /\ reviewing' = NotReviewing /\ reviewing.op # "none" /\ c \in Clients
    BY <1>4 DEF ReviewWrites, ReviewKnows
  <2>2. NotReviewing \in ReviewTask /\ ReviewKnows'
    BY <2>1 DEF NotReviewing, ReviewTask, Addresses, ReviewKnows
  <2>3. InvitationsKnown' /\ JoinKnows'  BY <1>1, <2>1 DEF InvitationsKnown, JoinKnows
  <2>4. reviewing.op \in {"invite", "link"}  BY <2>1 DEF MigrationTypeOK, ReviewTask
  <2>5. ClientsKept' /\ clients' \in [Clients -> ClientRow]
    <3>1. CASE reviewing.op = "invite"
      <4>1. clients' = [clients EXCEPT ![c].status = "INVITED"]  BY <1>4, <3>1 DEF ReviewWrites
      <4>2. clients' = [clients EXCEPT ![c] = [status |-> "INVITED", user |-> clients[c].user]]
        BY <2>1, <4>1, ClientStatusWritten
      <4>3. "INVITED" \in MigrationStatus  BY DEF MigrationStatus
      <4> HIDE DEF c
      <4> QED  BY <1>1, <2>1, <4>2, <4>3, ClientMarked
    <3>2. CASE reviewing.op = "link" /\ LinkedElsewhere(c, e)
      <4>1. clients' = clients  BY <1>4, <3>2 DEF ReviewWrites
      <4> QED  BY <1>1, <4>1, ClientsUntouched DEF MigrationTypeOK
    <3>3. CASE reviewing.op = "link" /\ ~LinkedElsewhere(c, e)
      <4>1. clients' = [clients EXCEPT ![c] = [status |-> "MIGRATED", user |-> e]]
        BY <1>4, <3>3 DEF ReviewWrites
      <4>2. e \in accounts  BY <3>3 DEF ReviewKnows
      <4> HIDE DEF c, e
      <4> QED  BY <1>1, <2>1, <3>3, <4>1, <4>2, ClientLinked
    <3> QED  BY <2>4, <3>1, <3>2, <3>3
  <2> QED  BY <1>1, <1>i, <2>1, <2>2, <2>3, <2>5 DEF MigrationTypeOK
<1> QED  BY <1>2, <1>3, <1>4

\* disable, resetToPending and a direct registration are written at once.
LEMMA DirectStep ==
    ASSUME MigrationInv,
           \/ \E c \in Clients : disable(c) \/ resetToPending(c)
           \/ \E e \in Emails : registerDirectly(e)
    PROVE  MigrationInv'
<1> USE DEF MigrationInv
<1>1. UNCHANGED <<contact, invitations, importing, reviewing, joining>>
  BY DEF disable, resetToPending, registerDirectly
<1>2. accounts \subseteq accounts' /\ accounts' \subseteq Emails
  BY DEF disable, resetToPending, registerDirectly, MigrationTypeOK
<1>3. ImportKnows' /\ ReviewKnows' /\ InvitationsKnown' /\ JoinKnows'
  BY <1>1, <1>2 DEF ImportKnows, ReviewKnows, InvitationsKnown, JoinKnows
<1>4. ClientsKept' /\ clients' \in [Clients -> ClientRow]
  <2>1. ASSUME NEW c \in Clients, disable(c) PROVE ClientsKept' /\ clients' \in [Clients -> ClientRow]
    <3>1. clients' = [clients EXCEPT ![c] = [status |-> "DISABLED", user |-> clients[c].user]]
      BY <2>1, ClientStatusWritten DEF disable
    <3>2. "DISABLED" \in MigrationStatus  BY DEF MigrationStatus
    <3> QED  BY <1>2, <3>1, <3>2, ClientMarked
  <2>2. ASSUME NEW c \in Clients, resetToPending(c) PROVE ClientsKept' /\ clients' \in [Clients -> ClientRow]
    <3>1. clients' = [clients EXCEPT ![c] = [status |-> "LEGACY_ONLY", user |-> None]]
      BY <2>2 DEF resetToPending
    <3>2. "LEGACY_ONLY" \in MigrationStatus  BY DEF MigrationStatus
    <3> QED  BY <1>2, <3>1, <3>2, ClientMarked
  <2>3. CASE UNCHANGED clients  BY <1>2, <2>3, ClientsUntouched DEF MigrationTypeOK
  <2> QED  BY <2>1, <2>2, <2>3 DEF registerDirectly
<1> QED  BY <1>1, <1>2, <1>3, <1>4 DEF MigrationTypeOK

\* The player opens the invitation, creates the account and is linked to it.
LEMMA JoinStep ==
    ASSUME MigrationInv,
           JoinWrites \/ \E i \in Invitations : InvitationExpires(i) \/ validateToken(i) \/ confirm(i)
    PROVE  MigrationInv'
<1> USE DEF MigrationInv
<1>1. UNCHANGED <<contact, importing, reviewing>>
  BY DEF JoinWrites, InvitationExpires, validateToken, confirm
<1>2. ASSUME NEW i \in Invitations, InvitationExpires(i) PROVE MigrationInv'
  <2>1. invitations' = [invitations EXCEPT ![i].expired = TRUE] /\ UNCHANGED <<clients, accounts, joining>>
    BY <1>2 DEF InvitationExpires
  <2>2. invitations' \in [Invitations -> InvitationRow] /\ \A j \in Invitations : invitations'[j].client = invitations[j].client
    BY <2>1 DEF MigrationTypeOK, InvitationRow
  <2>3. ImportKnows' /\ ReviewKnows' /\ InvitationsKnown' /\ JoinKnows'
    BY <1>1, <2>1, <2>2 DEF ImportKnows, ReviewKnows, InvitationsKnown, JoinKnows
  <2>4. ClientsKept'  BY <2>1, ClientsUntouched
  <2> QED  BY <1>1, <2>1, <2>2, <2>3, <2>4 DEF MigrationTypeOK
<1>3. ASSUME NEW i \in Invitations, validateToken(i) \/ confirm(i) PROVE MigrationInv'
  <2>1. /\ UNCHANGED <<clients, accounts, invitations>> /\ invitations[i].client \in Clients
        /\ joining' \in {[pc |-> "open", token |-> i], [pc |-> "create", token |-> i]}
    BY <1>3 DEF validateToken, confirm, findValidInvitation, MigrationTypeOK, InvitationRow
  <2>2. joining' \in JoinTask  BY <2>1 DEF JoinTask
  <2>3. JoinKnows'  BY <1>1, <2>1 DEF JoinKnows
  <2>4. ImportKnows' /\ ReviewKnows' /\ InvitationsKnown'
    BY <1>1, <2>1 DEF ImportKnows, ReviewKnows, InvitationsKnown
  <2>5. ClientsKept'  BY <2>1, ClientsUntouched
  <2> QED  BY <1>1, <2>1, <2>2, <2>3, <2>4, <2>5 DEF MigrationTypeOK
<1>4. CASE JoinWrites
  <2> DEFINE t == joining.token
             c == invitations[t].client
             e == contact[c].email
  <2>1. joining.pc # "none" /\ t \in Invitations /\ c \in Clients /\ e \in Emails
    BY <1>4, MigrationAssumption DEF JoinWrites, JoinKnows, InvitationsKnown
  <2>n. NotJoining \in JoinTask /\ NotJoining.pc = "none"  BY DEF NotJoining, JoinTask
  <2>2. CASE joining.pc = "open"
    <3>1. /\ clients' = [clients EXCEPT ![c] = [status |-> "MIGRATION_PENDING", user |-> clients[c].user]]
          /\ joining' = NotJoining /\ UNCHANGED <<accounts, invitations>>
      BY <1>4, <2>1, <2>2, ClientStatusWritten DEF JoinWrites
    <3>2. "MIGRATION_PENDING" \in MigrationStatus  BY DEF MigrationStatus
    <3>3. ClientsKept' /\ clients' \in [Clients -> ClientRow]
      <4> HIDE DEF c
      <4> QED  BY <2>1, <3>1, <3>2, ClientMarked
    <3>4. JoinKnows'  BY <2>n, <3>1 DEF JoinKnows
    <3>5. ImportKnows' /\ ReviewKnows' /\ InvitationsKnown'
      BY <1>1, <3>1 DEF ImportKnows, ReviewKnows, InvitationsKnown
    <3> QED  BY <1>1, <2>n, <3>1, <3>3, <3>4, <3>5 DEF MigrationTypeOK
  <2>3. CASE joining.pc = "create"
    <3>1. /\ accounts' = accounts \cup {e} /\ UNCHANGED <<clients, invitations>>
          /\ joining' = IF e \in accounts THEN NotJoining ELSE [joining EXCEPT !.pc = "link"]
      BY <1>4, <2>1, <2>3 DEF JoinWrites
    <3>2. accounts' \subseteq Emails /\ accounts \subseteq accounts' /\ e \in accounts'
      BY <2>1, <3>1 DEF MigrationTypeOK
    <3>3. joining' \in JoinTask /\ (joining'.pc # "none" => joining'.pc = "link" /\ joining'.token = t)
      <4>1. [joining EXCEPT !.pc = "link"] \in JoinTask /\ [joining EXCEPT !.pc = "link"].pc = "link"
            /\ [joining EXCEPT !.pc = "link"].token = joining.token
        BY DEF MigrationTypeOK, JoinTask
      <4> QED  BY <2>n, <3>1, <4>1
    <3>4. JoinKnows'  BY <1>1, <2>1, <3>1, <3>2, <3>3 DEF JoinKnows
    <3>5. ImportKnows' /\ ReviewKnows' /\ InvitationsKnown'
      BY <1>1, <3>1, <3>2 DEF ImportKnows, ReviewKnows, InvitationsKnown
    <3>6. ClientsKept'  BY <3>1, <3>2, ClientsUntouched
    <3> QED  BY <1>1, <3>1, <3>2, <3>3, <3>4, <3>5, <3>6 DEF MigrationTypeOK
  <2>4. CASE joining.pc = "link"
    <3>1. /\ clients' = IF LinkedElsewhere(c, e) THEN clients
                        ELSE [clients EXCEPT ![c] = [status |-> "MIGRATED", user |-> e]]
          /\ joining' = IF LinkedElsewhere(c, e) THEN NotJoining ELSE [joining EXCEPT !.pc = "use"]
          /\ UNCHANGED <<accounts, invitations>>
      BY <1>4, <2>1, <2>4 DEF JoinWrites
    <3>2. e \in accounts  BY <2>4 DEF JoinKnows
    <3>3. ClientsKept' /\ clients' \in [Clients -> ClientRow]
      <4>1. CASE LinkedElsewhere(c, e)
        BY <3>1, <4>1, ClientsUntouched DEF MigrationTypeOK
      <4>2. CASE ~LinkedElsewhere(c, e)
        <5>1. clients' = [clients EXCEPT ![c] = [status |-> "MIGRATED", user |-> e]]  BY <3>1, <4>2
        <5> HIDE DEF c, e
        <5> QED  BY <2>1, <3>1, <3>2, <4>2, <5>1, ClientLinked
      <4> QED  BY <4>1, <4>2
    <3>4. joining' \in JoinTask /\ (joining'.pc # "none" => joining'.pc = "use" /\ joining'.token = t)
      <4>1. [joining EXCEPT !.pc = "use"] \in JoinTask /\ [joining EXCEPT !.pc = "use"].pc = "use"
            /\ [joining EXCEPT !.pc = "use"].token = joining.token
        BY DEF MigrationTypeOK, JoinTask
      <4> QED  BY <2>n, <3>1, <4>1
    <3>5. JoinKnows'  BY <1>1, <2>1, <3>1, <3>2, <3>4 DEF JoinKnows
    <3>6. ImportKnows' /\ ReviewKnows' /\ InvitationsKnown'
      BY <1>1, <3>1 DEF ImportKnows, ReviewKnows, InvitationsKnown
    <3> QED  BY <1>1, <3>1, <3>3, <3>4, <3>5, <3>6 DEF MigrationTypeOK
  <2>5. CASE joining.pc = "use"
    <3>1. /\ invitations' = [invitations EXCEPT ![t].used = TRUE]
          /\ joining' = NotJoining /\ UNCHANGED <<clients, accounts>>
      BY <1>4, <2>5 DEF JoinWrites
    <3>2. /\ invitations' \in [Invitations -> InvitationRow]
          /\ \A j \in Invitations : invitations'[j].client = invitations[j].client
      <4> HIDE DEF t
      <4> QED  BY <2>1, <3>1 DEF MigrationTypeOK, InvitationRow
    <3>3. JoinKnows'  BY <2>n, <3>1 DEF JoinKnows
    <3>4. ImportKnows' /\ ReviewKnows' /\ InvitationsKnown'
      BY <1>1, <3>1, <3>2 DEF ImportKnows, ReviewKnows, InvitationsKnown
    <3>5. ClientsKept'  BY <3>1, ClientsUntouched
    <3> QED  BY <1>1, <2>n, <3>1, <3>2, <3>3, <3>4, <3>5 DEF MigrationTypeOK
  <2> QED  BY <1>4, <2>2, <2>3, <2>4, <2>5 DEF JoinWrites
<1> QED  BY <1>2, <1>3, <1>4

\* The server stops: the requests in progress are forgotten, the rows stay.
LEMMA CrashStep == MigrationInv /\ MigrationCrash => MigrationInv'
<1> SUFFICES ASSUME MigrationInv, MigrationCrash PROVE MigrationInv'
  OBVIOUS
<1>1. /\ importing' = NotImporting /\ reviewing' = NotReviewing /\ joining' = NotJoining
      /\ UNCHANGED <<clients, contact, accounts, invitations>>
  BY DEF MigrationCrash
<1>2. importing' \in ImportTask /\ reviewing' \in ReviewTask /\ joining' \in JoinTask
  BY <1>1 DEF NotImporting, NotReviewing, NotJoining, ImportTask, ReviewTask, JoinTask, Addresses
<1>3. ImportKnows' /\ ReviewKnows' /\ JoinKnows'
  BY <1>1, MigrationAssumption DEF NotImporting, NotReviewing, NotJoining, ImportKnows, ReviewKnows, JoinKnows
<1>4. InvitationsKnown' /\ ClientsKept'
  BY <1>1, ClientsUntouched DEF MigrationInv, InvitationsKnown
<1> QED  BY <1>1, <1>2, <1>3, <1>4 DEF MigrationInv, MigrationTypeOK

\* Every step keeps the invariant.
LEMMA MigrationStepKeeps == MigrationInv /\ migrationStep => MigrationInv'
<1> SUFFICES ASSUME MigrationInv, migrationStep PROVE MigrationInv'
  OBVIOUS
<1>1. CASE UNCHANGED <<baseVars, migrationVars>>
  BY <1>1 DEF migrationVars, MigrationInv, MigrationTypeOK, ClientsKept, ClientKept, LinkedElsewhere,
     ImportKnows, ReviewKnows, InvitationsKnown, JoinKnows
<1> QED
  BY <1>1, ImportStep, ReviewStep, DirectStep, JoinStep, CrashStep DEF migrationStep, MigrationNext

\* The rows of the clients, of the invitations and of the requests in progress
\* keep their types.
THEOREM MigrationTyped == MigrationSpec => []MigrationTypeOK
<1>1. MigrationInv => MigrationTypeOK  BY DEF MigrationInv
<1> QED  BY <1>1, MigrationStart, MigrationStepKeeps, PTL DEF MigrationSpec, migrationStep

\* The accounts and the clients that the invariant joins.
LEMMA AccountsFromInv == MigrationInv => OneClientPerAccount
BY DEF MigrationInv, ClientsKept, ClientKept, ImportKnows, OneClientPerAccount

\* An account is the account of one client at most, it exists, and a client is
\* MIGRATED only with one, however the import, the administrator and the
\* player interleave.
THEOREM AccountsKept == MigrationSpec => []OneClientPerAccount
<1> QED  BY AccountsFromInv, MigrationStart, MigrationStepKeeps, PTL DEF MigrationSpec, migrationStep

-----------------------------------------------------------------------------
(***************************************************************************)
(* Accounts, sessions and routes.                                          *)
(***************************************************************************)
\* What the routes of the server ask for: a session of staff, at least, for
\* what the desk or the administration does.
Guarded(route) ==
    /\ route.area \in Areas /\ route.needs \in Needs
    /\ route.area \in {"admin", "nextore"} => route.needs \in {"STAFF", "ADMIN", "SUPER_ADMIN"}

LEMMA RouteParts ==
    ASSUME NEW area \in Areas, NEW needs \in Needs, NEW operations,
           area \in {"admin", "nextore"} => needs \in {"STAFF", "ADMIN", "SUPER_ADMIN"}
    PROVE  \A r \in Route(area, needs, operations) : Guarded(r)
BY DEF Route, Guarded

LEMMA RoutesGuarded == \A r \in Routes : Guarded(r)
<1>1. \A r \in AcademyRoutes \cup AccessRoutes \cup AlertsRoutes \cup AuditLogRoutes \cup
              BookingsAdminRoutes \cup CreditPackAdminRoutes \cup CrmRoutes :
         Guarded(r)
  BY RouteParts DEF Areas, Needs, Roles, AcademyRoutes, AccessRoutes, AlertsRoutes, AuditLogRoutes, BookingsAdminRoutes,
      CreditPackAdminRoutes, CrmRoutes
<1>2. \A r \in HealthIndicatorsRoutes \cup LegacyMigrationAdminRoutes \cup PaymentsAdminRoutes \cup
              ReportsRoutes \cup SchedulingAdminRoutes \cup SettingsRoutes \cup
              TerminalAdminRoutes :
         Guarded(r)
  BY RouteParts DEF Areas, Needs, Roles, HealthIndicatorsRoutes, LegacyMigrationAdminRoutes, PaymentsAdminRoutes, ReportsRoutes,
      SchedulingAdminRoutes, SettingsRoutes, TerminalAdminRoutes
<1>3. \A r \in WalletAdminRoutes \cup AfpadelRoutes \cup AutomationRoutes \cup StaffAccessCodeRoutes \cup
              AvailabilityRoutes \cup BookingSharesRoutes \cup BookingsRoutes :
         Guarded(r)
  BY RouteParts DEF Areas, Needs, Roles, WalletAdminRoutes, AfpadelRoutes, AutomationRoutes, StaffAccessCodeRoutes,
      AvailabilityRoutes, BookingSharesRoutes, BookingsRoutes
<1>4. \A r \in CourtsRoutes \cup CreditPacksRoutes \cup IdentityRoutes \cup ProfileRoutes \cup KioskRoutes
              \cup MigrationInvitationRoutes \cup NextoreAccountsRoutes :
         Guarded(r)
  BY RouteParts DEF Areas, Needs, Roles, CourtsRoutes, CreditPacksRoutes, IdentityRoutes, ProfileRoutes, KioskRoutes,
      MigrationInvitationRoutes, NextoreAccountsRoutes
<1>5. \A r \in NextoreCashSessionRoutes \cup NextoreCatalogRoutes \cup NextorePaymentsRoutes \cup
              NextoreReconciliationRoutes \cup NextoreReportingRoutes \cup
              NextoreSplitRoutes \cup NotificationsRoutes :
         Guarded(r)
  BY RouteParts DEF Areas, Needs, Roles, NextoreCashSessionRoutes, NextoreCatalogRoutes, NextorePaymentsRoutes,
      NextoreReconciliationRoutes, NextoreReportingRoutes, NextoreSplitRoutes,
      NotificationsRoutes
<1>6. \A r \in PaymentsRoutes \cup TerminalRoutes \cup WebhookRoutes \cup PricingRoutes \cup WalletRoutes
              \cup HealthRoutes :
         Guarded(r)
  BY RouteParts DEF Areas, Needs, Roles, PaymentsRoutes, TerminalRoutes, WebhookRoutes, PricingRoutes, WalletRoutes, HealthRoutes
<1> QED BY <1>1, <1>2, <1>3, <1>4, <1>5, <1>6 DEF Routes

-----------------------------------------------------------------------------
identityStep == [IdentityNext]_<<baseVars, identityVars>>

AccountRow == [status : {"absent", "PENDING_VERIFICATION", "ACTIVE"}, role : Roles,
               password : 0..MaxPasswords, floor : 0..MaxPasswords]
UserSessionRow == [user : Users \cup {None}, live : BOOLEAN, late : BOOLEAN,
               password : 0..MaxPasswords, overtaken : BOOLEAN]
ResetRow == [pc : {"none", "activate", "mark", "revoke", "markChange"}, password : 0..MaxPasswords]
LoginRow == [user : Users \cup {None}, password : 0..MaxPasswords, overtaken : BOOLEAN]

\* A step that writes accounts, or resets, and leaves the passwords.
PasswordsLeft ==
    /\ users' \in [Users -> AccountRow]
    /\ \A v \in Users : users'[v].floor = users[v].floor /\ users'[v].password = users[v].password
ResetsLeft ==
    /\ resets' \in [Users -> ResetRow]
    /\ \A v \in Users : resets'[v].pc \in {"mark", "revoke"} => resets'[v] = resets[v]

\* A completed reset is not ahead of the password; one under way wrote the
\* password it will complete; a session and a login are somebody's; nobody
\* waits as an unread request.
AccountKept(u) ==
    /\ users[u].floor <= users[u].password
    /\ resets[u].pc \in {"mark", "revoke"} => resets[u].password <= users[u].password

SessionKept(s) ==
    userSessions[s].live =>
        /\ userSessions[s].user \in Users
        /\ ~userSessions[s].overtaken => userSessions[s].password >= users[userSessions[s].user].floor

LoginKept(s) ==
    logins[s] # NoLogin =>
        /\ logins[s].user \in Users
        /\ ~logins[s].overtaken => logins[s].password >= users[logins[s].user].floor

RequestKept ==
    request.area \in {"admin", "nextore"} => request.role \in Roles /\ roleAtLeast(request.role, "STAFF")

IdentityInv ==
    /\ IdentityTypeOK
    /\ \A u \in Users : AccountKept(u)
    /\ \A s \in Sessions : SessionKept(s) /\ LoginKept(s)
    /\ RequestKept

LEMMA IdentityStart == IdentityInit => IdentityInv
BY IdentityAssumption DEF IdentityInit, IdentityInv, IdentityTypeOK, AccountKept, SessionKept, LoginKept, RequestKept,
   NoReset, NoLogin, NoRequest, Roles

\* Only what the guards let through becomes a request.
LEMMA RequestMade ==
    ASSUME IdentityInv, NEW route \in RouteClasses,
           \/ WithoutSession(route)
           \/ \E s \in Sessions : attachAuthUser(s, route)
    PROVE  /\ request' \in [area : Areas, needs : Needs, role : Roles \cup {"none"}]
           /\ RequestKept'
<1>1. route.area \in Areas /\ route.needs \in Needs
      /\ (route.area \in {"admin", "nextore"} => route.needs \in {"STAFF", "ADMIN", "SUPER_ADMIN"})
  BY RoutesGuarded DEF RouteClasses, Guarded
<1>2. CASE WithoutSession(route)
  <2>1. route.area \notin {"admin", "nextore"}
    BY <1>1, <1>2 DEF WithoutSession, requireAuth, Roles
  <2> QED BY <1>1, <1>2, <2>1 DEF WithoutSession, RequestKept
<1>3. ASSUME NEW s \in Sessions, attachAuthUser(s, route)
      PROVE  /\ request' \in [area : Areas, needs : Needs, role : Roles \cup {"none"}]
             /\ RequestKept'
  <2>1. PICK role \in Roles : role = users[userSessions[s].user].role
    BY <1>3 DEF attachAuthUser, Active, IdentityInv, SessionKept, IdentityTypeOK
  <2>2. request' = [area |-> route.area, needs |-> route.needs, role |-> role] /\ Allowed(route, role)
    BY <1>3, <2>1 DEF attachAuthUser
  <2>3. route.area \in {"admin", "nextore"} => roleAtLeast(role, "STAFF")
    BY <1>1, <2>1, <2>2 DEF Allowed, roleAtLeast, Rank, Roles
  <2> QED BY <1>1, <2>1, <2>2, <2>3 DEF RequestKept
<1> QED BY <1>2, <1>3

\* What a handler leaves alone keeps what is said of it.
LEMMA IdentityFrame ==
    ASSUME IdentityInv
    PROVE  /\ users' = users => \A u \in Users : users'[u] = users[u]
           /\ users' = users /\ resets' = resets => \A u \in Users : AccountKept(u)'
           /\ users' = users /\ userSessions' = userSessions => \A s \in Sessions : SessionKept(s)'
           /\ users' = users /\ logins' = logins => \A s \in Sessions : LoginKept(s)'
           /\ request' = request => RequestKept'
BY DEF IdentityInv, AccountKept, SessionKept, LoginKept, RequestKept

\* A change of one account that lowers no password and leaves the last
\* completed reset.
LEMMA AccountWritten ==
    ASSUME IdentityInv, NEW u \in Users,
           users' \in [Users -> [status : {"absent", "PENDING_VERIFICATION", "ACTIVE"}, role : Roles,
                                 password : 0..MaxPasswords, floor : 0..MaxPasswords]],
           \A v \in Users : users'[v].floor = users[v].floor /\ users[v].password <= users'[v].password
    PROVE  /\ userSessions' = userSessions => \A s \in Sessions : SessionKept(s)'
           /\ logins' = logins => \A s \in Sessions : LoginKept(s)'
           /\ resets' = resets => \A v \in Users : AccountKept(v)'
<1>1. \A v \in Users : users[v].floor \in Nat /\ users[v].password \in Nat /\ users'[v].password \in Nat
                       /\ resets[v].password \in Nat
  BY IdentityAssumption DEF IdentityInv, IdentityTypeOK
<1>2. userSessions' = userSessions => \A s \in Sessions : SessionKept(s)'
  BY DEF IdentityInv, SessionKept
<1>3. logins' = logins => \A s \in Sessions : LoginKept(s)'
  BY DEF IdentityInv, LoginKept
<1>4. resets' = resets => \A v \in Users : AccountKept(v)'
  BY <1>1 DEF IdentityInv, AccountKept
<1> QED BY <1>2, <1>3, <1>4

\* Registration, verification of the address, change of the address.
LEMMA AddressStep ==
    ASSUME IdentityInv, NEW u \in Users,
           \/ register(u) \/ resendVerificationEmail(u) \/ verifyEmail(u) \/ activateUser(u)
           \/ confirmEmailChange(u) \/ markEmailChangeTokenUsed(u) \/ requestPasswordReset(u)
           \/ \E kind \in Kinds : TokenDeadline(u, kind)
           \/ \E role \in Roles : changeRole(u, role)
    PROVE  IdentityInv'
<1>1. PasswordsLeft
  <2>1. ASSUME NEW status \in {"PENDING_VERIFICATION", "ACTIVE"}, users' = [users EXCEPT ![u].status = status]
        PROVE  PasswordsLeft
    <3>1. [users[u] EXCEPT !.status = status] \in AccountRow
      BY DEF IdentityInv, IdentityTypeOK, AccountRow
    <3> QED BY <2>1, <3>1 DEF IdentityInv, IdentityTypeOK, AccountRow, PasswordsLeft
  <2>2. CASE users' = users
    BY <2>2 DEF IdentityInv, IdentityTypeOK, PasswordsLeft, AccountRow
  <2>3. ASSUME NEW role \in Roles, users' = [users EXCEPT ![u].role = role]
        PROVE  PasswordsLeft
    <3>1. [users[u] EXCEPT !.role = role] \in AccountRow
      BY DEF IdentityInv, IdentityTypeOK, AccountRow
    <3> QED BY <2>3, <3>1 DEF IdentityInv, IdentityTypeOK, AccountRow, PasswordsLeft
  <2> QED BY <2>1, <2>2, <2>3 DEF register, activateUser, changeRole, resendVerificationEmail, verifyEmail,
          confirmEmailChange, markEmailChangeTokenUsed, requestPasswordReset, TokenDeadline
<1>2. tokens' \in [Users \X Kinds -> {"none", "valid", "used", "expired"}]
  BY DEF IdentityInv, IdentityTypeOK, createToken, useToken, register, resendVerificationEmail, verifyEmail,
     activateUser, confirmEmailChange, markEmailChangeTokenUsed, requestPasswordReset, TokenDeadline,
     changeRole, Kinds
<1>3. ResetsLeft
  <2>1. CASE resets' = resets
    BY <2>1 DEF IdentityInv, IdentityTypeOK, ResetsLeft, ResetRow
  <2>2. CASE activateUser(u) \/ markEmailChangeTokenUsed(u)
    <3>1. NoReset \in ResetRow /\ NoReset.pc = "none"
      BY IdentityAssumption DEF NoReset, ResetRow
    <3>2. resets' = [resets EXCEPT ![u] = NoReset]
      BY <2>2 DEF activateUser, markEmailChangeTokenUsed
    <3> QED BY <3>1, <3>2 DEF IdentityInv, IdentityTypeOK, ResetsLeft, ResetRow
  <2>3. ASSUME NEW pc \in {"activate", "markChange"}, resets' = [resets EXCEPT ![u].pc = pc]
        PROVE  ResetsLeft
    <3>1. [resets[u] EXCEPT !.pc = pc] \in ResetRow /\ [resets[u] EXCEPT !.pc = pc].pc = pc
      BY DEF IdentityInv, IdentityTypeOK, ResetRow
    <3> QED BY <2>3, <3>1 DEF IdentityInv, IdentityTypeOK, ResetRow, ResetsLeft
  <2> QED BY <2>1, <2>2, <2>3 DEF verifyEmail, confirmEmailChange, register, resendVerificationEmail,
          requestPasswordReset, TokenDeadline, changeRole
<1>4. UNCHANGED <<userSessions, logins, guesses, request>>
  BY DEF register, resendVerificationEmail, verifyEmail, activateUser, confirmEmailChange,
     markEmailChangeTokenUsed, requestPasswordReset, TokenDeadline, changeRole
<1>5. \A v \in Users : AccountKept(v)'
  BY <1>1, <1>3 DEF IdentityInv, AccountKept, PasswordsLeft, ResetsLeft
<1>6. \A s \in Sessions : SessionKept(s)' /\ LoginKept(s)'
  BY <1>1, <1>4 DEF IdentityInv, SessionKept, LoginKept, PasswordsLeft
<1>7. IdentityTypeOK'
  BY <1>1, <1>2, <1>3, <1>4 DEF IdentityInv, IdentityTypeOK, PasswordsLeft, ResetsLeft, AccountRow, ResetRow
<1> QED BY <1>4, <1>5, <1>6, <1>7 DEF IdentityInv, RequestKept

\* Failed logins are counted, whoever fails them.
LEMMA GuessStep ==
    ASSUME IdentityInv, NEW u \in Users,
           WrongPassword(u) \/ recordLoginAttempt(u) \/ FailuresForgotten(u)
    PROVE  IdentityInv'
<1>1. guesses' \in [Users -> [failed : Nat, pending : Nat]]
  <2>1. PICK f, n \in Nat : guesses[u] = [failed |-> f, pending |-> n]
    BY DEF IdentityInv, IdentityTypeOK
  <2>2. CASE WrongPassword(u)
    <3>1. [guesses[u] EXCEPT !.pending = @ + 1] = [failed |-> f, pending |-> n + 1]
      BY <2>1
    <3>2. guesses' = [guesses EXCEPT ![u] = [failed |-> f, pending |-> n + 1]]
      BY <2>2, <3>1 DEF WrongPassword
    <3> QED BY <3>2 DEF IdentityInv, IdentityTypeOK
  <2>3. CASE recordLoginAttempt(u)
    <3>1. n > 0 /\ guesses' = [guesses EXCEPT ![u] = [failed |-> f + 1, pending |-> n - 1]]
      BY <2>1, <2>3 DEF recordLoginAttempt
    <3> QED BY <3>1 DEF IdentityInv, IdentityTypeOK
  <2>4. CASE FailuresForgotten(u)
    <3>1. [guesses[u] EXCEPT !.failed = 0] = [failed |-> 0, pending |-> n]
      BY <2>1
    <3>2. guesses' = [guesses EXCEPT ![u] = [failed |-> 0, pending |-> n]]
      BY <2>4, <3>1 DEF FailuresForgotten
    <3> QED BY <3>2 DEF IdentityInv, IdentityTypeOK
  <2> QED BY <2>2, <2>3, <2>4
<1>2. UNCHANGED <<users, userSessions, logins, tokens, resets, request>>
  BY DEF WrongPassword, recordLoginAttempt, FailuresForgotten
<1> QED BY <1>1, <1>2, IdentityFrame DEF IdentityInv, IdentityTypeOK

\* A login reads the password and opens its session later.
LEMMA LoginStep ==
    ASSUME IdentityInv, NEW s \in Sessions,
           openSession(s) \/ \E u \in Users : login(s, u)
    PROVE  IdentityInv'
<1>0. UNCHANGED <<users, guesses, tokens, resets, request>>
  BY DEF openSession, login
<1>1. CASE openSession(s)
  <2>1. userSessions' = [userSessions EXCEPT ![s] = [user |-> logins[s].user, live |-> TRUE, late |-> FALSE,
                            password |-> logins[s].password, overtaken |-> logins[s].overtaken]]
        /\ logins' = [logins EXCEPT ![s] = NoLogin] /\ logins[s] # NoLogin
    BY <1>1 DEF openSession
  <2>2. IdentityTypeOK'
    BY <1>0, <2>1, IdentityAssumption DEF IdentityInv, IdentityTypeOK, NoLogin
  <2>3. \A t \in Sessions : SessionKept(t)'
    <3>1. SessionKept(s)'
      BY <1>0, <2>1 DEF IdentityInv, IdentityTypeOK, SessionKept, LoginKept
    <3>2. \A t \in Sessions \ {s} : userSessions'[t] = userSessions[t]
      BY <2>1 DEF IdentityInv, IdentityTypeOK
    <3> QED BY <1>0, <3>1, <3>2 DEF IdentityInv, SessionKept
  <2>4. \A t \in Sessions : LoginKept(t)'
    BY <1>0, <2>1 DEF IdentityInv, IdentityTypeOK, LoginKept
  <2> QED BY <1>0, <2>2, <2>3, <2>4, IdentityFrame DEF IdentityInv
<1>2. ASSUME NEW u \in Users, login(s, u)
      PROVE  IdentityInv'
  <2>1. /\ logins' = [logins EXCEPT ![s] = [user |-> u, password |-> users[u].password, overtaken |-> FALSE]]
        /\ userSessions' = userSessions
    BY <1>2 DEF login
  <2>2. IdentityTypeOK'
    BY <1>0, <2>1 DEF IdentityInv, IdentityTypeOK
  <2>3. \A t \in Sessions : LoginKept(t)'
    BY <1>0, <2>1 DEF IdentityInv, IdentityTypeOK, LoginKept, AccountKept
  <2> QED BY <1>0, <2>1, <2>2, <2>3, IdentityFrame DEF IdentityInv
<1> QED BY <1>1, <1>2

\* Sessions end: one, or all those of an account.
LEMMA SessionEnds ==
    ASSUME IdentityInv, NEW s \in Sessions, logout(s) \/ logoutAll(s) \/ SessionExpires(s)
    PROVE  IdentityInv'
<1>1. /\ userSessions' \in [Sessions -> [user : Users \cup {None}, live : BOOLEAN, late : BOOLEAN,
                                         password : 0..MaxPasswords, overtaken : BOOLEAN]]
      /\ \A t \in Sessions : userSessions'[t].live =>
            /\ userSessions[t].live
            /\ userSessions'[t].user = userSessions[t].user
            /\ userSessions'[t].password = userSessions[t].password
            /\ userSessions'[t].overtaken = userSessions[t].overtaken
  <2>0. \A t \in Sessions : /\ [userSessions[t] EXCEPT !.live = FALSE] \in UserSessionRow
                            /\ [userSessions[t] EXCEPT !.live = FALSE].live = FALSE
    <3>1. SUFFICES ASSUME NEW t \in Sessions, userSessions[t] \in UserSessionRow
                   PROVE  /\ [userSessions[t] EXCEPT !.live = FALSE] \in UserSessionRow
                          /\ [userSessions[t] EXCEPT !.live = FALSE].live = FALSE
      BY DEF IdentityInv, IdentityTypeOK, UserSessionRow
    <3>2. [userSessions[t] EXCEPT !.live = FALSE] \in UserSessionRow
      BY <3>1 DEF UserSessionRow
    <3> QED BY <3>1, <3>2 DEF UserSessionRow
  <2>1. CASE logout(s)
    BY <2>0, <2>1 DEF IdentityInv, IdentityTypeOK, UserSessionRow, logout
  <2>2. CASE logoutAll(s)
    BY <2>0, <2>2 DEF IdentityInv, IdentityTypeOK, UserSessionRow, logoutAll, revokeAllSessionsForUser
  <2>3. CASE SessionExpires(s)
    <3>1. [userSessions[s] EXCEPT !.late = TRUE] \in UserSessionRow /\ userSessions[s].live
      BY <2>3 DEF IdentityInv, IdentityTypeOK, UserSessionRow, SessionExpires, Active
    <3> QED BY <2>3, <3>1 DEF IdentityInv, IdentityTypeOK, UserSessionRow, SessionExpires
  <2> QED BY <2>1, <2>2, <2>3
<1>2. UNCHANGED <<users, logins, guesses, tokens, resets, request>>
  BY DEF logout, logoutAll, SessionExpires
<1>3. \A t \in Sessions : SessionKept(t)'
  BY <1>1, <1>2 DEF IdentityInv, SessionKept
<1>4. IdentityTypeOK'
  BY <1>1, <1>2 DEF IdentityInv, IdentityTypeOK
<1> QED BY <1>2, <1>3, <1>4, IdentityFrame DEF IdentityInv

\* A password goes up by one.
LEMMA PasswordWritten ==
    ASSUME IdentityInv, NEW u \in Users, NewPassword(u), users[u].password < MaxPasswords
    PROVE  /\ users' \in [Users -> AccountRow]
           /\ users'[u].password = users[u].password + 1
           /\ \A v \in Users : /\ users'[v].floor = users[v].floor
                               /\ users[v].password <= users'[v].password
<1>1. PICK st \in {"absent", "PENDING_VERIFICATION", "ACTIVE"}, ro \in Roles, pw, fl \in 0..MaxPasswords :
         users[u] = [status |-> st, role |-> ro, password |-> pw, floor |-> fl]
  BY DEF IdentityInv, IdentityTypeOK
<1>2. [users[u] EXCEPT !.password = @ + 1] = [status |-> st, role |-> ro, password |-> pw + 1, floor |-> fl]
  BY <1>1
<1>3. users' = [users EXCEPT ![u] = [status |-> st, role |-> ro, password |-> pw + 1, floor |-> fl]]
  BY <1>2 DEF NewPassword
<1>4. pw + 1 \in 0..MaxPasswords
  BY <1>1, IdentityAssumption
<1>5. \A v \in Users : users[v].password \in Int
  BY DEF IdentityInv, IdentityTypeOK
<1> QED BY <1>1, <1>3, <1>4, <1>5 DEF IdentityInv, IdentityTypeOK, AccountRow

\* Passwords change, by their owner or by a reset.
LEMMA PasswordStep ==
    ASSUME IdentityInv, NEW u \in Users,
           \/ resetPassword(u) \/ markPasswordResetTokenUsed(u)
           \/ \E s \in Sessions : u = userSessions[s].user /\ changePassword(s)
    PROVE  IdentityInv'
<1>1. CASE resetPassword(u)
  <2>1. UNCHANGED <<userSessions, logins, guesses, tokens, request>>
        /\ resets' = [resets EXCEPT ![u] = [pc |-> "mark", password |-> users[u].password + 1]]
        /\ users[u].password < MaxPasswords /\ NewPassword(u)
    BY <1>1 DEF resetPassword
  <2>2. users[u].password + 1 \in 0..MaxPasswords
    BY <2>1, IdentityAssumption DEF IdentityInv, IdentityTypeOK
  <2>3. IdentityTypeOK'
    BY <2>1, <2>2, PasswordWritten DEF IdentityInv, IdentityTypeOK, AccountRow
  <2>4. \A v \in Users : users[v].floor \in Int /\ users[v].password \in Int /\ users'[v].password \in Int
                         /\ resets[v].password \in Int
    BY <2>3 DEF IdentityInv, IdentityTypeOK
  <2>5. \A v \in Users : AccountKept(v)'
    <3>1. users'[u].password = users[u].password + 1
          /\ \A v \in Users : users'[v].floor = users[v].floor /\ users[v].password <= users'[v].password
      BY <2>1, PasswordWritten
    <3>2. \A v \in Users : v # u => resets'[v] = resets[v]
      BY <2>1 DEF IdentityInv, IdentityTypeOK
    <3>3. resets'[u].password = users[u].password + 1
      BY <2>1 DEF IdentityInv, IdentityTypeOK
    <3> QED BY <2>4, <3>1, <3>2, <3>3 DEF IdentityInv, AccountKept
  <2> QED BY <2>1, <2>3, <2>5, PasswordWritten, AccountWritten, IdentityFrame DEF IdentityInv, AccountRow
<1>2. CASE markPasswordResetTokenUsed(u)
  <2>1. UNCHANGED <<users, userSessions, logins, guesses, request>>
        /\ resets' = [resets EXCEPT ![u].pc = "revoke"] /\ resets[u].pc = "mark"
        /\ tokens' = [tokens EXCEPT ![<<u, "reset">>] = "used"]
    BY <1>2 DEF markPasswordResetTokenUsed, useToken
  <2>2. [resets[u] EXCEPT !.pc = "revoke"] \in ResetRow
        /\ [resets[u] EXCEPT !.pc = "revoke"].password = resets[u].password
    BY DEF IdentityInv, IdentityTypeOK, ResetRow
  <2>3. resets' \in [Users -> ResetRow]
        /\ \A v \in Users : resets'[v].password = resets[v].password /\ (v # u => resets'[v] = resets[v])
    BY <2>1, <2>2 DEF IdentityInv, IdentityTypeOK, ResetRow
  <2>4. \A v \in Users : AccountKept(v)'
    BY <2>1, <2>3 DEF IdentityInv, AccountKept
  <2>5. IdentityTypeOK'
    BY <2>1, <2>3 DEF IdentityInv, IdentityTypeOK, Kinds, ResetRow
  <2> QED BY <2>1, <2>4, <2>5, IdentityFrame DEF IdentityInv
<1>3. ASSUME NEW s \in Sessions, u = userSessions[s].user, changePassword(s)
      PROVE  IdentityInv'
  <2>1. UNCHANGED <<userSessions, logins, guesses, tokens, resets, request>>
        /\ users[u].password < MaxPasswords /\ NewPassword(u)
    BY <1>3 DEF changePassword
  <2>2. IdentityTypeOK'
    BY <2>1, PasswordWritten DEF IdentityInv, IdentityTypeOK, AccountRow
  <2> QED BY <2>1, <2>2, PasswordWritten, AccountWritten, IdentityFrame DEF IdentityInv, AccountRow
<1> QED BY <1>1, <1>2, <1>3

\* The end of a reset closes the sessions of its account and remembers which
\* logins were under way.
LEMMA RevokeStep ==
    ASSUME IdentityInv, NEW u \in Users, ResetRevokes(u)
    PROVE  IdentityInv'
<1>1. UNCHANGED <<guesses, tokens, request>> /\ resets[u].pc = "revoke"
      /\ resets' = [resets EXCEPT ![u] = NoReset]
      /\ users' = [users EXCEPT ![u].floor = resets[u].password]
  BY DEF ResetRevokes
<1>2. /\ users' \in [Users -> AccountRow]
      /\ \A v \in Users : users'[v].password = users[v].password
      /\ users'[u].floor = resets[u].password
      /\ \A v \in Users : v # u => users'[v] = users[v]
  <2>1. resets[u].password \in 0..MaxPasswords
    BY DEF IdentityInv, IdentityTypeOK
  <2>2. [users[u] EXCEPT !.floor = resets[u].password] \in AccountRow
    <3>1. PICK f \in 0..MaxPasswords : f = resets[u].password
      BY <2>1
    <3>2. users[u] \in AccountRow
      BY DEF IdentityInv, IdentityTypeOK, AccountRow
    <3> QED BY <3>1, <3>2 DEF AccountRow
  <2> QED BY <1>1, <2>2 DEF IdentityInv, IdentityTypeOK, AccountRow
<1>3. NoReset \in ResetRow /\ NoReset.pc = "none"
  BY IdentityAssumption DEF NoReset, ResetRow
<1>4. resets' \in [Users -> ResetRow] /\ resets'[u] = NoReset /\ \A v \in Users : v # u => resets'[v] = resets[v]
  BY <1>1, <1>3 DEF IdentityInv, IdentityTypeOK, ResetRow
<1>5. \A v \in Users : AccountKept(v)'
  BY <1>1, <1>2, <1>3, <1>4 DEF IdentityInv, AccountKept
<1>6. /\ userSessions' \in [Sessions -> UserSessionRow]
      /\ \A s \in Sessions : userSessions'[s].live =>
            userSessions'[s] = userSessions[s] /\ userSessions[s].user # u
  <2>1. userSessions' = [s \in Sessions |-> IF userSessions[s].user = u THEN [userSessions[s] EXCEPT !.live = FALSE]
                                            ELSE userSessions[s]]
    BY DEF ResetRevokes, revokeAllSessionsForUser
  <2>2. \A s \in Sessions : userSessions[s] \in UserSessionRow
    BY DEF IdentityInv, IdentityTypeOK, UserSessionRow
  <2>3. \A s \in Sessions : [userSessions[s] EXCEPT !.live = FALSE] \in UserSessionRow
    BY <2>2 DEF UserSessionRow
  <2>4. \A s \in Sessions : [userSessions[s] EXCEPT !.live = FALSE].live = FALSE
    BY <2>2 DEF UserSessionRow
  <2> QED BY <2>1, <2>2, <2>3, <2>4
<1>7. \A s \in Sessions : SessionKept(s)'
  BY <1>2, <1>6 DEF IdentityInv, SessionKept
<1>8. /\ logins' \in [Sessions -> LoginRow]
      /\ \A s \in Sessions : /\ logins'[s].user = logins[s].user
                             /\ logins'[s].password = logins[s].password
                             /\ logins'[s].overtaken = (logins[s].overtaken \/ logins[s].user = u)
                             /\ logins[s] = NoLogin /\ logins[s].user # u => logins'[s] = NoLogin
  <2>1. logins' = [s \in Sessions |-> [logins[s] EXCEPT !.overtaken = @ \/ logins[s].user = u]]
    BY DEF ResetRevokes
  <2>2. SUFFICES ASSUME NEW s \in Sessions
                 PROVE  /\ logins'[s] \in LoginRow
                        /\ logins'[s].user = logins[s].user
                        /\ logins'[s].password = logins[s].password
                        /\ logins'[s].overtaken = (logins[s].overtaken \/ logins[s].user = u)
                        /\ logins[s] = NoLogin /\ logins[s].user # u => logins'[s] = NoLogin
    BY <2>1
  <2>3. PICK w \in Users \cup {None}, pw \in 0..MaxPasswords, o \in BOOLEAN :
           logins[s] = [user |-> w, password |-> pw, overtaken |-> o]
    BY DEF IdentityInv, IdentityTypeOK
  <2>4. PICK n \in BOOLEAN : n = (o \/ w = u)
    OBVIOUS
  <2>5. logins'[s] = [user |-> w, password |-> pw, overtaken |-> n]
    BY <2>1, <2>3, <2>4
  <2>6. logins[s] = NoLogin /\ w # u => logins'[s] = NoLogin
    BY <2>3, <2>4, <2>5 DEF NoLogin
  <2>7. logins'[s] \in LoginRow /\ logins'[s].user = logins[s].user /\ logins'[s].password = logins[s].password
    BY <2>3, <2>5 DEF LoginRow
  <2>8. logins'[s].overtaken = (logins[s].overtaken \/ logins[s].user = u)
    BY <2>3, <2>4, <2>5
  <2> QED BY <2>3, <2>6, <2>7, <2>8
<1>9. \A s \in Sessions : LoginKept(s)'
  <2>1. SUFFICES ASSUME NEW s \in Sessions, logins'[s] # NoLogin
                 PROVE  /\ logins'[s].user \in Users
                        /\ ~logins'[s].overtaken => logins'[s].password >= users'[logins'[s].user].floor
    BY DEF LoginKept
  <2>2. CASE logins[s].user = u
    BY <1>8, <2>2
  <2>3. CASE logins[s].user # u
    BY <1>2, <1>8, <2>1, <2>3 DEF IdentityInv, LoginKept
  <2> QED BY <2>2, <2>3
<1>10. IdentityTypeOK'
  BY <1>1, <1>2, <1>4, <1>6, <1>8 DEF IdentityInv, IdentityTypeOK, AccountRow, ResetRow, UserSessionRow, LoginRow
<1> QED BY <1>1, <1>5, <1>7, <1>9, <1>10 DEF IdentityInv, RequestKept

\* The others: a mail for a new address, a request served, a restart.
LEMMA OtherStep ==
    ASSUME IdentityInv,
           \/ \E s \in Sessions : requestEmailChange(s)
           \/ Handled \/ IdentityRestart
    PROVE  IdentityInv'
<1>1. ASSUME NEW s \in Sessions, requestEmailChange(s)
      PROVE  IdentityInv'
  <2>1. UNCHANGED <<users, userSessions, logins, guesses, resets, request>>
        /\ tokens' \in [Users \X Kinds -> {"none", "valid", "used", "expired"}]
    BY <1>1 DEF requestEmailChange, createToken, IdentityInv, IdentityTypeOK
  <2> QED BY <2>1, IdentityFrame DEF IdentityInv, IdentityTypeOK
<1>2. CASE Handled
  BY <1>2, IdentityFrame DEF Handled, IdentityInv, IdentityTypeOK, NoRequest, RequestKept
<1>3. CASE IdentityRestart
  <2>1. UNCHANGED <<users, userSessions, tokens>> /\ request' = NoRequest
        /\ logins' = [s \in Sessions |-> NoLogin] /\ resets' = [u \in Users |-> NoReset]
        /\ guesses' = [u \in Users |-> [guesses[u] EXCEPT !.pending = 0]]
    BY <1>3 DEF IdentityRestart
  <2>2. guesses' \in [Users -> [failed : Nat, pending : Nat]]
    BY <2>1 DEF IdentityInv, IdentityTypeOK
  <2>3. IdentityTypeOK'
    BY <2>1, <2>2, IdentityAssumption DEF IdentityInv, IdentityTypeOK, NoLogin, NoReset, NoRequest
  <2>4. \A u \in Users : AccountKept(u)'
    BY <2>1 DEF IdentityInv, AccountKept, NoReset
  <2>5. \A s \in Sessions : LoginKept(s)'
    BY <2>1 DEF LoginKept
  <2>6. RequestKept'
    BY <2>1 DEF RequestKept, NoRequest
  <2> QED BY <2>1, <2>3, <2>4, <2>5, <2>6, IdentityFrame DEF IdentityInv
<1> QED BY <1>1, <1>2, <1>3

LEMMA IdentityKeeps == IdentityInv /\ identityStep => IdentityInv'
<1> SUFFICES ASSUME IdentityInv, identityStep PROVE IdentityInv'
  OBVIOUS
<1>1. CASE UNCHANGED <<baseVars, identityVars>>
  BY <1>1 DEF identityVars, IdentityInv, IdentityTypeOK, AccountKept, SessionKept, LoginKept, RequestKept
<1>2. ASSUME NEW u \in Users,
             \/ register(u) \/ resendVerificationEmail(u) \/ verifyEmail(u) \/ activateUser(u)
             \/ confirmEmailChange(u) \/ markEmailChangeTokenUsed(u) \/ requestPasswordReset(u)
             \/ \E kind \in Kinds : TokenDeadline(u, kind)
             \/ \E role \in Roles : changeRole(u, role)
      PROVE  IdentityInv'
  BY <1>2, AddressStep
<1>3. ASSUME NEW u \in Users, WrongPassword(u) \/ recordLoginAttempt(u) \/ FailuresForgotten(u)
      PROVE  IdentityInv'
  BY <1>3, GuessStep
<1>4. ASSUME NEW u \in Users, resetPassword(u) \/ markPasswordResetTokenUsed(u)
      PROVE  IdentityInv'
  BY <1>4, PasswordStep
<1>5. ASSUME NEW u \in Users, ResetRevokes(u)
      PROVE  IdentityInv'
  BY <1>5, RevokeStep
<1>6. ASSUME NEW s \in Sessions, openSession(s) \/ \E u \in Users : login(s, u)
      PROVE  IdentityInv'
  BY <1>6, LoginStep
<1>7. ASSUME NEW s \in Sessions, logout(s) \/ logoutAll(s) \/ SessionExpires(s)
      PROVE  IdentityInv'
  BY <1>7, SessionEnds
<1>8. ASSUME NEW s \in Sessions, changePassword(s)
      PROVE  IdentityInv'
  <2>1. userSessions[s].user \in Users
    BY <1>8 DEF changePassword, Active, IdentityInv, SessionKept
  <2> QED BY <1>8, <2>1, PasswordStep
<1>9. ASSUME NEW route \in RouteClasses,
             WithoutSession(route) \/ \E s \in Sessions : attachAuthUser(s, route)
      PROVE  IdentityInv'
  <2>1. UNCHANGED <<users, userSessions, logins, guesses, tokens, resets>>
    BY <1>9 DEF WithoutSession, attachAuthUser
  <2>2. IdentityTypeOK' /\ RequestKept'
    BY <1>9, <2>1, RequestMade DEF IdentityInv, IdentityTypeOK
  <2> QED BY <2>1, <2>2, IdentityFrame DEF IdentityInv
<1>10. CASE Handled \/ IdentityRestart \/ \E s \in Sessions : requestEmailChange(s)
  BY <1>10, OtherStep
<1> QED BY <1>1, <1>2, <1>3, <1>4, <1>5, <1>6, <1>7, <1>8, <1>9, <1>10 DEF identityStep, IdentityNext

LEMMA PasswordsFromInv == IdentityInv => SessionsFollowPasswords
BY DEF IdentityInv, SessionsFollowPasswords, SessionKept, LoginKept, RequestKept

\* The accounts, the sessions and what is under way keep their types
\* (modules/identity), however many accounts and sessions there are.
THEOREM IdentityTyped == IdentitySpec => []IdentityTypeOK
<1>1. IdentityInv => IdentityTypeOK
  BY DEF IdentityInv
<1> QED BY <1>1, IdentityStart, IdentityKeeps, PTL DEF IdentitySpec, identityStep

\* Once a reset is over no session opened with an earlier password is open,
\* unless its login was under way when the sessions were revoked
\* (identity.service.ts:180-183), and what the desk or the administration does
\* is done for somebody who was at least STAFF when the request was received:
\* whatever the interleaving of logins, resets, changes of role and restarts.
THEOREM PasswordsHold == IdentitySpec => []SessionsFollowPasswords
BY IdentityStart, IdentityKeeps, PasswordsFromInv, PTL DEF IdentitySpec, identityStep

-----------------------------------------------------------------------------
(***************************************************************************)
(* The device of the premises.                                             *)
(***************************************************************************)
premisesStep == [PremisesNext]_premisesVars

CommandRow == [status : {"absent", "asked", "PENDING", "DELIVERED", "SUCCESS", "FAILED", "EXPIRED"},
               manual : BOOLEAN, late : BOOLEAN, raced : BOOLEAN]
ServerRow == [active : BOOLEAN, online : BOOLEAN, lit : BOOLEAN, events : SUBSET Events]
CodeOrigins == {"V2_GENERATED", "LEGACY_IMPORTED", "STAFF_MASTER", "LEGACY_ONLY"}
Contents == [codes : SUBSET (CodeOrigins \X (Codes \cup {None})), lit : BOOLEAN, ids : SUBSET Commands]
RaspiRow == [pc : {"idle", "waiting", "execute", "mark", "ack", "flush"}, answer : Answers, content : Contents,
             queue : SUBSET Commands, outcome : {"SUCCESS", "FAILED"}]
DiskRow == [known : BOOLEAN, revision : Contents, executed : SUBSET Commands, lightOn : BOOLEAN,
            events : SUBSET Events, sent : SUBSET Events]
PanelRow == [pending : BOOLEAN, tone : {"none", "progress", "success", "failed"},
             feedback : Commands \cup {None}, posting : Commands \cup {None}, timer : Commands \cup {None},
             answers : SUBSET Shown, mixed : BOOLEAN]
RelaysRow == [pulses : [Commands -> Nat], cut : [Commands -> Nat]]

DeviceShape ==
    /\ commands \in [Commands -> CommandRow] /\ server \in ServerRow /\ raspi \in RaspiRow
    /\ disk \in DiskRow /\ disk.sent \subseteq disk.events /\ relays \in RelaysRow /\ panel \in PanelRow

LEMMA ShapeTyped == DeviceShape => DeviceTypeOK
BY DEF DeviceShape, DeviceTypeOK, CommandRow, ServerRow, Contents, RaspiRow, DiskRow, PanelRow, RelaysRow

\* The command in hand is one of the queue.
LEMMA FirstOf ==
    ASSUME NEW S \in SUBSET Commands, S # {}
    PROVE  Min(S) \in S /\ \A x \in S : Min(S) <= x
<1>1. S \subseteq 1..MaxCommands /\ MaxCommands \in Nat
  BY DeviceAssumption DEF Commands
<1>2. PICK T : T = {1..x : x \in S}
  OBVIOUS
<1>5. PICK m \in T : \A y \in T : y \subseteq m => y = m
  <2>1. IsFiniteSet(1..MaxCommands)
    BY <1>1, FS_Interval
  <2>2. ASSUME NEW x \in S PROVE 1..x \subseteq 1..MaxCommands
    BY <1>1
  <2>3. T \subseteq SUBSET (1..MaxCommands)
    BY <1>2, <2>2
  <2>4. T # {}
    <3>1. PICK x \in S : TRUE
      OBVIOUS
    <3> QED BY <1>2, <3>1
  <2>5. PICK U : U = 1..MaxCommands
    OBVIOUS
  <2>6. IsFiniteSet(U) /\ T \subseteq SUBSET U
    BY <2>1, <2>3, <2>5
  <2> QED BY <2>4, <2>6, Smallest
<1>3. PICK k \in S : m = 1..k
  BY <1>2, <1>5
<1>4. \A x \in S : k <= x
  <2>1. SUFFICES ASSUME NEW x \in S, x < k PROVE FALSE
    BY <1>1
  <2>2. 1..x = 1..k
    <3>1. 1..x \in T /\ 1..x \subseteq 1..k
      BY <1>1, <1>2, <2>1
    <3> QED BY <1>3, <1>5, <3>1
  <2>3. k \in 1..x
    BY <1>1, <2>2
  <2> QED BY <1>1, <2>1, <2>3
<1> QED BY <1>3, <1>4 DEF Min

-----------------------------------------------------------------------------
\* A manual command that waits: asked for, or in flight before its deadline.
Queued(c) == commands[c].manual /\ ~commands[c].late /\ commands[c].status \in {"asked", "PENDING", "DELIVERED"}

\* The table of commands: filled in order, what is acknowledged was run, and
\* of two commands that wait the second was asked while another was checked.
TableKept ==
    /\ \A c \in Commands : commands[c].status \in {"SUCCESS", "FAILED"} => c \in disk.executed
    /\ \A c, d \in Commands : c < d /\ commands[c].status = "absent" => commands[d].status = "absent"
    /\ \A c, d \in Commands : c < d /\ Queued(c) /\ Queued(d) => commands[d].raced
    /\ \A c \in Commands : commands[c].status \in {"absent", "asked"} => ~commands[c].late

\* The relays: one pulse, and one more for each stop that came after a pulse.
InHand(c) == raspi.pc = "mark" /\ Min(raspi.queue) = c
RelaysKept ==
    /\ raspi.pc \in {"mark", "ack"} => raspi.queue # {}
    /\ raspi.pc = "ack" => Min(raspi.queue) \in disk.executed
    /\ \A c \in Commands : relays.pulses[c] <= 1 + relays.cut[c]
    /\ \A c \in Commands \ disk.executed : InHand(c) \/ relays.pulses[c] <= relays.cut[c]

\* The page: what it shows of a command is what the command became, and its
\* buttons wait for what it asked, unless a late answer came between.
PageTold ==
    /\ \A a \in panel.answers : a.status = "SUCCESS" => commands[a.command].status = "SUCCESS"
    /\ panel.tone = "success" /\ panel.feedback \in Commands => commands[panel.feedback].status = "SUCCESS"
    /\ panel.posting # None => commands[panel.posting].status # "absent"
    /\ panel.timer # None => commands[panel.timer].status \notin {"absent", "asked"}

PageWaits ==
    /\ ~panel.mixed /\ panel.posting # None => panel.pending /\ panel.timer = None
    /\ ~panel.mixed /\ panel.timer # None => panel.pending
    /\ panel.pending => panel.posting # None \/ panel.timer # None

DeviceInv == DeviceShape /\ TableKept /\ RelaysKept /\ PageTold /\ PageWaits

LEMMA DeviceStart == DeviceInit => DeviceInv
<1> SUFFICES ASSUME DeviceInit PROVE DeviceInv
  OBVIOUS
<1>1. NoRevision \in Contents
  BY DEF NoRevision, Contents
<1>2. Asleep \in RaspiRow
  BY <1>1 DEF Asleep, RaspiRow, Answers
<1>3. DeviceShape
  BY <1>1, <1>2 DEF DeviceInit, DeviceShape, CommandRow, ServerRow, DiskRow, PanelRow, RelaysRow, Unused
<1>4. TableKept
  BY DEF DeviceInit, TableKept, Queued
<1>5. RelaysKept
  BY DEF DeviceInit, RelaysKept, Asleep
<1>6. PageTold /\ PageWaits
  BY DEF DeviceInit, PageTold, PageWaits, Unused
<1> QED BY <1>3, <1>4, <1>5, <1>6 DEF DeviceInv

LEMMA DeviceFromInv == DeviceInv => CommandsRunOnce
<1> SUFFICES ASSUME DeviceInv, NEW c \in Commands
             PROVE  /\ relays.pulses[c] <= 1 + relays.cut[c]
                    /\ commands[c].status \in {"SUCCESS", "FAILED"} => c \in disk.executed
                    /\ \A d \in findActivePendingCommandForDevice :
                        c < d /\ c \in findActivePendingCommandForDevice => commands[d].raced
                    /\ panel.tone = "success" /\ panel.feedback = c => commands[c].status = "SUCCESS"
                    /\ panel.timer = c /\ ~panel.mixed => panel.pending
                    /\ panel.pending => {panel.posting, panel.timer} # {None}
  BY DEF CommandsRunOnce
<1>1. c # None
  BY DeviceAssumption DEF Commands
<1>2. \A d \in findActivePendingCommandForDevice : d \in Commands /\ Queued(d)
  BY DEF findActivePendingCommandForDevice, findDeliverableCommands, Queued
<1>3. \A d \in findActivePendingCommandForDevice :
         c < d /\ c \in findActivePendingCommandForDevice => commands[d].raced
  BY <1>2 DEF DeviceInv, TableKept
<1>4. /\ relays.pulses[c] <= 1 + relays.cut[c]
      /\ commands[c].status \in {"SUCCESS", "FAILED"} => c \in disk.executed
  BY DEF DeviceInv, TableKept, RelaysKept
<1>5. /\ panel.tone = "success" /\ panel.feedback = c => commands[c].status = "SUCCESS"
      /\ panel.timer = c /\ ~panel.mixed => panel.pending
      /\ panel.pending => {panel.posting, panel.timer} # {None}
  BY <1>1 DEF DeviceInv, PageTold, PageWaits
<1> QED BY <1>3, <1>4, <1>5

-----------------------------------------------------------------------------
\* The life of a command goes forward.
Forward ==
    /\ commands' \in [Commands -> CommandRow]
    /\ disk.executed \subseteq disk'.executed
    /\ \A c \in Commands :
        /\ commands'[c].manual = commands[c].manual /\ commands'[c].raced = commands[c].raced
        /\ commands[c].late => commands'[c].late
        /\ \/ commands'[c].status = commands[c].status
           \/ commands[c].status = "asked" /\ commands'[c].status = "PENDING"
           \/ commands[c].status \in {"PENDING", "DELIVERED"} /\ commands'[c].status \in {"DELIVERED", "EXPIRED"}
           \/ /\ commands[c].status = "DELIVERED" /\ commands'[c].status \in {"SUCCESS", "FAILED"}
              /\ c \in disk'.executed
        /\ commands'[c].status \in {"absent", "asked"} => commands'[c].late = commands[c].late

LEMMA ForwardTable == DeviceInv /\ Forward => TableKept'
<1> SUFFICES ASSUME DeviceInv, Forward PROVE TableKept'
  OBVIOUS
<1>1. \A c \in Commands : Queued(c)' => Queued(c)
  BY DEF Forward, Queued
<1>2. \A c \in Commands : /\ commands'[c].status \in {"SUCCESS", "FAILED"} => c \in disk'.executed
                          /\ commands'[c].status = "absent" <=> commands[c].status = "absent"
                          /\ commands'[c].status \in {"absent", "asked"} => ~commands'[c].late
  BY DEF Forward, DeviceInv, TableKept
<1>3. \A c, d \in Commands : c < d /\ Queued(c)' /\ Queued(d)' => commands'[d].raced
  BY <1>1 DEF Forward, DeviceInv, TableKept
<1> QED BY <1>2, <1>3 DEF DeviceInv, TableKept

LEMMA ForwardPage == DeviceInv /\ Forward /\ panel' = panel => PageTold' /\ PageWaits'
<1> SUFFICES ASSUME DeviceInv, Forward, panel' = panel PROVE PageTold' /\ PageWaits'
  OBVIOUS
<1>1. \A c \in Commands : /\ commands[c].status = "SUCCESS" => commands'[c].status = "SUCCESS"
                          /\ commands[c].status # "absent" => commands'[c].status # "absent"
                          /\ commands[c].status \notin {"absent", "asked"} => commands'[c].status \notin {"absent", "asked"}
  BY DEF Forward
<1>2. panel.posting \in Commands \cup {None} /\ panel.timer \in Commands \cup {None}
      /\ \A a \in panel.answers : a.command \in Commands
  BY DEF DeviceInv, DeviceShape, PanelRow, Shown
<1>3. PageTold'
  BY <1>1, <1>2 DEF DeviceInv, PageTold
<1> QED BY <1>3 DEF DeviceInv, PageWaits

\* The relays, when the device goes from one step to the next without a pulse.
LEMMA RelaysFrame ==
    ASSUME DeviceInv, relays' = relays, disk'.executed = disk.executed,
           \/ raspi'.pc \notin {"mark", "ack"} /\ raspi.pc # "mark"
           \/ raspi'.pc = raspi.pc /\ raspi'.queue = raspi.queue
    PROVE  RelaysKept'
BY DEF DeviceInv, RelaysKept, InHand

\* A command is created: the first that was never asked for.
Created(c) ==
    /\ Fresh # {} /\ c = Min(Fresh)
    /\ \E manual \in BOOLEAN, s \in {"asked", "PENDING"} :
        /\ createCommand(c, manual, s)
        /\ manual => findActivePendingCommandForDevice = {}

LEMMA CreatedTable ==
    ASSUME DeviceInv, NEW c \in Commands, Created(c), disk' = disk
    PROVE  /\ commands' \in [Commands -> CommandRow]
           /\ TableKept'
           /\ commands'[c].status \in {"asked", "PENDING"}
           /\ commands[c].status = "absent"
           /\ \A d \in Commands : d # c => commands'[d] = commands[d]
<1>1. PICK manual \in BOOLEAN, s \in {"asked", "PENDING"} :
        createCommand(c, manual, s) /\ (manual => findActivePendingCommandForDevice = {})
  BY DEF Created
<1>2. commands[c].status = "absent" /\ \A d \in Commands : commands[d].status = "absent" => c <= d
  <2>1. Fresh \in SUBSET Commands /\ Fresh # {} /\ c = Min(Fresh)
    BY DEF Created, Fresh
  <2>2. c \in Fresh /\ \A d \in Fresh : c <= d
    BY <2>1, FirstOf
  <2> QED BY <2>2 DEF Fresh
<1>3. PICK raced \in BOOLEAN : raced = (Asked # {})
  OBVIOUS
<1>4. commands' = [commands EXCEPT ![c] = [status |-> s, manual |-> manual, late |-> FALSE, raced |-> raced]]
  BY <1>1, <1>3 DEF createCommand
<1>5. /\ commands' \in [Commands -> CommandRow]
      /\ commands'[c] = [status |-> s, manual |-> manual, late |-> FALSE, raced |-> raced]
      /\ \A d \in Commands : d # c => commands'[d] = commands[d]
  BY <1>4 DEF DeviceInv, DeviceShape, CommandRow
<1>6. \A d, e \in Commands : d < e /\ Queued(d)' /\ Queued(e)' => commands'[e].raced
  <2>1. SUFFICES ASSUME NEW d \in Commands, NEW e \in Commands, d < e, Queued(d)', Queued(e)'
                 PROVE  commands'[e].raced
    OBVIOUS
  <2>2. CASE e # c /\ d # c
    BY <1>5, <2>1, <2>2 DEF DeviceInv, TableKept, Queued
  <2>3. CASE d = c
    <3>1. commands[e].status = "absent" /\ e # c
      BY <1>2, <2>1, <2>3, DeviceAssumption DEF DeviceInv, TableKept, Commands
    <3> QED BY <1>5, <2>1, <3>1 DEF Queued
  <2>4. CASE e = c
    <3>1. d # c
      BY <2>1, <2>4, DeviceAssumption DEF Commands
    <3>2. commands[d].status \in {"asked", "PENDING", "DELIVERED"} /\ commands[d].manual /\ ~commands[d].late
      BY <1>5, <2>1, <3>1 DEF Queued
    <3>3. manual
      BY <1>5, <2>1, <2>4 DEF Queued
    <3>4. d \notin findActivePendingCommandForDevice
      BY <1>1, <3>3
    <3>5. commands[d].status = "asked"
      BY <3>2, <3>4 DEF findActivePendingCommandForDevice, findDeliverableCommands
    <3>6. raced
      BY <1>3, <3>5 DEF Asked
    <3> QED BY <1>5, <2>4, <3>6
  <2> QED BY <2>2, <2>3, <2>4
<1>7. \A d, e \in Commands : d < e /\ commands'[d].status = "absent" => commands'[e].status = "absent"
  <2>1. SUFFICES ASSUME NEW d \in Commands, NEW e \in Commands, d < e, commands'[d].status = "absent"
                 PROVE  commands'[e].status = "absent"
    OBVIOUS
  <2>2. d # c /\ commands[d].status = "absent"
    BY <1>1, <1>5, <2>1
  <2>3. commands[e].status = "absent" /\ c <= d
    BY <1>2, <2>1, <2>2 DEF DeviceInv, TableKept
  <2>4. e # c
    BY <2>1, <2>3, DeviceAssumption DEF Commands
  <2> QED BY <1>5, <2>3, <2>4
<1>8. \A d \in Commands : /\ commands'[d].status \in {"SUCCESS", "FAILED"} => d \in disk.executed
                          /\ commands'[d].status \in {"absent", "asked"} => ~commands'[d].late
  BY <1>5 DEF DeviceInv, TableKept
<1>9. TableKept'
  BY <1>6, <1>7, <1>8 DEF TableKept
<1> QED BY <1>2, <1>5, <1>9

LEMMA CreatedPage ==
    ASSUME DeviceInv, NEW c \in Commands, Created(c), disk' = disk
    PROVE  /\ panel' = panel => PageTold'
           /\ \A a \in panel.answers : a.status = "SUCCESS" => commands'[a.command].status = "SUCCESS"
           /\ panel.timer # None => commands'[panel.timer].status \notin {"absent", "asked"}
<1>1. /\ commands'[c].status \in {"asked", "PENDING"} /\ commands[c].status = "absent"
      /\ \A d \in Commands : d # c => commands'[d] = commands[d]
  BY CreatedTable
<1>2. panel.posting \in Commands \cup {None} /\ panel.timer \in Commands \cup {None}
      /\ \A a \in panel.answers : a.command \in Commands
  BY DEF DeviceInv, DeviceShape, PanelRow, Shown
<1> QED BY <1>1, <1>2 DEF DeviceInv, PageTold

\* A command is asked for, by the page of another employee or by a rule.
LEMMA QueueStep ==
    ASSUME DeviceInv, NEW c \in Commands, queueCommand(c) \/ queueManualCommand(c), panel' = panel
    PROVE  DeviceInv'
<1>1. Created(c) /\ UNCHANGED <<server, raspi, disk, relays>>
  BY DEF queueCommand, queueManualCommand, Created, Accepts
<1>2. TableKept' /\ commands' \in [Commands -> CommandRow]
  BY <1>1, CreatedTable
<1>3. PageTold'
  BY <1>1, CreatedPage
<1>4. RelaysKept'
  BY <1>1, RelaysFrame
<1> QED BY <1>1, <1>2, <1>3, <1>4 DEF DeviceInv, DeviceShape, PageWaits

LEMMA TableUntouched ==
    ASSUME DeviceInv, commands' = commands, disk'.executed = disk.executed \/ disk.executed \subseteq disk'.executed
    PROVE  TableKept' /\ (panel' = panel => PageTold' /\ PageWaits')
BY DEF DeviceInv, TableKept, Queued, PageTold, PageWaits

\* The row of a command is written, or its deadline passes.
LEMMA ClockStep ==
    ASSUME DeviceInv, NEW c \in Commands, ManualCommandCreated(c) \/ CommandDeadline(c), panel' = panel
    PROVE  DeviceInv'
<1>1. UNCHANGED <<server, raspi, disk, relays>>
  BY DEF ManualCommandCreated, CommandDeadline
<1>2. PICK r \in CommandRow : r = commands[c]
  BY DEF DeviceInv, DeviceShape
<1>3. Forward
  <2>1. CASE ManualCommandCreated(c)
    <3>1. PICK w : w = [r EXCEPT !.status = "PENDING"]
      OBVIOUS
    <3>2. w \in CommandRow /\ w.status = "PENDING" /\ w.manual = r.manual /\ w.raced = r.raced /\ w.late = r.late
      BY <3>1 DEF CommandRow
    <3>3. r.status = "asked" /\ commands' = [commands EXCEPT ![c] = w]
      BY <1>2, <2>1, <3>1 DEF ManualCommandCreated
    <3> QED BY <1>1, <1>2, <3>2, <3>3 DEF Forward, DeviceInv, DeviceShape
  <2>2. CASE CommandDeadline(c)
    <3>1. PICK w : w = [r EXCEPT !.late = TRUE]
      OBVIOUS
    <3>2. w \in CommandRow /\ w.status = r.status /\ w.manual = r.manual /\ w.raced = r.raced /\ w.late
      BY <3>1 DEF CommandRow
    <3>3. r.status \in {"PENDING", "DELIVERED"} /\ commands' = [commands EXCEPT ![c] = w]
      BY <1>2, <2>2, <3>1 DEF CommandDeadline, InFlight
    <3> QED BY <1>1, <1>2, <3>2, <3>3 DEF Forward, DeviceInv, DeviceShape
  <2> QED BY <2>1, <2>2
<1>4. TableKept' /\ PageTold' /\ PageWaits'
  BY <1>3, ForwardTable, ForwardPage
<1>5. RelaysKept'
  BY <1>1, RelaysFrame
<1> QED BY <1>1, <1>3, <1>4, <1>5 DEF DeviceInv, DeviceShape, Forward

\* The device is revoked or silent, the light plan changes.
LEMMA ServerStep ==
    ASSUME DeviceInv, revokeDevice \/ DeviceSilent \/ LightPlanChanges, panel' = panel
    PROVE  DeviceInv'
<1>1. UNCHANGED <<commands, raspi, disk, relays>>
  BY DEF revokeDevice, DeviceSilent, LightPlanChanges
<1>2. server' \in ServerRow
  <2>1. PICK a, o, l \in BOOLEAN, e \in SUBSET Events : server = [active |-> a, online |-> o, lit |-> l, events |-> e]
    BY DEF DeviceInv, DeviceShape, ServerRow
  <2>2. CASE revokeDevice
    BY <2>1, <2>2 DEF revokeDevice, ServerRow
  <2>3. CASE DeviceSilent
    BY <2>1, <2>3 DEF DeviceSilent, ServerRow
  <2>4. CASE LightPlanChanges
    BY <2>1, <2>4 DEF LightPlanChanges, ServerRow
  <2> QED BY <2>2, <2>3, <2>4
<1>3. RelaysKept'
  BY <1>1, RelaysFrame
<1> QED BY <1>1, <1>2, <1>3, TableUntouched DEF DeviceInv, DeviceShape

\* What a snapshot writes of the commands: the stale expire, the others of the
\* snapshot are delivered.
LEMMA Expired ==
    ASSUME DeviceInv
    PROVE  LET t == expireStaleCommands(commands) IN
           /\ t \in [Commands -> CommandRow]
           /\ \A c \in Commands : /\ t[c].manual = commands[c].manual /\ t[c].raced = commands[c].raced
                                  /\ t[c].late = commands[c].late
                                  /\ \/ t[c].status = commands[c].status
                                     \/ commands[c].status \in {"PENDING", "DELIVERED"} /\ t[c].status = "EXPIRED"
<1>1. SUFFICES ASSUME NEW c \in Commands
               PROVE  /\ expireStaleCommands(commands)[c] \in CommandRow
                      /\ expireStaleCommands(commands)[c].manual = commands[c].manual
                      /\ expireStaleCommands(commands)[c].raced = commands[c].raced
                      /\ expireStaleCommands(commands)[c].late = commands[c].late
                      /\ \/ expireStaleCommands(commands)[c].status = commands[c].status
                         \/ /\ commands[c].status \in {"PENDING", "DELIVERED"}
                            /\ expireStaleCommands(commands)[c].status = "EXPIRED"
  BY DEF expireStaleCommands
<1>2. PICK r \in CommandRow : r = commands[c]
  BY DEF DeviceInv, DeviceShape
<1>3. PICK w : w = [r EXCEPT !.status = "EXPIRED"]
  OBVIOUS
<1>4. w \in CommandRow /\ w.status = "EXPIRED" /\ w.manual = r.manual /\ w.raced = r.raced /\ w.late = r.late
  BY <1>3 DEF CommandRow
<1>5. expireStaleCommands(commands)[c] = IF r.late /\ r.status \in {"PENDING", "DELIVERED"} THEN w ELSE r
  BY <1>2, <1>3 DEF expireStaleCommands
<1> QED BY <1>2, <1>4, <1>5

LEMMA CommandsDelivered ==
    ASSUME NEW t \in [Commands -> CommandRow], NEW ids
    PROVE  /\ markDelivered(t, ids) \in [Commands -> CommandRow]
           /\ \A c \in Commands : /\ markDelivered(t, ids)[c].manual = t[c].manual
                                  /\ markDelivered(t, ids)[c].raced = t[c].raced
                                  /\ markDelivered(t, ids)[c].late = t[c].late
                                  /\ \/ markDelivered(t, ids)[c].status = t[c].status
                                     \/ t[c].status = "PENDING" /\ markDelivered(t, ids)[c].status = "DELIVERED"
<1>1. SUFFICES ASSUME NEW c \in Commands
               PROVE  /\ markDelivered(t, ids)[c] \in CommandRow
                      /\ markDelivered(t, ids)[c].manual = t[c].manual
                      /\ markDelivered(t, ids)[c].raced = t[c].raced
                      /\ markDelivered(t, ids)[c].late = t[c].late
                      /\ \/ markDelivered(t, ids)[c].status = t[c].status
                         \/ t[c].status = "PENDING" /\ markDelivered(t, ids)[c].status = "DELIVERED"
  BY DEF markDelivered
<1>2. PICK r \in CommandRow : r = t[c]
  OBVIOUS
<1>3. PICK w : w = [r EXCEPT !.status = "DELIVERED"]
  OBVIOUS
<1>4. w \in CommandRow /\ w.status = "DELIVERED" /\ w.manual = r.manual /\ w.raced = r.raced /\ w.late = r.late
  BY <1>3 DEF CommandRow
<1>5. markDelivered(t, ids)[c] = IF c \in ids /\ r.status = "PENDING" THEN w ELSE r
  BY <1>2, <1>3 DEF markDelivered
<1> QED BY <1>2, <1>4, <1>5

\* A snapshot is read; a device that does not hold it gets the commands too.
LEMMA PollStep ==
    ASSUME AccessInv, DeviceInv, PollSnapshot, panel' = panel
    PROVE  AccessInv' /\ DeviceInv'
<1>1. UNCHANGED <<booked, grants, granting, revoking, server, disk, relays>> /\ raspi.pc = "idle"
  BY DEF PollSnapshot
<1>2. AccessInv'
  <2>1. others' = expireStale(others)
    BY DEF PollSnapshot, buildSnapshot
  <2>2. others' \in [staff : Codes \cup {None}, staffLate : BOOLEAN, doinsport : Codes \cup {None}]
    <3>1. PICK o \in [staff : Codes \cup {None}, staffLate : BOOLEAN, doinsport : Codes \cup {None}] : o = others
      BY DEF AccessInv, AccessTypeOK
    <3>2. [o EXCEPT !.staff = None, !.staffLate = FALSE]
             \in [staff : Codes \cup {None}, staffLate : BOOLEAN, doinsport : Codes \cup {None}]
      OBVIOUS
    <3> QED BY <2>1, <3>1, <3>2 DEF expireStale
  <2> QED BY <1>1, <2>2 DEF AccessInv, AccessTypeOK, InOrder, Revoked, Apart, Live
<1>3. PICK t \in [Commands -> CommandRow] : t = expireStaleCommands(commands)
  BY Expired
<1>4. \A c \in Commands : /\ t[c].manual = commands[c].manual /\ t[c].raced = commands[c].raced
                          /\ t[c].late = commands[c].late
                          /\ \/ t[c].status = commands[c].status
                             \/ commands[c].status \in {"PENDING", "DELIVERED"} /\ t[c].status = "EXPIRED"
  BY <1>3, Expired
<1>5. SnapshotOf(t) \in Contents
  <2>1. ActiveCodes \subseteq CodeOrigins \X (Codes \cup {None})
    <3>1. \A b \in Bookings : grants[b].origin \in CodeOrigins /\ grants[b].code \in Codes \cup {None}
      BY DEF AccessInv, AccessTypeOK, CodeOrigins
    <3>2. findActiveForZoneIds \subseteq Codes \cup {None} /\ findDoinsportOnly \subseteq Codes \cup {None}
      BY DEF findActiveForZoneIds, findDoinsportOnly, AccessInv, AccessTypeOK
    <3>3. findActiveInScopesWindow \subseteq Bookings
      BY DEF findActiveInScopesWindow
    <3>4. "STAFF_MASTER" \in CodeOrigins /\ "LEGACY_ONLY" \in CodeOrigins
      BY DEF CodeOrigins
    <3> HIDE DEF findActiveInScopesWindow, findActiveForZoneIds, findDoinsportOnly
    <3> QED BY <3>1, <3>2, <3>3, <3>4 DEF ActiveCodes
  <2>2. server.lit \in BOOLEAN
    BY DEF DeviceInv, DeviceShape, ServerRow
  <2> QED BY <2>1, <2>2 DEF SnapshotOf, Contents, findDeliverableCommands
<1>6. PICK k \in Contents : k = SnapshotOf(t)
  BY <1>5
<1>7. /\ commands' = IF NotModified(disk.revision, k) THEN t ELSE markDelivered(t, k.ids)
      /\ raspi' = [raspi EXCEPT !.pc = "waiting", !.content = k,
                                !.answer = IF NotModified(disk.revision, k) THEN "304" ELSE "200"]
  BY <1>3, <1>6 DEF PollSnapshot, buildSnapshot
<1>8. Forward
  <2>1. /\ markDelivered(t, k.ids) \in [Commands -> CommandRow]
        /\ \A c \in Commands : /\ markDelivered(t, k.ids)[c].manual = t[c].manual
                               /\ markDelivered(t, k.ids)[c].raced = t[c].raced
                               /\ markDelivered(t, k.ids)[c].late = t[c].late
                               /\ \/ markDelivered(t, k.ids)[c].status = t[c].status
                                  \/ t[c].status = "PENDING" /\ markDelivered(t, k.ids)[c].status = "DELIVERED"
    BY CommandsDelivered
  <2>2. CASE NotModified(disk.revision, k)
    BY <1>1, <1>4, <1>7, <2>2 DEF Forward
  <2>3. CASE ~NotModified(disk.revision, k)
    BY <1>1, <1>4, <1>7, <2>1, <2>3 DEF Forward
  <2> QED BY <2>2, <2>3
<1>9. raspi' \in RaspiRow /\ raspi'.pc = "waiting"
  <2>1. PICK r \in RaspiRow : r = raspi
    BY DEF DeviceInv, DeviceShape
  <2>2. PICK a \in {"304", "200"} : a = IF NotModified(disk.revision, k) THEN "304" ELSE "200"
    OBVIOUS
  <2>3. raspi' = [r EXCEPT !.pc = "waiting", !.content = k, !.answer = a]
    BY <1>7, <2>1, <2>2
  <2> QED BY <2>3 DEF RaspiRow, Answers
<1>10. TableKept' /\ PageTold' /\ PageWaits'
  BY <1>8, ForwardTable, ForwardPage
<1>11. RelaysKept'
  BY <1>1, <1>9, RelaysFrame
<1> QED BY <1>1, <1>2, <1>8, <1>9, <1>10, <1>11 DEF DeviceInv, DeviceShape, Forward

\* The device: what it does with the answer, its queue, its cache.
LEMMA AsleepTyped ==
    ASSUME NEW pc \in {"idle", "waiting", "execute", "mark", "ack", "flush"}, NEW q \in SUBSET Commands
    PROVE  /\ Asleep \in RaspiRow /\ [Asleep EXCEPT !.pc = pc] \in RaspiRow
           /\ [Asleep EXCEPT !.pc = pc].pc = pc /\ Asleep.pc = "idle"
           /\ [Asleep EXCEPT !.pc = pc, !.queue = q] \in RaspiRow
           /\ [Asleep EXCEPT !.pc = pc, !.queue = q].pc = pc
<1>1. NoRevision \in Contents
  BY DEF NoRevision, Contents
<1>2. PICK a \in RaspiRow : a = Asleep /\ a.pc = "idle"
  <2>1. Asleep \in RaspiRow
    BY <1>1 DEF Asleep, RaspiRow, Answers
  <2>2. Asleep.pc = "idle"
    BY DEF Asleep
  <2> QED BY <2>1, <2>2
<1>3. [a EXCEPT !.pc = pc] \in RaspiRow /\ [a EXCEPT !.pc = pc].pc = pc
  BY DEF RaspiRow
<1>4. [a EXCEPT !.pc = pc, !.queue = q] \in RaspiRow /\ [a EXCEPT !.pc = pc, !.queue = q].pc = pc
  BY DEF RaspiRow
<1> QED BY <1>2, <1>3, <1>4

LEMMA AnswerStep ==
    ASSUME DeviceInv, panel' = panel,
           \/ AnswerLost \/ SnapshotFailed \/ SnapshotNotModified \/ SnapshotApplied
           \/ CommandsDone \/ AlreadyExecuted
    PROVE  DeviceInv'
<1>1. UNCHANGED <<commands, server, relays>>
  BY DEF AnswerLost, SnapshotFailed, SnapshotNotModified, SnapshotApplied, CommandsDone, AlreadyExecuted
<1>2. PICK r \in RaspiRow : r = raspi
  BY DEF DeviceInv, DeviceShape
<1>3. CASE AnswerLost \/ SnapshotFailed \/ SnapshotNotModified \/ CommandsDone
  <2>1. disk' = disk /\ raspi.pc \in {"waiting", "execute"}
    BY <1>3 DEF AnswerLost, SnapshotFailed, SnapshotNotModified, CommandsDone
  <2>2. raspi' \in RaspiRow /\ raspi'.pc \in {"waiting", "flush"}
    <3>1. CASE AnswerLost
      <4>1. raspi' = [r EXCEPT !.answer = "lost"] /\ r.pc = "waiting"
        BY <1>2, <3>1 DEF AnswerLost
      <4> QED BY <4>1 DEF RaspiRow, Answers
    <3>2. CASE ~AnswerLost
      <4>1. raspi' = [Asleep EXCEPT !.pc = "flush"]
        BY <1>3, <3>2 DEF SnapshotFailed, SnapshotNotModified, CommandsDone
      <4> QED BY <4>1, AsleepTyped
    <3> QED BY <3>1, <3>2
  <2>3. RelaysKept'
    BY <1>1, <2>1, <2>2, RelaysFrame
  <2> QED BY <1>1, <2>1, <2>2, <2>3, TableUntouched DEF DeviceInv, DeviceShape
<1>4. CASE SnapshotApplied
  <2>1. /\ disk' = [disk EXCEPT !.known = TRUE, !.revision = raspi.content] /\ raspi.pc = "waiting"
        /\ raspi' = [Asleep EXCEPT !.pc = "execute", !.queue = raspi.content.ids]
    BY <1>4 DEF SnapshotApplied
  <2>2. raspi.content \in Contents /\ raspi.content.ids \in SUBSET Commands
    BY <1>2 DEF RaspiRow, Contents
  <2>3. raspi' \in RaspiRow /\ raspi'.pc = "execute"
    BY <2>1, <2>2, AsleepTyped
  <2>4. disk' \in DiskRow /\ disk'.executed = disk.executed /\ disk'.sent = disk.sent /\ disk'.events = disk.events
    <3>1. PICK d \in DiskRow, k \in Contents : d = disk /\ k = raspi.content
      BY <2>2 DEF DeviceInv, DeviceShape
    <3>2. disk' = [d EXCEPT !.known = TRUE, !.revision = k]
      BY <2>1, <3>1
    <3>3. disk' \in DiskRow
      BY <3>2 DEF DiskRow
    <3>4. disk'.executed = d.executed /\ disk'.sent = d.sent /\ disk'.events = d.events
      BY <3>2 DEF DiskRow
    <3> QED BY <3>1, <3>3, <3>4
  <2>5. RelaysKept'
    BY <1>1, <2>1, <2>3, <2>4, RelaysFrame
  <2> QED BY <1>1, <2>3, <2>4, <2>5, TableUntouched DEF DeviceInv, DeviceShape
<1>5. CASE AlreadyExecuted
  <2>1. /\ disk' = disk /\ raspi.pc = "execute" /\ raspi.queue # {} /\ Current \in disk.executed
        /\ raspi' = [r EXCEPT !.pc = "ack", !.outcome = "SUCCESS"]
    BY <1>2, <1>5 DEF AlreadyExecuted
  <2>2. raspi' \in RaspiRow /\ raspi'.pc = "ack" /\ raspi'.queue = raspi.queue
    BY <1>2, <2>1 DEF RaspiRow
  <2>3. RelaysKept'
    BY <1>1, <2>1, <2>2 DEF DeviceInv, RelaysKept, InHand, Current
  <2> QED BY <1>1, <2>1, <2>2, <2>3, TableUntouched DEF DeviceInv, DeviceShape
<1> QED BY <1>3, <1>4, <1>5

\* A pulse, and the line that remembers it.
LEMMA RunsStep ==
    ASSUME DeviceInv, RunCommand \/ RunCommandFails \/ MarkExecuted, panel' = panel
    PROVE  DeviceInv'
<1>1. UNCHANGED <<commands, server>>
  BY DEF RunCommand, RunCommandFails, MarkExecuted
<1>2. PICK r \in RaspiRow : r = raspi
  BY DEF DeviceInv, DeviceShape
<1>3. PICK pulses \in [Commands -> Nat], cut \in [Commands -> Nat] : relays = [pulses |-> pulses, cut |-> cut]
  BY DEF DeviceInv, DeviceShape, RelaysRow
<1>4. CASE RunCommand \/ RunCommandFails
  <2>1. PICK c \in Commands, n \in {0, 1}, o \in {"SUCCESS", "FAILED"} :
          /\ c = Min(raspi.queue) /\ raspi.queue # {} /\ c \notin disk.executed /\ raspi.pc = "execute"
          /\ disk' = disk /\ raspi' = [r EXCEPT !.pc = "mark", !.outcome = o]
          /\ relays' = [relays EXCEPT !.pulses[c] = @ + n]
    <3>1. raspi.queue # {} => Min(raspi.queue) \in Commands
      BY <1>2, FirstOf DEF RaspiRow
    <3>2. CASE RunCommand
      BY <1>2, <3>1, <3>2 DEF RunCommand, Current
    <3>3. CASE RunCommandFails
      BY <1>2, <3>1, <3>3 DEF RunCommandFails, Current
    <3> QED BY <1>4, <3>2, <3>3
  <2>2. raspi' \in RaspiRow /\ raspi'.pc = "mark" /\ raspi'.queue = raspi.queue
    BY <1>2, <2>1 DEF RaspiRow
  <2>3. relays' = [pulses |-> [pulses EXCEPT ![c] = @ + n], cut |-> cut]
    BY <1>3, <2>1
  <2>4. relays' \in RelaysRow /\ relays'.cut = relays.cut /\ relays'.pulses[c] = relays.pulses[c] + n
        /\ \A d \in Commands : d # c => relays'.pulses[d] = relays.pulses[d]
    BY <1>3, <2>3 DEF RelaysRow
  <2>5. RelaysKept'
    <3>1. \A d \in Commands : relays.pulses[d] \in Nat /\ relays.cut[d] \in Nat
      BY <1>3
    <3>2. relays.pulses[c] <= relays.cut[c] /\ \A d \in Commands \ disk.executed : relays.pulses[d] <= relays.cut[d]
      BY <2>1 DEF DeviceInv, RelaysKept, InHand
    <3>3. \A d \in Commands : relays'.pulses[d] <= 1 + relays'.cut[d]
      BY <2>4, <3>1, <3>2 DEF DeviceInv, RelaysKept
    <3>4. \A d \in Commands \ disk.executed : d = c \/ relays'.pulses[d] <= relays'.cut[d]
      BY <2>4, <3>2
    <3> QED BY <2>1, <2>2, <3>3, <3>4 DEF RelaysKept, InHand
  <2> QED BY <1>1, <2>1, <2>2, <2>4, <2>5, TableUntouched DEF DeviceInv, DeviceShape
<1>5. CASE MarkExecuted
  <2>1. /\ raspi.pc = "mark" /\ raspi' = [r EXCEPT !.pc = "ack"] /\ relays' = relays
        /\ disk' = [disk EXCEPT !.executed = @ \cup {Current}]
    BY <1>2, <1>5 DEF MarkExecuted
  <2>2. raspi.queue # {} /\ Current \in Commands
    BY <1>2, <2>1, FirstOf DEF DeviceInv, RelaysKept, RaspiRow, Current
  <2>3. raspi' \in RaspiRow /\ raspi'.pc = "ack" /\ raspi'.queue = raspi.queue
    BY <1>2, <2>1 DEF RaspiRow
  <2>4. disk' \in DiskRow /\ disk'.executed = disk.executed \cup {Current}
        /\ disk'.sent = disk.sent /\ disk'.events = disk.events
    <3>1. PICK d \in DiskRow, c \in Commands : d = disk /\ c = Current
      BY <2>2 DEF DeviceInv, DeviceShape
    <3>2. disk' = [d EXCEPT !.executed = d.executed \cup {c}]
      BY <2>1, <3>1
    <3>3. disk' \in DiskRow
      BY <3>2 DEF DiskRow
    <3>4. disk'.executed = d.executed \cup {c} /\ disk'.sent = d.sent /\ disk'.events = d.events
      BY <3>2 DEF DiskRow
    <3> QED BY <3>1, <3>3, <3>4
  <2>5. RelaysKept'
    <3>1. \A d \in Commands \ disk'.executed : relays.pulses[d] <= relays.cut[d]
      BY <2>4 DEF DeviceInv, RelaysKept, InHand, Current
    <3> QED BY <2>1, <2>2, <2>3, <2>4, <3>1 DEF DeviceInv, RelaysKept, InHand, Current
  <2> QED BY <1>1, <2>1, <2>3, <2>4, <2>5, TableUntouched DEF DeviceInv, DeviceShape
<1> QED BY <1>4, <1>5

\* The acknowledgement, and its loss.
LEMMA AckStep ==
    ASSUME DeviceInv, SendAck \/ AckLost, panel' = panel
    PROVE  DeviceInv'
<1>1. UNCHANGED <<server, disk, relays>> /\ raspi.pc = "ack"
  BY DEF SendAck, AckLost
<1>2. PICK r \in RaspiRow : r = raspi
  BY DEF DeviceInv, DeviceShape
<1>3. PICK c \in Commands, o \in {"SUCCESS", "FAILED"} : c = Current /\ o = raspi.outcome /\ c \in disk.executed
  BY <1>1, <1>2, FirstOf DEF DeviceInv, RelaysKept, RaspiRow, Current
<1>4. commands' \in {commands, ackCommand(commands, c, o)}
  BY <1>3 DEF SendAck, AckLost
<1>5. Forward
  <2>1. CASE commands' = commands
    BY <1>1, <2>1 DEF Forward, DeviceInv, DeviceShape
  <2>2. CASE commands[c].status = "DELIVERED" /\ commands' = [commands EXCEPT ![c].status = o]
    <3>1. PICK w : w = [commands[c] EXCEPT !.status = o]
      OBVIOUS
    <3>2. PICK k \in CommandRow : k = commands[c]
      BY DEF DeviceInv, DeviceShape
    <3>3. w = [k EXCEPT !.status = o]
      BY <3>1, <3>2
    <3>4. w \in CommandRow /\ w.status = o /\ w.manual = k.manual /\ w.late = k.late /\ w.raced = k.raced
      BY <3>3 DEF CommandRow
    <3>5. commands' = [commands EXCEPT ![c] = w]
      BY <2>2, <3>1
    <3> QED BY <1>1, <1>3, <2>2, <3>2, <3>4, <3>5 DEF Forward, DeviceInv, DeviceShape
  <2> QED BY <1>4, <2>1, <2>2 DEF ackCommand
<1>6. raspi' \in RaspiRow /\ raspi'.pc \in {"execute", "flush"}
  <2>1. CASE SendAck
    <3>1. raspi' = [r EXCEPT !.pc = "execute", !.queue = r.queue \ {c}]
      BY <1>2, <1>3, <2>1 DEF SendAck
    <3> QED BY <3>1 DEF RaspiRow
  <2>2. CASE AckLost
    BY <2>2, AsleepTyped DEF AckLost
  <2> QED BY <2>1, <2>2
<1>7. RelaysKept'
  BY <1>1, <1>6, RelaysFrame
<1> QED BY <1>1, <1>5, <1>6, <1>7, ForwardTable, ForwardPage DEF DeviceInv, DeviceShape, Forward

\* The events, the light, the keypad, a restart.
LEMMA RestStep ==
    ASSUME DeviceInv, FlushEvents \/ FlushAnswerLost \/ EvaluateLighting \/ KeypadCode \/ DeviceRestart, panel' = panel
    PROVE  DeviceInv'
<1>1. commands' = commands
  BY DEF FlushEvents, FlushAnswerLost, EvaluateLighting, KeypadCode, DeviceRestart
<1>2. PICK d \in DiskRow : d = disk /\ d.sent \subseteq d.events
  BY DEF DeviceInv, DeviceShape
<1>3. CASE DeviceRestart
  <2>1. UNCHANGED <<server, disk>> /\ raspi' = Asleep
        /\ relays' = IF raspi.pc = "mark" THEN [relays EXCEPT !.cut[Current] = @ + 1] ELSE relays
    BY <1>3 DEF DeviceRestart
  <2>2. PICK pulses \in [Commands -> Nat], cut \in [Commands -> Nat] : relays = [pulses |-> pulses, cut |-> cut]
    BY DEF DeviceInv, DeviceShape, RelaysRow
  <2>3. raspi' \in RaspiRow /\ raspi'.pc = "idle"
    BY <2>1, AsleepTyped
  <2>4. relays' \in RelaysRow /\ RelaysKept'
    <3>1. CASE raspi.pc # "mark"
      BY <2>1, <2>3, <3>1, RelaysFrame DEF DeviceInv, DeviceShape
    <3>2. CASE raspi.pc = "mark"
      <4>1. PICK c \in Commands : c = Current
        BY <3>2, FirstOf DEF DeviceInv, DeviceShape, RelaysKept, RaspiRow, Current
      <4>2. relays' = [pulses |-> pulses, cut |-> [cut EXCEPT ![c] = @ + 1]]
        BY <2>1, <2>2, <3>2, <4>1
      <4>3. relays' \in RelaysRow /\ relays'.pulses = pulses /\ relays'.cut[c] = cut[c] + 1
            /\ \A e \in Commands : e # c => relays'.cut[e] = cut[e]
        BY <4>2 DEF RelaysRow
      <4>4. \A e \in Commands : pulses[e] \in Nat /\ cut[e] \in Nat /\ pulses[e] <= 1 + cut[e]
            /\ (e \notin disk.executed => e = c \/ pulses[e] <= cut[e])
        BY <2>2, <4>1 DEF DeviceInv, RelaysKept, InHand, Current
      <4> QED BY <2>1, <2>3, <4>3, <4>4 DEF RelaysKept, InHand
    <3> QED BY <3>1, <3>2
  <2> QED BY <1>1, <2>1, <2>3, <2>4, TableUntouched DEF DeviceInv, DeviceShape
<1>4. CASE EvaluateLighting \/ KeypadCode
  <2>1. UNCHANGED <<server, raspi, relays>>
    BY <1>4 DEF EvaluateLighting, KeypadCode
  <2>2. disk' \in DiskRow /\ disk'.executed = disk.executed /\ disk'.sent \subseteq disk'.events
    <3>1. CASE EvaluateLighting
      <4>1. PICK l \in BOOLEAN : l = disk.revision.lit
        BY <1>2 DEF DiskRow, Contents
      <4>2. disk' = [d EXCEPT !.lightOn = l]
        BY <1>2, <3>1, <4>1 DEF EvaluateLighting
      <4>3. disk' \in DiskRow /\ disk'.executed = d.executed /\ disk'.sent = d.sent /\ disk'.events = d.events
        BY <4>2 DEF DiskRow
      <4> QED BY <1>2, <4>3
    <3>2. CASE KeypadCode
      <4>1. PICK n \in Events : n = Cardinality(d.events) + 1
        <5>1. MaxEvents \in Nat /\ d.events \in SUBSET (1..MaxEvents)
          BY <1>2, DeviceAssumption DEF DiskRow, Events
        <5>2. IsFiniteSet(d.events)
          <6>1. PICK U : U = 1..MaxEvents /\ IsFiniteSet(U)
            BY <5>1, FS_Interval
          <6>2. d.events \subseteq U
            BY <5>1, <6>1
          <6> QED BY <6>1, <6>2, FS_Subset
        <5>3. Cardinality(d.events) \in Nat
          BY <5>2, FS_CardinalityType
        <5>4. Cardinality(d.events) < MaxEvents
          BY <1>2, <3>2 DEF KeypadCode
        <5> QED BY <5>1, <5>3, <5>4 DEF Events
      <4>2. disk' = [d EXCEPT !.events = d.events \cup {n}]
        BY <1>2, <3>2, <4>1 DEF KeypadCode
      <4>3. disk' \in DiskRow
        BY <4>2 DEF DiskRow
      <4>4. disk'.executed = d.executed /\ disk'.sent = d.sent /\ disk'.events = d.events \cup {n}
        BY <4>2 DEF DiskRow
      <4> QED BY <1>2, <4>3, <4>4
    <3> QED BY <1>4, <3>1, <3>2
  <2>3. RelaysKept'
    BY <2>1, <2>2, RelaysFrame
  <2> QED BY <1>1, <2>1, <2>2, <2>3, TableUntouched DEF DeviceInv, DeviceShape
<1>5. CASE FlushEvents \/ FlushAnswerLost
  <2>1. raspi.pc = "flush" /\ raspi' = Asleep /\ relays' = relays
    BY <1>5 DEF FlushEvents, FlushAnswerLost
  <2>2. PICK a, o, l \in BOOLEAN, e \in SUBSET Events : server = [active |-> a, online |-> o, lit |-> l, events |-> e]
    BY DEF DeviceInv, DeviceShape, ServerRow
  <2>3. server' \in ServerRow
    <3>1. PICK f \in SUBSET Events : f = e \cup disk.events
      BY <1>2 DEF DiskRow
    <3>2. server' \in {server, [server EXCEPT !.events = f, !.online = TRUE], [server EXCEPT !.events = f]}
      BY <1>5, <2>2, <3>1 DEF FlushEvents, FlushAnswerLost
    <3>3. [server EXCEPT !.events = f, !.online = TRUE] \in ServerRow
      BY <2>2, <3>1 DEF ServerRow
    <3>4. [server EXCEPT !.events = f] \in ServerRow
      BY <2>2, <3>1 DEF ServerRow
    <3> QED BY <3>2, <3>3, <3>4 DEF DeviceInv, DeviceShape
  <2>4. disk' \in DiskRow /\ disk'.executed = disk.executed /\ disk'.sent \subseteq disk'.events
    <3>1. CASE disk' = disk
      BY <1>2, <3>1
    <3>2. CASE disk' = [d EXCEPT !.sent = d.events]
      <4>1. disk' \in DiskRow /\ disk'.executed = d.executed /\ disk'.sent = d.events /\ disk'.events = d.events
        BY <3>2 DEF DiskRow
      <4> QED BY <1>2, <4>1
    <3> QED BY <1>2, <1>5, <3>1, <3>2 DEF FlushEvents, FlushAnswerLost
  <2>5. raspi' \in RaspiRow /\ raspi'.pc = "idle"
    BY <2>1, AsleepTyped
  <2>6. RelaysKept'
    BY <2>1, <2>4, <2>5, RelaysFrame
  <2> QED BY <1>1, <2>1, <2>3, <2>4, <2>5, <2>6, TableUntouched DEF DeviceInv, DeviceShape
<1> QED BY <1>3, <1>4, <1>5

\* The page of the back office.
LEMMA PanelFrame ==
    ASSUME DeviceInv, UNCHANGED <<commands, server, raspi, disk, relays>>, panel' \in PanelRow, PageTold', PageWaits'
    PROVE  DeviceInv'
BY TableUntouched, RelaysFrame DEF DeviceInv, DeviceShape

LEMMA PanelAsks ==
    ASSUME DeviceInv, NEW c \in Commands, handleManualCommand(c)
    PROVE  DeviceInv'
<1>1. Created(c) /\ UNCHANGED <<server, raspi, disk, relays>> /\ ~panel.pending
      /\ panel' = [panel EXCEPT !.pending = TRUE, !.tone = "progress", !.feedback = None, !.posting = c]
  BY DEF handleManualCommand, Created, Accepts
<1>2. TableKept' /\ commands' \in [Commands -> CommandRow] /\ commands'[c].status \in {"asked", "PENDING"}
  BY <1>1, CreatedTable
<1>3. PICK p \in PanelRow : p = panel
  BY DEF DeviceInv, DeviceShape
<1>4. panel' = [p EXCEPT !.pending = TRUE, !.tone = "progress", !.feedback = None, !.posting = c]
  BY <1>1, <1>3
<1>5. panel' \in PanelRow
  BY <1>4 DEF PanelRow
<1>6. panel'.pending /\ panel'.tone = "progress" /\ panel'.posting = c /\ panel'.timer = p.timer
      /\ panel'.answers = p.answers /\ panel'.mixed = p.mixed
  BY <1>4 DEF PanelRow
<1>7. c # None
  BY DeviceAssumption DEF Commands
<1>8. PageTold'
  BY <1>1, <1>2, <1>3, <1>6, CreatedPage DEF PageTold
<1>9. PageWaits'
  BY <1>1, <1>3, <1>6, <1>7 DEF DeviceInv, PageWaits
<1>10. RelaysKept'
  BY <1>1, RelaysFrame
<1> QED BY <1>1, <1>2, <1>5, <1>8, <1>9, <1>10 DEF DeviceInv, DeviceShape

LEMMA PanelFollows ==
    ASSUME DeviceInv, CommandRefused \/ pollCommand \/ CommandAnswerLost \/ getCommand \/ CommandTimeout
    PROVE  DeviceInv'
<1>1. UNCHANGED <<commands, server, raspi, disk, relays>>
  BY DEF CommandRefused, pollCommand, CommandAnswerLost, getCommand, CommandTimeout
<1>2. PICK p \in PanelRow : p = panel
  BY DEF DeviceInv, DeviceShape
<1>3. CASE CommandRefused
  <2>1. panel' = [p EXCEPT !.tone = "failed", !.feedback = None]
    BY <1>2, <1>3 DEF CommandRefused
  <2>2. panel' \in PanelRow
    BY <2>1 DEF PanelRow
  <2>3. panel'.pending = p.pending /\ panel'.tone = "failed" /\ panel'.posting = p.posting
        /\ panel'.timer = p.timer /\ panel'.answers = p.answers /\ panel'.mixed = p.mixed
    BY <2>1 DEF PanelRow
  <2>4. PageTold' /\ PageWaits'
    BY <1>1, <1>2, <2>3 DEF DeviceInv, PageTold, PageWaits
  <2> QED BY <1>1, <2>2, <2>4, PanelFrame
<1>4. CASE pollCommand
  <2>1. panel' = [p EXCEPT !.posting = None, !.timer = p.posting] /\ p.posting # None
        /\ commands[p.posting].status # "asked"
    BY <1>2, <1>4 DEF pollCommand
  <2>2. panel' \in PanelRow
    BY <2>1 DEF PanelRow
  <2>3. panel'.pending = p.pending /\ panel'.tone = p.tone /\ panel'.feedback = p.feedback
        /\ panel'.posting = None /\ panel'.timer = p.posting /\ panel'.answers = p.answers /\ panel'.mixed = p.mixed
    BY <2>1 DEF PanelRow
  <2>4. PageTold' /\ PageWaits'
    BY <1>1, <1>2, <2>1, <2>3 DEF DeviceInv, PageTold, PageWaits
  <2> QED BY <1>1, <2>2, <2>4, PanelFrame
<1>5. CASE CommandAnswerLost
  <2>1. panel' = [p EXCEPT !.posting = None, !.pending = FALSE, !.tone = "failed", !.feedback = None]
        /\ p.posting # None
    BY <1>2, <1>5 DEF CommandAnswerLost
  <2>2. panel' \in PanelRow
    BY <2>1 DEF PanelRow
  <2>3. ~panel'.pending /\ panel'.tone = "failed" /\ panel'.posting = None
        /\ panel'.timer = p.timer /\ panel'.answers = p.answers /\ panel'.mixed = p.mixed
    BY <2>1 DEF PanelRow
  <2>4. PageTold' /\ PageWaits'
    BY <1>1, <1>2, <2>1, <2>3 DEF DeviceInv, PageTold, PageWaits
  <2> QED BY <1>1, <2>2, <2>4, PanelFrame
<1>6. CASE CommandTimeout
  <2>1. panel' = [p EXCEPT !.tone = "failed", !.feedback = p.timer, !.timer = None, !.pending = FALSE]
        /\ p.timer # None
    BY <1>2, <1>6 DEF CommandTimeout
  <2>2. panel' \in PanelRow
    BY <2>1 DEF PanelRow
  <2>3. ~panel'.pending /\ panel'.tone = "failed" /\ panel'.posting = p.posting
        /\ panel'.timer = None /\ panel'.answers = p.answers /\ panel'.mixed = p.mixed
    BY <2>1 DEF PanelRow
  <2>4. PageTold' /\ PageWaits'
    BY <1>1, <1>2, <2>1, <2>3 DEF DeviceInv, PageTold, PageWaits
  <2> QED BY <1>1, <2>2, <2>4, PanelFrame
<1>7. CASE getCommand
  <2>1. PICK a : a = [command |-> p.timer, status |-> commands[p.timer].status]
    OBVIOUS
  <2>2. p.timer \in Commands /\ commands[p.timer] \in CommandRow
        /\ commands[p.timer].status \notin {"absent", "asked"}
    BY <1>2, <1>7 DEF getCommand, DeviceInv, DeviceShape, PanelRow, PageTold
  <2>3. a \in Shown /\ a.command = p.timer /\ a.status = commands[p.timer].status
    BY <2>1, <2>2 DEF Shown, CommandRow
  <2>4. panel' = [p EXCEPT !.answers = p.answers \cup {a}]
    BY <1>2, <1>7, <2>1 DEF getCommand
  <2>5. panel' \in PanelRow
    BY <2>3, <2>4 DEF PanelRow
  <2>6. panel'.pending = p.pending /\ panel'.tone = p.tone /\ panel'.feedback = p.feedback
        /\ panel'.posting = p.posting /\ panel'.timer = p.timer /\ panel'.answers = p.answers \cup {a}
        /\ panel'.mixed = p.mixed
    BY <2>4 DEF PanelRow
  <2>7. PageTold' /\ PageWaits'
    BY <1>1, <1>2, <2>3, <2>6 DEF DeviceInv, PageTold, PageWaits
  <2> QED BY <1>1, <2>5, <2>7, PanelFrame
<1> QED BY <1>3, <1>4, <1>5, <1>6, <1>7

LEMMA PanelShows ==
    ASSUME DeviceInv, NEW a \in panel.answers, CommandAnswer(a)
    PROVE  DeviceInv'
<1>1. UNCHANGED <<commands, server, raspi, disk, relays>>
  BY DEF CommandAnswer
<1>2. PICK p \in PanelRow : p = panel
  BY DEF DeviceInv, DeviceShape
<1>3. a \in Shown
  BY <1>2 DEF PanelRow
<1>4. PICK tone \in {"success", "failed", "progress"}, last \in BOOLEAN :
        tone = Tone(a.status) /\ last = (tone # "progress") /\ (tone = "success" => a.status = "SUCCESS")
  BY <1>3 DEF Tone
<1>5. PICK timer \in Commands \cup {None}, pending \in BOOLEAN, mixed \in BOOLEAN :
        /\ timer = IF last THEN None ELSE p.timer
        /\ pending = (p.pending /\ ~last) /\ mixed = (p.mixed \/ (last /\ p.posting # None))
  BY DEF PanelRow
<1>6. panel' = [p EXCEPT !.answers = p.answers \ {a}, !.feedback = a.command, !.tone = tone,
                         !.timer = timer, !.pending = pending, !.mixed = mixed]
  BY <1>2, <1>4, <1>5 DEF CommandAnswer
<1>7. panel' \in PanelRow
  BY <1>3, <1>6 DEF PanelRow, Shown
<1>8. panel'.pending = pending /\ panel'.tone = tone /\ panel'.feedback = a.command
      /\ panel'.posting = p.posting /\ panel'.timer = timer /\ panel'.answers = p.answers \ {a} /\ panel'.mixed = mixed
  BY <1>6 DEF PanelRow
<1>9. PageTold'
  BY <1>1, <1>2, <1>4, <1>5, <1>8 DEF DeviceInv, PageTold
<1>10. PageWaits'
  BY <1>1, <1>2, <1>4, <1>5, <1>8 DEF DeviceInv, PageWaits
<1> QED BY <1>1, <1>7, <1>9, <1>10, PanelFrame

-----------------------------------------------------------------------------
LEMMA DeviceKeeps ==
    ASSUME DeviceInv, DeviceNext, panel' = panel
    PROVE  DeviceInv'
BY QueueStep, ClockStep, ServerStep, AnswerStep, RunsStep, AckStep, RestStep DEF DeviceNext

LEMMA PanelKeeps ==
    ASSUME DeviceInv, PanelNext
    PROVE  DeviceInv'
BY PanelAsks, PanelFollows, PanelShows DEF PanelNext

LEMMA DeviceSame == DeviceInv /\ UNCHANGED deviceVars => DeviceInv'
BY DEF deviceVars, DeviceInv, DeviceShape, TableKept, Queued, RelaysKept, InHand, PageTold, PageWaits

LEMMA PremisesKeep == AccessInv /\ DeviceInv /\ premisesStep => AccessInv' /\ DeviceInv'
<1> SUFFICES ASSUME AccessInv, DeviceInv, premisesStep PROVE AccessInv' /\ DeviceInv'
  OBVIOUS
<1>1. CASE AccessNext /\ UNCHANGED deviceVars
  BY <1>1, AccessKeeps, DeviceSame DEF accessStep
<1>2. CASE DeviceNext /\ UNCHANGED <<accessVars, panel>>
  <2>1. AccessInv'
    BY <1>2 DEF accessVars, AccessInv, AccessTypeOK, InOrder, Revoked, Apart, Live
  <2> QED BY <1>2, <2>1, DeviceKeeps
<1>3. CASE PanelNext /\ UNCHANGED accessVars
  <2>1. AccessInv'
    BY <1>3 DEF accessVars, AccessInv, AccessTypeOK, InOrder, Revoked, Apart, Live
  <2> QED BY <1>3, <2>1, PanelKeeps
<1>4. CASE PollSnapshot /\ UNCHANGED panel
  BY <1>4, PollStep
<1>5. CASE UNCHANGED premisesVars
  <2>1. AccessInv'
    BY <1>5 DEF premisesVars, accessVars, AccessInv, AccessTypeOK, InOrder, Revoked, Apart, Live
  <2> QED BY <1>5, <2>1, DeviceSame DEF premisesVars
<1> QED BY <1>1, <1>2, <1>3, <1>4, <1>5 DEF premisesStep, PremisesNext

\* The commands, the device, its disk, the relays and the page keep their types.
THEOREM PremisesTyped == PremisesSpec => [](AccessTypeOK /\ DeviceTypeOK)
<1>1. PremisesInit => AccessInv /\ DeviceInv
  BY AccessStart, DeviceStart DEF PremisesInit
<1>2. AccessInv /\ DeviceInv => AccessTypeOK /\ DeviceTypeOK
  BY ShapeTyped DEF AccessInv, DeviceInv
<1> QED BY <1>1, <1>2, PremisesKeep, PTL DEF PremisesSpec, premisesStep

\* A command moves its relay once, and once more for each stop of the device
\* between the pulse and the line that remembers it
\* (ardenne_access_service.py:456-457), whatever answers, acknowledgements and
\* polls are lost; two manual commands wait together only if their handlers
\* raced (automation.service.ts:203); the page announces success only of a
\* command acknowledged as such.  For any number of commands and of codes.
THEOREM RunOnce == PremisesSpec => []CommandsRunOnce
<1>1. PremisesInit => AccessInv /\ DeviceInv
  BY AccessStart, DeviceStart DEF PremisesInit
<1> QED BY <1>1, DeviceFromInv, PremisesKeep, PTL DEF PremisesSpec, premisesStep

-----------------------------------------------------------------------------
(***************************************************************************)
(* The members of the club, read page by page while the list moves.        *)
(***************************************************************************)
\* seen is the fold of addPage over the first entries of a window
Skims(found, window, m, seen) ==
    seen = [n \in 0..m |->
        IF n = 0 THEN found
        ELSE IF window[n] \in Range(seen[n - 1]) THEN seen[n - 1]
        ELSE Append(seen[n - 1], window[n])]

\* A sequence without a member twice
Distinct(s) == \A i, j \in 1..Len(s) : s[i] = s[j] => i = j

\* A set of natural numbers that is not empty has a least one.
LEMMA LeastOf ==
    ASSUME NEW T, T \subseteq Nat, T # {}
    PROVE  \E m \in T : \A k \in T : m <= k
<1>1. PICK t \in T : t \in Nat
  OBVIOUS
<1> DEFINE Upto == {X \in SUBSET (0..t) : \E k \in T : X = 0..k}
<1>2. Upto # {}
  <2>1. 0..t \in Upto
    BY <1>1
  <2> QED  BY <2>1
<1>3. IsFiniteSet(0..t)
  BY <1>1, FS_Interval
<1>4. PICK a \in Upto : \A y \in Upto : y \subseteq a => y = a
  <2>1. Upto \subseteq SUBSET (0..t)
    OBVIOUS
  <2>2. PICK u : u = Upto
    OBVIOUS
  <2>3. PICK J : J = 0..t
    OBVIOUS
  <2>4. u \subseteq SUBSET J /\ u # {} /\ IsFiniteSet(J)
    BY <1>2, <1>3, <2>1, <2>2, <2>3
  <2>5. \E a \in u : \A y \in u : y \subseteq a => y = a
    BY <2>4, Smallest
  <2> QED  BY <2>2, <2>5
<1>5. PICK m \in T : a = 0..m /\ m \in Nat
  OBVIOUS
<1>6. \A k \in T : k < m => 0..k \in Upto /\ 0..k \subseteq a /\ 0..k # a
  <2> SUFFICES ASSUME NEW k \in T, k < m, k \in Nat
               PROVE  0..k \in Upto /\ 0..k \subseteq a /\ 0..k # a
    OBVIOUS
  <2>1. 0..k \subseteq 0..m /\ m \in 0..m /\ m \notin 0..k
    BY <1>5
  <2>2. 0..k \in SUBSET (0..t)
    BY <1>4, <1>5, <2>1
  <2> QED  BY <1>5, <2>1, <2>2
<1>7. \A k \in T : m <= k
  <2> SUFFICES ASSUME NEW k \in T, k \in Nat PROVE m <= k
    OBVIOUS
  <2>1. ~(k < m)
    BY <1>4, <1>6
  <2> QED  BY <1>5, <2>1
<1> QED  BY <1>7

\* What appending one member does.
LEMMA AppendOne ==
    ASSUME NEW S, NEW s \in Seq(S), NEW x \in S
    PROVE  /\ Append(s, x) \in Seq(S)
           /\ Range(Append(s, x)) = Range(s) \cup {x}
           /\ Distinct(s) /\ x \notin Range(s) => Distinct(Append(s, x))
<1>1. /\ Append(s, x) \in Seq(S) /\ Len(Append(s, x)) = Len(s) + 1
      /\ \A i \in 1..Len(s) : Append(s, x)[i] = s[i]
      /\ Append(s, x)[Len(s) + 1] = x
  BY AppendProperties
<1>2. /\ Len(s) \in Nat /\ DOMAIN s = 1..Len(s) /\ DOMAIN Append(s, x) = 1..(Len(s) + 1)
  BY <1>1, LenProperties
<1>3. Range(Append(s, x)) = Range(s) \cup {x}
  <2>1. 1..(Len(s) + 1) = 1..Len(s) \cup {Len(s) + 1}
    BY <1>2
  <2>2. Range(Append(s, x)) = {Append(s, x)[i] : i \in 1..Len(s)} \cup {Append(s, x)[Len(s) + 1]}
    BY <1>2, <2>1 DEF Range
  <2>3. {Append(s, x)[i] : i \in 1..Len(s)} = {s[i] : i \in 1..Len(s)}
    BY <1>1
  <2> QED  BY <1>1, <1>2, <2>2, <2>3 DEF Range
<1>4. ASSUME Distinct(s), x \notin Range(s)
      PROVE  Distinct(Append(s, x))
  <2>1. \A i \in 1..Len(s) : s[i] # x
    BY <1>2, <1>4 DEF Range
  <2>2. SUFFICES ASSUME NEW i \in 1..(Len(s) + 1), NEW j \in 1..(Len(s) + 1),
                        Append(s, x)[i] = Append(s, x)[j]
                 PROVE  i = j
    BY <1>1 DEF Distinct
  <2> QED  BY <1>1, <1>2, <1>4, <2>1, <2>2 DEF Distinct
<1> QED  BY <1>1, <1>3, <1>4

\* The fold exists for every length.
LEMMA SkimsExist ==
    ASSUME NEW found, NEW window, NEW l \in Nat
    PROVE  \E seen : Skims(found, window, l, seen)
<1> DEFINE Fails == {m \in 0..l : ~ \E seen : Skims(found, window, m, seen)}
<1>1. SUFFICES ASSUME Fails # {} PROVE FALSE
  OBVIOUS
<1>2. PICK m \in Fails : \A k \in Fails : m <= k
  <2>1. Fails \subseteq Nat
    OBVIOUS
  <2> HIDE DEF Fails
  <2> QED  BY <1>1, <2>1, LeastOf
<1>3. m # 0
  <2>1. Skims(found, window, 0, [n \in 0..0 |-> found])
    BY DEF Skims
  <2> QED  BY <2>1
<1>4. m - 1 \in 0..l /\ m - 1 \notin Fails
  BY <1>2, <1>3
<1>5. PICK g : Skims(found, window, m - 1, g)
  BY <1>4
<1> DEFINE last == IF window[m] \in Range(g[m - 1]) THEN g[m - 1] ELSE Append(g[m - 1], window[m])
           h == [n \in 0..m |-> IF n = m THEN last ELSE g[n]]
<1>6. Skims(found, window, m, h)
  <2>1. \A n \in 0..(m - 1) : h[n] = g[n]
    OBVIOUS
  <2>2. \A n \in 0..m : h[n] =
            IF n = 0 THEN found
            ELSE IF window[n] \in Range(h[n - 1]) THEN h[n - 1]
            ELSE Append(h[n - 1], window[n])
    <3> SUFFICES ASSUME NEW n \in 0..m
                 PROVE  h[n] = IF n = 0 THEN found
                               ELSE IF window[n] \in Range(h[n - 1]) THEN h[n - 1]
                               ELSE Append(h[n - 1], window[n])
      OBVIOUS
    <3>1. CASE n = m
      <4>1. h[n] = last /\ h[n - 1] = g[m - 1]
        BY <3>1, <2>1, <1>3
      <4> QED  BY <3>1, <4>1, <1>3
    <3>2. CASE n # m
      <4>1. h[n] = g[n] /\ n \in 0..(m - 1)
        BY <3>2
      <4>2. g[n] = IF n = 0 THEN found
                   ELSE IF window[n] \in Range(g[n - 1]) THEN g[n - 1]
                   ELSE Append(g[n - 1], window[n])
        BY <1>5, <4>1 DEF Skims
      <4>3. n # 0 => h[n - 1] = g[n - 1]
        BY <4>1, <2>1
      <4> HIDE DEF h
      <4> QED  BY <4>1, <4>2, <4>3
    <3> QED  BY <3>1, <3>2
  <2>3. h = [n \in 0..m |-> h[n]]
    OBVIOUS
  <2> HIDE DEF h
  <2> QED  BY <2>2, <2>3 DEF Skims
<1> QED  BY <1>2, <1>6

\* A page adds its entries, each one once, to what was read before.
LEMMA PageAdded ==
    ASSUME NEW S, NEW found \in Seq(S), NEW window \in Seq(S), Distinct(found)
    PROVE  LET read == addPage(found, window) IN
           /\ read \in Seq(S) /\ Distinct(read)
           /\ Range(read) = Range(found) \cup Range(window)
<1> DEFINE l == Len(window)
           g == CHOOSE seen : Skims(found, window, l, seen)
<1>1. l \in Nat /\ DOMAIN window = 1..l /\ \A i \in 1..l : window[i] \in S
  BY LenProperties, ElementOfSeq
<1>2. Skims(found, window, l, g)
  BY <1>1, SkimsExist
<1>3. addPage(found, window) = g[l]
  BY DEF addPage, Skims
<1> HIDE DEF g, l
<1> DEFINE Holds(m) == /\ g[m] \in Seq(S) /\ Distinct(g[m])
                       /\ Range(g[m]) = Range(found) \cup {window[i] : i \in 1..m}
           Fails == {m \in 0..l : ~Holds(m)}
<1>4. Fails = {}
  <2>1. SUFFICES ASSUME Fails # {} PROVE FALSE
    OBVIOUS
  <2>2. PICK m \in Fails : \A k \in Fails : m <= k
    <3>1. Fails \subseteq Nat
      BY <1>1
    <3> HIDE DEF Fails
    <3> QED  BY <2>1, <3>1, LeastOf
  <2>3. m \in 0..l /\ m \in Nat
    BY <1>1
  <2>4. g[m] = IF m = 0 THEN found
               ELSE IF window[m] \in Range(g[m - 1]) THEN g[m - 1]
               ELSE Append(g[m - 1], window[m])
    BY <1>2, <2>3 DEF Skims
  <2>5. m # 0
    <3>1. ASSUME m = 0 PROVE Holds(m)
      <4>1. g[m] = found /\ {window[i] : i \in 1..m} = {}
        BY <2>4, <3>1
      <4> QED  BY <4>1
    <3> QED  BY <2>2, <3>1
  <2>6. Holds(m - 1)
    <3>1. m - 1 \in 0..l /\ ~(m <= m - 1)
      BY <1>1, <2>3, <2>5
    <3> QED  BY <2>2, <3>1
  <2>7. window[m] \in S /\ {window[i] : i \in 1..m} = {window[i] : i \in 1..(m - 1)} \cup {window[m]}
    <3>1. m \in 1..l /\ 1..m = 1..(m - 1) \cup {m}
      BY <1>1, <2>3, <2>5
    <3> QED  BY <1>1, <3>1
  <2>8. Holds(m)
    <3>1. CASE window[m] \in Range(g[m - 1])
      <4>1. g[m] = g[m - 1]
        BY <2>4, <2>5, <3>1
      <4> QED  BY <2>6, <2>7, <3>1, <4>1
    <3>2. CASE window[m] \notin Range(g[m - 1])
      <4>1. g[m] = Append(g[m - 1], window[m])
        BY <2>4, <2>5, <3>2
      <4>2. /\ g[m] \in Seq(S) /\ Distinct(g[m])
            /\ Range(g[m]) = Range(g[m - 1]) \cup {window[m]}
        BY <2>6, <2>7, <3>2, <4>1, AppendOne
      <4> QED  BY <2>6, <2>7, <4>2
    <3> QED  BY <3>1, <3>2
  <2> QED  BY <2>2, <2>8
<1>5. Holds(l)
  <2>1. l \in 0..l /\ l \notin Fails
    BY <1>1, <1>4
  <2> QED  BY <2>1
<1>6. Range(window) = {window[i] : i \in 1..l}
  BY <1>1 DEF Range
<1> QED  BY <1>3, <1>5, <1>6

\* What a window of a sequence holds
LEMMA WindowRead ==
    ASSUME NEW S, NEW s \in Seq(S), NEW a \in Nat \ {0}, NEW b \in 0..Len(s)
    PROVE  /\ SubSeq(s, a, b) \in Seq(S)
           /\ \A j \in a..b : s[j] \in Range(SubSeq(s, a, b))
<1>1. Len(s) \in Nat /\ \A j \in 1..Len(s) : s[j] \in S
  BY LenProperties, ElementOfSeq
<1>2. \A j \in a..b : j \in 1..Len(s)
  BY <1>1
<1>3. \A j \in a..b : s[j] \in S
  BY <1>1, <1>2
<1>4. a \in Int /\ b \in Int
  BY <1>1
<1>5. /\ SubSeq(s, a, b) \in Seq(S)
      /\ Len(SubSeq(s, a, b)) = IF a <= b THEN b - a + 1 ELSE 0
      /\ \A i \in 1..(b - a + 1) : SubSeq(s, a, b)[i] = s[a + i - 1]
  BY <1>3, <1>4, SubSeqProperties
<1>6. ASSUME NEW j \in a..b PROVE s[j] \in Range(SubSeq(s, a, b))
  <2>1. j - a + 1 \in 1..(b - a + 1) /\ a <= b /\ a + (j - a + 1) - 1 = j
    BY <1>4
  <2>2. DOMAIN SubSeq(s, a, b) = 1..(b - a + 1)
    BY <1>5, <2>1, LenProperties
  <2>3. SubSeq(s, a, b)[j - a + 1] = s[j]
    BY <1>5, <2>1
  <2> QED  BY <2>1, <2>2, <2>3 DEF Range
<1> QED  BY <1>5, <1>6

\* A member who joins moves the ones behind by one place.
LEMMA Inserted ==
    ASSUME NEW S, NEW s \in Seq(S), NEW i \in 1..(Len(s) + 1), NEW x \in S
    PROVE  /\ InsertAt(s, i, x) \in Seq(S) /\ Len(InsertAt(s, i, x)) = Len(s) + 1
           /\ \A j \in 1..Len(s) : InsertAt(s, i, x)[IF j < i THEN j ELSE j + 1] = s[j]
<1>1. Len(s) \in Nat /\ i \in Nat /\ \A j \in 1..Len(s) : s[j] \in S
  BY LenProperties, ElementOfSeq
<1> DEFINE front == SubSeq(s, 1, i - 1)
           back == SubSeq(s, i, Len(s))
<1>2. /\ front \in Seq(S) /\ Len(front) = i - 1
      /\ \A j \in 1..(i - 1) : front[j] = s[j]
  <2>1. \A j \in 1..(i - 1) : s[j] \in S
    BY <1>1
  <2>2. 1 \in Int /\ i - 1 \in Int
    BY <1>1
  <2>3. /\ SubSeq(s, 1, i - 1) \in Seq(S)
        /\ Len(SubSeq(s, 1, i - 1)) = IF 1 <= i - 1 THEN (i - 1) - 1 + 1 ELSE 0
        /\ \A j \in 1..((i - 1) - 1 + 1) : SubSeq(s, 1, i - 1)[j] = s[1 + j - 1]
    BY <2>1, <2>2, SubSeqProperties
  <2> QED  BY <1>1, <2>3
<1>3. /\ back \in Seq(S) /\ Len(back) = Len(s) - i + 1
      /\ \A j \in 1..(Len(s) - i + 1) : back[j] = s[i + j - 1]
  <2>1. \A j \in i..Len(s) : s[j] \in S
    BY <1>1
  <2>2. i \in Int /\ Len(s) \in Int
    BY <1>1
  <2>3. /\ SubSeq(s, i, Len(s)) \in Seq(S)
        /\ Len(SubSeq(s, i, Len(s))) = IF i <= Len(s) THEN Len(s) - i + 1 ELSE 0
        /\ \A j \in 1..(Len(s) - i + 1) : SubSeq(s, i, Len(s))[j] = s[i + j - 1]
    BY <2>1, <2>2, SubSeqProperties
  <2> QED  BY <1>1, <2>3
<1> HIDE DEF front, back
<1>4. <<x>> \in Seq(S) /\ Len(<<x>>) = 1 /\ <<x>>[1] = x
  OBVIOUS
<1>5. /\ front \o <<x>> \in Seq(S) /\ Len(front \o <<x>>) = i
      /\ \A j \in 1..i : (front \o <<x>>)[j] = IF j <= i - 1 THEN front[j] ELSE <<x>>[j - (i - 1)]
  <2>1. /\ front \o <<x>> \in Seq(S) /\ Len(front \o <<x>>) = Len(front) + Len(<<x>>)
        /\ \A j \in 1..(Len(front) + Len(<<x>>)) :
              (front \o <<x>>)[j] = IF j <= Len(front) THEN front[j] ELSE <<x>>[j - Len(front)]
    BY <1>2, <1>4, ConcatProperties
  <2> QED  BY <1>1, <1>2, <1>4, <2>1
<1>6. PICK t : t = front \o <<x>>
  OBVIOUS
<1>7. /\ t \o back \in Seq(S) /\ Len(t \o back) = Len(s) + 1
      /\ \A j \in 1..(Len(s) + 1) : (t \o back)[j] = IF j <= i THEN t[j] ELSE back[j - i]
  <2>1. /\ t \o back \in Seq(S) /\ Len(t \o back) = Len(t) + Len(back)
        /\ \A j \in 1..(Len(t) + Len(back)) :
              (t \o back)[j] = IF j <= Len(t) THEN t[j] ELSE back[j - Len(t)]
    <3>1. t \in Seq(S) /\ back \in Seq(S)
      BY <1>3, <1>5, <1>6
    <3> QED  BY <3>1, ConcatProperties
  <2>2. Len(t) = i
    BY <1>5, <1>6
  <2> QED  BY <1>1, <1>3, <2>1, <2>2
<1>8. InsertAt(s, i, x) = t \o back
  BY <1>6 DEF InsertAt, front, back
<1>9. ASSUME NEW j \in 1..Len(s)
      PROVE  (t \o back)[IF j < i THEN j ELSE j + 1] = s[j]
  <2>1. CASE j < i
    <3>1. (t \o back)[j] = t[j] /\ t[j] = front[j] /\ front[j] = s[j]
      BY <1>1, <1>2, <1>5, <1>6, <1>7, <2>1
    <3> QED  BY <2>1, <3>1
  <2>2. CASE ~(j < i)
    <3>1. j + 1 \in 1..(Len(s) + 1) /\ ~(j + 1 <= i) /\ j + 1 - i \in 1..(Len(s) - i + 1)
      BY <1>1, <2>2
    <3>2. (t \o back)[j + 1] = back[j + 1 - i]
      BY <1>7, <3>1
    <3>3. back[j + 1 - i] = s[i + (j + 1 - i) - 1] /\ i + (j + 1 - i) - 1 = j
      BY <1>1, <1>3, <3>1
    <3> QED  BY <2>2, <3>2, <3>3
  <2> QED  BY <2>1, <2>2
<1> QED  BY <1>7, <1>8, <1>9

\* What taking one entry out of a sequence leaves.
LEMMA Removed ==
    ASSUME NEW S, NEW s \in Seq(S), NEW i \in 1..Len(s)
    PROVE  RemoveAt(s, i) \in Seq(S)
<1>1. Len(s) \in Nat /\ i \in Nat /\ \A j \in 1..Len(s) : s[j] \in S
  BY LenProperties, ElementOfSeq
<1>2. SubSeq(s, 1, i - 1) \in Seq(S)
  BY <1>1, WindowRead
<1>3. SubSeq(s, i + 1, Len(s)) \in Seq(S)
  BY <1>1, WindowRead
<1> QED  BY <1>2, <1>3, ConcatProperties DEF RemoveAt

\* A list without a member twice is as long as it has members.
LEMMA DistinctSize ==
    ASSUME NEW S, NEW s \in Seq(S), Distinct(s)
    PROVE  IsFiniteSet(Range(s)) /\ Cardinality(Range(s)) = Len(s)
<1>1. Len(s) \in Nat /\ s \in [1..Len(s) -> S] /\ DOMAIN s = 1..Len(s)
  BY LenProperties
<1>2. s \in Bijection(1..Len(s), Range(s))
  BY <1>1 DEF Bijection, Injection, Surjection, Range, Distinct, IsInjective
<1>3. ExistsBijection(1..Len(s), Range(s))
  BY <1>2 DEF ExistsBijection
<1>4. IsFiniteSet(1..Len(s)) /\ Cardinality(1..Len(s)) = Len(s)
  BY <1>1, FS_Interval
<1> QED  BY <1>3, <1>4, FS_Bijection

\* A finite set can be listed.
LEMMA ListedOnce ==
    ASSUME NEW S, NEW T, T \subseteq S, IsFiniteSet(T)
    PROVE  SetToSeq(T) \in Seq(S)
<1>1. Cardinality(T) \in Nat /\ ExistsBijection(1..Cardinality(T), T)
  BY FS_CardinalityType
<1>2. \E f \in [1..Cardinality(T) -> T] : IsInjective(f)
  BY <1>1 DEF ExistsBijection, Bijection, Injection, IsInjective
<1>3. SetToSeq(T) \in [1..Cardinality(T) -> T]
  BY <1>2 DEF SetToSeq
<1>4. SetToSeq(T) \in Seq(T)
  BY <1>1, <1>3, SeqDef
<1> QED  BY <1>4, SeqMonotonic

-----------------------------------------------------------------------------
Listing == [pc : {"off", "signin", "first", "pages", "rows", "sheets"}, found : Seq(Members),
            next : Int, pages : Nat, written : Nat, failed : SUBSET Members,
            since : SUBSET Members, shrunk : BOOLEAN]

\* Between two pages a member who was there since the first one has been read
\* or stands behind the next index.
Ahead(m) == \E j \in 1..Len(roster) : j > listing.next /\ roster[j] = m

Reading == listing.pc = "pages" =>
    /\ listing.next \in Nat /\ listing.pages < MaxPages
    /\ ~listing.shrunk => \A m \in listing.since : m \in Range(listing.found) \/ Ahead(m)

ReadAll == listing.pc \in {"rows", "sheets"} /\ ~listing.shrunk /\ listing.next < 0 =>
    listing.since \subseteq Range(listing.found)

\* What the members already passed have got
Writing ==
    /\ listing.pc \in {"off", "signin", "first"} => listing.found = << >>
    /\ listing.pc \notin {"rows", "sheets"} => listing.written = 0
    /\ listing.pc # "sheets" => listing.failed = {}
    /\ listing.written <= Len(listing.found)
    /\ listing.pc = "rows" => \A n \in 1..listing.written : listing.found[n] \in rows.known
    /\ listing.pc = "sheets" =>
        /\ Range(listing.found) \subseteq rows.known
        /\ \A n \in 1..listing.written : listing.found[n] \in rows.sheets \cup listing.failed
        /\ listing.failed \subseteq Range(listing.found)

MembersInv ==
    /\ MembersTypeOK /\ listing \in Listing
    /\ Distinct(listing.found)
    /\ Reading /\ ReadAll /\ Writing

\* The list is filled before the first synchronisation.
LEMMA MembersStart == MembersInit => MembersInv
<1> SUFFICES ASSUME MembersInit PROVE MembersInv
  OBVIOUS
<1>1. << >> \in Seq(Members) /\ Len(<< >>) = 0
  BY EmptySeq
<1>2. roster \in Seq(Members)
  <2>1. \A s \in SUBSET Members : SetToSeq(s) \in Seq(Members)
    BY ListedOnce, FS_Subset, MembersAssumption
  <2> QED  BY <1>1, <2>1 DEF MembersInit
<1>3. listing \in Listing /\ listing = Off
  BY <1>1 DEF MembersInit, Off, Listing
<1>4. MembersTypeOK
  BY <1>1, <1>2, <1>3, MembersAssumption DEF MembersTypeOK, MembersInit, Off, NoResult
<1> QED  BY <1>1, <1>3, <1>4 DEF MembersInv, Distinct, Reading, ReadAll, Writing, Off

\* The index of a window and what it leaves for the next one
LEMMA WindowKept ==
    ASSUME roster \in Seq(Members), NEW i \in Nat
    PROVE  /\ Window(i) \in Seq(Members)
           /\ \A j \in 1..Len(roster) : j > i =>
                 roster[j] \in Range(Window(i)) \/ (NextOf(i) >= 0 /\ j > NextOf(i))
           /\ NextOf(i) \in Nat \cup {-1}
<1>1. Len(roster) \in Nat /\ PageSize \in Nat \ {0}
  BY LenProperties, MembersAssumption
<1> DEFINE to == IF From(i) + PageSize < Len(roster) THEN From(i) + PageSize ELSE Len(roster)
<1>2. From(i) \in Nat /\ From(i) <= i /\ to \in 0..Len(roster)
  BY <1>1 DEF From
<1>3. /\ SubSeq(roster, From(i) + 1, to) \in Seq(Members)
      /\ \A j \in (From(i) + 1)..to : roster[j] \in Range(SubSeq(roster, From(i) + 1, to))
  BY <1>2, WindowRead
<1>4. Window(i) = SubSeq(roster, From(i) + 1, to)
  BY DEF Window
<1>5. ASSUME NEW j \in 1..Len(roster), j > i, ~(NextOf(i) >= 0 /\ j > NextOf(i))
      PROVE  j \in (From(i) + 1)..to
  BY <1>1, <1>2, <1>5 DEF From, NextOf
<1>6. NextOf(i) \in Nat \cup {-1}
  BY <1>1 DEF NextOf
<1> QED  BY <1>3, <1>4, <1>5, <1>6

\* A page read keeps the members of the club in sight.
LEMMA PageReadKept ==
    ASSUME MembersInv, NEW i \in Nat, NEW n \in 0..MaxPages, NEW c, c \subseteq Members, NEW k \in BOOLEAN,
           listing.pc \in {"first", "pages"},
           listing' = [PageRead(i, n) EXCEPT !.since = c, !.shrunk = k],
           ~k => \A m \in c : m \in Range(listing.found) \/ \E j \in 1..Len(roster) : j > i /\ roster[j] = m,
           UNCHANGED <<roster, rows, result>>
    PROVE  MembersInv'
<1>1. PICK w : w = Window(i)
  OBVIOUS
<1>2. PICK f : f = addPage(listing.found, w)
  OBVIOUS
<1>3. /\ w \in Seq(Members) /\ NextOf(i) \in Nat \cup {-1}
      /\ \A j \in 1..Len(roster) : j > i => roster[j] \in Range(w) \/ (NextOf(i) >= 0 /\ j > NextOf(i))
  BY <1>1, WindowKept DEF MembersInv, MembersTypeOK
<1>4. f \in Seq(Members) /\ Distinct(f) /\ Range(f) = Range(listing.found) \cup Range(w)
  BY <1>2, <1>3, PageAdded DEF MembersInv, MembersTypeOK
<1>5. /\ listing'.found = f /\ listing'.next = NextOf(i) /\ listing'.pages = n
      /\ listing'.pc = IF NextOf(i) < 0 \/ n = MaxPages THEN "rows" ELSE "pages"
      /\ listing'.since = c /\ listing'.shrunk = k
      /\ listing'.written = listing.written /\ listing'.failed = listing.failed
      /\ listing' \in Listing
  <2>1. listing \in Listing /\ n \in Nat /\ NextOf(i) \in Int
    BY <1>3, MembersAssumption DEF MembersInv
  <2>2. PageRead(i, n) = [listing EXCEPT !.found = f, !.next = NextOf(i), !.pages = n,
                                         !.pc = IF NextOf(i) < 0 \/ n = MaxPages THEN "rows" ELSE "pages"]
    BY <1>1, <1>2, <2>1 DEF PageRead, Listing
  <2> QED  BY <1>4, <2>1, <2>2 DEF Listing
<1>6. listing.written = 0 /\ listing.failed = {} /\ Len(f) \in Nat
  BY <1>4, LenProperties DEF MembersInv, Writing
<1>7. MembersTypeOK'
  BY <1>3, <1>4, <1>5 DEF MembersInv, MembersTypeOK
<1>8. ASSUME ~k, NEW m \in c
      PROVE  m \in Range(f) \/ (NextOf(i) >= 0 /\ \E j \in 1..Len(roster) : j > NextOf(i) /\ roster[j] = m)
  BY <1>3, <1>4, <1>8
<1>9. Reading' /\ ReadAll'
  BY <1>3, <1>5, <1>8, MembersAssumption DEF Reading, ReadAll, Ahead
<1>10. Writing'
  BY <1>5, <1>6 DEF Writing
<1> QED  BY <1>4, <1>5, <1>7, <1>9, <1>10 DEF MembersInv

\* Whoever joins, nobody read before is lost.
LEMMA JoinKept ==
    ASSUME MembersInv, NEW m \in Members, NEW i \in 1..(Len(roster) + 1), Join(m, i)
    PROVE  MembersInv'
<1>1. roster' = InsertAt(roster, i, m) /\ UNCHANGED <<listing, rows, result>>
  BY DEF Join
<1>2. /\ roster' \in Seq(Members) /\ Len(roster') = Len(roster) + 1 /\ Len(roster) \in Nat
      /\ \A j \in 1..Len(roster) : roster'[IF j < i THEN j ELSE j + 1] = roster[j]
  <2>1. roster \in Seq(Members) /\ Len(roster) \in Nat
    BY LenProperties DEF MembersInv, MembersTypeOK
  <2>2. PICK r : r = InsertAt(roster, i, m)
    OBVIOUS
  <2>3. /\ r \in Seq(Members) /\ Len(r) = Len(roster) + 1
        /\ \A j \in 1..Len(roster) : r[IF j < i THEN j ELSE j + 1] = roster[j]
    BY <2>1, <2>2, Inserted
  <2> QED  BY <1>1, <2>1, <2>2, <2>3
<1>3. \A x : Ahead(x) => Ahead(x)'
  <2> SUFFICES ASSUME NEW j \in 1..Len(roster), j > listing.next
               PROVE  \E k \in 1..Len(roster') : k > listing'.next /\ roster'[k] = roster[j]
    BY DEF Ahead
  <2>1. (IF j < i THEN j ELSE j + 1) \in 1..Len(roster') /\ (IF j < i THEN j ELSE j + 1) > listing'.next
    BY <1>1, <1>2 DEF MembersInv, Listing
  <2> QED  BY <1>2, <2>1
<1> HIDE DEF Ahead
<1>4. Reading' /\ ReadAll' /\ Writing'
  BY <1>1, <1>3 DEF MembersInv, Reading, ReadAll, Writing
<1> QED  BY <1>1, <1>2, <1>4 DEF MembersInv, MembersTypeOK

\* A departure gives up the promise.
LEMMA LeaveKept ==
    ASSUME MembersInv, NEW i \in 1..Len(roster), Leave(i)
    PROVE  MembersInv'
<1>1. /\ roster' = RemoveAt(roster, i) /\ UNCHANGED <<rows, result>>
      /\ listing' = [listing EXCEPT !.shrunk = TRUE, !.since = @ \ {roster[i]}]
  BY DEF Leave
<1>2. roster' \in Seq(Members)
  BY <1>1, Removed DEF MembersInv, MembersTypeOK
<1>3. /\ listing' \in Listing /\ listing'.shrunk = TRUE /\ listing'.pc = listing.pc
      /\ listing'.found = listing.found /\ listing'.next = listing.next /\ listing'.pages = listing.pages
      /\ listing'.written = listing.written /\ listing'.failed = listing.failed
  BY <1>1 DEF MembersInv, Listing
<1>4. Reading' /\ ReadAll' /\ Writing'
  BY <1>1, <1>3 DEF MembersInv, Reading, ReadAll, Writing
<1> QED  BY <1>1, <1>2, <1>3, <1>4 DEF MembersInv, MembersTypeOK

\* The beginning and the end of a synchronisation
LEMMA SyncStarts ==
    ASSUME MembersInv, runInBackground \/ authenticate
    PROVE  MembersInv'
<1>1. << >> \in Seq(Members) /\ Len(<< >>) = 0
  BY EmptySeq
<1>2. UNCHANGED <<roster, rows, result>>
  BY DEF runInBackground, authenticate
<1>3. /\ listing' \in Listing /\ listing'.pc \in {"signin", "first"} /\ listing'.found = << >>
      /\ listing'.next \in Nat \cup {-1} /\ listing'.pages \in 0..MaxPages
      /\ listing'.written = 0 /\ listing'.failed = {}
  <2>1. CASE runInBackground
    <3>1. listing' = [pc |-> "signin", found |-> << >>, next |-> 0, pages |-> 0, written |-> 0,
                      failed |-> {}, since |-> {}, shrunk |-> FALSE]
      BY <2>1 DEF runInBackground, Off
    <3>2. 0 \in 0..MaxPages
      BY MembersAssumption
    <3> QED  BY <1>1, <3>1, <3>2 DEF Listing
  <2>2. CASE authenticate
    BY <2>2 DEF authenticate, MembersInv, Listing, Writing, MembersTypeOK
  <2> QED  BY <2>1, <2>2
<1> QED  BY <1>1, <1>2, <1>3 DEF MembersInv, MembersTypeOK, Distinct, Reading, ReadAll, Writing

\* The pages: the list is read window by window, until one is empty.
LEMMA PagesRead ==
    ASSUME MembersInv, FirstPage \/ NextPage
    PROVE  MembersInv'
<1>1. CASE FirstPage
  <2>1. /\ listing.pc = "first" /\ UNCHANGED <<roster, rows, result>>
        /\ listing' = [PageRead(0, 0) EXCEPT !.since = Range(roster), !.shrunk = FALSE]
    BY <1>1 DEF FirstPage
  <2>2. /\ DOMAIN roster = 1..Len(roster) /\ Range(roster) \subseteq Members /\ Len(roster) \in Nat
    BY LenProperties, ElementOfSeq DEF MembersInv, MembersTypeOK, Range
  <2>3. \A m \in Range(roster) : \E j \in 1..Len(roster) : j > 0 /\ roster[j] = m
    BY <2>2 DEF Range
  <2>4. 0 \in 0..MaxPages
    BY MembersAssumption
  <2> QED  BY <2>1, <2>2, <2>3, <2>4, PageReadKept
<1>2. CASE NextPage
  <2>1. /\ listing.pc = "pages" /\ UNCHANGED <<roster, rows, result>>
        /\ listing' = PageRead(listing.next, listing.pages + 1)
    BY <1>2 DEF NextPage
  <2>2. /\ listing.next \in Nat /\ listing.pages + 1 \in 0..MaxPages
        /\ listing.since \subseteq Members /\ listing.shrunk \in BOOLEAN
        /\ ~listing.shrunk => \A m \in listing.since : m \in Range(listing.found)
              \/ \E j \in 1..Len(roster) : j > listing.next /\ roster[j] = m
    BY <2>1, MembersAssumption DEF MembersInv, Listing, Reading, Ahead
  <2>3. PageRead(listing.next, listing.pages + 1) =
          [PageRead(listing.next, listing.pages + 1) EXCEPT !.since = listing.since, !.shrunk = listing.shrunk]
    BY DEF MembersInv, Listing, PageRead
  <2>4. PICK i, n, c, k : i = listing.next /\ n = listing.pages + 1 /\ c = listing.since /\ k = listing.shrunk
    OBVIOUS
  <2>5. /\ i \in Nat /\ n \in 0..MaxPages /\ c \subseteq Members /\ k \in BOOLEAN
        /\ listing' = [PageRead(i, n) EXCEPT !.since = c, !.shrunk = k]
        /\ ~k => \A m \in c : m \in Range(listing.found) \/ \E j \in 1..Len(roster) : j > i /\ roster[j] = m
    BY <2>1, <2>2, <2>3, <2>4
  <2>6. listing.pc \in {"first", "pages"} /\ UNCHANGED <<roster, rows, result>>
    BY <2>1
  <2> QED  BY <2>5, <2>6, PageReadKept
<1> QED  BY <1>1, <1>2

\* The rows of the members, one after the other
LEMMA RowsWritten ==
    ASSUME MembersInv, upsertListRow
    PROVE  MembersInv'
<1>1. /\ listing.pc = "rows" /\ UNCHANGED <<roster, result>>
      /\ IF listing.written + 1 > Len(listing.found)
         THEN listing' = [listing EXCEPT !.pc = "sheets", !.written = 0] /\ UNCHANGED rows
         ELSE /\ rows' = [rows EXCEPT !.known = @ \cup {listing.found[listing.written + 1]}]
              /\ listing' = [listing EXCEPT !.written = listing.written + 1]
  BY DEF upsertListRow
<1>2. /\ Len(listing.found) \in Nat /\ DOMAIN listing.found = 1..Len(listing.found)
      /\ \A n \in 1..Len(listing.found) : listing.found[n] \in Members
      /\ listing.written \in Nat /\ listing.written <= Len(listing.found) /\ listing.failed = {}
      /\ \A n \in 1..listing.written : listing.found[n] \in rows.known
  BY <1>1, LenProperties, ElementOfSeq DEF MembersInv, MembersTypeOK, Listing, Writing
<1>3. CASE listing.written + 1 > Len(listing.found)
  <2>1. /\ listing' \in Listing /\ listing'.pc = "sheets" /\ listing'.written = 0
        /\ listing' = [listing EXCEPT !.pc = "sheets", !.written = 0] /\ UNCHANGED rows
        /\ listing'.found = listing.found /\ listing'.next = listing.next /\ listing'.pages = listing.pages
        /\ listing'.since = listing.since /\ listing'.shrunk = listing.shrunk /\ listing'.failed = {}
    <3>1. listing' = [listing EXCEPT !.pc = "sheets", !.written = 0] /\ UNCHANGED rows
      BY <1>1, <1>3
    <3>2. listing \in Listing
      BY DEF MembersInv
    <3> QED  BY <1>2, <3>1, <3>2 DEF Listing
  <2>2. Range(listing.found) \subseteq rows.known
    BY <1>2, <1>3 DEF Range
  <2>3. Reading' /\ ReadAll' /\ Writing'
    BY <1>1, <1>2, <2>1, <2>2 DEF MembersInv, Reading, ReadAll, Writing
  <2> QED  BY <1>1, <2>1, <2>3 DEF MembersInv, MembersTypeOK
<1>4. CASE ~(listing.written + 1 > Len(listing.found))
  <2>1. /\ listing' \in Listing /\ listing'.pc = "rows" /\ listing'.written = listing.written + 1
        /\ listing'.found = listing.found /\ listing'.next = listing.next /\ listing'.pages = listing.pages
        /\ listing'.since = listing.since /\ listing'.shrunk = listing.shrunk /\ listing'.failed = {}
    <3>1. listing' = [listing EXCEPT !.written = listing.written + 1]
      BY <1>1, <1>4
    <3>2. listing \in Listing
      BY DEF MembersInv
    <3> QED  BY <1>1, <1>2, <3>1, <3>2 DEF Listing
  <2>2. /\ rows' \in [known : SUBSET Members, sheets : SUBSET Members]
        /\ rows'.known = rows.known \cup {listing.found[listing.written + 1]}
    BY <1>1, <1>2, <1>4 DEF MembersInv, MembersTypeOK
  <2>3. \A n \in 1..(listing.written + 1) : listing.found[n] \in rows'.known
    BY <1>2, <2>2
  <2>4. Reading' /\ ReadAll' /\ Writing'
    BY <1>1, <1>2, <1>4, <2>1, <2>3 DEF MembersInv, Reading, ReadAll, Writing
  <2> QED  BY <1>1, <2>1, <2>2, <2>4 DEF MembersInv, MembersTypeOK
<1> QED  BY <1>3, <1>4

\* The sheets: each one is written or counted among the errors.
LEMMA SheetsRead ==
    ASSUME MembersInv, getPlayerDetail \/ SheetFails
    PROVE  MembersInv'
<1>1. /\ listing.pc = "sheets" /\ listing.written < Len(listing.found) /\ UNCHANGED <<roster, result>>
      /\ \/ /\ rows' = [rows EXCEPT !.sheets = @ \cup {CurrentMember}]
            /\ listing' = [listing EXCEPT !.written = @ + 1]
         \/ /\ rows' = rows
            /\ listing' = [listing EXCEPT !.written = @ + 1, !.failed = @ \cup {CurrentMember}]
  BY DEF getPlayerDetail, SheetFails, MoreSheets
<1>2. /\ Len(listing.found) \in Nat /\ DOMAIN listing.found = 1..Len(listing.found)
      /\ listing.written \in Nat /\ listing.written + 1 \in 1..Len(listing.found)
  BY <1>1, LenProperties DEF MembersInv, MembersTypeOK, Listing
<1>3. CurrentMember \in Members /\ CurrentMember \in Range(listing.found)
  BY <1>2, ElementOfSeq DEF CurrentMember, MembersInv, MembersTypeOK, Range
<1>4. /\ listing' \in Listing /\ listing'.pc = "sheets" /\ listing'.written = listing.written + 1
      /\ listing'.found = listing.found /\ listing'.next = listing.next /\ listing'.pages = listing.pages
      /\ listing'.since = listing.since /\ listing'.shrunk = listing.shrunk
      /\ listing.failed \subseteq listing'.failed /\ listing'.failed \subseteq listing.failed \cup {CurrentMember}
  <2>1. listing \in Listing
    BY DEF MembersInv
  <2>2. CASE listing' = [listing EXCEPT !.written = @ + 1]
    BY <1>1, <1>2, <1>3, <2>1, <2>2 DEF Listing
  <2>3. CASE listing' = [listing EXCEPT !.written = @ + 1, !.failed = @ \cup {CurrentMember}]
    <3>1. PICK m : m = CurrentMember
      OBVIOUS
    <3>2. listing.failed \cup {m} \in SUBSET Members
      BY <1>3, <2>1, <3>1 DEF Listing
    <3>3. listing' = [listing EXCEPT !.written = listing.written + 1, !.failed = listing.failed \cup {m}]
      BY <2>3, <3>1
    <3>4. listing.written + 1 \in Nat
      BY <1>2
    <3>5. /\ listing' \in Listing /\ listing'.pc = listing.pc /\ listing'.written = listing.written + 1
          /\ listing'.found = listing.found /\ listing'.next = listing.next /\ listing'.pages = listing.pages
          /\ listing'.since = listing.since /\ listing'.shrunk = listing.shrunk
          /\ listing'.failed = listing.failed \cup {m}
      BY <2>1, <3>2, <3>3, <3>4 DEF Listing
    <3> QED  BY <1>1, <3>1, <3>5
  <2> QED  BY <1>1, <2>2, <2>3
<1>5. /\ rows' \in [known : SUBSET Members, sheets : SUBSET Members]
      /\ rows'.known = rows.known /\ rows.sheets \subseteq rows'.sheets
      /\ CurrentMember \in rows'.sheets \cup listing'.failed
  <2>1. rows \in [known : SUBSET Members, sheets : SUBSET Members] /\ listing \in Listing
    BY DEF MembersInv, MembersTypeOK
  <2>2. CASE rows' = [rows EXCEPT !.sheets = @ \cup {CurrentMember}]
    BY <1>3, <2>1, <2>2
  <2>3. CASE rows' = rows /\ listing' = [listing EXCEPT !.written = @ + 1, !.failed = @ \cup {CurrentMember}]
    BY <2>1, <2>3 DEF Listing
  <2> QED  BY <1>1, <2>2, <2>3
<1>6. \A n \in 1..(listing.written + 1) : listing.found[n] \in rows'.sheets \cup listing'.failed
  <2>1. \A n \in 1..listing.written : listing.found[n] \in rows.sheets \cup listing.failed
    BY <1>1 DEF MembersInv, Writing
  <2> QED  BY <1>2, <1>4, <1>5, <2>1 DEF CurrentMember
<1>7. Reading' /\ ReadAll' /\ Writing'
  BY <1>1, <1>2, <1>3, <1>4, <1>5, <1>6 DEF MembersInv, Reading, ReadAll, Writing
<1> QED  BY <1>1, <1>4, <1>5, <1>7 DEF MembersInv, MembersTypeOK

\* A synchronisation that ends, or stops halfway, keeps what it wrote.
LEMMA SyncStops ==
    ASSUME MembersInv, SyncEnds \/ SyncFails
    PROVE  MembersInv'
<1>1. << >> \in Seq(Members) /\ Len(<< >>) = 0
  BY EmptySeq
<1>2. listing' = Off /\ UNCHANGED <<roster, rows>>
  BY DEF SyncEnds, SyncFails
<1>3. listing' \in Listing
  BY <1>1, <1>2 DEF Off, Listing
<1>4. result' \in [ended : BOOLEAN, failed : BOOLEAN, found : Nat, sheets : Nat, errors : Nat]
  <2>1. CASE SyncEnds
    <3>1. /\ listing.pc = "sheets" /\ listing.failed \subseteq Range(listing.found)
          /\ result' = [ended |-> TRUE, failed |-> FALSE, found |-> Len(listing.found),
                        sheets |-> Len(listing.found) - Cardinality(listing.failed),
                        errors |-> Cardinality(listing.failed)]
      BY <2>1 DEF SyncEnds, MembersInv, Writing
    <3>2. IsFiniteSet(Range(listing.found)) /\ Cardinality(Range(listing.found)) = Len(listing.found)
      BY DistinctSize DEF MembersInv, MembersTypeOK
    <3>3. IsFiniteSet(listing.failed) /\ Cardinality(listing.failed) <= Len(listing.found)
      BY <3>1, <3>2, FS_Subset
    <3>4. Cardinality(listing.failed) \in Nat /\ Len(listing.found) \in Nat
      BY <3>3, FS_CardinalityType, LenProperties DEF MembersInv, MembersTypeOK
    <3>5. Len(listing.found) - Cardinality(listing.failed) \in Nat
      BY <3>3, <3>4
    <3> QED  BY <3>1, <3>4, <3>5
  <2>2. CASE SyncFails
    BY <2>2 DEF SyncFails, NoResult
  <2> QED  BY <2>1, <2>2
<1>5. MembersTypeOK'
  BY <1>1, <1>2, <1>3, <1>4, MembersAssumption DEF MembersInv, MembersTypeOK, Off
<1> QED  BY <1>1, <1>2, <1>3, <1>5 DEF MembersInv, Distinct, Reading, ReadAll, Writing, Off

\* Every step keeps the invariant.
LEMMA MembersSteps ==
    ASSUME MembersInv, [MembersNext]_<<baseVars, membersVars>>
    PROVE  MembersInv'
<1>1. CASE MembersNext
  BY <1>1, JoinKept, LeaveKept, SyncStarts, PagesRead, RowsWritten, SheetsRead, SyncStops DEF MembersNext
<1>2. CASE UNCHANGED <<baseVars, membersVars>>
  BY <1>2 DEF membersVars, MembersInv, MembersTypeOK, Reading, Ahead, ReadAll, Writing
<1> QED  BY <1>1, <1>2

\* The list, what was read of it, the rows and the result keep their types
\* (afpadel-sync.service.ts): the sheets and the errors never exceed the members.
THEOREM MembersTyped == MembersSpec => []MembersTypeOK
<1>1. MembersInv => MembersTypeOK
  BY DEF MembersInv
<1> QED  BY <1>1, MembersStart, MembersSteps, PTL DEF MembersSpec

\* Whoever was there all along has been read, and written or reported.
LEMMA NobodyFromInv ==
    ASSUME MembersInv PROVE NobodyForgotten
<1>1. Cardinality(Range(listing.found)) = Len(listing.found)
  BY DistinctSize DEF MembersInv, MembersTypeOK
<1> QED  BY <1>1 DEF MembersInv, ReadAll, Writing, NobodyForgotten

\* A synchronisation forgets no member who was at the club from its first page
\* to its last, and leaves no one without a row, a sheet or an error, for any
\* list, size of the pages and number of members who join meanwhile
\* (playwright-afpadel-provider.ts:162-198, afpadel-sync.service.ts:56-81).
THEOREM ForgetsNobody == MembersSpec => []NobodyForgotten
<1> QED  BY NobodyFromInv, MembersStart, MembersSteps, PTL DEF MembersSpec

-----------------------------------------------------------------------------
(***************************************************************************)
(* The desk and the kiosk.                                                 *)
(***************************************************************************)
\* The state of the desk keeps its shape, and the two lists keep theirs.
ClaimingShape == \A u \in Phones : claiming[u].pc # "none" => claiming[u].slot \in Slots
AddingShape == \A w \in Writers : adding[w] # NotAdding => adding[w].slot \in Slots /\ adding[w].player \in Players

\* A telephone past its claim holds the session, and its booking once created.
ClaimHolds ==
    \A u \in Phones :
        /\ claiming[u].pc \in {"book", "pending", "set"} =>
            sessions[claiming[u].slot].status = "CLAIMED" /\ sessions[claiming[u].slot].by = u
        /\ claiming[u].pc \in {"pending", "set"} => rooms[claiming[u].slot].kiosk

SessionsKept ==
    \A s \in Slots :
        /\ rooms[s].kiosk => sessions[s].status = "CLAIMED" /\ rooms[s].owner = sessions[s].by
        /\ sessions[s].booked => rooms[s].kiosk

\* Whoever checked the places counts before it writes: everybody but one may
\* have checked beside the last place.
Reserved(s) == Cardinality(rooms[s].players) + Cardinality(AddsTo(s))
PlacesKept ==
    \A s \in Slots :
        /\ IsFiniteSet(rooms[s].players)
        /\ Reserved(s) + 1 <= Capacity + Cardinality(Writers) - 1

DeskIndInv == DeskTypeOK /\ ClaimingShape /\ AddingShape /\ ClaimHolds /\ SessionsKept

-----------------------------------------------------------------------------
\* One column written leaves a row a row.
LEMMA SessionWritten ==
    ASSUME DeskTypeOK, NEW s \in Slots, NEW v
    PROVE  /\ v \in {"PENDING", "CLAIMED", "CANCELED"} => [sessions EXCEPT ![s].status = v] \in [Slots -> SessionRow]
           /\ v \in BOOLEAN => [sessions EXCEPT ![s].late = v] \in [Slots -> SessionRow]
           /\ v \in BOOLEAN => [sessions EXCEPT ![s].booked = v] \in [Slots -> SessionRow]
           /\ v \in Phones => [sessions EXCEPT ![s] = [@ EXCEPT !.status = "CLAIMED", !.by = v]] \in [Slots -> SessionRow]
BY DEF DeskTypeOK, SessionRow

LEMMA RoomWritten ==
    ASSUME DeskTypeOK, NEW s \in Slots, NEW v
    PROVE  /\ v \in DeskStatus => [rooms EXCEPT ![s].status = v] \in [Slots -> RoomRow]
           /\ v \in Syncs => [rooms EXCEPT ![s].sync = v] \in [Slots -> RoomRow]
           /\ v \in SUBSET Players => [rooms EXCEPT ![s].players = v] \in [Slots -> RoomRow]
BY DEF DeskTypeOK, RoomRow, DeskStatus, Syncs

\* The first state is typed.
LEMMA TypedInit == DeskInit => DeskTypeOK /\ ClaimingShape /\ AddingShape
BY DEF DeskInit, DeskTypeOK, SessionRow, RoomRow, ClaimTask, AddTask, DeskStatus, Syncs,
       ClaimingShape, AddingShape, NotClaiming, NotAdding

\* A session is opened, expires or is canceled.
LEMMA TypedTablet ==
    ASSUME DeskTypeOK, NEW s \in Slots,
           createSession(s) \/ SessionDeadline(s) \/ cancelSession(s)
    PROVE  DeskTypeOK'
<1>1. sessions' \in [Slots -> SessionRow]
  <2>1. CASE createSession(s) \/ cancelSession(s)
    <3>1. \A v \in {"PENDING", "CANCELED"} : [sessions EXCEPT ![s].status = v] \in [Slots -> SessionRow]
      BY SessionWritten
    <3> QED  BY <2>1, <3>1 DEF createSession, cancelSession
  <2>2. CASE SessionDeadline(s)
    <3>1. [sessions EXCEPT ![s].late = TRUE] \in [Slots -> SessionRow]  BY SessionWritten
    <3> QED  BY <2>2, <3>1 DEF SessionDeadline
  <2> QED  BY <2>1, <2>2
<1>2. tablet' \in [active : BOOLEAN, offline : BOOLEAN]
  BY DEF DeskTypeOK, createSession, SessionDeadline, cancelSession
<1>3. UNCHANGED <<rooms, claiming, adding>>
  BY DEF createSession, SessionDeadline, cancelSession
<1> QED  BY <1>1, <1>2, <1>3 DEF DeskTypeOK

\* A telephone goes from one step of its claim to the next.
LEMMA TypedClaim ==
    ASSUME DeskTypeOK, ClaimingShape, NEW u \in Phones,
           \/ claimIfPending(u) \/ ClaimRefused(u) \/ ClaimBooks(u) \/ ClaimPending(u)
           \/ setBookingId(u)
    PROVE  DeskTypeOK'
<1>1. claiming[u].slot \in Slots
  BY DEF ClaimingShape, claimIfPending, ClaimRefused, ClaimBooks, ClaimPending, setBookingId
<1>2. claiming' \in [Phones -> ClaimTask]
  <2>1. /\ [claiming EXCEPT ![u] = NotClaiming] \in [Phones -> ClaimTask]
        /\ \A pc \in {"book", "pending", "set"} : [claiming EXCEPT ![u].pc = pc] \in [Phones -> ClaimTask]
    BY DEF DeskTypeOK, ClaimTask, NotClaiming
  <2>2. CASE claimIfPending(u)  BY <2>1, <2>2 DEF claimIfPending
  <2>3. CASE ClaimRefused(u) \/ setBookingId(u)  BY <2>1, <2>3 DEF ClaimRefused, setBookingId
  <2>4. CASE ClaimBooks(u) \/ ClaimPending(u)  BY <2>1, <2>4 DEF ClaimBooks, ClaimPending
  <2> QED  BY <2>2, <2>3, <2>4
<1>3. sessions' \in [Slots -> SessionRow]
  <2>1. CASE claimIfPending(u)
    <3>1. [sessions EXCEPT ![claiming[u].slot] = [@ EXCEPT !.status = "CLAIMED", !.by = u]]
            \in [Slots -> SessionRow]
      BY <1>1, SessionWritten
    <3> QED  BY <2>1, <3>1 DEF claimIfPending, DeskTypeOK
  <2>2. CASE setBookingId(u)
    <3>1. [sessions EXCEPT ![claiming[u].slot].booked = TRUE] \in [Slots -> SessionRow]
      BY <1>1, SessionWritten
    <3> QED  BY <2>2, <3>1 DEF setBookingId
  <2>3. CASE UNCHANGED sessions  BY <2>3 DEF DeskTypeOK
  <2> QED  BY <2>1, <2>2, <2>3 DEF ClaimRefused, ClaimBooks, ClaimPending
<1>4. rooms' \in [Slots -> RoomRow]
  <2>1. CASE ClaimBooks(u)
    BY <1>1, <2>1 DEF ClaimBooks, createDraft, DeskTypeOK, RoomRow, DeskStatus
  <2>2. CASE ClaimPending(u)
    BY <1>1, <2>2, RoomWritten DEF ClaimPending, DeskStatus
  <2>3. CASE UNCHANGED rooms  BY <2>3 DEF DeskTypeOK
  <2> QED  BY <2>1, <2>2, <2>3 DEF claimIfPending, ClaimRefused, setBookingId
<1>5. UNCHANGED <<adding, tablet>>
  BY DEF claimIfPending, ClaimRefused, ClaimBooks, ClaimPending, setBookingId
<1> QED  BY <1>2, <1>3, <1>4, <1>5 DEF DeskTypeOK

\* A booking is created, confirmed, canceled, or loses a participant.
LEMMA TypedBooking ==
    ASSUME DeskTypeOK, NEW s \in Slots,
           \/ DraftPending(s) \/ Paid(s) \/ cancelBooking(s) \/ CancelAccepted(s)
           \/ CancelRefused(s) \/ forceResync(s)
           \/ \E u \in Phones : createBooking(u, s)
           \/ \E p \in Players : removeParticipant(s, p)
    PROVE  DeskTypeOK'
<1>1. UNCHANGED <<sessions, claiming, adding, tablet>>
  BY DEF DraftPending, Paid, cancelBooking, CancelAccepted, CancelRefused, forceResync, createBooking,
         removeParticipant
<1>2. rooms' \in [Slots -> RoomRow]
  <2> DEFINE row == rooms[s]
  <2>0. row \in RoomRow  BY DEF DeskTypeOK
  <2>r. ASSUME NEW r \in RoomRow PROVE [rooms EXCEPT ![s] = r] \in [Slots -> RoomRow]
    BY <2>r DEF DeskTypeOK
  <2>c. /\ [row EXCEPT !.status = "CHECKOUT_PENDING"] \in RoomRow
        /\ [row EXCEPT !.sync = "PENDING"] \in RoomRow
        /\ [row EXCEPT !.status = "CONFIRMED", !.sync = "CONFIRMED"] \in RoomRow
        /\ [row EXCEPT !.status = "CANCEL_PENDING", !.canceling = TRUE] \in RoomRow
        /\ [row EXCEPT !.status = "CANCELED", !.sync = "CANCELED", !.canceling = FALSE] \in RoomRow
        /\ [row EXCEPT !.sync = "CANCEL_PENDING", !.canceling = FALSE] \in RoomRow
    <3> HIDE DEF row
    <3> QED  BY <2>0 DEF RoomRow, DeskStatus, Syncs
  <2>1. CASE DraftPending(s) \/ forceResync(s)
    BY <2>c, <2>r, <2>1 DEF DraftPending, forceResync
  <2>2. CASE Paid(s) \/ cancelBooking(s)
    BY <2>c, <2>r, <2>2 DEF Paid, cancelBooking
  <2>3. CASE CancelAccepted(s) \/ CancelRefused(s)
    BY <2>c, <2>r, <2>3 DEF CancelAccepted, CancelRefused
  <2>4. ASSUME NEW u \in Phones, createBooking(u, s) PROVE rooms' \in [Slots -> RoomRow]
    BY <2>4 DEF createBooking, createDraft, DeskTypeOK, RoomRow, DeskStatus
  <2>5. ASSUME NEW p \in Players, removeParticipant(s, p) PROVE rooms' \in [Slots -> RoomRow]
    <3>1. rooms[s].players \ {p} \in SUBSET Players  BY DEF DeskTypeOK, RoomRow
    <3> QED  BY <2>5, <3>1, RoomWritten DEF removeParticipant
  <2> QED  BY <2>1, <2>2, <2>3, <2>4, <2>5
<1> QED  BY <1>1, <1>2 DEF DeskTypeOK

\* A request to add a participant checks, then writes; a telephone scans.
LEMMA TypedWriter ==
    ASSUME DeskTypeOK, AddingShape,
           \/ \E w \in Writers, s \in Slots, p \in Players : addParticipant(w, s, p)
           \/ \E w \in Writers : ParticipantAdded(w)
           \/ \E u \in Phones, s \in Slots : Scan(u, s)
    PROVE  DeskTypeOK'
<1>1. ASSUME NEW w \in Writers, NEW s \in Slots, NEW p \in Players, addParticipant(w, s, p)
      PROVE  DeskTypeOK'
  BY <1>1 DEF addParticipant, DeskTypeOK, AddTask
<1>2. ASSUME NEW u \in Phones, NEW s \in Slots, Scan(u, s) PROVE DeskTypeOK'
  BY <1>2 DEF Scan, DeskTypeOK, ClaimTask
<1>3. ASSUME NEW w \in Writers, ParticipantAdded(w) PROVE DeskTypeOK'
  <2> DEFINE t == adding[w].slot
             v == rooms[t].players \cup {adding[w].player}
  <2>1. t \in Slots  BY <1>3 DEF ParticipantAdded, AddingShape
  <2>2. adding' \in [Writers -> AddTask]
    BY <1>3 DEF ParticipantAdded, DeskTypeOK, AddTask, NotAdding
  <2>3. adding[w].player \in Players /\ rooms[t].players \subseteq Players
    BY <1>3, <2>1 DEF ParticipantAdded, DeskTypeOK, AddTask, AddingShape, RoomRow
  <2>4. v \in SUBSET Players  BY <2>3
  <2> HIDE DEF t
  <2>5. rooms' \in [Slots -> RoomRow]
    BY <1>3, <2>1, <2>4, RoomWritten DEF ParticipantAdded, t
  <2> QED  BY <1>3, <2>2, <2>5 DEF ParticipantAdded, DeskTypeOK
<1> QED  BY <1>1, <1>2, <1>3

-----------------------------------------------------------------------------
\* One booking per session: the steps of the telephones.
LEMMA KeptByClaim ==
    ASSUME DeskIndInv, NEW u \in Phones,
           \/ claimIfPending(u) \/ ClaimRefused(u) \/ ClaimBooks(u) \/ ClaimPending(u)
           \/ setBookingId(u)
    PROVE  ClaimingShape' /\ ClaimHolds' /\ SessionsKept'
<1> DEFINE s == claiming[u].slot
<1> USE DEF DeskIndInv
<1>1. s \in Slots
  BY DEF ClaimingShape, claimIfPending, ClaimRefused, ClaimBooks, ClaimPending, setBookingId
<1>t. claiming \in [Phones -> ClaimTask] /\ sessions \in [Slots -> SessionRow] /\ rooms \in [Slots -> RoomRow]
  BY DEF DeskTypeOK
<1>2. CASE claimIfPending(u)
  <2>1. CASE sessions[s].status = "PENDING"
    <3>1. /\ \A v \in Phones : claiming'[v] = IF v = u THEN [claiming[u] EXCEPT !.pc = "book"] ELSE claiming[v]
          /\ \A t \in Slots : sessions'[t] = IF t = s THEN [sessions[s] EXCEPT !.status = "CLAIMED", !.by = u]
                                          ELSE sessions[t]
          /\ rooms' = rooms
      BY <1>2, <1>t, <1>1, <2>1 DEF claimIfPending
    <3>2. \A v \in Phones : claiming[v].pc \in {"book", "pending", "set"} => claiming[v].slot # s
      BY <2>1 DEF ClaimHolds
    <3>3. ~rooms[s].kiosk /\ ~sessions[s].booked
      BY <1>1, <2>1 DEF SessionsKept
    <3> HIDE DEF s
    <3>4. claiming[u] \in ClaimTask /\ sessions[s] \in SessionRow /\ claiming[u].slot = s
      BY <1>t, <1>1 DEF s
    <3>5. /\ claiming'[u].slot = s /\ claiming'[u].pc = "book" 
          /\ sessions'[s].status = "CLAIMED" /\ sessions'[s].by = u /\ sessions'[s].booked = sessions[s].booked
      BY <3>1, <3>4, <1>1 DEF ClaimTask, SessionRow
    <3>6. ClaimingShape'  BY <3>1, <3>5, <1>1 DEF ClaimingShape
    <3>7. ClaimHolds'  BY <3>1, <3>2, <3>5, <1>1 DEF ClaimHolds, ClaimingShape
    <3>8. SessionsKept'  BY <3>1, <3>3, <3>5, <1>1 DEF SessionsKept
    <3> QED  BY <3>6, <3>7, <3>8
  <2>2. CASE sessions[s].status # "PENDING"
    <3>1. /\ \A v \in Phones : claiming'[v] = IF v = u THEN NotClaiming ELSE claiming[v]
          /\ sessions' = sessions /\ rooms' = rooms
      BY <1>2, <1>t, <2>2 DEF claimIfPending
    <3> QED  BY <3>1 DEF ClaimingShape, ClaimHolds, SessionsKept, NotClaiming
  <2> QED  BY <2>1, <2>2
<1>3. CASE ClaimRefused(u)
  <2>1. /\ \A v \in Phones : claiming'[v] = IF v = u THEN NotClaiming ELSE claiming[v]
        /\ sessions' = sessions /\ rooms' = rooms
    BY <1>3, <1>t DEF ClaimRefused
  <2> QED  BY <2>1 DEF ClaimingShape, ClaimHolds, SessionsKept, NotClaiming
<1>4. CASE ClaimBooks(u)
  <2>1. /\ \A v \in Phones : claiming'[v] = IF v = u THEN [claiming[u] EXCEPT !.pc = "pending"] ELSE claiming[v]
        /\ \A t \in Slots : rooms'[t] = IF t = s THEN [rooms[s] EXCEPT !.status = "DRAFT", !.owner = u, !.kiosk = TRUE]
                                    ELSE rooms[t]
        /\ sessions' = sessions /\ claiming[u].pc = "book"
    BY <1>4, <1>t, <1>1 DEF ClaimBooks, createDraft
  <2>2. sessions[s].status = "CLAIMED" /\ sessions[s].by = u
    BY <2>1 DEF ClaimHolds
  <2> HIDE DEF s
  <2>3. claiming[u] \in ClaimTask /\ rooms[s] \in RoomRow /\ claiming[u].slot = s
    BY <1>t, <1>1 DEF s
  <2>4. /\ claiming'[u].slot = s /\ claiming'[u].pc = "pending"
        /\ rooms'[s].owner = u /\ rooms'[s].kiosk
    BY <2>1, <2>3, <1>1 DEF ClaimTask, RoomRow
  <2>5. ClaimingShape'  BY <2>1, <2>4, <1>1 DEF ClaimingShape
  <2>6. ClaimHolds'  BY <2>1, <2>2, <2>4, <1>1 DEF ClaimHolds, ClaimingShape
  <2>7. SessionsKept'  BY <2>1, <2>2, <2>4, <1>1 DEF SessionsKept
  <2> QED  BY <2>5, <2>6, <2>7
<1>5. CASE ClaimPending(u)
  <2>1. /\ \A v \in Phones : claiming'[v] = IF v = u THEN [claiming[u] EXCEPT !.pc = "set"] ELSE claiming[v]
        /\ \A t \in Slots : rooms'[t] = IF t = s THEN [rooms[s] EXCEPT !.status = "CHECKOUT_PENDING"] ELSE rooms[t]
        /\ sessions' = sessions /\ claiming[u].pc = "pending"
    BY <1>5, <1>t, <1>1 DEF ClaimPending
  <2> HIDE DEF s
  <2>2. claiming[u] \in ClaimTask /\ rooms[s] \in RoomRow /\ claiming[u].slot = s
    BY <1>t, <1>1 DEF s
  <2>3. /\ claiming'[u].slot = s /\ claiming'[u].pc = "set"
        /\ \A t \in Slots : rooms'[t].owner = rooms[t].owner /\ rooms'[t].kiosk = rooms[t].kiosk
    BY <2>1, <2>2, <1>1 DEF ClaimTask, RoomRow
  <2>4. ClaimingShape'  BY <2>1, <2>3, <1>1 DEF ClaimingShape
  <2>5. ClaimHolds'  BY <2>1, <2>2, <2>3, <1>1 DEF ClaimHolds, ClaimingShape
  <2>6. SessionsKept'  BY <2>1, <2>3 DEF SessionsKept
  <2> QED  BY <2>4, <2>5, <2>6
<1>6. CASE setBookingId(u)
  <2>1. /\ \A v \in Phones : claiming'[v] = IF v = u THEN NotClaiming ELSE claiming[v]
        /\ \A t \in Slots : sessions'[t] = IF t = s THEN [sessions[s] EXCEPT !.booked = TRUE] ELSE sessions[t]
        /\ rooms' = rooms /\ claiming[u].pc = "set"
    BY <1>6, <1>t, <1>1 DEF setBookingId
  <2>2. rooms[s].kiosk  BY <2>1 DEF ClaimHolds
  <2> HIDE DEF s
  <2>3. \A t \in Slots : sessions'[t].status = sessions[t].status /\ sessions'[t].by = sessions[t].by
    BY <2>1, <1>t, <1>1 DEF SessionRow
  <2>4. \A t \in Slots : sessions'[t].booked => t = s \/ sessions[t].booked
    BY <2>1
  <2>5. ClaimingShape'  BY <2>1 DEF ClaimingShape, NotClaiming
  <2>6. ClaimHolds'  BY <2>1, <2>3, <1>t DEF ClaimHolds, ClaimingShape, NotClaiming
  <2>7. SessionsKept'  BY <2>1, <2>2, <2>3, <2>4 DEF SessionsKept
  <2> QED  BY <2>5, <2>6, <2>7
<1> QED  BY <1>2, <1>3, <1>4, <1>5, <1>6

\* The other steps leave the telephones and the sessions that are claimed alone.
LEMMA KeptByTablet ==
    ASSUME DeskIndInv, NEW s \in Slots,
           createSession(s) \/ SessionDeadline(s) \/ cancelSession(s)
    PROVE  ClaimingShape' /\ ClaimHolds' /\ SessionsKept'
<1> USE DEF DeskIndInv
<1>1. UNCHANGED <<rooms, claiming, adding>>
  BY DEF createSession, SessionDeadline, cancelSession
<1>2. \A t \in Slots :
        /\ sessions'[t].by = sessions[t].by /\ sessions'[t].booked = sessions[t].booked
        /\ sessions[t].status = "CLAIMED" => sessions'[t].status = "CLAIMED"
  <2>t. sessions \in [Slots -> SessionRow]  BY DEF DeskTypeOK
  <2>1. CASE createSession(s)
    <3>1. \A t \in Slots : sessions'[t] = IF t = s THEN [sessions[s] EXCEPT !.status = "PENDING"] ELSE sessions[t]
      BY <2>1, <2>t DEF createSession
    <3>2. sessions[s].status = "absent"  BY <2>1 DEF createSession, Free
    <3> QED  BY <2>t, <3>1, <3>2 DEF SessionRow
  <2>2. CASE cancelSession(s)
    <3>1. \A t \in Slots : sessions'[t] = IF t = s THEN [sessions[s] EXCEPT !.status = "CANCELED"] ELSE sessions[t]
      BY <2>2, <2>t DEF cancelSession
    <3>2. sessions[s].status = "PENDING"  BY <2>2 DEF cancelSession
    <3> QED  BY <2>t, <3>1, <3>2 DEF SessionRow
  <2>3. CASE SessionDeadline(s)
    <3>1. \A t \in Slots : sessions'[t] = IF t = s THEN [sessions[s] EXCEPT !.late = TRUE] ELSE sessions[t]
      BY <2>3, <2>t DEF SessionDeadline
    <3> QED  BY <2>t, <3>1 DEF SessionRow
  <2> QED  BY <2>1, <2>2, <2>3
<1> QED  BY <1>1, <1>2 DEF ClaimingShape, ClaimHolds, SessionsKept

\* A booking made outside of the tablet takes no session; the others keep their origin.
LEMMA KeptByBooking ==
    ASSUME DeskIndInv, NEW s \in Slots,
           \/ DraftPending(s) \/ Paid(s) \/ cancelBooking(s) \/ CancelAccepted(s)
           \/ CancelRefused(s) \/ forceResync(s)
           \/ \E u \in Phones : createBooking(u, s)
           \/ \E p \in Players : removeParticipant(s, p)
    PROVE  ClaimingShape' /\ ClaimHolds' /\ SessionsKept'
<1> USE DEF DeskIndInv
<1>t. rooms \in [Slots -> RoomRow]  BY DEF DeskTypeOK
<1>1. UNCHANGED <<sessions, claiming>>
  BY DEF DraftPending, Paid, cancelBooking, CancelAccepted, CancelRefused, forceResync, createBooking,
         removeParticipant
<1>2. CASE \E u \in Phones : createBooking(u, s)
  <2> PICK u \in Phones : createBooking(u, s)  BY <1>2
  <2>1. \A t \in Slots : rooms'[t] = IF t = s THEN [rooms[s] EXCEPT !.status = "DRAFT", !.owner = u, !.kiosk = FALSE]
                                     ELSE rooms[t]
    BY <1>t DEF createBooking, createDraft
  <2>2. sessions[s].status = "absent"  BY DEF createBooking, Free
  <2>3. ~rooms'[s].kiosk  BY <2>1, <1>t DEF RoomRow
  <2> QED  BY <1>1, <2>1, <2>2, <2>3 DEF ClaimingShape, ClaimHolds, SessionsKept
<1>3. CASE ~(\E u \in Phones : createBooking(u, s))
  <2>1. \A t \in Slots : rooms'[t].kiosk = rooms[t].kiosk /\ rooms'[t].owner = rooms[t].owner
    <3> USE <1>t DEF RoomRow
    <3>1. CASE DraftPending(s) \/ forceResync(s)  BY <3>1 DEF DraftPending, forceResync
    <3>2. CASE Paid(s)  BY <3>2 DEF Paid
    <3>3. CASE CancelAccepted(s)  BY <3>3 DEF CancelAccepted
    <3>6. CASE cancelBooking(s)  BY <3>6 DEF cancelBooking
    <3>7. CASE CancelRefused(s)  BY <3>7 DEF CancelRefused
    <3>4. CASE \E p \in Players : removeParticipant(s, p)  BY <3>4 DEF removeParticipant
    <3> QED  BY <1>3, <3>1, <3>2, <3>3, <3>4, <3>6, <3>7
  <2> QED  BY <1>1, <2>1 DEF ClaimingShape, ClaimHolds, SessionsKept
<1> QED  BY <1>2, <1>3

\* A telephone scans: it holds nothing yet; a request to add claims nothing.
LEMMA KeptByScan ==
    ASSUME DeskIndInv,
           \/ \E w \in Writers, s \in Slots, p \in Players : addParticipant(w, s, p)
           \/ \E u \in Phones, s \in Slots : Scan(u, s)
    PROVE  ClaimingShape' /\ ClaimHolds' /\ SessionsKept'
<1> USE DEF DeskIndInv
<1>1. ASSUME NEW u \in Phones, NEW s \in Slots, Scan(u, s)
      PROVE  ClaimingShape' /\ ClaimHolds' /\ SessionsKept'
  <2>1. \A v \in Phones : claiming'[v] = IF v = u THEN [slot |-> s, pc |-> "claim"] ELSE claiming[v]
    BY <1>1 DEF Scan, DeskTypeOK
  <2>2. UNCHANGED <<sessions, rooms>>  BY <1>1 DEF Scan
  <2> QED  BY <2>1, <2>2 DEF ClaimingShape, ClaimHolds, SessionsKept
<1>2. ASSUME NEW w \in Writers, NEW s \in Slots, NEW p \in Players, addParticipant(w, s, p)
      PROVE  ClaimingShape' /\ ClaimHolds' /\ SessionsKept'
  <2>1. UNCHANGED <<sessions, rooms, claiming>>  BY <1>2 DEF addParticipant
  <2> QED  BY <2>1 DEF ClaimingShape, ClaimHolds, SessionsKept
<1> QED  BY <1>1, <1>2

\* A request to add keeps the booking it checked until it has written.
LEMMA KeptAdding == DeskIndInv /\ [DeskNext]_<<baseVars, deskVars>> => AddingShape'
<1> SUFFICES ASSUME DeskIndInv, [DeskNext]_<<baseVars, deskVars>> PROVE AddingShape'
  OBVIOUS
<1> USE DEF DeskIndInv
<1>1. CASE UNCHANGED adding  BY <1>1 DEF AddingShape
<1>2. ASSUME NEW w \in Writers, NEW s \in Slots, NEW p \in Players, addParticipant(w, s, p)
      PROVE  AddingShape'
  <2>1. \A v \in Writers : adding'[v] = IF v = w THEN [slot |-> s, player |-> p] ELSE adding[v]
    BY <1>2 DEF addParticipant, DeskTypeOK
  <2> QED  BY <2>1 DEF AddingShape
<1>3. ASSUME NEW w \in Writers, ParticipantAdded(w) PROVE AddingShape'
  <2>1. \A v \in Writers : adding'[v] = IF v = w THEN NotAdding ELSE adding[v]
    BY <1>3 DEF ParticipantAdded, DeskTypeOK
  <2> QED  BY <2>1 DEF AddingShape
<1> QED
  BY <1>1, <1>2, <1>3 DEF DeskNext, deskVars, revokeTablet, TabletSilent, createSession, SessionDeadline,
     cancelSession, DraftPending, Paid, cancelBooking, CancelAccepted, CancelRefused, forceResync, Scan,
     createBooking, removeParticipant, claimIfPending, ClaimRefused, ClaimBooks, ClaimPending, setBookingId

\* A participant is written: no telephone and no session is concerned.
LEMMA KeptByParticipant ==
    ASSUME DeskIndInv, NEW w \in Writers, ParticipantAdded(w)
    PROVE  ClaimingShape' /\ ClaimHolds' /\ SessionsKept'
<1> USE DEF DeskIndInv
<1>1. \A t \in Slots : rooms'[t].kiosk = rooms[t].kiosk /\ rooms'[t].owner = rooms[t].owner
  BY DEF ParticipantAdded, DeskTypeOK, RoomRow
<1>2. UNCHANGED <<sessions, claiming>>  BY DEF ParticipantAdded
<1> QED  BY <1>1, <1>2 DEF ClaimingShape, ClaimHolds, SessionsKept

\* Every step of the desk keeps the invariant.
LEMMA DeskStep == DeskIndInv /\ [DeskNext]_<<baseVars, deskVars>> => DeskIndInv'
<1> SUFFICES ASSUME DeskIndInv, [DeskNext]_<<baseVars, deskVars>> PROVE DeskIndInv'
  OBVIOUS
<1> USE DEF DeskIndInv
<1>0. AddingShape'  BY KeptAdding
<1>1. CASE revokeTablet \/ TabletSilent
  <2>1. UNCHANGED <<sessions, rooms, claiming, adding>>  BY <1>1 DEF revokeTablet, TabletSilent
  <2>2. tablet' \in [active : BOOLEAN, offline : BOOLEAN]
    BY <1>1 DEF revokeTablet, TabletSilent, DeskTypeOK
  <2> QED  BY <1>0, <2>1, <2>2 DEF DeskTypeOK, ClaimingShape, ClaimHolds, SessionsKept
<1>2. ASSUME NEW s \in Slots, createSession(s) \/ SessionDeadline(s) \/ cancelSession(s)
      PROVE  DeskIndInv'
  BY <1>0, <1>2, TypedTablet, KeptByTablet
<1>3. ASSUME NEW s \in Slots,
             \/ DraftPending(s) \/ Paid(s) \/ cancelBooking(s) \/ CancelAccepted(s)
             \/ CancelRefused(s) \/ forceResync(s)
             \/ \E u \in Phones : createBooking(u, s)
             \/ \E p \in Players : removeParticipant(s, p)
      PROVE  DeskIndInv'
  BY <1>0, <1>3, TypedBooking, KeptByBooking
<1>4. CASE \/ \E w \in Writers, s \in Slots, p \in Players : addParticipant(w, s, p)
           \/ \E u \in Phones, s \in Slots : Scan(u, s)
  BY <1>0, <1>4, TypedWriter, KeptByScan
<1>5. ASSUME NEW w \in Writers, ParticipantAdded(w) PROVE DeskIndInv'
  BY <1>0, <1>5, TypedWriter, KeptByParticipant
<1>6. ASSUME NEW u \in Phones,
             \/ claimIfPending(u) \/ ClaimRefused(u) \/ ClaimBooks(u) \/ ClaimPending(u)
             \/ setBookingId(u)
      PROVE  DeskIndInv'
  BY <1>0, <1>6, TypedClaim, KeptByClaim
<1>7. CASE UNCHANGED <<baseVars, deskVars>>
  BY <1>7 DEF deskVars, DeskTypeOK, ClaimingShape, AddingShape, ClaimHolds, SessionsKept
<1> QED  BY <1>1, <1>2, <1>3, <1>4, <1>5, <1>6, <1>7 DEF DeskNext

\* The first state satisfies the invariant.
LEMMA DeskStart == DeskInit => DeskIndInv
BY TypedInit DEF DeskInit, DeskIndInv, ClaimHolds, SessionsKept, NotClaiming

\* The rows and the handlers of the desk keep their types, whatever telephones,
\* tablets and requests run together.
THEOREM DeskTyped == DeskSpec => []DeskTypeOK
<1>1. DeskIndInv => DeskTypeOK  BY DEF DeskIndInv
<1> QED  BY <1>1, DeskStart, DeskStep, PTL DEF DeskSpec

-----------------------------------------------------------------------------
\* The places of a booking are never filled beyond what the concurrent requests
\* may have checked together.
LEMMA PlacesStep == DeskIndInv /\ PlacesKept /\ [DeskNext]_<<baseVars, deskVars>> => PlacesKept'
<1> SUFFICES ASSUME DeskIndInv, PlacesKept, [DeskNext]_<<baseVars, deskVars>>, NEW t \in Slots
             PROVE  IsFiniteSet(rooms'[t].players) /\ Reserved(t)' + 1 <= Capacity + Cardinality(Writers) - 1
  BY DEF PlacesKept
<1> USE DEF DeskIndInv
<1>f. /\ IsFiniteSet(rooms[t].players) /\ Cardinality(rooms[t].players) \in Nat
      /\ IsFiniteSet(AddsTo(t)) /\ Cardinality(AddsTo(t)) \in Nat
      /\ Cardinality(Writers) \in Nat /\ Capacity \in Nat
  BY DeskAssumption, FS_Subset, FS_CardinalityType DEF PlacesKept, AddsTo
<1>1. CASE rooms'[t].players = rooms[t].players /\ AddsTo(t)' = AddsTo(t)
  BY <1>1, <1>f DEF PlacesKept, Reserved
<1>2. ASSUME NEW s \in Slots, NEW p \in Players, removeParticipant(s, p), rooms'[t].players # rooms[t].players
      PROVE  IsFiniteSet(rooms'[t].players) /\ Reserved(t)' + 1 <= Capacity + Cardinality(Writers) - 1
  <2>1. rooms'[t].players \subseteq rooms[t].players /\ AddsTo(t)' = AddsTo(t)
    BY <1>2 DEF removeParticipant, DeskTypeOK, RoomRow, AddsTo
  <2>2. /\ IsFiniteSet(rooms'[t].players)
        /\ Cardinality(rooms'[t].players) \in Nat
        /\ Cardinality(rooms'[t].players) <= Cardinality(rooms[t].players)
    BY <2>1, <1>f, FS_Subset, FS_CardinalityType
  <2> QED  BY <2>1, <2>2, <1>f DEF PlacesKept, Reserved
<1>3. ASSUME NEW w \in Writers, NEW s \in Slots, NEW p \in Players, addParticipant(w, s, p)
      PROVE  IsFiniteSet(rooms'[t].players) /\ Reserved(t)' + 1 <= Capacity + Cardinality(Writers) - 1
  <2>1. rooms' = rooms /\ w \notin AddsTo(t) /\ AddsTo(t)' = IF t = s THEN AddsTo(t) \cup {w} ELSE AddsTo(t)
    BY <1>3, DeskAssumption DEF addParticipant, DeskTypeOK, AddTask, NotAdding, AddsTo
  <2>2. CASE t = s
    <3>1. Cardinality(AddsTo(t)') = Cardinality(AddsTo(t)) + 1
      BY <2>1, <2>2, <1>f, FS_AddElement
    <3>2. Cardinality(AddsTo(t)) + 1 <= Cardinality(Writers)
      <4>1. AddsTo(t) \cup {w} \subseteq Writers  BY DEF AddsTo
      <4> QED  BY <4>1, <2>1, <3>1, <2>2, <1>f, DeskAssumption, FS_Subset
    <3>3. Cardinality(rooms[t].players) + 1 < Capacity  BY <1>3, <2>2 DEF addParticipant, HasRoom
    <3> QED  BY <2>1, <3>1, <3>2, <3>3, <1>f DEF Reserved
  <2> QED  BY <2>1, <2>2, <1>f DEF PlacesKept, Reserved
<1>4. ASSUME NEW w \in Writers, ParticipantAdded(w)
      PROVE  IsFiniteSet(rooms'[t].players) /\ Reserved(t)' + 1 <= Capacity + Cardinality(Writers) - 1
  <2>1. CASE adding[w].slot # t
    <3>1. rooms'[t].players = rooms[t].players /\ AddsTo(t)' = AddsTo(t)
      BY <1>4, <2>1, DeskAssumption DEF ParticipantAdded, DeskTypeOK, RoomRow, AddsTo, NotAdding
    <3> QED  BY <3>1, <1>1
  <2>2. CASE adding[w].slot = t
    <3>1. /\ rooms'[t].players = rooms[t].players \cup {adding[w].player}
          /\ w \in AddsTo(t) /\ AddsTo(t)' = AddsTo(t) \ {w}
      BY <1>4, <2>2, DeskAssumption DEF ParticipantAdded, DeskTypeOK, RoomRow, AddsTo, NotAdding
    <3>2. Cardinality(AddsTo(t)') = Cardinality(AddsTo(t)) - 1
      BY <3>1, <1>f, FS_RemoveElement
    <3>3. /\ IsFiniteSet(rooms'[t].players) /\ Cardinality(rooms'[t].players) \in Nat
          /\ Cardinality(rooms'[t].players) <= Cardinality(rooms[t].players) + 1
      <4>1. CASE adding[w].player \in rooms[t].players
        <5>1. rooms'[t].players = rooms[t].players  BY <3>1, <4>1
        <5> QED  BY <5>1, <1>f
      <4>2. CASE adding[w].player \notin rooms[t].players
        <5> DEFINE P == rooms[t].players
        <5>1. /\ IsFiniteSet(P \cup {adding[w].player})
              /\ Cardinality(P \cup {adding[w].player}) = Cardinality(P) + 1
          BY <4>2, <1>f, FS_AddElement
        <5> QED  BY <3>1, <5>1, <1>f
      <4> QED  BY <4>1, <4>2
    <3> QED  BY <3>2, <3>3, <1>f DEF PlacesKept, Reserved
  <2> QED  BY <2>1, <2>2
<1>5. ASSUME NEW s \in Slots,
             \/ DraftPending(s) \/ Paid(s) \/ cancelBooking(s) \/ CancelAccepted(s)
             \/ CancelRefused(s) \/ forceResync(s)
             \/ \E u \in Phones : createBooking(u, s)
      PROVE  rooms'[t].players = rooms[t].players /\ AddsTo(t)' = AddsTo(t)
  <2>1. adding' = adding
    BY <1>5 DEF DraftPending, Paid, cancelBooking, CancelAccepted, CancelRefused, forceResync, createBooking
  <2>2. rooms'[t].players = rooms[t].players
    <3> USE DEF DeskTypeOK, RoomRow
    <3>1. CASE DraftPending(s) \/ forceResync(s)  BY <3>1 DEF DraftPending, forceResync
    <3>2. CASE Paid(s)  BY <3>2 DEF Paid
    <3>3. CASE CancelAccepted(s)  BY <3>3 DEF CancelAccepted
    <3>4. CASE cancelBooking(s)  BY <3>4 DEF cancelBooking
    <3>5. CASE CancelRefused(s)  BY <3>5 DEF CancelRefused
    <3>6. CASE \E u \in Phones : createBooking(u, s)  BY <3>6 DEF createBooking, createDraft
    <3> QED  BY <1>5, <3>1, <3>2, <3>3, <3>4, <3>5, <3>6
  <2> QED  BY <2>1, <2>2 DEF AddsTo
<1>6. ASSUME NEW u \in Phones,
             \/ claimIfPending(u) \/ ClaimRefused(u) \/ ClaimBooks(u) \/ ClaimPending(u)
             \/ setBookingId(u)
      PROVE  rooms'[t].players = rooms[t].players /\ AddsTo(t)' = AddsTo(t)
  <2>1. adding' = adding
    BY <1>6 DEF claimIfPending, ClaimRefused, ClaimBooks, ClaimPending, setBookingId
  <2>2. rooms'[t].players = rooms[t].players
    <3>1. CASE ClaimBooks(u)  BY <3>1 DEF ClaimBooks, createDraft, DeskTypeOK, RoomRow
    <3>2. CASE ClaimPending(u)  BY <3>2 DEF ClaimPending, DeskTypeOK, RoomRow
    <3>3. CASE rooms' = rooms  BY <3>3
    <3> QED  BY <1>6, <3>1, <3>2, <3>3 DEF claimIfPending, ClaimRefused, setBookingId
  <2> QED  BY <2>1, <2>2 DEF AddsTo
<1>7. ASSUME \/ UNCHANGED <<baseVars, deskVars>> \/ revokeTablet \/ TabletSilent
             \/ \E s \in Slots : createSession(s) \/ SessionDeadline(s) \/ cancelSession(s)
             \/ \E s \in Slots, u \in Phones : Scan(u, s)
      PROVE  rooms'[t].players = rooms[t].players /\ AddsTo(t)' = AddsTo(t)
  BY <1>7 DEF deskVars, revokeTablet, TabletSilent, createSession, SessionDeadline, cancelSession, Scan, AddsTo
<1>8. CASE \E s \in Slots, p \in Players : removeParticipant(s, p)
  <2>1. CASE rooms'[t].players # rooms[t].players  BY <1>8, <1>2, <2>1
  <2>2. CASE rooms'[t].players = rooms[t].players
    BY <1>8, <1>1, <2>2 DEF removeParticipant, AddsTo
  <2> QED  BY <2>1, <2>2
<1> QED  BY <1>1, <1>3, <1>4, <1>5, <1>6, <1>7, <1>8 DEF DeskNext

\* No place is taken at first.
LEMMA PlacesStart == DeskInit => PlacesKept
<1> SUFFICES ASSUME DeskInit, NEW s \in Slots
             PROVE  IsFiniteSet(rooms[s].players) /\ Reserved(s) + 1 <= Capacity + Cardinality(Writers) - 1
  BY DEF PlacesKept
<1>1. rooms[s].players = {} /\ AddsTo(s) = {}
  BY DeskAssumption DEF DeskInit, AddsTo, NotAdding
<1> QED  BY <1>1, FS_EmptySet, FS_CardinalityType, DeskAssumption DEF Reserved

\* What the desk keeps follows from the invariant.
LEMMA DeskFromInv == DeskIndInv /\ PlacesKept => DeskKept
<1> SUFFICES ASSUME DeskIndInv, PlacesKept PROVE DeskKept
  OBVIOUS
<1>1. OneBookingPerSession
  BY DEF DeskIndInv, SessionsKept, ClaimHolds, ClaimingShape, OneBookingPerSession
<1>2. CapacityKept
  <2> SUFFICES ASSUME NEW s \in Slots
               PROVE  Cardinality(rooms[s].players) + 1 <= Capacity + Cardinality(Writers) - 1
    BY DEF CapacityKept
  <2>1. IsFiniteSet(AddsTo(s))  BY DeskAssumption, FS_Subset DEF AddsTo
  <2> QED  BY <2>1, DeskAssumption, FS_CardinalityType DEF PlacesKept, Reserved
<1> QED  BY <1>1, <1>2 DEF DeskKept

\* However many telephones scan a session it makes one booking, that of the
\* telephone that claimed it, and however the requests that add participants
\* interleave, the places of a court are exceeded by at most the ones that
\* checked beside the one that filled it.
THEOREM DeskSafe == DeskSpec => []DeskKept
<1> QED  BY DeskStart, PlacesStart, DeskStep, PlacesStep, DeskFromInv, PTL DEF DeskSpec

-----------------------------------------------------------------------------
(***************************************************************************)
(* Credit packs.                                                           *)
(***************************************************************************)
packsStep == [PacksNext]_<<baseVars, packVars>>

-----------------------------------------------------------------------------
\* A handler past an accepted capture; Stripe accepts one for each intent.
Winning == {"succeeded", "paid", "credited", "grant", "bonus", "done"}
OneWinner ==
    /\ \A h \in PackHandlers : handler[h] \in Winning => intent.status = "succeeded"
    /\ \A h, g \in PackHandlers : handler[h] \in Winning /\ handler[g] \in Winning => h = g
    /\ \A h \in PackHandlers : handler[h] = "failing" => intent.status = "failed"

\* The webhook works on a purchase whose payment is linked; the purchase links
\* it before it captures.
Linked ==
    /\ handler["buyer"] \in {"none", "stripe", "row", "link"} => ~pack.linked
    /\ \A h \in Hooks : handler[h] \notin {"none", "event", "over"} => pack.linked
    /\ handler["buyer"] \in {"none", "stripe"} =>
        intent.status = "absent" /\ \A h \in Hooks : handler[h] = "none"
    /\ handler["buyer"] \in {"capture", "failing"} \cup Winning => pack.linked
    /\ ~pack.linked => ledger.paid = 0 /\ pack.status \notin {"PAID", "CREDITED"}

\* What the rows of the wallet tell of the handler that wrote them.
Ledger ==
    /\ ledger.paid <= 1 /\ ledger.bonus <= ledger.paid
    /\ ledger.paid = 1 => pack.status = "CREDITED" /\ intent.status = "succeeded"
    /\ \A h \in PackHandlers :
        /\ handler[h] \in {"succeeded", "paid", "credited", "grant"} => ledger.paid = 0
        /\ handler[h] \in {"grant", "bonus", "done"} => pack.status = "CREDITED"
        /\ handler[h] = "bonus" => ledger.paid = 1 /\ ledger.bonus = 0
        /\ handler[h] = "done" => ledger.bonus = 1
    /\ pack.status = "PAID" => intent.status = "succeeded"
    /\ pack.status = "CREDITED" => intent.status = "succeeded"
    /\ pack.status = "CREDITED" /\ budget.faults = 0 =>
        \E h \in PackHandlers : handler[h] \in {"grant", "bonus", "done"}

\* Refunds given at Stripe and not cut since.
Handed(r) == refunds[r].pc = "row" \/ refunds[r].recorded
RefundsGiven ==
    /\ \A r \in Refunders : refunds[r].recorded => refunds[r].pc = "over"
    /\ \A r \in Refunders : Handed(r) => refunds[r].amount <= intent.refunded
    /\ \A r, q \in Refunders : r # q /\ Handed(r) /\ Handed(q) =>
        refunds[r].amount + refunds[q].amount <= intent.refunded

CreditInv == OneWinner /\ Linked /\ Ledger
PacksInv == PacksTypeOK /\ BaseTypeOK /\ CreditInv /\ RefundsGiven

-----------------------------------------------------------------------------
\* The first state satisfies the invariant.
LEMMA PacksStart == BaseInit /\ PacksInit => PacksInv
<1> SUFFICES ASSUME BaseInit, PacksInit PROVE PacksInv
  OBVIOUS
<1>1. PacksTypeOK /\ BaseTypeOK
  BY PackAssumption DEF BaseInit, BaseTypeOK, PacksInit, PacksTypeOK, PackRow, Intent, RefundTask, PackPc,
     PurchaseStatus, PaymentStatus
<1>2. CreditInv
  BY DEF PacksInit, CreditInv, OneWinner, Linked, Ledger, Winning, PackHandlers
<1>3. RefundsGiven  BY DEF PacksInit, RefundsGiven, Handed
<1> QED  BY <1>1, <1>2, <1>3 DEF PacksInv

\* The counters of the behaviour only grow.
LEMMA Counted ==
    ASSUME BaseTypeOK, NEW c, Request(c) \/ Fault(c) \/ Step(c)
    PROVE  BaseTypeOK' /\ budget'.faults \in Nat /\ (Fault(c) => budget'.faults > 0)
             /\ (~Fault(c) => budget'.faults = budget.faults)
BY DEF BaseTypeOK, Request, Fault, Step, baseVars

-----------------------------------------------------------------------------
\* A handler goes on: the others stay where they are.
LEMMA Gone ==
    ASSUME PacksTypeOK, NEW h \in PackHandlers, NEW pc \in PackPc, Go(h, pc)
    PROVE  /\ handler' \in [PackHandlers -> PackPc]
           /\ \A g \in PackHandlers : handler'[g] = IF g = h THEN pc ELSE handler[g]
BY DEF PacksTypeOK, Go

\* The steps of the purchase before the capture.
LEMMA TypedPurchase ==
    ASSUME PacksTypeOK, NEW s \in {"requires_action", "authorized", "failed"},
           \/ createPurchase \/ createPayment(s) \/ createPaymentRow \/ LinkPayment \/ ThreeDSecure(s)
    PROVE  PacksTypeOK'
<1>b. "buyer" \in PackHandlers  BY DEF PackHandlers
<1>t. pack \in PackRow /\ intent \in Intent  BY DEF PacksTypeOK
<1>1. CASE createPurchase
  <2>1. [pack EXCEPT !.status = "PENDING"] \in PackRow  BY <1>t DEF PackRow, PurchaseStatus
  <2> QED  BY <1>1, <1>b, <2>1, Gone DEF createPurchase, PacksTypeOK, PackPc
<1>2. CASE createPayment(s)
  <2>1. [intent EXCEPT !.status = s] \in Intent  BY <1>t DEF Intent
  <2> QED  BY <1>2, <1>b, <2>1, Gone DEF createPayment, PacksTypeOK, PackPc
<1>3. CASE createPaymentRow
  <2>1. toTransactionStatus(intent.status) \in PaymentStatus  BY DEF toTransactionStatus, PaymentStatus
  <2>2. [pack EXCEPT !.payment = toTransactionStatus(intent.status)] \in PackRow  BY <1>t, <2>1 DEF PackRow
  <2> QED  BY <1>3, <1>b, <2>2, Gone DEF createPaymentRow, PacksTypeOK, PackPc
<1>4. CASE LinkPayment
  <2> DEFINE st == IF pack.payment = "FAILED" THEN "FAILED" ELSE pack.status
             pc == IF pack.payment \in {"FAILED", "REQUIRES_ACTION"} THEN "over" ELSE "capture"
  <2>1. st \in PurchaseStatus /\ pc \in PackPc  BY <1>t DEF PackRow, PurchaseStatus, PackPc
  <2>2. pack' = [pack EXCEPT !.linked = TRUE, !.status = st] /\ Go("buyer", pc)
    BY <1>4 DEF LinkPayment
  <2> HIDE DEF st, pc
  <2>3. pack' \in PackRow  BY <1>t, <2>1, <2>2 DEF PackRow
  <2> QED  BY <1>4, <1>b, <2>1, <2>2, <2>3, Gone DEF LinkPayment, PacksTypeOK
<1>5. CASE ThreeDSecure(s)
  <2>1. [intent EXCEPT !.status = s] \in Intent  BY <1>t DEF Intent
  <2> QED  BY <1>5, <2>1 DEF ThreeDSecure, PacksTypeOK
<1> QED  BY <1>1, <1>2, <1>3, <1>4, <1>5

\* The steps of a delivery of the webhook before the capture.
LEMMA TypedHook ==
    ASSUME PacksTypeOK, NEW h \in Hooks,
           Delivered(h) \/ continueAfterAuthorizationConfirmed(h) \/ MarkAuthorized(h)
    PROVE  PacksTypeOK'
<1>b. h \in PackHandlers  BY DEF PackHandlers
<1>1. CASE Delivered(h)
  BY <1>1, <1>b, Gone DEF Delivered, PacksTypeOK, PackPc
<1>2. CASE continueAfterAuthorizationConfirmed(h)
  <2> DEFINE pc == IF pack.linked /\ pack.status = "PENDING" THEN "authorize" ELSE "over"
  <2>1. pc \in PackPc /\ Go(h, pc)  BY <1>2 DEF continueAfterAuthorizationConfirmed, PackPc
  <2> HIDE DEF pc
  <2> QED  BY <1>2, <1>b, <2>1, Gone DEF continueAfterAuthorizationConfirmed, PacksTypeOK
<1>3. CASE MarkAuthorized(h)
  <2>1. [pack EXCEPT !.payment = "AUTHORIZED"] \in PackRow  BY DEF PacksTypeOK, PackRow, PaymentStatus
  <2> QED  BY <1>3, <1>b, <2>1, Gone DEF MarkAuthorized, PacksTypeOK, PackPc
<1> QED  BY <1>1, <1>2, <1>3

\* captureAndCredit, step by step.
LEMMA TypedCapture ==
    ASSUME PacksTypeOK, NEW h \in PackHandlers,
           \/ Capture(h) \/ CaptureRefused(h) \/ CaptureFails(h) \/ MarkFailed(h)
           \/ MarkSucceeded(h) \/ MarkPaid(h) \/ markCreditedIfPaid(h)
           \/ creditPaid(h) \/ creditBonus(h) \/ PacksRestart(h)
    PROVE  PacksTypeOK'
<1>t. pack \in PackRow /\ intent \in Intent /\ ledger \in [paid : Nat, bonus : Nat]  BY DEF PacksTypeOK
<1>1. CASE Capture(h) \/ CaptureFails(h)
  <2>1. [intent EXCEPT !.status = "succeeded"] \in Intent /\ [intent EXCEPT !.status = "failed"] \in Intent
    BY <1>t DEF Intent
  <2> QED  BY <1>1, <2>1, Gone DEF Capture, CaptureFails, PacksTypeOK, PackPc
<1>2. CASE CaptureRefused(h) \/ PacksRestart(h)
  BY <1>2, Gone DEF CaptureRefused, PacksRestart, PacksTypeOK, PackPc
<1>3. CASE MarkFailed(h)
  <2>1. [pack EXCEPT !.payment = "FAILED", !.status = "FAILED"] \in PackRow
    BY <1>t DEF PackRow, PaymentStatus, PurchaseStatus
  <2> QED  BY <1>3, <2>1, Gone DEF MarkFailed, PacksTypeOK, PackPc
<1>4. CASE MarkSucceeded(h)
  <2>1. [pack EXCEPT !.payment = "SUCCEEDED"] \in PackRow  BY <1>t DEF PackRow, PaymentStatus
  <2> QED  BY <1>4, <2>1, Gone DEF MarkSucceeded, PacksTypeOK, PackPc
<1>5. CASE MarkPaid(h)
  <2>1. [pack EXCEPT !.status = "PAID"] \in PackRow  BY <1>t DEF PackRow, PurchaseStatus
  <2> QED  BY <1>5, <2>1, Gone DEF MarkPaid, PacksTypeOK, PackPc
<1>6. CASE markCreditedIfPaid(h)
  <2> DEFINE st == IF pack.status = "PAID" THEN "CREDITED" ELSE pack.status
             pc == IF pack.status = "PAID" THEN "grant" ELSE "over"
  <2>1. st \in PurchaseStatus /\ pc \in PackPc  BY <1>t DEF PackRow, PurchaseStatus, PackPc
  <2>2. pack' = [pack EXCEPT !.status = st] /\ Go(h, pc)  BY <1>6 DEF markCreditedIfPaid
  <2> HIDE DEF st, pc
  <2>3. pack' \in PackRow  BY <1>t, <2>1, <2>2 DEF PackRow
  <2> QED  BY <1>6, <2>1, <2>2, <2>3, Gone DEF markCreditedIfPaid, PacksTypeOK
<1>7. CASE creditPaid(h) \/ creditBonus(h)
  <2>1. ledger' \in [paid : Nat, bonus : Nat]  BY <1>t, <1>7 DEF creditPaid, creditBonus
  <2> QED  BY <1>7, <2>1, Gone DEF creditPaid, creditBonus, PacksTypeOK, PackPc
<1> QED  BY <1>1, <1>2, <1>3, <1>4, <1>5, <1>6, <1>7

-----------------------------------------------------------------------------
\* The credit: the steps of the purchase and of the webhook before the capture.
LEMMA CreditPurchase ==
    ASSUME PacksInv, NEW s \in {"requires_action", "authorized", "failed"},
           \/ createPurchase \/ createPayment(s) \/ createPaymentRow \/ LinkPayment \/ ThreeDSecure(s)
    PROVE  CreditInv'
<1>b. "buyer" \in PackHandlers /\ "buyer" \notin Hooks /\ \A h \in Hooks : h \in PackHandlers
  BY PackAssumption DEF PackHandlers
<1>t. PacksTypeOK /\ pack \in PackRow /\ intent \in Intent  BY DEF PacksInv, PacksTypeOK
<1>f. budget'.faults = budget.faults
  BY DEF PacksInv, BaseTypeOK, Request, Step, baseVars, createPurchase, createPayment, createPaymentRow,
         LinkPayment, ThreeDSecure
<1> USE DEF PacksInv, CreditInv, Winning
<1>1. CASE createPurchase
  <2>1. /\ \A g \in PackHandlers : handler'[g] = IF g = "buyer" THEN "stripe" ELSE handler[g]
        /\ handler["buyer"] = "none" /\ intent' = intent /\ ledger' = ledger
        /\ pack' = [pack EXCEPT !.status = "PENDING"]
    BY <1>1, <1>b, <1>t, Gone DEF createPurchase, PackPc
  <2>2. pack'.status = "PENDING" /\ pack'.linked = pack.linked  BY <1>t, <2>1 DEF PackRow
  <2>3. OneWinner'  BY <2>1 DEF OneWinner
  <2>4. Linked'  BY <1>b, <2>1, <2>2 DEF Linked
  <2>5. Ledger'  BY <1>b, <1>f, <2>1, <2>2 DEF Ledger, Linked
  <2> QED  BY <2>3, <2>4, <2>5
<1>2. CASE createPayment(s)
  <2>1. /\ \A g \in PackHandlers : handler'[g] = IF g = "buyer" THEN "row" ELSE handler[g]
        /\ handler["buyer"] = "stripe" /\ pack' = pack /\ ledger' = ledger
        /\ intent' = [intent EXCEPT !.status = s]
    BY <1>2, <1>b, <1>t, Gone DEF createPayment, PackPc
  <2>2. intent'.status = s  BY <1>t, <2>1 DEF Intent
  <2>3. \A g \in PackHandlers : handler'[g] \in {"none", "row"}
    BY <1>b, <2>1 DEF Linked, PackHandlers
  <2>4. OneWinner'  BY <2>3 DEF OneWinner
  <2>5. Linked'  BY <1>b, <2>1, <2>3 DEF Linked
  <2>6. Ledger'  BY <1>b, <1>f, <2>1, <2>3 DEF Ledger, Linked
  <2> QED  BY <2>4, <2>5, <2>6
<1>3. CASE createPaymentRow
  <2>1. /\ \A g \in PackHandlers : handler'[g] = IF g = "buyer" THEN "link" ELSE handler[g]
        /\ handler["buyer"] = "row" /\ intent' = intent /\ ledger' = ledger
        /\ pack' = [pack EXCEPT !.payment = toTransactionStatus(intent.status)]
    BY <1>3, <1>b, <1>t, Gone DEF createPaymentRow, PackPc
  <2>2. pack'.status = pack.status /\ pack'.linked = pack.linked  BY <1>t, <2>1 DEF PackRow
  <2>3. OneWinner'  BY <2>1 DEF OneWinner
  <2>4. Linked'  BY <1>b, <2>1, <2>2 DEF Linked
  <2>5. Ledger'  BY <1>b, <1>f, <2>1, <2>2 DEF Ledger, Linked
  <2> QED  BY <2>3, <2>4, <2>5
<1>4. CASE LinkPayment
  <2> DEFINE st == IF pack.payment = "FAILED" THEN "FAILED" ELSE pack.status
             pc == IF pack.payment \in {"FAILED", "REQUIRES_ACTION"} THEN "over" ELSE "capture"
  <2>1. /\ pc \in {"over", "capture"} /\ st \in {"FAILED", pack.status}
        /\ handler["buyer"] = "link" /\ intent' = intent /\ ledger' = ledger
        /\ pack' = [pack EXCEPT !.linked = TRUE, !.status = st] /\ Go("buyer", pc)
    BY <1>4 DEF LinkPayment
  <2> HIDE DEF st, pc
  <2>2. \A g \in PackHandlers : handler'[g] = IF g = "buyer" THEN pc ELSE handler[g]
    BY <1>b, <1>t, <2>1, Gone DEF PackPc
  <2>3. pack'.linked /\ pack'.status = st  BY <1>t, <2>1 DEF PackRow
  <2>4. OneWinner'  BY <2>1, <2>2 DEF OneWinner
  <2>5. Linked'  BY <1>b, <2>1, <2>2, <2>3 DEF Linked
  <2>6. pack.status \notin {"PAID", "CREDITED"} /\ ledger.paid = 0  BY <2>1 DEF Linked
  <2>7. Ledger'  BY <1>b, <1>f, <2>1, <2>2, <2>3, <2>6 DEF Ledger
  <2> QED  BY <2>4, <2>5, <2>7
<1>5. CASE ThreeDSecure(s)
  <2>1. /\ handler' = handler /\ handler["buyer"] = "over" /\ pack' = pack /\ ledger' = ledger
        /\ intent.status = "requires_action" /\ intent'.status = s
    BY <1>5, <1>t DEF ThreeDSecure, Intent
  <2>2. \A h \in PackHandlers : handler[h] \notin Winning \cup {"failing"}
    BY <2>1 DEF OneWinner
  <2>3. OneWinner'  BY <2>1, <2>2 DEF OneWinner
  <2>4. Linked'  BY <2>1 DEF Linked
  <2>5. Ledger'  BY <1>f, <2>1 DEF Ledger
  <2> QED  BY <2>3, <2>4, <2>5
<1> QED  BY <1>1, <1>2, <1>3, <1>4, <1>5

\* The steps of a delivery of the webhook before the capture.
LEMMA CreditHook ==
    ASSUME PacksInv, NEW h \in Hooks,
           Delivered(h) \/ continueAfterAuthorizationConfirmed(h) \/ MarkAuthorized(h)
    PROVE  CreditInv'
<1>b. "buyer" \in PackHandlers /\ "buyer" # h /\ h \in PackHandlers /\ \A g \in Hooks : g \in PackHandlers
  BY PackAssumption DEF PackHandlers
<1>t. PacksTypeOK /\ pack \in PackRow  BY DEF PacksInv, PacksTypeOK
<1>1. budget'.faults = budget.faults /\ UNCHANGED <<intent, ledger>>
  BY DEF PacksInv, BaseTypeOK, Request, Step, baseVars, Delivered, continueAfterAuthorizationConfirmed,
         MarkAuthorized
<1>2. PICK pc \in {"event", "authorize", "over", "capture"} :
        /\ Go(h, pc)
        /\ pc = "event" => handler[h] = "none" /\ intent.status \in {"authorized", "succeeded"}
        /\ pc \in {"authorize", "capture"} => pack.linked
        /\ handler[h] \in {"none", "event", "authorize"}
  BY DEF Delivered, continueAfterAuthorizationConfirmed, MarkAuthorized, PacksInv, CreditInv, Linked
<1>3. \A g \in PackHandlers : handler'[g] = IF g = h THEN pc ELSE handler[g]
  BY <1>b, <1>t, <1>2, Gone DEF PackPc
<1>4. pack'.status = pack.status /\ pack'.linked = pack.linked
  BY <1>t DEF PackRow, Delivered, continueAfterAuthorizationConfirmed, MarkAuthorized
<1>5. handler["buyer"] \notin {"none", "stripe"}
  BY <1>2 DEF PacksInv, CreditInv, Linked, Delivered, continueAfterAuthorizationConfirmed, MarkAuthorized
<1> USE DEF PacksInv, CreditInv, Winning
<1>6. OneWinner'  BY <1>1, <1>2, <1>3 DEF OneWinner
<1>7. Linked'  BY <1>b, <1>1, <1>2, <1>3, <1>4, <1>5 DEF Linked
<1>8. Ledger'  BY <1>1, <1>2, <1>3, <1>4, <1>b DEF Ledger
<1> QED  BY <1>6, <1>7, <1>8

\* captureAndCredit: Stripe accepts the capture of one handler, and that one
\* alone writes the rows of the wallet.
LEMMA CreditCapture ==
    ASSUME PacksInv, NEW h \in PackHandlers,
           \/ Capture(h) \/ CaptureRefused(h) \/ CaptureFails(h) \/ MarkFailed(h)
           \/ MarkSucceeded(h) \/ MarkPaid(h) \/ markCreditedIfPaid(h)
           \/ creditPaid(h) \/ creditBonus(h) \/ PacksRestart(h)
    PROVE  CreditInv'
<1>b. "buyer" \in PackHandlers /\ \A g \in Hooks : g \in PackHandlers /\ g # "buyer"
  BY PackAssumption DEF PackHandlers
<1>t. /\ PacksTypeOK /\ pack \in PackRow /\ intent \in Intent /\ ledger \in [paid : Nat, bonus : Nat]
      /\ budget.faults \in Nat
  BY DEF PacksInv, PacksTypeOK, BaseTypeOK
<1>c. \A g \in Hooks : g = h \/ handler'[g] = handler[g]
  BY <1>b, <1>t DEF PacksTypeOK, Go, Capture, CaptureRefused, CaptureFails, MarkFailed, MarkSucceeded, MarkPaid,
     markCreditedIfPaid, creditPaid, creditBonus, PacksRestart
<1> USE DEF PacksInv, CreditInv, Winning
<1>1. CASE Capture(h)
  <2>1. /\ \A g \in PackHandlers : handler'[g] = IF g = h THEN "succeeded" ELSE handler[g]
        /\ handler[h] = "capture" /\ intent.status = "authorized" /\ UNCHANGED <<pack, ledger>>
        /\ intent'.status = "succeeded" /\ budget' = budget
    BY <1>1, <1>t, Gone DEF Capture, PackPc, Intent, Step, baseVars
  <2>2. \A g \in PackHandlers : handler[g] \notin Winning \cup {"failing"}
    BY <2>1 DEF OneWinner
  <2>3. pack.linked /\ ledger.paid = 0
    BY <2>1, <1>b, <1>t DEF Linked, Ledger, PackHandlers
  <2>4. OneWinner'  BY <2>1, <2>2 DEF OneWinner
  <2>5. Linked'  BY <1>b, <2>1, <2>3 DEF Linked
  <2>6. Ledger'  BY <2>1, <2>2, <2>3 DEF Ledger
  <2> QED  BY <2>4, <2>5, <2>6
<1>2. CASE CaptureRefused(h)
  <2>1. /\ \A g \in PackHandlers : handler'[g] = IF g = h THEN "over" ELSE handler[g]
        /\ handler[h] = "capture" /\ UNCHANGED <<pack, intent, ledger>> /\ budget' = budget
    BY <1>2, <1>t, Gone DEF CaptureRefused, PackPc, Step, baseVars
  <2>4. OneWinner'  BY <2>1 DEF OneWinner
  <2>5. Linked'  BY <1>b, <2>1 DEF Linked
  <2>6. Ledger'  BY <2>1 DEF Ledger
  <2> QED  BY <2>4, <2>5, <2>6
<1>3. CASE CaptureFails(h)
  <2>1. /\ \A g \in PackHandlers : handler'[g] = IF g = h THEN "failing" ELSE handler[g]
        /\ handler[h] = "capture" /\ intent.status = "authorized" /\ UNCHANGED <<pack, ledger>>
        /\ intent'.status = "failed" /\ budget'.faults > 0
    BY <1>3, <1>t, Gone DEF CaptureFails, PackPc, Intent, Fault, BaseTypeOK
  <2>2. \A g \in PackHandlers : handler[g] \notin Winning \cup {"failing"}
    BY <2>1 DEF OneWinner
  <2>3. pack.linked /\ ledger.paid = 0 /\ pack.status \notin {"PAID", "CREDITED"}
    BY <2>1, <1>b, <1>t DEF Linked, Ledger, PackHandlers
  <2>4. OneWinner'  BY <2>1, <2>2 DEF OneWinner
  <2>5. Linked'  BY <1>b, <2>1, <2>3 DEF Linked
  <2>6. Ledger'  BY <2>1, <2>2, <2>3, <1>t DEF Ledger
  <2> QED  BY <2>4, <2>5, <2>6
<1>4. CASE MarkFailed(h)
  <2>1. /\ \A g \in PackHandlers : handler'[g] = IF g = h THEN "over" ELSE handler[g]
        /\ handler[h] = "failing" /\ UNCHANGED <<intent, ledger>> /\ budget' = budget
        /\ pack'.status = "FAILED" /\ pack'.linked = pack.linked
    BY <1>4, <1>t, Gone DEF MarkFailed, PackPc, PackRow, Step, baseVars
  <2>2. intent.status = "failed" /\ \A g \in PackHandlers : handler[g] \notin Winning
    BY <2>1 DEF OneWinner
  <2>4. OneWinner'  BY <2>1 DEF OneWinner
  <2>5. Linked'  BY <1>b, <2>1 DEF Linked
  <2>6. Ledger'  BY <2>1, <2>2 DEF Ledger
  <2> QED  BY <2>4, <2>5, <2>6
<1>5. CASE MarkSucceeded(h)
  <2>1. /\ \A g \in PackHandlers : handler'[g] = IF g = h THEN "paid" ELSE handler[g]
        /\ handler[h] = "succeeded" /\ UNCHANGED <<intent, ledger>> /\ budget' = budget
        /\ pack'.status = pack.status /\ pack'.linked = pack.linked
    BY <1>5, <1>t, Gone DEF MarkSucceeded, PackPc, PackRow, Step, baseVars
  <2>4. OneWinner'  BY <2>1 DEF OneWinner
  <2>5. Linked'  BY <1>b, <2>1 DEF Linked
  <2>6. Ledger'  BY <2>1 DEF Ledger
  <2> QED  BY <2>4, <2>5, <2>6
<1>6. CASE MarkPaid(h)
  <2>1. /\ \A g \in PackHandlers : handler'[g] = IF g = h THEN "credited" ELSE handler[g]
        /\ handler[h] = "paid" /\ UNCHANGED <<intent, ledger>> /\ budget' = budget
        /\ pack'.status = "PAID" /\ pack'.linked = pack.linked
    BY <1>6, <1>t, Gone DEF MarkPaid, PackPc, PackRow, Step, baseVars
  <2>2. /\ ledger.paid = 0 /\ intent.status = "succeeded"
        /\ \A g \in PackHandlers : g # h => handler[g] \notin Winning
    BY <2>1 DEF OneWinner, Ledger
  <2>3. pack.linked  BY <1>b, <2>1 DEF Linked, PackHandlers
  <2>4. OneWinner'  BY <2>1 DEF OneWinner
  <2>5. Linked'  BY <1>b, <2>1, <2>3 DEF Linked
  <2>6. Ledger'  BY <2>1, <2>2, <1>t DEF Ledger
  <2> QED  BY <2>4, <2>5, <2>6
<1>7. CASE markCreditedIfPaid(h)
  <2>2. /\ handler[h] = "credited" /\ ledger.paid = 0 /\ intent.status = "succeeded"
        /\ \A g \in PackHandlers : g # h => handler[g] \notin Winning
    BY <1>7 DEF markCreditedIfPaid, OneWinner, Ledger
  <2>3. pack.linked  BY <1>b, <2>2 DEF Linked, PackHandlers
  <2>4. CASE pack.status = "PAID"
    <3>1. /\ \A g \in PackHandlers : handler'[g] = IF g = h THEN "grant" ELSE handler[g]
          /\ UNCHANGED <<intent, ledger>> /\ pack'.status = "CREDITED" /\ pack'.linked = pack.linked
      BY <1>7, <2>4, <1>t, Gone DEF markCreditedIfPaid, PackPc, PackRow
    <3>2. OneWinner'  BY <3>1, <2>2 DEF OneWinner
    <3>3. Linked'  BY <1>b, <3>1, <2>2, <2>3 DEF Linked
    <3>4. Ledger'  BY <3>1, <2>2, <1>t DEF Ledger
    <3> QED  BY <3>2, <3>3, <3>4
  <2>5. CASE pack.status # "PAID"
    <3>1. /\ \A g \in PackHandlers : handler'[g] = IF g = h THEN "over" ELSE handler[g]
          /\ UNCHANGED <<intent, ledger>> /\ pack'.status = pack.status /\ pack'.linked = pack.linked
          /\ budget' = budget
      BY <1>7, <2>5, <1>t, Gone DEF markCreditedIfPaid, PackPc, PackRow, Step, baseVars
    <3>2. OneWinner'  BY <3>1, <2>2 DEF OneWinner
    <3>3. Linked'  BY <1>b, <3>1, <2>2, <2>3 DEF Linked
    <3>4. Ledger'  BY <3>1, <2>2, <1>t DEF Ledger
    <3> QED  BY <3>2, <3>3, <3>4
  <2> QED  BY <2>4, <2>5
<1>8. CASE creditPaid(h)
  <2>1. /\ \A g \in PackHandlers : handler'[g] = IF g = h THEN "bonus" ELSE handler[g]
        /\ handler[h] = "grant" /\ UNCHANGED <<intent, pack>> /\ budget' = budget
        /\ ledger'.paid = ledger.paid + 1 /\ ledger'.bonus = ledger.bonus
    BY <1>8, <1>t, Gone DEF creditPaid, PackPc, Step, baseVars
  <2>2. /\ ledger.paid = 0 /\ ledger.bonus = 0 /\ pack.status = "CREDITED" /\ intent.status = "succeeded"
        /\ \A g \in PackHandlers : g # h => handler[g] \notin Winning
    BY <2>1, <1>t DEF OneWinner, Ledger
  <2>3. pack.linked  BY <1>b, <2>1 DEF Linked, PackHandlers
  <2>4. OneWinner'  BY <2>1 DEF OneWinner
  <2>5. Linked'  BY <1>b, <2>1, <2>3 DEF Linked
  <2>6. Ledger'  BY <2>1, <2>2, <1>t DEF Ledger
  <2> QED  BY <2>4, <2>5, <2>6
<1>9. CASE creditBonus(h)
  <2>1. /\ \A g \in PackHandlers : handler'[g] = IF g = h THEN "done" ELSE handler[g]
        /\ handler[h] = "bonus" /\ UNCHANGED <<intent, pack>> /\ budget' = budget
        /\ ledger'.paid = ledger.paid /\ ledger'.bonus = ledger.bonus + 1
    BY <1>9, <1>t, Gone DEF creditBonus, PackPc, Step, baseVars
  <2>2. /\ ledger.paid = 1 /\ ledger.bonus = 0 /\ pack.status = "CREDITED" /\ intent.status = "succeeded"
        /\ \A g \in PackHandlers : g # h => handler[g] \notin Winning
    BY <2>1, <1>t DEF OneWinner, Ledger
  <2>4. OneWinner'  BY <2>1 DEF OneWinner
  <2>5. Linked'  BY <1>b, <2>1 DEF Linked
  <2>6. Ledger'  BY <2>1, <2>2, <1>t DEF Ledger
  <2> QED  BY <2>4, <2>5, <2>6
<1>10. CASE PacksRestart(h)
  <2>1. /\ \A g \in PackHandlers : handler'[g] = IF g = h THEN "over" ELSE handler[g]
        /\ handler[h] # "none" /\ UNCHANGED <<intent, pack, ledger>> /\ budget'.faults > 0
    BY <1>10, <1>t, Gone DEF PacksRestart, PackPc, Fault, BaseTypeOK
  <2>4. OneWinner'  BY <2>1 DEF OneWinner
  <2>5. Linked'  BY <1>b, <2>1 DEF Linked
  <2>6. Ledger'  BY <2>1 DEF Ledger
  <2> QED  BY <2>4, <2>5, <2>6
<1> QED  BY <1>1, <1>2, <1>3, <1>4, <1>5, <1>6, <1>7, <1>8, <1>9, <1>10

-----------------------------------------------------------------------------
\* The refunds: the requests do not touch the credit, and Stripe gives each
\* accepted one beside the others.
LEMMA RefundStep ==
    ASSUME PacksInv, NEW r \in Refunders, NEW amount \in 1..PackPrice,
           RefundAsked(r, amount) \/ RefundAtStripe(r) \/ RefundRecorded(r) \/ RefundCut(r)
    PROVE  PacksTypeOK' /\ CreditInv' /\ RefundsGiven'
<1>p. PackPrice \in Nat  BY PackAssumption
<1>t. /\ PacksTypeOK /\ intent \in Intent /\ intent.refunded \in 0..PackPrice
      /\ refunds \in [Refunders -> RefundTask] /\ refunds[r] \in RefundTask
      /\ \A q \in Refunders : refunds[q].amount \in 0..PackPrice
  BY DEF PacksInv, PacksTypeOK, Intent, RefundTask
<1>f. budget'.faults = budget.faults \/ budget'.faults > 0
  BY DEF PacksInv, BaseTypeOK, Request, Step, Fault, baseVars, RefundAsked, RefundAtStripe, RefundRecorded, RefundCut
<1>k. budget.faults \in Nat /\ (budget'.faults = 0 => budget.faults = 0)
  BY DEF PacksInv, BaseTypeOK, Request, Step, Fault, baseVars, RefundAsked, RefundAtStripe, RefundRecorded, RefundCut
<1> DEFINE accepted == intent.refunded + refunds[r].amount <= PackPrice
<1>1. PICK row \in RefundTask, total \in 0..PackPrice :
        /\ refunds' = [refunds EXCEPT ![r] = row] /\ intent' = [intent EXCEPT !.refunded = total]
        /\ UNCHANGED <<pack, ledger, handler>>
        /\ row.recorded => row.pc = "over"
        /\ \/ total = intent.refunded /\ (row.pc = "row" \/ row.recorded => Handed(r) /\ row.amount = refunds[r].amount)
           \/ total = intent.refunded + refunds[r].amount /\ row.amount = refunds[r].amount
  <2>1. CASE RefundAsked(r, amount)
    <3> DEFINE row == [refunds[r] EXCEPT !.pc = "ask", !.amount = amount]
    <3>1. refunds[r].pc = "none" /\ ~refunds[r].recorded
      BY <2>1 DEF RefundAsked, PacksInv, RefundsGiven
    <3>2. row \in RefundTask /\ row.pc = "ask" /\ row.recorded = refunds[r].recorded
      <4>1. refunds[r] \in RefundTask /\ amount \in 0..PackPrice  BY <1>t, <1>p
      <4> QED  BY <4>1 DEF RefundTask
    <3>3. refunds' = [refunds EXCEPT ![r] = row] /\ intent' = [intent EXCEPT !.refunded = intent.refunded]
          /\ UNCHANGED <<pack, ledger, handler>>
      BY <2>1, <1>t DEF RefundAsked, Intent
    <3> HIDE DEF row
    <3> QED  BY <3>1, <3>2, <3>3, <1>t
  <2>2. CASE RefundAtStripe(r) /\ accepted
    <3> DEFINE row == [refunds[r] EXCEPT !.pc = "row"]
               total == intent.refunded + refunds[r].amount
    <3>1. total \in 0..PackPrice  BY <2>2, <1>t, <1>p
    <3>2. /\ row \in RefundTask /\ row.pc = "row" /\ row.recorded = refunds[r].recorded
          /\ row.amount = refunds[r].amount
      BY <1>t DEF RefundTask
    <3>3. refunds' = [refunds EXCEPT ![r] = row] /\ intent' = [intent EXCEPT !.refunded = total]
          /\ UNCHANGED <<pack, ledger, handler>> /\ refunds[r].pc = "ask"
      BY <2>2, <1>t DEF RefundAtStripe
    <3>4. ~refunds[r].recorded  BY <3>3 DEF PacksInv, RefundsGiven
    <3> HIDE DEF row
    <3> QED  BY <3>1, <3>2, <3>3, <3>4
  <2>3. CASE RefundAtStripe(r) /\ ~accepted
    <3> DEFINE row == [refunds[r] EXCEPT !.pc = "over"]
    <3>2. /\ row \in RefundTask /\ row.pc = "over" /\ row.recorded = refunds[r].recorded
          /\ row.amount = refunds[r].amount
      BY <1>t DEF RefundTask
    <3>3. refunds' = [refunds EXCEPT ![r] = row] /\ intent' = [intent EXCEPT !.refunded = intent.refunded]
          /\ UNCHANGED <<pack, ledger, handler>>
      BY <2>3, <1>t DEF RefundAtStripe
    <3> HIDE DEF row
    <3> QED  BY <3>2, <3>3, <1>t DEF Handed
  <2>4. CASE RefundRecorded(r)
    <3> DEFINE row == [refunds[r] EXCEPT !.pc = "over", !.recorded = TRUE]
    <3>2. row \in RefundTask /\ row.pc = "over" /\ row.amount = refunds[r].amount
      BY <1>t DEF RefundTask
    <3>3. refunds' = [refunds EXCEPT ![r] = row] /\ intent' = [intent EXCEPT !.refunded = intent.refunded]
          /\ UNCHANGED <<pack, ledger, handler>> /\ Handed(r)
      BY <2>4, <1>t DEF RefundRecorded, Intent, Handed
    <3> HIDE DEF row
    <3> QED  BY <3>2, <3>3, <1>t
  <2>5. CASE RefundCut(r)
    <3> DEFINE row == [refunds[r] EXCEPT !.pc = "over"]
    <3>2. /\ row \in RefundTask /\ row.pc = "over" /\ row.recorded = refunds[r].recorded
          /\ row.amount = refunds[r].amount
      BY <1>t DEF RefundTask
    <3>3. refunds' = [refunds EXCEPT ![r] = row] /\ intent' = [intent EXCEPT !.refunded = intent.refunded]
          /\ UNCHANGED <<pack, ledger, handler>>
      BY <2>5, <1>t DEF RefundCut, Intent
    <3> HIDE DEF row
    <3> QED  BY <3>2, <3>3, <1>t DEF Handed
  <2> QED  BY <2>1, <2>2, <2>3, <2>4, <2>5
<1>2. /\ \A q \in Refunders : refunds'[q] = IF q = r THEN row ELSE refunds[q]
      /\ intent'.refunded = total /\ intent'.status = intent.status
  BY <1>1, <1>t DEF Intent
<1>3. PacksTypeOK'
  <2>1. intent' \in Intent  BY <1>1, <1>t DEF Intent
  <2> QED  BY <1>1, <1>t, <2>1 DEF PacksTypeOK
<1>4. CreditInv'
  BY <1>1, <1>2, <1>k DEF PacksInv, CreditInv, OneWinner, Linked, Ledger
<1>5. RefundsGiven'
  <2>1. \A q \in Refunders : refunds'[q].recorded => refunds'[q].pc = "over"
    BY <1>1, <1>2 DEF PacksInv, RefundsGiven
  <2>2. intent.refunded \in Nat /\ total \in Nat /\ \A q \in Refunders : refunds[q].amount \in Nat
    BY <1>t, <1>p
  <2>3. intent.refunded <= total  BY <1>1, <2>2
  <2>4. CASE total = intent.refunded /\ (row.pc = "row" \/ row.recorded => Handed(r) /\ row.amount = refunds[r].amount)
    <3>1. \A q \in Refunders : Handed(q)' => Handed(q) /\ refunds'[q].amount = refunds[q].amount
      BY <1>2, <2>4 DEF Handed
    <3> QED  BY <2>1, <1>2, <2>4, <3>1 DEF PacksInv, RefundsGiven
  <2>5. CASE total = intent.refunded + refunds[r].amount /\ row.amount = refunds[r].amount
    <3>1. \A q \in Refunders : refunds'[q].amount = refunds[q].amount
      BY <1>2, <2>5
    <3>2. \A q \in Refunders : Handed(q)' => q = r \/ Handed(q)
      BY <1>2 DEF Handed
    <3>3. \A q \in Refunders : Handed(q)' => refunds'[q].amount <= intent'.refunded
      BY <1>2, <2>2, <2>5, <3>1, <3>2 DEF PacksInv, RefundsGiven
    <3>4. \A q \in Refunders : Handed(q) => refunds[q].amount <= intent.refunded
      BY DEF PacksInv, RefundsGiven
    <3>5. \A q, o \in Refunders : q # o /\ Handed(q) /\ Handed(o) =>
            refunds[q].amount + refunds[o].amount <= intent.refunded
      BY DEF PacksInv, RefundsGiven
    <3>6. \A q, o \in Refunders : q # o /\ Handed(q)' /\ Handed(o)' =>
            refunds[q].amount + refunds[o].amount <= total
      BY <2>2, <2>5, <3>2, <3>4, <3>5
    <3> QED  BY <2>1, <1>2, <3>1, <3>3, <3>6 DEF RefundsGiven
  <2> QED  BY <1>1, <2>4, <2>5
<1> QED  BY <1>3, <1>4, <1>5

\* The credit leaves the refunds alone: what Stripe gave back stays given.
LEMMA RefundsUntouched ==
    ASSUME PacksInv, refunds' = refunds, intent'.refunded = intent.refunded
    PROVE  RefundsGiven'
BY DEF PacksInv, RefundsGiven, Handed

\* Every step keeps the invariant.
LEMMA PacksStep == PacksInv /\ packsStep => PacksInv'
<1> SUFFICES ASSUME PacksInv, packsStep PROVE PacksInv'
  OBVIOUS
<1>b. BaseTypeOK'
  <2>1. (\E c : Request(c) \/ Fault(c) \/ Step(c)) \/ UNCHANGED baseVars
    BY DEF packsStep, PacksNext, createPurchase, createPaymentRow, LinkPayment, createPayment, ThreeDSecure,
       Delivered, continueAfterAuthorizationConfirmed, MarkAuthorized, Capture, CaptureRefused, CaptureFails,
       MarkFailed, MarkSucceeded, MarkPaid, markCreditedIfPaid, creditPaid, creditBonus, PacksRestart,
       RefundAsked, RefundAtStripe, RefundRecorded, RefundCut
  <2>2. CASE UNCHANGED baseVars  BY <2>2 DEF PacksInv, BaseTypeOK, baseVars
  <2> QED  BY <2>1, <2>2, Counted DEF PacksInv
<1>i. intent \in Intent  BY DEF PacksInv, PacksTypeOK
<1>1. ASSUME NEW s \in {"requires_action", "authorized", "failed"},
             \/ createPurchase \/ createPayment(s) \/ createPaymentRow \/ LinkPayment \/ ThreeDSecure(s)
      PROVE  PacksInv'
  <2>1. refunds' = refunds /\ intent'.refunded = intent.refunded
    BY <1>1, <1>i DEF createPurchase, createPayment, createPaymentRow, LinkPayment, ThreeDSecure, Intent
  <2> QED  BY <1>1, <1>b, <2>1, TypedPurchase, CreditPurchase, RefundsUntouched DEF PacksInv
<1>2. ASSUME NEW h \in Hooks, Delivered(h) \/ continueAfterAuthorizationConfirmed(h) \/ MarkAuthorized(h)
      PROVE  PacksInv'
  <2>1. refunds' = refunds /\ intent'.refunded = intent.refunded
    BY <1>2 DEF Delivered, continueAfterAuthorizationConfirmed, MarkAuthorized
  <2> QED  BY <1>2, <1>b, <2>1, TypedHook, CreditHook, RefundsUntouched DEF PacksInv
<1>3. ASSUME NEW h \in PackHandlers,
             \/ Capture(h) \/ CaptureRefused(h) \/ CaptureFails(h) \/ MarkFailed(h)
             \/ MarkSucceeded(h) \/ MarkPaid(h) \/ markCreditedIfPaid(h)
             \/ creditPaid(h) \/ creditBonus(h) \/ PacksRestart(h)
      PROVE  PacksInv'
  <2>1. refunds' = refunds /\ intent'.refunded = intent.refunded
    BY <1>3, <1>i DEF Capture, CaptureRefused, CaptureFails, MarkFailed, MarkSucceeded, MarkPaid,
       markCreditedIfPaid, creditPaid, creditBonus, PacksRestart, Intent
  <2> QED  BY <1>3, <1>b, <2>1, TypedCapture, CreditCapture, RefundsUntouched DEF PacksInv
<1>4. ASSUME NEW r \in Refunders, NEW amount \in 1..PackPrice,
             RefundAsked(r, amount) \/ RefundAtStripe(r) \/ RefundRecorded(r) \/ RefundCut(r)
      PROVE  PacksInv'
  BY <1>4, <1>b, RefundStep DEF PacksInv
<1>5. CASE UNCHANGED <<baseVars, packVars>>
  BY <1>5 DEF packVars, baseVars, PacksInv, PacksTypeOK, BaseTypeOK, CreditInv, OneWinner, Linked, Ledger,
     RefundsGiven, Handed
<1>6. 1 \in 1..PackPrice /\ "failed" \in {"requires_action", "authorized", "failed"}
  BY PackAssumption
<1> QED  BY <1>1, <1>2, <1>3, <1>4, <1>5, <1>6 DEF packsStep, PacksNext

\* The rows of the purchase, of its intent, of the wallet and of the refunds
\* keep their types: Stripe gives back at most the price.
THEOREM PacksTyped == PacksSpec => []PacksTypeOK
<1>1. PacksInv => PacksTypeOK  BY DEF PacksInv
<1> QED  BY <1>1, PacksStart, PacksStep, PTL DEF PacksSpec, packsStep

\* The credit of a pack and its refunds, as the invariant tells them.
LEMMA CreditFromInv == PacksInv => PackCreditedOnce
<1> SUFFICES ASSUME PacksInv PROVE PackCreditedOnce
  OBVIOUS
<1>1. intent.refunded <= PackPrice  BY PackAssumption DEF PacksInv, PacksTypeOK, Intent
<1> QED  BY <1>1 DEF PacksInv, CreditInv, Ledger, RefundsGiven, Handed, PackCreditedOnce

\* A pack is credited at most once, and once unless something failed, whatever
\* deliveries of the webhook run beside the purchase; two refunds recorded are
\* two refunds given within the price.
THEOREM CreditedOnce == PacksSpec => []PackCreditedOnce
<1> QED  BY CreditFromInv, PacksStart, PacksStep, PTL DEF PacksSpec, packsStep

-----------------------------------------------------------------------------
(***************************************************************************)
(* Reconciliation with the bank.                                           *)
(***************************************************************************)
bankStep == [BankNext]_<<baseVars, bankVars>>

\* The rows an import still has to write: each one belongs to one import.
Owned(i) == matching[i].todo \cup {e \in BankRows : matching[i].pc \in {"find", "write"} /\ matching[i].row = e}

Explains(p, e) ==
    /\ taken[p].status # "absent" /\ taken[p].method = "CARD"
    /\ taken[p].amount = bankRows[e].amount /\ InWindow(p, e)

\* What an import knows: its rows are created and only a person gave one a
\* payment; unless it was overtaken it has read every payment matched; what it
\* found explains the row in hand.
ImportKept(i) ==
    /\ matching[i].pc \in {"find", "write"} => matching[i].row \in BankRows /\ matching[i].row \notin matching[i].todo
    /\ \A e \in Owned(i) : bankRows[e].status # "absent" /\ (bankRows[e].payment # None => bankRows[e].byHand)
    /\ matching[i].pc \in {"find", "write"} /\ ~matching[i].overtaken =>
        \A e \in BankRows : bankRows[e].status = "MATCHED" => bankRows[e].payment \in matching[i].excluded
    /\ matching[i].pc = "write" =>
        \A p \in matching[i].found : p \notin matching[i].excluded /\ Explains(p, matching[i].row)

RowKept(e) ==
    /\ bankRows[e].status = "MATCHED" => bankRows[e].payment \in CardPayments
    /\ bankRows[e].status = "MATCHED" /\ ~bankRows[e].byHand => Explains(bankRows[e].payment, e)
    /\ bankRows[e].payment # None => bankRows[e].status = "MATCHED" \/ bankRows[e].byHand \/ bankRows[e].overtaken

\* Two rows with one payment: a person decided, or a match was overtaken.
PairKept(e, o) ==
    /\ e # o /\ bankRows[e].status = "MATCHED" /\ bankRows[o].status = "MATCHED"
    /\ bankRows[e].payment = bankRows[o].payment
    => \/ bankRows[e].byHand \/ bankRows[e].overtaken
       \/ bankRows[o].byHand \/ bankRows[o].overtaken

BankInv ==
    /\ BankTypeOK
    /\ \A i \in Imports : ImportKept(i)
    /\ \A i, j \in Imports : i # j => Owned(i) \cap Owned(j) = {}
    /\ \A e \in BankRows : RowKept(e)
    /\ \A e, o \in BankRows : PairKept(e, o)

LEMMA BankStart == BankInit => BankInv
BY DEF BankInit, BankInv, BankTypeOK, ImportKept, Owned, RowKept, PairKept, NoRow, NoMatching

LEMMA BankFromInv == BankInv => MatchedOnce
BY DEF BankInv, RowKept, PairKept, Explains, MatchedOnce

PaymentRow == [status : {"absent", "RECORDED", "REVERSED"}, method : {"CARD", "CASH"}, amount : Nat, day : Nat]
BankRow == [status : {"absent", "UNMATCHED", "MATCHED", "AMBIGUOUS"}, amount : Nat, day : Nat,
            payment : CardPayments \cup {None}, byHand : BOOLEAN, overtaken : BOOLEAN]
ImportRow == [pc : {"idle", "exclude", "find", "write"}, todo : SUBSET BankRows, row : BankRows \cup {None},
              excluded : SUBSET CardPayments, found : SUBSET CardPayments, overtaken : BOOLEAN]

\* The till never changes the method, the amount or the day of a payment.
LEMMA TillStep ==
    ASSUME BankInv, NEW p \in CardPayments, PaymentRecorded(p) \/ PaymentReversed(p)
    PROVE  BankInv'
<1>1. /\ taken' \in [CardPayments -> PaymentRow]
      /\ \A q \in CardPayments : taken[q].status # "absent" =>
            /\ taken'[q].status # "absent" /\ taken'[q].method = taken[q].method
            /\ taken'[q].amount = taken[q].amount /\ taken'[q].day = taken[q].day
  <2>1. CASE PaymentRecorded(p)
    <3>1. PICK t \in TillPayments : taken' = [taken EXCEPT ![p] = [status |-> "RECORDED", method |-> t.method,
                                                                   amount |-> t.amount, day |-> t.day]]
      BY <2>1 DEF PaymentRecorded
    <3>2. t.method \in {"CARD", "CASH"} /\ t.amount \in Nat /\ t.day \in Nat
      BY ReconciliationAssumption
    <3> QED BY <2>1, <3>1, <3>2 DEF BankInv, BankTypeOK, PaymentRow, PaymentRecorded
  <2>2. CASE PaymentReversed(p)
    <3>1. [taken[p] EXCEPT !.status = "REVERSED"] \in PaymentRow
      BY DEF BankInv, BankTypeOK, PaymentRow
    <3>2. taken' = [taken EXCEPT ![p].status = "REVERSED"]
      BY <2>2 DEF PaymentReversed
    <3> QED BY <3>1, <3>2 DEF BankInv, BankTypeOK, PaymentRow
  <2> QED BY <2>1, <2>2
<1>2. UNCHANGED <<bankRows, matching>>
  BY DEF PaymentRecorded, PaymentReversed
<1>3. \A q \in CardPayments : \A e \in BankRows : Explains(q, e) => Explains(q, e)'
  BY <1>1, <1>2 DEF Explains, InWindow
<1>4. BankTypeOK'
  BY <1>1, <1>2 DEF BankInv, BankTypeOK, PaymentRow
<1>5. \A e \in BankRows : RowKept(e)'
  BY <1>2, <1>3 DEF BankInv, RowKept
<1>6. \A i \in Imports : ImportKept(i)'
  BY <1>2, <1>3 DEF BankInv, BankTypeOK, ImportKept, Owned
<1> QED BY <1>2, <1>4, <1>5, <1>6 DEF BankInv, PairKept, Owned

\* The rows of a new import were never created before, so nobody owns them.
LEMMA ImportBatchStep ==
    ASSUME BankInv, NEW i \in Imports, NEW added \in SUBSET BankRows, importBatch(i, added)
    PROVE  BankInv'
<1>1. PICK line \in [added -> StatementRows] :
        bankRows' = [e \in BankRows |->
            IF e \in added THEN [NoRow EXCEPT !.status = "UNMATCHED", !.amount = line[e].amount, !.day = line[e].day]
            ELSE bankRows[e]]
  BY DEF importBatch
<1>2. /\ taken' = taken /\ matching[i] = NoMatching /\ \A e \in added : bankRows[e] = NoRow
      /\ matching' = [matching EXCEPT ![i] = [NoMatching EXCEPT !.pc = "exclude", !.todo = added]]
  BY DEF importBatch
<1>3. \A e \in added : line[e].amount \in Nat /\ line[e].day \in Nat
  BY ReconciliationAssumption
<1>4. \A e \in added : /\ bankRows'[e] \in BankRow /\ bankRows'[e].status = "UNMATCHED"
                      /\ bankRows'[e].payment = None
  BY <1>1, <1>3 DEF NoRow, BankRow
<1>5. \A e \in BankRows \ added : bankRows'[e] = bankRows[e]
  BY <1>1
<1>6. bankRows' \in [BankRows -> BankRow]
  BY <1>1, <1>4, <1>5 DEF BankInv, BankTypeOK, BankRow
<1>7. PICK m \in ImportRow : m = [NoMatching EXCEPT !.pc = "exclude", !.todo = added]
                             /\ m.pc = "exclude" /\ m.todo = added
  <2>1. [NoMatching EXCEPT !.pc = "exclude", !.todo = added] \in
          [pc : {"exclude"}, todo : {added}, row : {None}, excluded : {{}}, found : {{}}, overtaken : {FALSE}]
    BY DEF NoMatching
  <2> QED BY <2>1 DEF ImportRow
<1>8. matching' \in [Imports -> ImportRow] /\ matching'[i] = m /\ \A j \in Imports : j # i => matching'[j] = matching[j]
  BY <1>2, <1>7 DEF BankInv, BankTypeOK, ImportRow
<1>9. BankTypeOK'
  BY <1>2, <1>6, <1>8 DEF BankInv, BankTypeOK, BankRow, ImportRow
<1>10. \A e \in added : bankRows[e].status = "absent"
  BY <1>2 DEF NoRow
<1>11. Owned(i)' = added /\ \A j \in Imports : j # i => Owned(j)' = Owned(j)
  BY <1>7, <1>8 DEF Owned
<1>12. \A j \in Imports : Owned(j) \cap added = {}
  BY <1>10 DEF BankInv, ImportKept
<1>13. \A j \in Imports : matching[j].pc = "write" => matching[j].row \in Owned(j)
  BY DEF BankInv, ImportKept, Owned
<1>14. \A j \in Imports : ImportKept(j)'
  <2>1. ImportKept(i)'
    BY <1>4, <1>7, <1>8, <1>11 DEF ImportKept
  <2>2. ASSUME NEW j \in Imports, j # i PROVE ImportKept(j)'
    <3>1. matching'[j] = matching[j] /\ Owned(j)' = Owned(j)
      BY <1>8, <1>11, <2>2
    <3>2. \A e \in Owned(j) : e \in BankRows \ added
      BY <1>12 DEF Owned, BankInv, BankTypeOK
    <3>3. \A p : matching[j].pc = "write" /\ Explains(p, matching[j].row) => Explains(p, matching[j].row)'
      BY <1>2, <1>5, <1>13, <3>1, <3>2 DEF Explains, InWindow
    <3> QED BY <1>4, <1>5, <3>1, <3>2, <3>3 DEF BankInv, ImportKept
  <2> QED BY <2>1, <2>2
<1>15. \A e \in BankRows : RowKept(e)'
  BY <1>2, <1>4, <1>5 DEF BankInv, RowKept, Explains, InWindow
<1>16. \A e, o \in BankRows : PairKept(e, o)'
  BY <1>4, <1>5 DEF BankInv, PairKept
<1> QED BY <1>9, <1>11, <1>12, <1>14, <1>15, <1>16 DEF BankInv

\* Reading: the payments of the added matched now, then what is left to find.
LEMMA ReadStep ==
    ASSUME BankInv, NEW i \in Imports, FindCandidates(i) \/ \E e \in BankRows : ReadMatched(i, e)
    PROVE  BankInv'
<1>1. UNCHANGED <<taken, bankRows>>
  BY DEF FindCandidates, ReadMatched
<1>2. CASE FindCandidates(i)
  <2>1. matching[i].pc = "find" /\ matching[i] \in ImportRow /\ matching[i].row \in BankRows
    BY <1>2 DEF FindCandidates, BankInv, BankTypeOK, ImportRow, ImportKept
  <2>2. PICK f \in SUBSET CardPayments : f = findCandidatePayments(matching[i].row, matching[i].excluded)
    BY DEF findCandidatePayments
  <2>3. matching' = [matching EXCEPT ![i] = [@ EXCEPT !.pc = "write", !.found = f]]
    BY <1>2, <2>2 DEF FindCandidates
  <2>4. PICK m \in ImportRow :
          /\ m = [matching[i] EXCEPT !.pc = "write", !.found = f]
          /\ m.pc = "write" /\ m.found = f /\ m.row = matching[i].row /\ m.todo = matching[i].todo
          /\ m.excluded = matching[i].excluded /\ m.overtaken = matching[i].overtaken
    <3>1. PICK m : m = [matching[i] EXCEPT !.pc = "write", !.found = f]
      OBVIOUS
    <3>2. PICK r \in ImportRow : r = matching[i]
      BY <2>1
    <3>3. m = [r EXCEPT !.pc = "write", !.found = f]
      BY <3>1, <3>2
    <3>4. m \in ImportRow
      BY <2>2, <3>3 DEF ImportRow
    <3>5. m.pc = "write" /\ m.found = f /\ m.row = r.row /\ m.todo = r.todo
          /\ m.excluded = r.excluded /\ m.overtaken = r.overtaken
      BY <3>3 DEF ImportRow
    <3> QED BY <3>1, <3>2, <3>4, <3>5
  <2>5. matching' \in [Imports -> ImportRow] /\ matching'[i] = m /\ \A j \in Imports : j # i => matching'[j] = matching[j]
    BY <2>3, <2>4 DEF BankInv, BankTypeOK, ImportRow
  <2>6. \A j \in Imports : Owned(j)' = Owned(j)
    <3>1. Owned(i)' = Owned(i)
      <4>1. matching'[i].todo = matching[i].todo /\ matching'[i].row = matching[i].row
            /\ matching'[i].pc \in {"find", "write"} /\ matching[i].pc \in {"find", "write"}
        BY <2>1, <2>4, <2>5
      <4> QED BY <4>1 DEF Owned
    <3> QED BY <2>5, <3>1 DEF Owned
  <2>7. \A p \in f : p \notin m.excluded /\ Explains(p, m.row)
    BY <2>2, <2>4 DEF findCandidatePayments, Explains
  <2>8. \A j \in Imports : ImportKept(j)'
    <3>1. \A p, e : Explains(p, e)' = Explains(p, e)
      BY <1>1 DEF Explains, InWindow
    <3>2. ImportKept(i)'
      <4>1. m.row \in BankRows /\ m.row \notin m.todo
        BY <2>1, <2>4 DEF BankInv, ImportKept
      <4>2. ~m.overtaken => \A e \in BankRows : bankRows[e].status = "MATCHED" => bankRows[e].payment \in m.excluded
        BY <2>1, <2>4 DEF BankInv, ImportKept
      <4> QED BY <1>1, <2>4, <2>5, <2>6, <2>7, <3>1, <4>1, <4>2 DEF BankInv, ImportKept
    <3> QED BY <1>1, <2>5, <2>6, <3>1, <3>2 DEF BankInv, ImportKept
  <2>9. BankTypeOK'
    BY <1>1, <2>5 DEF BankInv, BankTypeOK, ImportRow
  <2> QED BY <1>1, <2>6, <2>8, <2>9 DEF BankInv, RowKept, PairKept, Explains, InWindow
<1>3. ASSUME NEW e \in BankRows, ReadMatched(i, e) PROVE BankInv'
  <2>1. matching[i].pc = "exclude" /\ matching[i] \in ImportRow /\ e \in matching[i].todo
    BY <1>3 DEF ReadMatched, BankInv, BankTypeOK, ImportRow
  <2>2. PICK x \in SUBSET CardPayments :
           x = {bankRows[o].payment : o \in {r \in BankRows : bankRows[r].status = "MATCHED"}}
    BY DEF BankInv, RowKept
  <2>3. PICK m : m = [matching[i] EXCEPT !.pc = "find", !.row = e, !.todo = matching[i].todo \ {e}, !.overtaken = FALSE,
                        !.excluded = {bankRows[o].payment : o \in {r \in BankRows : bankRows[r].status = "MATCHED"}}]
    OBVIOUS
  <2>4. matching' = [matching EXCEPT ![i] = m]
    BY <1>3, <2>3, Zenon DEF ReadMatched
  <2>10. m \in ImportRow /\ m.pc = "find" /\ m.row = e /\ m.todo = matching[i].todo \ {e} /\ m.excluded = x
    <3>1. PICK r \in ImportRow : r = matching[i]
      BY <2>1
    <3>2. m = [r EXCEPT !.pc = "find", !.row = e, !.todo = r.todo \ {e}, !.overtaken = FALSE, !.excluded = x]
      BY <2>2, <2>3, <3>1
    <3>3. m \in ImportRow
      BY <2>2, <3>2 DEF ImportRow
    <3>4. m.pc = "find" /\ m.row = e /\ m.todo = r.todo \ {e} /\ m.excluded = x
      BY <3>2 DEF ImportRow
    <3> QED BY <3>1, <3>3, <3>4
  <2>5. matching' \in [Imports -> ImportRow] /\ matching'[i] = m /\ \A j \in Imports : j # i => matching'[j] = matching[j]
    BY <2>4, <2>10 DEF BankInv, BankTypeOK, ImportRow
  <2>6. \A j \in Imports : Owned(j)' = Owned(j)
    <3>1. Owned(i)' = Owned(i)
      <4>1. Owned(i)' = m.todo \cup {o \in BankRows : m.pc \in {"find", "write"} /\ m.row = o}
        BY <2>5 DEF Owned
      <4>2. Owned(i) = matching[i].todo
        BY <2>1 DEF Owned
      <4> QED BY <2>1, <2>10, <4>1, <4>2
    <3> QED BY <2>5, <3>1 DEF Owned
  <2>7. \A o \in BankRows : bankRows[o].status = "MATCHED" => bankRows[o].payment \in x
    BY <2>2
  <2>8. \A j \in Imports : ImportKept(j)'
    <3>1. \A p, o : Explains(p, o)' = Explains(p, o)
      BY <1>1 DEF Explains, InWindow
    <3>2. ImportKept(i)'
      <4>1. m.row \in BankRows /\ m.row \notin m.todo
        BY <2>3
      <4> QED BY <1>1, <2>10, <2>5, <2>6, <2>7, <3>1, <4>1 DEF BankInv, ImportKept
    <3> QED BY <1>1, <2>5, <2>6, <3>1, <3>2 DEF BankInv, ImportKept
  <2>9. BankTypeOK'
    BY <1>1, <2>5 DEF BankInv, BankTypeOK, ImportRow
  <2> QED BY <1>1, <2>6, <2>8, <2>9 DEF BankInv, RowKept, PairKept, Explains, InWindow
<1> QED BY <1>2, <1>3

\* What the others have read is overtaken by a match written now.
LEMMA OvertakenOthers ==
    ASSUME BankInv, NEW i
    PROVE  /\ Overtakes(i) \in [Imports -> ImportRow]
           /\ \A j \in Imports : LET n == Overtakes(i)[j] IN
                /\ n.pc = matching[j].pc /\ n.todo = matching[j].todo /\ n.row = matching[j].row
                /\ n.excluded = matching[j].excluded /\ n.found = matching[j].found
                /\ j # i /\ n.pc \in {"find", "write"} => n.overtaken
<1>1. SUFFICES ASSUME NEW j \in Imports
               PROVE  /\ Overtakes(i)[j] \in ImportRow
                      /\ Overtakes(i)[j].pc = matching[j].pc /\ Overtakes(i)[j].todo = matching[j].todo
                      /\ Overtakes(i)[j].row = matching[j].row /\ Overtakes(i)[j].excluded = matching[j].excluded
                      /\ Overtakes(i)[j].found = matching[j].found
                      /\ j # i /\ Overtakes(i)[j].pc \in {"find", "write"} => Overtakes(i)[j].overtaken
  BY DEF Overtakes
<1>2. PICK r \in ImportRow : r = matching[j]
  BY DEF BankInv, BankTypeOK, ImportRow
<1>3. PICK s : s = [r EXCEPT !.overtaken = TRUE]
  OBVIOUS
<1>4. s \in ImportRow
  BY <1>3 DEF ImportRow
<1>5. s.pc = r.pc /\ s.todo = r.todo /\ s.row = r.row /\ s.excluded = r.excluded /\ s.found = r.found /\ s.overtaken
  BY <1>3 DEF ImportRow
<1>6. Overtakes(i)[j] = IF j # i /\ r.pc \in {"find", "write"} THEN s ELSE r
  BY <1>2, <1>3 DEF Overtakes
<1> QED BY <1>2, <1>4, <1>5, <1>6

\* What the write of row e by import i does: w is the row, all what the others hold.
SameReading(all, j) ==
    /\ all[j].pc = matching[j].pc /\ all[j].todo = matching[j].todo /\ all[j].row = matching[j].row
    /\ all[j].excluded = matching[j].excluded /\ all[j].found = matching[j].found

Written(i, e, n, w, all) ==
    /\ bankRows' = [bankRows EXCEPT ![e] = w] /\ matching' = [all EXCEPT ![i] = n]
    /\ w.amount = bankRows[e].amount /\ w.day = bankRows[e].day /\ w.overtaken = matching[i].overtaken
    /\ \A j \in Imports : SameReading(all, j)
    /\ \/ /\ w.status = "MATCHED" /\ w.payment \in matching[i].found /\ ~w.byHand
          /\ \A j \in Imports : j # i /\ all[j].pc \in {"find", "write"} => all[j].overtaken
       \/ /\ w.status \in {"UNMATCHED", "AMBIGUOUS"} /\ w.payment = bankRows[e].payment
          /\ w.byHand = bankRows[e].byHand /\ all = matching

\* The row in hand is written, and nobody else has it in hand.
LEMMA WriteStep ==
    ASSUME BankInv, NEW i \in Imports, WriteRow(i)
    PROVE  BankInv'
<1>1. PICK td \in SUBSET BankRows, e \in BankRows, ex \in SUBSET CardPayments, fo \in SUBSET CardPayments,
           ov \in BOOLEAN :
         matching[i] = [pc |-> "write", todo |-> td, row |-> e, excluded |-> ex, found |-> fo, overtaken |-> ov]
  BY DEF WriteRow, BankInv, BankTypeOK, ImportKept
<1>2. PICK st \in {"absent", "UNMATCHED", "MATCHED", "AMBIGUOUS"}, am \in Nat, da \in Nat,
           pa \in CardPayments \cup {None}, bh \in BOOLEAN, oo \in BOOLEAN :
         bankRows[e] = [status |-> st, amount |-> am, day |-> da, payment |-> pa, byHand |-> bh, overtaken |-> oo]
  BY DEF BankInv, BankTypeOK
<1>3. PICK n : n = [NoMatching EXCEPT !.todo = td, !.pc = IF td = {} THEN "idle" ELSE "exclude"]
  OBVIOUS
<1>4. n \in ImportRow /\ n.todo = td /\ n.pc \in {"idle", "exclude"}
  <2>1. n \in [pc : {"idle", "exclude"}, todo : {td}, row : {None}, excluded : {{}}, found : {{}}, overtaken : {FALSE}]
    BY <1>3 DEF NoMatching
  <2> QED BY <2>1 DEF ImportRow
<1>5. /\ e \notin td /\ e \in Owned(i) /\ \A o \in td : o \in Owned(i)
      /\ st # "absent" /\ (pa # None => bh)
      /\ ~ov => \A o \in BankRows : bankRows[o].status = "MATCHED" => bankRows[o].payment \in ex
      /\ \A p \in fo : p \notin ex /\ Explains(p, e)
  <2>1. e \notin td /\ e \in Owned(i) /\ \A o \in td : o \in Owned(i)
    BY <1>1 DEF BankInv, ImportKept, Owned
  <2>2. st # "absent" /\ (pa # None => bh)
    BY <1>2, <2>1 DEF BankInv, ImportKept
  <2> QED BY <1>1, <2>1, <2>2 DEF BankInv, ImportKept
<1>6. taken' = taken
  BY DEF WriteRow
<1>7. PICK w \in BankRow, all \in [Imports -> ImportRow] : Written(i, e, n, w, all)
  <2>1. ASSUME NEW p \in fo,
               bankRows' = [bankRows EXCEPT ![e] = [[bankRows[e] EXCEPT !.overtaken = ov]
                               EXCEPT !.status = "MATCHED", !.payment = p, !.byHand = FALSE]],
               matching' = [Overtakes(i) EXCEPT ![i] = n]
        PROVE  \E w \in BankRow, all \in [Imports -> ImportRow] : Written(i, e, n, w, all)
    <3>1. PICK w : w = [[bankRows[e] EXCEPT !.overtaken = ov]
                               EXCEPT !.status = "MATCHED", !.payment = p, !.byHand = FALSE]
      OBVIOUS
    <3>2. PICK v : v = [bankRows[e] EXCEPT !.overtaken = ov]
      OBVIOUS
    <3>8. v \in BankRow /\ v.amount = am /\ v.day = da /\ v.overtaken = ov
      BY <1>2, <3>2 DEF BankRow
    <3>9. w = [v EXCEPT !.status = "MATCHED", !.payment = p, !.byHand = FALSE]
      BY <3>1, <3>2
    <3>10. w \in BankRow
      BY <3>8, <3>9 DEF BankRow
    <3>11. w.amount = v.amount /\ w.day = v.day /\ w.overtaken = v.overtaken
           /\ w.status = "MATCHED" /\ w.payment = p /\ ~w.byHand
      BY <3>8, <3>9 DEF BankRow
    <3>12. bankRows[e].amount = am /\ bankRows[e].day = da /\ matching[i].overtaken = ov /\ matching[i].found = fo
      BY <1>1, <1>2
    <3>3. w \in BankRow /\ w.amount = bankRows[e].amount /\ w.day = bankRows[e].day
          /\ w.overtaken = matching[i].overtaken
          /\ w.status = "MATCHED" /\ w.payment \in matching[i].found /\ ~w.byHand
      BY <3>8, <3>10, <3>11, <3>12
    <3>4. PICK all \in [Imports -> ImportRow] : all = Overtakes(i)
      BY OvertakenOthers
    <3>5. \A j \in Imports : SameReading(all, j) /\ (j # i /\ all[j].pc \in {"find", "write"} => all[j].overtaken)
      BY <3>4, OvertakenOthers DEF SameReading
    <3>6. bankRows' = [bankRows EXCEPT ![e] = w]
      BY <2>1, <3>1, Zenon
    <3>7. matching' = [all EXCEPT ![i] = n]
      BY <2>1, <3>4, Zenon
    <3> QED BY <3>3, <3>5, <3>6, <3>7 DEF Written
  <2>2. ASSUME NEW s \in {"UNMATCHED", "AMBIGUOUS"},
               bankRows' = [bankRows EXCEPT ![e] = [[bankRows[e] EXCEPT !.overtaken = ov] EXCEPT !.status = s]],
               matching' = [matching EXCEPT ![i] = n]
        PROVE  \E w \in BankRow, all \in [Imports -> ImportRow] : Written(i, e, n, w, all)
    <3>1. PICK w : w = [[bankRows[e] EXCEPT !.overtaken = ov] EXCEPT !.status = s]
      OBVIOUS
    <3>2. PICK v : v = [bankRows[e] EXCEPT !.overtaken = ov]
      OBVIOUS
    <3>8. v \in BankRow /\ v.amount = am /\ v.day = da /\ v.payment = pa /\ v.byHand = bh /\ v.overtaken = ov
      BY <1>2, <3>2 DEF BankRow
    <3>9. w = [v EXCEPT !.status = s]
      BY <3>1, <3>2
    <3>10. w \in BankRow /\ w.amount = v.amount /\ w.day = v.day /\ w.overtaken = v.overtaken
           /\ w.status = s /\ w.payment = v.payment /\ w.byHand = v.byHand
      BY <3>8, <3>9 DEF BankRow
    <3>12. bankRows[e].amount = am /\ bankRows[e].day = da /\ bankRows[e].payment = pa /\ bankRows[e].byHand = bh
           /\ matching[i].overtaken = ov
      BY <1>1, <1>2
    <3>3. w \in BankRow /\ w.amount = bankRows[e].amount /\ w.day = bankRows[e].day
          /\ w.overtaken = matching[i].overtaken
          /\ w.status = s /\ w.payment = bankRows[e].payment /\ w.byHand = bankRows[e].byHand
      BY <3>8, <3>10, <3>12
    <3>4. matching \in [Imports -> ImportRow] /\ \A j \in Imports : SameReading(matching, j)
      BY DEF BankInv, BankTypeOK, ImportRow, SameReading
    <3>5. bankRows' = [bankRows EXCEPT ![e] = w]
      BY <2>2, <3>1, Zenon
    <3> QED BY <2>2, <3>3, <3>4, <3>5 DEF Written
  <2>3. matching[i].row = e /\ matching[i].todo = td /\ matching[i].overtaken = ov /\ matching[i].found = fo
    BY <1>1
  <2>4. \/ \E p \in fo : /\ bankRows' = [bankRows EXCEPT ![e] = [[bankRows[e] EXCEPT !.overtaken = ov]
                               EXCEPT !.status = "MATCHED", !.payment = p, !.byHand = FALSE]]
                         /\ matching' = [Overtakes(i) EXCEPT ![i] = n]
        \/ \E s \in {"UNMATCHED", "AMBIGUOUS"} :
              /\ bankRows' = [bankRows EXCEPT ![e] = [[bankRows[e] EXCEPT !.overtaken = ov] EXCEPT !.status = s]]
              /\ matching' = [matching EXCEPT ![i] = n]
    BY <1>3, <2>3, Zenon DEF WriteRow
  <2> QED BY <2>1, <2>2, <2>4
<1>8. /\ bankRows' \in [BankRows -> BankRow] /\ bankRows'[e] = w
      /\ \A o \in BankRows : o # e => bankRows'[o] = bankRows[o]
  BY <1>7 DEF Written, BankInv, BankTypeOK, BankRow
<1>9. /\ matching' \in [Imports -> ImportRow] /\ matching'[i] = n
      /\ \A j \in Imports : j # i => matching'[j] = all[j]
  BY <1>4, <1>7 DEF Written
<1>10. BankTypeOK'
  BY <1>6, <1>8, <1>9 DEF BankInv, BankTypeOK, BankRow, ImportRow
<1>11. Owned(i)' = td /\ e \notin td
  BY <1>4, <1>5, <1>9 DEF Owned
<1>12. \A j \in Imports : j # i => Owned(j)' = Owned(j)
  <2>1. SUFFICES ASSUME NEW j \in Imports, j # i PROVE Owned(j)' = Owned(j)
    OBVIOUS
  <2>2. matching'[j].todo = matching[j].todo /\ matching'[j].pc = matching[j].pc /\ matching'[j].row = matching[j].row
    BY <1>7, <1>9, <2>1 DEF Written, SameReading
  <2> QED BY <2>2 DEF Owned
<1>13. Owned(i)' \subseteq Owned(i) /\ \A j \in Imports : j # i => e \notin Owned(j)
  BY <1>5, <1>11 DEF BankInv
<1>14. \A p, o : o \in BankRows => Explains(p, o)' = Explains(p, o)
  <2>1. \A o \in BankRows : bankRows'[o].amount = bankRows[o].amount /\ bankRows'[o].day = bankRows[o].day
    BY <1>7, <1>8 DEF Written
  <2> QED BY <1>6, <2>1 DEF Explains, InWindow
<1>15. w.payment # None => w.status = "MATCHED" \/ w.byHand
  BY <1>2, <1>5, <1>7 DEF Written
<1>16. \A j \in Imports : ImportKept(j)'
  <2>1. ImportKept(i)'
    <3>1. n.pc \notin {"find", "write"}
      BY <1>4
    <3>2. \A o \in td : bankRows'[o].status # "absent" /\ (bankRows'[o].payment # None => bankRows'[o].byHand)
      BY <1>5, <1>8 DEF BankInv, ImportKept, Owned
    <3> QED BY <1>9, <1>11, <3>1, <3>2 DEF ImportKept
  <2>2. ASSUME NEW j \in Imports, j # i PROVE ImportKept(j)'
    <3>1. /\ matching'[j].todo = matching[j].todo /\ matching'[j].pc = matching[j].pc
          /\ matching'[j].row = matching[j].row /\ matching'[j].excluded = matching[j].excluded
          /\ matching'[j].found = matching[j].found
      BY <1>7, <1>9, <2>2 DEF Written, SameReading
    <3>2. \A o \in Owned(j) : bankRows'[o].status # "absent" /\ (bankRows'[o].payment # None => bankRows'[o].byHand)
      BY <1>8, <1>13, <2>2 DEF BankInv, ImportKept, Owned, BankTypeOK
    <3>3. matching'[j].pc \in {"find", "write"} /\ ~matching'[j].overtaken =>
            \A o \in BankRows : bankRows'[o].status = "MATCHED" => bankRows'[o].payment \in matching'[j].excluded
      <4>1. CASE w.status = "MATCHED"
        BY <1>7, <1>9, <2>2, <4>1 DEF Written
      <4>2. CASE w.status # "MATCHED"
        <5>1. matching'[j] = matching[j]
          BY <1>7, <1>9, <2>2, <4>2 DEF Written
        <5> QED BY <1>8, <4>2, <5>1 DEF BankInv, ImportKept
      <4> QED BY <4>1, <4>2
    <3> QED BY <1>12, <1>14, <2>2, <3>1, <3>2, <3>3 DEF BankInv, ImportKept
  <2> QED BY <2>1, <2>2
<1>17. \A o \in BankRows : RowKept(o)'
  <2>1. RowKept(e)'
    <3>1. w.status = "MATCHED" => w.payment \in CardPayments /\ Explains(w.payment, e)
      BY <1>1, <1>5, <1>7 DEF Written
    <3> QED BY <1>8, <1>14, <1>15, <3>1 DEF RowKept
  <2> QED BY <1>8, <1>14, <2>1 DEF BankInv, RowKept
<1>18. \A o, q \in BankRows : PairKept(o, q)'
  <2>1. ASSUME NEW o \in BankRows, o # e, w.status = "MATCHED", bankRows[o].status = "MATCHED",
               bankRows[o].payment = w.payment
        PROVE  w.overtaken
    BY <1>1, <1>5, <1>7, <2>1 DEF Written
  <2> QED BY <1>8, <2>1 DEF BankInv, PairKept
<1>19. \A j, k \in Imports : j # k => Owned(j)' \cap Owned(k)' = {}
  BY <1>12, <1>13 DEF BankInv
<1> QED BY <1>10, <1>16, <1>17, <1>18, <1>19 DEF BankInv

\* A match confirmed by hand is marked as such, and every reading is overtaken.
LEMMA ConfirmStep ==
    ASSUME BankInv, NEW e \in BankRows, NEW p \in CardPayments, confirmMatch(e, p)
    PROVE  BankInv'
<1>1. taken' = taken /\ bankRows[e].status # "absent" /\ matching' = Overtakes(None)
      /\ bankRows' = [bankRows EXCEPT ![e] = [@ EXCEPT !.status = "MATCHED", !.payment = p, !.byHand = TRUE]]
  BY DEF confirmMatch
<1>2. PICK r \in BankRow : r = bankRows[e]
  BY DEF BankInv, BankTypeOK, BankRow
<1>3. PICK w : w = [r EXCEPT !.status = "MATCHED", !.payment = p, !.byHand = TRUE]
  OBVIOUS
<1>4. w \in BankRow
  BY <1>3 DEF BankRow
<1>5. w.status = "MATCHED" /\ w.payment = p /\ w.byHand /\ w.amount = r.amount /\ w.day = r.day
  BY <1>3 DEF BankRow
<1>6. bankRows' = [bankRows EXCEPT ![e] = w]
  BY <1>1, <1>2, <1>3
<1>7. /\ bankRows' \in [BankRows -> BankRow] /\ bankRows'[e] = w
      /\ \A o \in BankRows : o # e => bankRows'[o] = bankRows[o]
  BY <1>4, <1>6 DEF BankInv, BankTypeOK, BankRow
<1>8. /\ matching' \in [Imports -> ImportRow]
      /\ \A j \in Imports :
            /\ matching'[j].todo = matching[j].todo /\ matching'[j].pc = matching[j].pc
            /\ matching'[j].row = matching[j].row /\ matching'[j].excluded = matching[j].excluded
            /\ matching'[j].found = matching[j].found
            /\ matching'[j].pc \in {"find", "write"} => matching'[j].overtaken
  BY <1>1, OvertakenOthers, ReconciliationAssumption
<1>9. \A j \in Imports : Owned(j)' = Owned(j)
  BY <1>8 DEF Owned
<1>10. \A q, o : o \in BankRows => Explains(q, o)' = Explains(q, o)
  <2>1. \A o \in BankRows : bankRows'[o].amount = bankRows[o].amount /\ bankRows'[o].day = bankRows[o].day
    BY <1>2, <1>5, <1>7
  <2> QED BY <1>1, <2>1 DEF Explains, InWindow
<1>11. \A j \in Imports : ImportKept(j)'
  <2>1. SUFFICES ASSUME NEW j \in Imports PROVE ImportKept(j)'
    OBVIOUS
  <2>2. \A o \in Owned(j) : bankRows'[o].status # "absent" /\ (bankRows'[o].payment # None => bankRows'[o].byHand)
    BY <1>5, <1>7 DEF BankInv, BankTypeOK, ImportKept, Owned
  <2> QED BY <1>8, <1>9, <1>10, <2>2 DEF BankInv, ImportKept
<1>12. \A o \in BankRows : RowKept(o)'
  BY <1>5, <1>7, <1>10 DEF BankInv, RowKept
<1>13. \A o, q \in BankRows : PairKept(o, q)'
  BY <1>5, <1>7 DEF BankInv, PairKept
<1>14. BankTypeOK'
  BY <1>1, <1>7, <1>8 DEF BankInv, BankTypeOK, BankRow, ImportRow
<1> QED BY <1>9, <1>11, <1>12, <1>13, <1>14 DEF BankInv

LEMMA BankKeeps == BankInv /\ bankStep => BankInv'
<1> SUFFICES ASSUME BankInv, bankStep PROVE BankInv'
  OBVIOUS
<1>1. CASE UNCHANGED <<baseVars, bankVars>>
  BY <1>1 DEF bankVars, BankInv, BankTypeOK, ImportKept, Owned, RowKept, PairKept, Explains, InWindow
<1>2. CASE ImportCut
  <2>1. UNCHANGED <<taken, bankRows>> /\ matching' = [i \in Imports |-> NoMatching]
    BY <1>2 DEF ImportCut
  <2>2. NoMatching \in ImportRow /\ NoMatching.pc = "idle" /\ NoMatching.todo = {}
    BY DEF NoMatching, ImportRow
  <2>3. \A i \in Imports : Owned(i)' = {}
    BY <2>1, <2>2 DEF Owned
  <2>4. \A i \in Imports : ImportKept(i)'
    BY <2>1, <2>2, <2>3 DEF ImportKept
  <2>5. BankTypeOK'
    BY <2>1, <2>2 DEF BankInv, BankTypeOK, ImportRow
  <2> QED BY <2>1, <2>3, <2>4, <2>5 DEF BankInv, RowKept, PairKept, Explains, InWindow
<1> QED BY <1>1, <1>2, TillStep, ImportBatchStep, ReadStep, WriteStep, ConfirmStep DEF bankStep, BankNext

\* The statements, the payments of the till and the imports under way keep
\* their types (nextore/reconciliation).
THEOREM BankTyped == BankSpec => []BankTypeOK
<1>1. BankInv => BankTypeOK
  BY DEF BankInv
<1> QED BY <1>1, BankStart, BankKeeps, PTL DEF BankSpec, bankStep

\* A payment of the till explains one row of the bank unless a person decided
\* or a match was written after the read (reconciliation.repository.ts:43-57),
\* and what the import matched has the amount of the row and its window: for
\* any number of imports at once, of rows, of payments and of confirmations.
THEOREM PaymentsMatchedOnce == BankSpec => []MatchedOnce
BY BankStart, BankKeeps, BankFromInv, PTL DEF BankSpec, bankStep

-----------------------------------------------------------------------------
(***************************************************************************)
(* The pages on which a visitor books and pays.                            *)
(***************************************************************************)
\* What a page may hold
Starts == SlotStarts \cup Prefills \cup {None}
Durations == (UNION {w.durations : w \in DurationRules}) \cup {None}
SlotRow == [start : SlotStarts, durations : SUBSET Durations]
PriceShown == Nat \cup {None}
PageRow == [surface : {"web", "tablet", "desk"}, user : BOOLEAN, place : Places \cup {None},
            start : Starts, duration : Durations, slots : SUBSET SlotRow, quote : PriceShown,
            loading : BOOLEAN, step : Steps, made : Orders \cup {None}, overtaken : BOOLEAN,
            outdated : BOOLEAN, prefill : Prefills \cup {None}, fetching : BOOLEAN]
NetRow == [slots : SUBSET [place : Places \cup {None}, slots : SUBSET SlotRow],
           quotes : SUBSET [place : Places \cup {None}, start : Starts, price : PriceShown]]
OrderRow == [status : OrderStatus, price : Nat, told : PriceShown, doubt : BOOLEAN, desk : BOOLEAN,
             wallet : Nat, card : Nat, shown : [wallet : Nat, card : Nat], moved : BOOLEAN]
TillRow == [order : Orders \cup {None}, wallet : 0..Funds \cup {None}, use : BOOLEAN, moved : BOOLEAN,
            paying : BOOLEAN]
QrRow == [order : Orders \cup {None}, shown : OrderStatus, polls : SUBSET OrderStatus,
          polling : BOOLEAN, overtaken : BOOLEAN]

\* A price under some tariffs
PriceUnder(rules, p, m, d) ==
    LET tariff == resolveTariff(rules, p, m, d) IN IF tariff = None THEN None ELSE tariff.total

PagesShape ==
    /\ rates \subseteq TariffRules /\ funds \in 0..Funds
    /\ page \in PageRow /\ net \in NetRow /\ orders \in [Orders -> OrderRow]
    /\ till \in TillRow /\ qrPage \in QrRow
    /\ budget \in [requests : Nat, faults : Nat]

\* Where a page is tells what it has: a choice, or the order it has made.
PageKept ==
    /\ page.step \in {"pay", "qr"} => page.place # None /\ page.start # None /\ page.duration # None
    /\ page.step # "made" => page.made = None
    /\ page.step = "made" =>
        /\ page.made \in Orders /\ orders[page.made].status \notin {"absent", "session"}
        /\ page.surface = "desk" => orders[page.made].desk

\* A price that nothing overtook is that of the present choice, and so is the
\* only answer awaited for it.
Sure == /\ page.place # None /\ page.start # None /\ page.duration # None
        /\ ~page.overtaken /\ ~page.outdated
PresentPrice == PriceUnder(rates, page.place, page.start, page.duration)
Quoted == Sure =>
    /\ page.quote # None => page.quote = PresentPrice
    /\ \A a \in net.quotes : net.quotes = {a} /\ a.place = page.place /\ a.start = page.start
                             => a.price = PresentPrice

OrderKept(o) ==
    /\ orders[o].status = "CONFIRMED" =>
        /\ orders[o].wallet + orders[o].card = orders[o].price
        /\ orders[o].wallet <= orders[o].shown.wallet
        /\ orders[o].shown.wallet + orders[o].shown.card = orders[o].price
        /\ orders[o].card # orders[o].shown.card => orders[o].moved
    /\ orders[o].told # None /\ ~orders[o].doubt => orders[o].told = orders[o].price

\* Credits that were not spent elsewhere are still there for the booking to pay.
TillKept ==
    /\ till.use => till.wallet # None
    /\ till.order # None => orders[till.order].status \notin {"absent", "session"}
    /\ till.order # None /\ till.wallet # None /\ ~till.moved
       /\ orders[till.order].status = "CHECKOUT_PENDING" => till.wallet <= funds

\* The tablet stops at the last answer, or one more overtook it.
QrKept ==
    /\ qrPage.polling => qrPage.order # None
    /\ qrPage.order # None => page.step = "qr" /\ orders[qrPage.order].status # "absent"
    /\ qrPage.order # None /\ ~qrPage.polling /\ ~qrPage.overtaken =>
        qrPage.shown \in Final /\ qrPage.polls = {}

\* The bookings that no page leads to
Stray == {o \in Orders : orders[o].status = "CHECKOUT_PENDING" /\ ~orders[o].desk
                         /\ o \notin {page.made, till.order}}
StrayKept == IsFiniteSet(Stray) /\ Cardinality(Stray) <= budget.faults

PagesInv ==
    /\ PagesShape /\ PageKept /\ Quoted /\ (\A o \in Orders : OrderKept(o))
    /\ TillKept /\ QrKept /\ StrayKept

-----------------------------------------------------------------------------
\* Of the rules that match, one has the highest priority (pickWinningRule).
LEMMA RuleWins ==
    ASSUME NEW C, C \subseteq TariffRules, C # {}
    PROVE  pickWinningRule(C) \in C
<1> DEFINE Before(r, o) == r.priority > o.priority \/ (r.priority = o.priority /\ r.id <= o.id)
           Won(X) == \E r \in X : \A o \in X : Before(r, o)
           Lost == {X \in SUBSET C : X # {} /\ ~Won(X)}
<1>1. IsFiniteSet(C)
  BY FS_Subset, PagesAssumption
<1>2. Lost = {}
  <2>1. SUFFICES ASSUME Lost # {} PROVE FALSE
    OBVIOUS
  <2>2. PICK m \in Lost : \A y \in Lost : y \subseteq m => y = m
    <3>1. PICK l : l = Lost
      OBVIOUS
    <3>2. l \subseteq SUBSET C /\ l # {}
      BY <2>1, <3>1
    <3>3. \E m \in l : \A y \in l : y \subseteq m => y = m
      BY <1>1, <3>2, Smallest
    <3> QED  BY <3>1, <3>3
  <2>3. PICK x \in m : TRUE
    OBVIOUS
  <2>4. \A r \in m : r.priority \in Int /\ r.id \in Int
    BY PagesAssumption
  <2>5. CASE m \ {x} = {}
    <3>1. m = {x} /\ Before(x, x)
      BY <2>3, <2>4, <2>5
    <3> QED  BY <2>2, <3>1
  <2>6. CASE m \ {x} # {}
    <3>1. m \ {x} \in SUBSET C /\ m \ {x} \notin Lost
      BY <2>2, <2>3
    <3>2. PICK r \in m \ {x} : \A o \in m \ {x} : Before(r, o)
      BY <2>6, <3>1
    <3>3. CASE Before(r, x)
      <4>1. \A o \in m : Before(r, o)
        BY <3>2, <3>3
      <4> QED  BY <2>2, <3>2, <4>1
    <3>4. CASE ~Before(r, x)
      <4>1. \A o \in m : Before(x, o)
        <5> SUFFICES ASSUME NEW o \in m PROVE Before(x, o)
          OBVIOUS
        <5>1. CASE o = x
          BY <2>4, <5>1
        <5>2. CASE o # x
          <6>1. Before(r, o)
            BY <3>2, <5>2
          <6> QED  BY <2>3, <2>4, <3>2, <3>4, <6>1
        <5> QED  BY <5>1, <5>2
      <4> QED  BY <2>2, <2>3, <4>1
    <3> QED  BY <3>3, <3>4
  <2> QED  BY <2>5, <2>6
<1>3. Won(C)
  <2>1. C \in SUBSET C /\ C \notin Lost
    BY <1>2
  <2> QED  BY <2>1
<1>4. PICK r \in C : \A o \in C : Before(r, o)
  BY <1>3
<1> QED  BY <1>4 DEF pickWinningRule

\* A price is an amount, or there is none.
LEMMA Priced ==
    ASSUME rates \subseteq TariffRules, NEW p, NEW m, NEW d
    PROVE  Price(p, m, d) \in PriceShown
<1> DEFINE C == {r \in rates : matches(r, p, m, d)}
<1>1. PICK w : w = pickWinningRule(C)
  OBVIOUS
<1>2. CASE C = {} \/ (w.total = None /\ w.each = None)
  <2>1. resolveTariff(rates, p, m, d) = None
    BY <1>1, <1>2 DEF resolveTariff
  <2> QED  BY <2>1 DEF Price, PriceShown
<1>3. CASE ~(C = {} \/ (w.total = None /\ w.each = None))
  <2>1. w \in C
    <3>1. C \subseteq TariffRules /\ C # {}
      BY <1>3
    <3> QED  BY <1>1, <3>1, RuleWins
  <2>2. w.capacity \in Nat /\ w.total \in Nat \cup {None} /\ w.each \in Nat \cup {None}
    BY <2>1, PagesAssumption
  <2>3. resolveTariff(rates, p, m, d) =
           IF w.total # None
           THEN [total |-> w.total, each |-> RoundedShare(w.total, w.capacity)]
           ELSE [total |-> w.each * w.capacity, each |-> w.each]
    BY <1>1, <1>3 DEF resolveTariff
  <2>4. CASE w.total # None
    BY <2>2, <2>3, <2>4 DEF Price, PriceShown
  <2>5. CASE w.total = None
    <3>1. w.each * w.capacity \in Nat
      BY <1>3, <2>2, <2>5
    <3> QED  BY <2>3, <2>5, <3>1 DEF Price, PriceShown
  <2> QED  BY <2>4, <2>5
<1> QED  BY <1>2, <1>3

\* The slots offered start on the grid and last as a rule says.
LEMMA SlotsOffered ==
    ASSUME NEW p
    PROVE  getAvailability(Calendar, p) \subseteq SlotRow
<1> SUFFICES ASSUME NEW slot \in getAvailability(Calendar, p)
             PROVE  slot \in SlotRow
  OBVIOUS
<1>1. PICK O, R, B : /\ R \subseteq DurationRules
                     /\ slot \in computeAvailableSlots(O, R, B)
  <2>1. findDurationRules(Calendar.durations, p) \subseteq DurationRules
    BY DEF findDurationRules, Calendar
  <2> QED  BY <2>1 DEF getAvailability
<1> DEFINE Fits(m) == {d \in allowedDurationsAt(m, R) :
                LET range == [from |-> m, to |-> m + d]
                IN  /\ isWithinAnyWindow(range, O)
                    /\ \A b \in B : ~rangesOverlap(range, b)}
<1>2. slot \in {[start |-> m, durations |-> Fits(m)] : m \in SlotStarts}
  BY <1>1 DEF computeAvailableSlots
<1>3. \A m : Fits(m) \subseteq Durations
  BY <1>1 DEF allowedDurationsAt, Durations
<1> HIDE DEF Fits
<1> QED  BY <1>2, <1>3 DEF SlotRow

\* The answers of the server
LEMMA AnswersTyped ==
    ASSUME rates \subseteq TariffRules, NEW p \in Places \cup {None}, NEW m \in Starts, NEW d
    PROVE  /\ AskSlots(p) \in [place : Places \cup {None}, slots : SUBSET SlotRow]
           /\ QuotesOf(p, m, d) \subseteq [place : Places \cup {None}, start : Starts, price : PriceShown]
           /\ None \notin {p, m, d} =>
                QuotesOf(p, m, d) = {[place |-> p, start |-> m, price |-> PriceUnder(rates, p, m, d)]}
<1>1. Price(p, m, d) \in PriceShown
  BY Priced
<1>2. getAvailability(Calendar, p) \in SUBSET SlotRow
  BY SlotsOffered
<1>3. Price(p, m, d) = PriceUnder(rates, p, m, d)
  BY DEF Price, PriceUnder
<1> QED  BY <1>1, <1>2, <1>3 DEF AskSlots, AskQuote, QuotesOf

\* A page that nobody has clicked on
LEMMA OpenedTyped ==
    ASSUME NEW s \in {"web", "tablet", "desk"}, NEW u \in BOOLEAN
    PROVE  Opened(s, u) \in PageRow
<1>1. None \in Starts
  BY DEF Starts
<1>2. None \in Durations
  BY DEF Durations
<1>3. None \in PriceShown
  BY DEF PriceShown
<1>4. "choose" \in Steps /\ {} \in SUBSET SlotRow
  BY DEF Steps
<1> QED  BY <1>1, <1>2, <1>3, <1>4 DEF PageRow, Opened

-----------------------------------------------------------------------------
\* The counters
LEMMA Turns ==
    ASSUME PagesShape, Request("pages") \/ Step("pages") \/ Fault("pages")
    PROVE  /\ budget' \in [requests : Nat, faults : Nat] /\ budget'.faults >= budget.faults
           /\ Fault("pages") => budget'.faults = budget.faults + 1
BY DEF PagesShape, Request, Step, Fault, baseVars

\* Fewer bookings without a page
LEMMA StrayShrinks ==
    ASSUME StrayKept, Stray' \subseteq Stray, budget'.faults >= budget.faults,
           budget.faults \in Nat, budget'.faults \in Nat
    PROVE  StrayKept'
<1>1. IsFiniteSet(Stray') /\ Cardinality(Stray') <= Cardinality(Stray)
  BY FS_Subset DEF StrayKept
<1>2. Cardinality(Stray) \in Nat /\ Cardinality(Stray') \in Nat
  BY <1>1, FS_CardinalityType DEF StrayKept
<1> QED  BY <1>1, <1>2 DEF StrayKept

\* Nobody has booked at first.
LEMMA PagesStart == BaseInit /\ PagesInit => PagesInv
<1> SUFFICES ASSUME BaseInit, PagesInit PROVE PagesInv
  OBVIOUS
<1>1. FirstPlace \in Places
  BY PagesAssumption DEF FirstPlace
<1>2. rates = TariffRules /\ funds = Funds /\ funds \in 0..Funds
  <2>1. rates = TariffRules /\ funds = Funds
    BY Zenon DEF PagesInit
  <2> QED  BY <2>1, PagesAssumption
<1>3. PICK s \in {"web", "tablet", "desk"}, u \in BOOLEAN, q \in Prefills \cup {None} :
         page = [Opened(s, u) EXCEPT !.place = FirstPlace, !.prefill = q]
  BY DEF PagesInit
<1>4. PICK w : w = Opened(s, u)
  OBVIOUS
<1>5. w \in PageRow /\ w.start = None /\ w.made = None /\ w.step = "choose"
  BY <1>4, OpenedTyped DEF Opened
<1>6. page = [w EXCEPT !.place = FirstPlace, !.prefill = q]
  BY <1>3, <1>4
<1>7. page \in PageRow /\ page.start = None /\ page.made = None /\ page.step = "choose"
  BY <1>1, <1>5, <1>6 DEF PageRow
<1>8. net \in NetRow /\ net.quotes = {}
  <2>1. None \in Starts
    BY DEF Starts
  <2>2. AskSlots(FirstPlace) \in [place : Places \cup {None}, slots : SUBSET SlotRow]
    BY <1>1, <1>2, <2>1, AnswersTyped
  <2> QED  BY <2>2 DEF PagesInit, NetRow
<1>9. /\ orders = [o \in Orders |-> NoOrder] /\ NoOrder \in OrderRow
      /\ till = NoTill /\ till \in TillRow /\ qrPage = NoQr /\ qrPage \in QrRow
  <2>1. NoOrder \in OrderRow
    BY DEF NoOrder, OrderRow, OrderStatus, PriceShown
  <2>2. NoTill \in TillRow /\ NoQr \in QrRow
    BY DEF NoTill, NoQr, TillRow, QrRow, OrderStatus
  <2> QED  BY <2>1, <2>2 DEF PagesInit
<1>10. budget = [requests |-> 0, faults |-> 0]
  BY DEF BaseInit
<1>11. PagesShape
  BY <1>2, <1>7, <1>8, <1>9, <1>10 DEF PagesShape
<1>12. Stray = {}
  BY <1>9 DEF Stray, NoOrder
<1>13. StrayKept
  BY <1>10, <1>12, FS_EmptySet DEF StrayKept
<1>14. PageKept /\ Quoted
  BY <1>7 DEF PageKept, Quoted, Sure
<1>15. TillKept /\ QrKept /\ \A o \in Orders : OrderKept(o)
  BY <1>9 DEF TillKept, QrKept, OrderKept, NoOrder, NoTill, NoQr
<1> QED  BY <1>11, <1>13, <1>14, <1>15 DEF PagesInv

-----------------------------------------------------------------------------
\* What a choice leaves alone: the bookings, the payment, the code of the tablet.
LEMMA ChoiceKept ==
    ASSUME PagesInv, Request("pages") \/ Step("pages") \/ Fault("pages"),
           UNCHANGED <<rates, orders, till, funds, qrPage>>,
           page' \in PageRow, net' \in NetRow, Quoted', page'.made = None,
           page.step = "choose" \/ (page.step = "made" /\ page.surface = "desk"),
           \/ page'.step = "choose"
           \/ page'.step \in {"pay", "qr"} /\ page'.place # None /\ page'.start # None /\ page'.duration # None
    PROVE  PagesInv'
<1>1. budget' \in [requests : Nat, faults : Nat] /\ budget'.faults >= budget.faults
  BY Turns DEF PagesInv
<1>2. PagesShape'
  BY <1>1 DEF PagesInv, PagesShape
<1>3. PageKept'
  BY DEF PageKept
<1>4. qrPage.order = None
  BY DEF PagesInv, QrKept
<1>5. TillKept' /\ QrKept' /\ \A o \in Orders : OrderKept(o)'
  BY <1>4 DEF PagesInv, TillKept, QrKept, OrderKept
<1>6. Stray' \subseteq Stray
  BY DEF Stray, PagesInv, PageKept
<1>7. StrayKept'
  BY <1>1, <1>6, StrayShrinks DEF PagesInv, PagesShape
<1> QED  BY <1>2, <1>3, <1>5, <1>7 DEF PagesInv

\* Another place: the only price awaited, if it is alone, is that of the choice.
LEMMA PlaceChosen ==
    ASSUME PagesInv, NEW p \in Places, choosePlace(p)
    PROVE  PagesInv'
<1>1. page \in PageRow /\ net \in NetRow /\ rates \subseteq TariffRules
  BY DEF PagesInv, PagesShape
<1>2. /\ AskSlots(p) \in [place : Places \cup {None}, slots : SUBSET SlotRow]
      /\ QuotesOf(p, page.start, page.duration) \subseteq
            [place : Places \cup {None}, start : Starts, price : PriceShown]
      /\ None \notin {p, page.start, page.duration} =>
            QuotesOf(p, page.start, page.duration) =
              {[place |-> p, start |-> page.start,
                price |-> PriceUnder(rates, p, page.start, page.duration)]}
  BY <1>1, AnswersTyped DEF PageRow
<1>3. net' \in NetRow
  BY <1>1, <1>2 DEF choosePlace, NetRow
<1>4. /\ page'.place = p /\ page'.quote = None /\ page'.step = "choose" /\ page'.made = None
      /\ page'.start \in {page.start, None} /\ page'.duration \in {page.duration, None}
      /\ page'.start # None => page'.start = page.start /\ page'.duration = page.duration
  BY <1>1 DEF choosePlace, PageRow, PagesInv, PageKept
<1>5. page' \in PageRow
  <2>1. None \in Starts /\ None \in Durations /\ None \in PriceShown
    BY DEF Starts, Durations, PriceShown
  <2> QED  BY <1>1, <2>1 DEF choosePlace, PageRow
<1>6. Quoted'
  <2> SUFFICES ASSUME Sure', NEW a \in net'.quotes, net'.quotes = {a}
               PROVE  a.price = PresentPrice'
    BY <1>4 DEF Quoted
  <2>1. None \notin {p, page.start, page.duration}
    BY <1>4 DEF Sure
  <2>2. a.price = PriceUnder(rates, p, page.start, page.duration)
    <3>1. PICK q : q = [place |-> p, start |-> page.start,
                        price |-> PriceUnder(rates, p, page.start, page.duration)]
      OBVIOUS
    <3>2. q \in QuotesOf(p, page.start, page.duration)
      BY <1>2, <2>1, <3>1
    <3>3. q \in net'.quotes
      BY <3>2 DEF choosePlace
    <3> QED  BY <3>1, <3>3
  <2> QED  BY <1>4, <2>2 DEF Sure, PresentPrice, choosePlace
<1> QED  BY <1>3, <1>4, <1>5, <1>6, ChoiceKept DEF choosePlace

\* A price asked for alone is that of the choice.
LEMMA AskedAlone ==
    ASSUME rates \subseteq TariffRules, NEW Q, NEW p \in Places \cup {None}, NEW m \in Starts, NEW d,
           QuotesOf(p, m, d) \subseteq Q, p # None, m # None, d # None, NEW a, \A q \in Q : q = a
    PROVE  a.price = PriceUnder(rates, p, m, d)
<1>1. PICK q : q = [place |-> p, start |-> m, price |-> PriceUnder(rates, p, m, d)]
  OBVIOUS
<1>2. q \in QuotesOf(p, m, d)
  BY <1>1, AnswersTyped
<1> QED  BY <1>1, <1>2

\* A start and a duration: the price shown goes, the one asked for is awaited.
LEMMA SlotChosen ==
    ASSUME PagesInv, NEW slot \in page.slots, NEW d \in slot.durations, chooseSlot(slot, d)
    PROVE  PagesInv'
<1>1. page \in PageRow /\ net \in NetRow /\ rates \subseteq TariffRules
  BY DEF PagesInv, PagesShape
<1>2. slot \in SlotRow /\ d \in Durations /\ slot.start \in Starts
  BY <1>1 DEF PageRow, SlotRow, Starts
<1>3. QuotesOf(page.place, slot.start, d) \subseteq
            [place : Places \cup {None}, start : Starts, price : PriceShown]
  BY <1>1, <1>2, AnswersTyped DEF PageRow
<1>4. net' \in NetRow /\ net'.quotes = net.quotes \cup QuotesOf(page.place, slot.start, d)
  BY <1>1, <1>3 DEF chooseSlot, NetRow
<1>5. /\ page'.place = page.place /\ page'.start = slot.start /\ page'.duration = d /\ page'.quote = None
      /\ page'.step = "choose" /\ page'.made = None
  BY <1>1 DEF chooseSlot, PageRow, PagesInv, PageKept
<1>6. page' \in PageRow
  <2>1. None \in PriceShown
    BY DEF PriceShown
  <2> QED  BY <1>1, <1>2, <2>1 DEF chooseSlot, PageRow
<1>7. Quoted'
  <2> SUFFICES ASSUME Sure', NEW a \in net'.quotes, net'.quotes = {a}
               PROVE  a.price = PresentPrice'
    BY <1>5 DEF Quoted
  <2>1. None \notin {page.place, slot.start, d}
    BY <1>5 DEF Sure
  <2>2. PICK Q : Q = net'.quotes
    OBVIOUS
  <2>3. QuotesOf(page.place, slot.start, d) \subseteq Q /\ page.place \in Places \cup {None}
    BY <1>1, <1>4, <2>2 DEF PageRow
  <2>4. a.price = PriceUnder(rates, page.place, slot.start, d)
    <3>1. PICK p, m : p = page.place /\ m = slot.start
      OBVIOUS
    <3>2. /\ QuotesOf(p, m, d) \subseteq Q /\ p \in Places \cup {None} /\ m \in Starts
          /\ p # None /\ m # None /\ d # None /\ \A q \in Q : q = a
      BY <1>2, <2>1, <2>2, <2>3, <3>1
    <3>3. a.price = PriceUnder(rates, p, m, d)
      BY <1>1, <3>2, AskedAlone
    <3> QED  BY <3>1, <3>3
  <2> QED  BY <1>5, <2>4 DEF PresentPrice, chooseSlot
<1> QED  BY <1>4, <1>5, <1>6, <1>7, ChoiceKept DEF chooseSlot

\* The slots come: the start is kept with its price, or both go.
LEMMA SlotsShown ==
    ASSUME PagesInv, NEW a \in net.slots, SlotsAnswer(a)
    PROVE  PagesInv'
<1>1. page \in PageRow /\ net \in NetRow
  BY DEF PagesInv, PagesShape
<1>2. a.slots \subseteq SlotRow /\ net' \in NetRow /\ net'.quotes = net.quotes
  BY <1>1 DEF SlotsAnswer, NetRow
<1>3. /\ page'.place = page.place /\ page'.duration = page.duration /\ page'.step = "choose"
      /\ page'.made = None /\ page'.overtaken = page.overtaken /\ page'.outdated = page.outdated
      /\ \/ page'.start = page.start /\ page'.quote = page.quote
         \/ page'.start = None /\ page'.quote = None
  <2>1. PICK kept : page' = [page EXCEPT !.slots = a.slots, !.fetching = FALSE,
                                !.start = IF kept \/ page.surface = "tablet" THEN @ ELSE None,
                                !.quote = IF kept \/ page.surface = "tablet" THEN @ ELSE None]
    BY DEF SlotsAnswer
  <2>2. page.step = "choose" /\ page.made = None
    BY DEF SlotsAnswer, PagesInv, PageKept
  <2> QED  BY <1>1, <2>1, <2>2 DEF PageRow
<1>4. page' \in PageRow
  <2>1. None \in Starts /\ None \in PriceShown
    BY DEF Starts, PriceShown
  <2> QED  BY <1>1, <1>2, <2>1 DEF SlotsAnswer, PageRow
<1>5. Quoted'
  BY <1>2, <1>3 DEF SlotsAnswer, PagesInv, Quoted, Sure, PresentPrice
<1> QED  BY <1>2, <1>3, <1>4, <1>5, ChoiceKept DEF SlotsAnswer

\* The slots come to the desk: a start that comes back leaves no price to trust.
LEMMA DeskSlotsShown ==
    ASSUME PagesInv, NEW a \in net.slots, DeskSlotsAnswer(a)
    PROVE  PagesInv'
<1>1. page \in PageRow /\ net \in NetRow /\ rates \subseteq TariffRules
  BY DEF PagesInv, PagesShape
<1>2. PICK start : /\ start \in {page.prefill, page.start}
                   /\ page' = [page EXCEPT !.slots = a.slots, !.start = start, !.fetching = FALSE,
                                 !.overtaken = @ \/ (start # page.start /\ page.duration # None)]
                   /\ net' = [slots |-> net.slots \ {a},
                              quotes |-> net.quotes \cup
                                IF start # page.start THEN QuotesOf(page.place, start, page.duration) ELSE {}]
  BY DEF DeskSlotsAnswer
<1>3. start \in Starts
  BY <1>1, <1>2 DEF PageRow, Starts
<1>4. QuotesOf(page.place, start, page.duration) \subseteq
            [place : Places \cup {None}, start : Starts, price : PriceShown]
  BY <1>1, <1>3, AnswersTyped DEF PageRow
<1>5. net' \in NetRow /\ (start = page.start => net'.quotes = net.quotes) /\ a.slots \subseteq SlotRow
  BY <1>1, <1>2, <1>4 DEF NetRow
<1>6. /\ page'.place = page.place /\ page'.duration = page.duration /\ page'.step = "choose"
      /\ page'.made = None /\ page'.quote = page.quote /\ page'.start = start
      /\ page'.outdated = page.outdated
      /\ page'.overtaken = (page.overtaken \/ (start # page.start /\ page.duration # None))
  BY <1>1, <1>2 DEF DeskSlotsAnswer, PageRow, PagesInv, PageKept
<1>7. page' \in PageRow
  BY <1>1, <1>2, <1>3, <1>5 DEF PageRow
<1>8. Quoted'
  <2> SUFFICES ASSUME Sure' PROVE Quoted'
    BY DEF Quoted
  <2>1. start = page.start /\ Sure
    BY <1>6 DEF Sure
  <2>2. page'.start = page.start /\ net'.quotes = net.quotes
    BY <1>5, <1>6, <2>1
  <2> QED  BY <1>6, <2>1, <2>2 DEF DeskSlotsAnswer, PagesInv, Quoted, PresentPrice
<1> QED  BY <1>5, <1>6, <1>7, <1>8, ChoiceKept DEF DeskSlotsAnswer

\* Slots that do not come change no choice.
LEMMA SlotsMissing ==
    ASSUME PagesInv, NEW a \in net.slots, SlotsLost(a)
    PROVE  PagesInv'
<1>1. page \in PageRow /\ net \in NetRow
  BY DEF PagesInv, PagesShape
<1>2. net' \in NetRow /\ net'.quotes = net.quotes
  BY <1>1 DEF SlotsLost, NetRow
<1>3. /\ page'.place = page.place /\ page'.duration = page.duration /\ page'.step = "choose"
      /\ page'.made = None /\ page'.overtaken = page.overtaken /\ page'.outdated = page.outdated
      /\ page'.start = page.start /\ page'.quote = page.quote
  BY <1>1 DEF SlotsLost, PageRow, PagesInv, PageKept
<1>4. page' \in PageRow
  BY <1>1 DEF SlotsLost, PageRow
<1>5. Quoted'
  BY <1>2, <1>3 DEF SlotsLost, PagesInv, Quoted, Sure, PresentPrice
<1> QED  BY <1>2, <1>3, <1>4, <1>5, ChoiceKept DEF SlotsLost

\* A price comes, or does not: unless it was alone, it overtook another one.
LEMMA QuoteShown ==
    ASSUME PagesInv, NEW a \in net.quotes, QuoteAnswer(a) \/ QuoteLost(a)
    PROVE  PagesInv'
<1>1. page \in PageRow /\ net \in NetRow
  BY DEF PagesInv, PagesShape
<1>2. net' \in NetRow /\ net'.quotes = net.quotes \ {a} /\ a.price \in PriceShown
  BY <1>1 DEF QuoteAnswer, QuoteLost, NetRow
<1>3. /\ page'.place = page.place /\ page'.duration = page.duration /\ page'.step = "choose"
      /\ page'.made = None /\ page'.start = page.start /\ page'.outdated = page.outdated
      /\ page.overtaken => page'.overtaken
      /\ net.quotes # {a} => page'.overtaken
      /\ page'.quote \in {page.quote, a.price, None}
      /\ page'.quote = a.price =>
            page'.quote \in {page.quote, None} \/ page'.overtaken
            \/ (a.place = page.place /\ a.start = page.start)
  BY <1>1 DEF QuoteAnswer, QuoteLost, PageRow, PagesInv, PageKept
<1>4. page' \in PageRow
  <2>1. None \in PriceShown
    BY DEF PriceShown
  <2> QED  BY <1>1, <1>2, <2>1 DEF QuoteAnswer, QuoteLost, PageRow
<1>5. Quoted'
  <2> SUFFICES ASSUME Sure' PROVE Quoted'
    BY DEF Quoted
  <2>1. Sure /\ net.quotes = {a} /\ net'.quotes = {}
    BY <1>1, <1>2, <1>3, <1>4 DEF Sure, PageRow
  <2>2. PresentPrice' = PresentPrice
    BY <1>3 DEF PresentPrice, QuoteAnswer, QuoteLost
  <2>3. page'.quote # None => page'.quote = PresentPrice
    BY <1>3, <2>1 DEF PagesInv, Quoted, Sure
  <2> QED  BY <2>1, <2>2, <2>3 DEF Quoted
<1> QED  BY <1>2, <1>3, <1>4, <1>5, ChoiceKept DEF QuoteAnswer, QuoteLost

\* The page that comes back with its choice asks for its price again.
LEMMA SignedIn ==
    ASSUME PagesInv, signInFirst
    PROVE  PagesInv'
<1>1. page \in PageRow /\ net \in NetRow /\ rates \subseteq TariffRules
  BY DEF PagesInv, PagesShape
<1>2. PICK p, m, d : p = page.place /\ m = page.start /\ d = page.duration
  OBVIOUS
<1>3. p \in Places \cup {None} /\ m \in Starts /\ d \in Durations /\ p # None /\ m # None /\ d # None
  BY <1>1, <1>2 DEF signInFirst, Chosen, PageRow
<1>4. /\ AskSlots(p) \in [place : Places \cup {None}, slots : SUBSET SlotRow]
      /\ QuotesOf(p, m, d) \subseteq [place : Places \cup {None}, start : Starts, price : PriceShown]
  BY <1>1, <1>3, AnswersTyped
<1>5. net' = [slots |-> {AskSlots(p)}, quotes |-> QuotesOf(p, m, d)]
  BY <1>2 DEF signInFirst
<1>6. PICK w : w = Opened("web", TRUE) /\ w \in PageRow /\ w.made = None /\ w.step = "choose" /\ w.quote = None
  <2>1. Opened("web", TRUE) \in PageRow
    BY OpenedTyped
  <2>2. Opened("web", TRUE).made = None /\ Opened("web", TRUE).step = "choose"
        /\ Opened("web", TRUE).quote = None
    BY DEF Opened
  <2> QED  BY <2>1, <2>2
<1>7. page' = [w EXCEPT !.place = p, !.start = m, !.duration = d, !.loading = TRUE]
  BY <1>2, <1>6 DEF signInFirst
<1>8. /\ page' \in PageRow /\ page'.made = None /\ page'.step = "choose" /\ page'.quote = None
      /\ page'.place = p /\ page'.start = m /\ page'.duration = d
  BY <1>3, <1>6, <1>7 DEF PageRow
<1>9. net' \in NetRow /\ net'.quotes = QuotesOf(p, m, d)
  BY <1>4, <1>5 DEF NetRow
<1>10. Quoted'
  <2> SUFFICES ASSUME NEW a \in net'.quotes, net'.quotes = {a}
               PROVE  a.price = PresentPrice'
    BY <1>8 DEF Quoted
  <2>1. PICK Q : Q = net'.quotes
    OBVIOUS
  <2>2. QuotesOf(p, m, d) \subseteq Q /\ \A q \in Q : q = a
    BY <1>9, <2>1
  <2>3. a.price = PriceUnder(rates, p, m, d)
    BY <1>1, <1>3, <2>2, AskedAlone
  <2> QED  BY <1>8, <2>3 DEF PresentPrice, signInFirst
<1> QED  BY <1>8, <1>9, <1>10, ChoiceKept DEF signInFirst, Chosen

\* The desk begins another booking; the tablet leaves the choice with its price.
LEMMA ChoiceLeft ==
    ASSUME PagesInv, BookingCreated \/ \E path \in {"pay", "qr"} : saveDraftAndGo(path)
    PROVE  PagesInv'
<1>1. page \in PageRow /\ net \in NetRow
  BY DEF PagesInv, PagesShape
<1>2. net' \in NetRow /\ net'.quotes = {}
  <2>1. net' = [slots |-> {}, quotes |-> {}]
    BY DEF BookingCreated, saveDraftAndGo
  <2> QED  BY <2>1 DEF NetRow
<1>3. CASE BookingCreated
  <2>1. page' = Opened("desk", TRUE) /\ Opened("desk", TRUE) \in PageRow
    BY <1>3, OpenedTyped DEF BookingCreated
  <2>2. page'.step = "choose" /\ page'.made = None /\ page'.place = None
    BY <2>1 DEF Opened
  <2>3. Quoted'
    BY <2>2 DEF Quoted, Sure
  <2> QED  BY <1>2, <1>3, <2>1, <2>2, <2>3, ChoiceKept DEF BookingCreated
<1>4. ASSUME NEW path \in {"pay", "qr"}, saveDraftAndGo(path) PROVE PagesInv'
  <2>1. page' = [page EXCEPT !.step = path] /\ path \in Steps
    BY <1>4 DEF saveDraftAndGo, Steps
  <2>2. page' \in PageRow /\ page'.step = path
    BY <1>1, <2>1 DEF PageRow
  <2>3. /\ page'.place = page.place /\ page'.start = page.start /\ page'.duration = page.duration
        /\ page'.quote = page.quote /\ page'.overtaken = page.overtaken
        /\ page'.outdated = page.outdated /\ page'.made = page.made
    BY <1>1, <2>1 DEF PageRow
  <2>4. Quoted'
    BY <1>2, <1>4, <2>3 DEF saveDraftAndGo, PagesInv, Quoted, Sure, PresentPrice
  <2>5. page.step = "choose" /\ page.made = None /\ page.place # None /\ page.start # None
        /\ page.duration # None
    BY <1>4 DEF saveDraftAndGo, Chosen, PagesInv, PageKept
  <2> QED  BY <1>2, <1>4, <2>2, <2>3, <2>4, <2>5, ChoiceKept DEF saveDraftAndGo
<1> QED  BY <1>3, <1>4

\* Tariffs edited meanwhile leave no price to trust.
LEMMA RatesEdited ==
    ASSUME PagesInv, NEW r \in TariffRules, EditRates(r)
    PROVE  PagesInv'
<1>1. PagesShape /\ page \in PageRow
  BY DEF PagesInv, PagesShape
<1>2. budget' \in [requests : Nat, faults : Nat] /\ budget'.faults >= budget.faults
  BY <1>1, Turns DEF EditRates
<1>3. page' \in PageRow /\ page'.outdated /\ \A f \in {"surface", "place", "start", "duration", "step", "made"} :
         page'[f] = page[f]
  BY <1>1 DEF EditRates, PageRow
<1>4. rates' \subseteq TariffRules
  BY <1>1 DEF EditRates, PagesShape
<1>5. PagesShape'
  BY <1>1, <1>2, <1>3, <1>4 DEF EditRates, PagesShape
<1>6. /\ page'.surface = page.surface /\ page'.place = page.place /\ page'.start = page.start
      /\ page'.duration = page.duration /\ page'.step = page.step /\ page'.made = page.made
  BY <1>1 DEF EditRates, PageRow
<1>7. PageKept' /\ Quoted'
  BY <1>3, <1>6 DEF EditRates, PagesInv, PageKept, Quoted, Sure
<1>8. TillKept' /\ QrKept' /\ \A o \in Orders : OrderKept(o)'
  BY <1>6 DEF EditRates, PagesInv, TillKept, QrKept, OrderKept
<1>9. Stray' \subseteq Stray
  BY <1>6 DEF EditRates, Stray
<1>10. StrayKept'
  BY <1>1, <1>2, <1>9, StrayShrinks DEF PagesInv, PagesShape
<1> QED  BY <1>5, <1>7, <1>8, <1>10 DEF PagesInv

-----------------------------------------------------------------------------
\* A booking is created at the price of the choice.
LEMMA OrderMade ==
    ASSUME PagesInv, NEW o \in Orders, create(o),
           page.place # None, page.start # None, page.duration # None
    PROVE  /\ orders' \in [Orders -> OrderRow] /\ OrderKept(o)'
           /\ \A b \in Orders : b # o => orders'[b] = orders[b]
           /\ orders'[o].status = "CHECKOUT_PENDING" /\ orders'[o].desk = (page.surface = "desk")
<1>1. page \in PageRow /\ rates \subseteq TariffRules /\ orders \in [Orders -> OrderRow]
  BY DEF PagesInv, PagesShape
<1>2. PICK price : price = Price(page.place, page.start, page.duration)
  OBVIOUS
<1>3. price \in Nat /\ price = PresentPrice
  BY <1>1, <1>2, Priced DEF create, PresentPrice, PriceUnder, Price, PriceShown
<1>4. PICK row : row = [NoOrder EXCEPT !.status = "CHECKOUT_PENDING", !.price = price,
                                  !.told = page.quote, !.desk = page.surface = "desk",
                                  !.doubt = page.overtaken \/ page.outdated]
  OBVIOUS
<1>5. orders' = [orders EXCEPT ![o] = row]
  BY <1>2, <1>4 DEF create
<1>6. /\ row.status = "CHECKOUT_PENDING" /\ row.price = price /\ row.told = page.quote
      /\ row.desk = (page.surface = "desk") /\ row.doubt = (page.overtaken \/ page.outdated)
      /\ row \in OrderRow
  BY <1>1, <1>3, <1>4 DEF NoOrder, OrderRow, OrderStatus, PageRow, PriceShown
<1>7. orders' \in [Orders -> OrderRow] /\ orders'[o] = row
      /\ \A b \in Orders : b # o => orders'[b] = orders[b]
  BY <1>1, <1>5, <1>6
<1>8. page.quote # None /\ ~page.overtaken /\ ~page.outdated => page.quote = price
  BY <1>3 DEF PagesInv, Quoted, Sure
<1>9. OrderKept(o)'
  BY <1>6, <1>7, <1>8 DEF OrderKept
<1> QED  BY <1>6, <1>7, <1>9

\* The page that made a booking shows it.
LEMMA BookingMade ==
    ASSUME PagesInv, NEW o \in Orders, handleConfirm(o) \/ handleCreate(o) \/ kioskPay(o)
    PROVE  PagesInv'
<1>1. PagesShape /\ page \in PageRow
  BY DEF PagesInv, PagesShape
<1>2. budget' \in [requests : Nat, faults : Nat] /\ budget'.faults >= budget.faults
  BY <1>1, Turns DEF handleConfirm, handleCreate, kioskPay
<1>3. /\ create(o) /\ orders[o] = NoOrder /\ page.step \in {"choose", "pay"}
      /\ page.place # None /\ page.start # None /\ page.duration # None /\ page.made = None
      /\ page' = [page EXCEPT !.step = "made", !.made = o]
      /\ UNCHANGED <<rates, net, till, funds, qrPage>>
  BY DEF handleConfirm, handleCreate, kioskPay, Chosen, PagesInv, PageKept
<1>4. /\ orders' \in [Orders -> OrderRow] /\ OrderKept(o)'
      /\ \A b \in Orders : b # o => orders'[b] = orders[b]
      /\ orders'[o].status = "CHECKOUT_PENDING" /\ orders'[o].desk = (page.surface = "desk")
  BY <1>3, OrderMade
<1>5. orders[o].status = "absent"
  BY <1>3 DEF NoOrder
<1>6. /\ page' \in PageRow /\ page'.step = "made" /\ page'.made = o
      /\ page'.surface = page.surface /\ page'.place = page.place /\ page'.start = page.start
      /\ page'.duration = page.duration /\ page'.quote = page.quote
      /\ page'.overtaken = page.overtaken /\ page'.outdated = page.outdated
  BY <1>1, <1>3 DEF PageRow, Steps
<1>7. PagesShape'
  BY <1>1, <1>2, <1>3, <1>4, <1>6 DEF PagesShape
<1>8. PageKept'
  BY <1>4, <1>6 DEF PageKept
<1>9. Quoted'
  BY <1>3, <1>6 DEF PagesInv, Quoted, Sure, PresentPrice
<1>10. \A b \in Orders : OrderKept(b)'
  BY <1>4 DEF PagesInv, OrderKept
<1>11. till.order # o /\ qrPage.order = None
  <2>1. o # None
    BY PagesAssumption
  <2>2. till.order # o
    BY <1>5, <2>1 DEF PagesInv, TillKept
  <2> QED  BY <1>3, <2>2 DEF PagesInv, QrKept
<1>12. TillKept' /\ QrKept'
  <2>1. till.order # None => till.order \in Orders
    BY <1>1 DEF PagesShape, TillRow
  <2> QED  BY <1>3, <1>4, <1>11, <2>1 DEF PagesInv, TillKept, QrKept
<1>13. Stray' \subseteq Stray
  <2> SUFFICES ASSUME NEW b \in Stray' PROVE b \in Stray
    OBVIOUS
  <2>1. b \in Orders /\ b # o
    BY <1>6 DEF Stray
  <2>2. orders'[b] = orders[b] /\ b # None
    BY <1>4, <2>1, PagesAssumption
  <2> QED  BY <1>3, <2>1, <2>2 DEF Stray
<1>14. StrayKept'
  BY <1>1, <1>2, <1>13, StrayShrinks DEF PagesInv, PagesShape
<1> QED  BY <1>7, <1>8, <1>9, <1>10, <1>12, <1>14 DEF PagesInv

\* The page of the payment takes over the booking of the page that made it.
LEMMA AnswerShown ==
    ASSUME PagesInv, BookingAnswer
    PROVE  PagesInv'
<1>1. PagesShape /\ page \in PageRow /\ till \in TillRow
  BY DEF PagesInv, PagesShape
<1>2. budget' \in [requests : Nat, faults : Nat] /\ budget'.faults >= budget.faults
  BY <1>1, Turns DEF BookingAnswer
<1>3. PICK s, u : s = page.surface /\ u = (page.surface = "web")
  OBVIOUS
<1>4. page' = Opened(s, u) /\ s \in {"web", "tablet", "desk"} /\ u \in BOOLEAN
  BY <1>1, <1>3 DEF BookingAnswer, PageRow
<1>5. page' \in PageRow
  BY <1>4, OpenedTyped
<1>6. page'.step = "choose" /\ page'.made = None /\ page'.place = None
  BY <1>4 DEF Opened
<1>7. net' \in NetRow
  <2>1. net' = [slots |-> {}, quotes |-> {}]
    BY DEF BookingAnswer
  <2> QED  BY <2>1 DEF NetRow
<1>8. /\ page.made \in Orders /\ orders[page.made].status \notin {"absent", "session"}
      /\ page.step = "made"
  BY DEF BookingAnswer, PagesInv, PageKept
<1>9. /\ till' \in TillRow /\ till'.order = page.made /\ till'.wallet = None /\ ~till'.use
  BY <1>8 DEF BookingAnswer, NoTill, TillRow
<1>10. PagesShape'
  BY <1>1, <1>2, <1>5, <1>7, <1>9 DEF BookingAnswer, PagesShape
<1>11. PageKept' /\ Quoted'
  BY <1>6 DEF PageKept, Quoted, Sure
<1>12. qrPage.order = None
  BY <1>8 DEF PagesInv, QrKept
<1>13. TillKept' /\ QrKept' /\ \A o \in Orders : OrderKept(o)'
  BY <1>8, <1>9, <1>12 DEF BookingAnswer, PagesInv, TillKept, QrKept, OrderKept
<1>14. Stray' \subseteq Stray
  BY <1>9, PagesAssumption DEF BookingAnswer, Stray
<1>15. StrayKept'
  BY <1>1, <1>2, <1>14, StrayShrinks DEF PagesInv, PagesShape
<1> QED  BY <1>10, <1>11, <1>13, <1>15 DEF PagesInv

\* An answer lost leaves one booking more without a page.
LEMMA AnswerMissing ==
    ASSUME PagesInv, BookingAnswerLost
    PROVE  PagesInv'
<1>1. PagesShape /\ page \in PageRow
  BY DEF PagesInv, PagesShape
<1>2. budget' \in [requests : Nat, faults : Nat] /\ budget'.faults = budget.faults + 1
  BY <1>1, Turns DEF BookingAnswerLost
<1>3. /\ page.step = "made" /\ page.made \in Orders
      /\ UNCHANGED <<rates, net, orders, till, funds, qrPage>>
  BY DEF BookingAnswerLost, PagesInv, PageKept
<1>4. page' \in PageRow /\ page'.step = "choose" /\ page'.made = None
  <2>1. Opened("tablet", FALSE) \in PageRow
    BY OpenedTyped
  <2>2. Opened("tablet", FALSE).step = "choose" /\ Opened("tablet", FALSE).made = None
    BY DEF Opened
  <2>3. CASE page' = Opened("tablet", FALSE)
    BY <2>1, <2>2, <2>3
  <2>4. CASE page' = [page EXCEPT !.step = "choose", !.made = None]
    BY <1>1, <2>4 DEF PageRow, Steps
  <2> QED  BY <2>3, <2>4 DEF BookingAnswerLost
<1>5. Quoted'
  <2>1. Opened("tablet", FALSE).place = None
    BY DEF Opened
  <2>2. CASE page' = Opened("tablet", FALSE)
    BY <2>1, <2>2 DEF Quoted, Sure
  <2>3. CASE page' = [page EXCEPT !.step = "choose", !.made = None]
    <3>1. /\ page'.place = page.place /\ page'.start = page.start /\ page'.duration = page.duration
          /\ page'.quote = page.quote /\ page'.overtaken = page.overtaken
          /\ page'.outdated = page.outdated
      BY <1>1, <2>3 DEF PageRow
    <3> QED  BY <1>3, <3>1 DEF PagesInv, Quoted, Sure, PresentPrice
  <2> QED  BY <2>2, <2>3 DEF BookingAnswerLost
<1>6. PagesShape'
  BY <1>1, <1>2, <1>3, <1>4 DEF PagesShape
<1>7. PageKept'
  BY <1>4 DEF PageKept
<1>8. qrPage.order = None
  BY <1>3 DEF PagesInv, QrKept
<1>9. TillKept' /\ QrKept' /\ \A o \in Orders : OrderKept(o)'
  BY <1>3, <1>8 DEF PagesInv, TillKept, QrKept, OrderKept
<1>10. StrayKept'
  <2>1. Stray' \subseteq Stray \cup {page.made}
    BY <1>3 DEF Stray
  <2>2. PICK S, x : S = Stray /\ x = page.made
    OBVIOUS
  <2>3. IsFiniteSet(S) /\ Cardinality(S) <= budget.faults /\ Cardinality(S) \in Nat
    BY <2>2, FS_CardinalityType DEF PagesInv, StrayKept
  <2>4. IsFiniteSet(S \cup {x}) /\ Cardinality(S \cup {x}) <= Cardinality(S) + 1
    BY <2>3, FS_AddElement
  <2>5. IsFiniteSet(Stray') /\ Cardinality(Stray') <= Cardinality(S \cup {x})
    BY <2>1, <2>2, <2>4, FS_Subset
  <2>6. Cardinality(Stray') \in Nat /\ Cardinality(S \cup {x}) \in Nat
    BY <2>4, <2>5, FS_CardinalityType
  <2>7. Cardinality(Stray') <= budget'.faults
    BY <1>1, <1>2, <2>3, <2>4, <2>5, <2>6 DEF PagesShape
  <2> QED  BY <2>5, <2>7 DEF StrayKept
<1> QED  BY <1>5, <1>6, <1>7, <1>9, <1>10 DEF PagesInv

-----------------------------------------------------------------------------
\* The payment and the code of the tablet leave the choice alone.
LEMMA PageStays ==
    ASSUME PagesInv, Request("pages") \/ Step("pages") \/ Fault("pages"),
           UNCHANGED <<rates, page, net>>, orders' \in [Orders -> OrderRow],
           till' \in TillRow, funds' \in 0..Funds, qrPage' \in QrRow,
           TillKept', QrKept', \A o \in Orders : OrderKept(o)',
           \A o \in Orders :
              /\ orders'[o].desk = orders[o].desk
              /\ orders[o].status \notin {"absent", "session"} => orders'[o].status \notin {"absent", "session"},
           Stray' \subseteq Stray
    PROVE  PagesInv'
<1>1. budget' \in [requests : Nat, faults : Nat] /\ budget'.faults >= budget.faults
  BY Turns DEF PagesInv
<1>2. PagesShape'
  BY <1>1 DEF PagesInv, PagesShape
<1>3. PageKept' /\ Quoted'
  BY DEF PagesInv, PageKept, Quoted, Sure, PresentPrice
<1>4. StrayKept'
  BY <1>1, StrayShrinks DEF PagesInv, PagesShape
<1> QED  BY <1>2, <1>3, <1>4 DEF PagesInv

\* The wallet is read, chosen, spent elsewhere; the page forgets it once paid.
LEMMA TillMoves ==
    ASSUME PagesInv, WalletAnswer \/ useWallet \/ FundsSpent \/ PayAnswer \/ PayAnswerLost
    PROVE  PagesInv'
<1>1. PagesShape /\ orders \in [Orders -> OrderRow] /\ till \in TillRow /\ funds \in 0..Funds /\ qrPage \in QrRow
  BY DEF PagesInv, PagesShape
<1>2. /\ UNCHANGED <<rates, page, net, orders, qrPage>>
      /\ Request("pages") \/ Step("pages") \/ Fault("pages")
  BY DEF WalletAnswer, useWallet, FundsSpent, PayAnswer, PayAnswerLost
<1>3. QrKept' /\ \A o \in Orders : OrderKept(o)'
  BY <1>2 DEF PagesInv, QrKept, OrderKept
<1>4. CASE WalletAnswer \/ useWallet \/ PayAnswerLost
  <2>1. /\ till' \in TillRow /\ funds' = funds /\ till'.order = till.order
        /\ till'.moved = till.moved
        /\ till'.wallet \in {till.wallet, funds}
        /\ till'.use => till'.wallet # None
    <3>1. till.use => till.wallet # None
      BY DEF PagesInv, TillKept
    <3>2. CASE WalletAnswer
      BY <1>1, <3>1, <3>2 DEF WalletAnswer, TillRow
    <3>3. CASE useWallet
      BY <1>1, <3>1, <3>3 DEF useWallet, TillRow
    <3>4. CASE PayAnswerLost
      BY <1>1, <3>1, <3>4 DEF PayAnswerLost, TillRow
    <3> QED  BY <1>4, <3>2, <3>3, <3>4
  <2>2. TillKept'
    BY <1>1, <1>2, <2>1 DEF PagesInv, TillKept
  <2>3. Stray' \subseteq Stray
    BY <1>2, <2>1 DEF Stray
  <2> QED  BY <1>1, <1>2, <1>3, <2>1, <2>2, <2>3, PageStays
<1>5. CASE FundsSpent
  <2>1. till' \in TillRow /\ funds' \in 0..Funds /\ till'.order = till.order /\ till'.moved
        /\ till'.wallet = till.wallet /\ till'.use = till.use
    <3>1. funds' = funds - 1 /\ funds > 0 /\ till' = [till EXCEPT !.moved = TRUE]
      BY <1>5 DEF FundsSpent
    <3>2. funds' \in 0..Funds
      BY <1>1, <3>1, PagesAssumption
    <3> QED  BY <1>1, <3>1, <3>2 DEF TillRow
  <2>2. TillKept'
    BY <1>2, <2>1 DEF PagesInv, TillKept
  <2>3. Stray' \subseteq Stray
    BY <1>2, <2>1 DEF Stray
  <2> QED  BY <1>1, <1>2, <1>3, <2>1, <2>2, <2>3, PageStays
<1>6. CASE PayAnswer
  <2>1. CASE till' = [till EXCEPT !.paying = FALSE]
    <3>1. till' \in TillRow /\ funds' = funds /\ till'.order = till.order /\ till'.moved = till.moved
          /\ till'.wallet = till.wallet /\ till'.use = till.use
      BY <1>1, <1>6, <2>1 DEF PayAnswer, TillRow
    <3>2. TillKept'
      BY <1>2, <3>1 DEF PagesInv, TillKept
    <3>3. Stray' \subseteq Stray
      BY <1>2, <3>1 DEF Stray
    <3> QED  BY <1>1, <1>2, <1>3, <3>1, <3>2, <3>3, PageStays
  <2>2. CASE till' = NoTill /\ orders[till.order].status = "CONFIRMED"
    <3>1. till' \in TillRow /\ funds' = funds /\ till'.order = None /\ ~till'.use
      BY <1>6, <2>2 DEF PayAnswer, TillRow, NoTill
    <3>2. TillKept'
      BY <3>1 DEF TillKept
    <3>3. Stray' \subseteq Stray
      BY <1>2, <2>2 DEF Stray
    <3> QED  BY <1>1, <1>2, <1>3, <3>1, <3>2, <3>3, PageStays
  <2> QED  BY <1>6, <2>1, <2>2 DEF PayAnswer
<1> QED  BY <1>4, <1>5, <1>6

\* A payment takes the price shown: credits that were not spent elsewhere are
\* still there, and the card pays the rest.
LEMMA PaidAsShown ==
    ASSUME PagesInv, handlePay
    PROVE  PagesInv'
<1>1. PagesShape /\ orders \in [Orders -> OrderRow] /\ till \in TillRow /\ funds \in 0..Funds /\ qrPage \in QrRow
  BY DEF PagesInv, PagesShape
<1>2. PICK o, w, k : o = till.order /\ w = walletAppliedCents /\ k = remainingCents
  OBVIOUS
<1>3. PICK applied : applied = Least(w, Least(funds, orders[o].price))
  OBVIOUS
<1>4. PICK rest : rest = orders[o].price - applied
  OBVIOUS
<1>5. /\ o \in Orders /\ orders[o] \in OrderRow /\ orders[o].price \in Nat /\ funds \in Nat
      /\ till.use => till.wallet \in Nat
  BY <1>1, <1>2, PagesAssumption DEF handlePay, TillRow, OrderRow, PagesInv, TillKept
<1>6. /\ w \in Nat /\ k \in Nat /\ applied \in Nat /\ rest \in Nat /\ applied <= w /\ applied <= funds
      /\ w + k = orders[o].price /\ applied + rest = orders[o].price
  BY <1>2, <1>3, <1>4, <1>5 DEF walletAppliedCents, remainingCents, Least
<1>7. orders[o].status = "CHECKOUT_PENDING" /\ ~till.moved => applied = w
  <2>1. orders[o].status = "CHECKOUT_PENDING" /\ ~till.moved /\ till.use => till.wallet <= funds
    BY <1>2, <1>5, PagesAssumption DEF PagesInv, TillKept
  <2> QED  BY <1>2, <1>3, <1>5, <2>1 DEF walletAppliedCents, Least
<1>8. /\ UNCHANGED <<rates, page, net, qrPage>> /\ Request("pages")
      /\ till' = [till EXCEPT !.paying = TRUE]
      /\ \/ /\ orders[o].status = "CHECKOUT_PENDING" /\ funds' = funds - applied
            /\ orders' = [orders EXCEPT ![o] = [@ EXCEPT !.status = "CONFIRMED", !.wallet = applied,
                                !.card = rest, !.moved = till.moved,
                                !.shown = [wallet |-> w, card |-> k]]]
         \/ funds' = funds /\ orders' = orders
  BY <1>2, <1>3, <1>4 DEF handlePay
<1>9. till' \in TillRow /\ till'.order = till.order /\ till'.moved = till.moved
      /\ till'.wallet = till.wallet /\ till'.use = till.use
  BY <1>1, <1>8 DEF TillRow
<1>10. CASE funds' = funds /\ orders' = orders
  <2>1. TillKept' /\ QrKept' /\ \A b \in Orders : OrderKept(b)'
    BY <1>8, <1>9, <1>10 DEF PagesInv, TillKept, QrKept, OrderKept
  <2>2. Stray' \subseteq Stray
    BY <1>8, <1>9, <1>10 DEF Stray
  <2> QED  BY <1>1, <1>8, <1>9, <1>10, <2>1, <2>2, PageStays
<1>11. CASE /\ orders[o].status = "CHECKOUT_PENDING" /\ funds' = funds - applied
            /\ orders' = [orders EXCEPT ![o] = [@ EXCEPT !.status = "CONFIRMED", !.wallet = applied,
                                !.card = rest, !.moved = till.moved,
                                !.shown = [wallet |-> w, card |-> k]]]
  <2>1. PICK old, new : /\ old = orders[o]
                        /\ new = [old EXCEPT !.status = "CONFIRMED", !.wallet = applied,
                                !.card = rest, !.moved = till.moved,
                                !.shown = [wallet |-> w, card |-> k]]
    OBVIOUS
  <2>2. old \in OrderRow /\ old.price \in Nat
    BY <1>5, <2>1
  <2>3. /\ new \in OrderRow /\ new.status = "CONFIRMED" /\ new.wallet = applied /\ new.card = rest
        /\ new.moved = till.moved /\ new.shown.wallet = w /\ new.shown.card = k
        /\ new.price = old.price /\ new.told = old.told /\ new.doubt = old.doubt /\ new.desk = old.desk
    BY <1>1, <1>6, <2>1, <2>2 DEF OrderRow, OrderStatus, TillRow
  <2>4. orders' = [orders EXCEPT ![o] = new]
    BY <1>11, <2>1
  <2>5. /\ orders' \in [Orders -> OrderRow] /\ orders'[o] = new
        /\ \A b \in Orders : b # o => orders'[b] = orders[b]
    BY <1>1, <1>5, <2>3, <2>4
  <2>6. funds' \in 0..Funds
    BY <1>1, <1>6, <1>11, PagesAssumption
  <2>7. OrderKept(o)'
    <3>1. new.wallet + new.card = new.price /\ new.shown.wallet + new.shown.card = new.price
          /\ new.wallet <= new.shown.wallet /\ (new.card # new.shown.card => new.moved)
      BY <1>6, <1>7, <1>11, <2>1, <2>3
    <3>2. new.told # None /\ ~new.doubt => new.told = new.price
      BY <1>5, <2>1, <2>3 DEF PagesInv, OrderKept
    <3> QED  BY <2>5, <3>1, <3>2 DEF OrderKept
  <2>8. \A b \in Orders : OrderKept(b)'
    BY <2>5, <2>7 DEF PagesInv, OrderKept
  <2>9. TillKept'
    BY <1>2, <1>5, <1>9, <2>3, <2>5 DEF PagesInv, TillKept
  <2>10. \A b \in Orders : /\ orders'[b].desk = orders[b].desk
                           /\ orders[b].status \notin {"absent", "session"} =>
                                orders'[b].status \notin {"absent", "session"}
                           /\ orders[b].status # "absent" => orders'[b].status # "absent"
    BY <2>1, <2>3, <2>5
  <2>11. QrKept'
    <3>1. qrPage.order # None => qrPage.order \in Orders
      BY <1>1 DEF QrRow
    <3> QED  BY <1>8, <2>10, <3>1 DEF PagesInv, QrKept
  <2>12. Stray' \subseteq Stray
    BY <1>8, <1>9, <2>3, <2>5 DEF Stray
  <2> QED  BY <1>1, <1>8, <1>9, <2>5, <2>6, <2>8, <2>9, <2>10, <2>11, <2>12, PageStays
<1> QED  BY <1>8, <1>10, <1>11

\* A booking that is paid may be canceled.
LEMMA Canceled ==
    ASSUME PagesInv, NEW o \in Orders, handleCancel(o)
    PROVE  PagesInv'
<1>1. PagesShape /\ orders \in [Orders -> OrderRow] /\ till \in TillRow /\ funds \in 0..Funds /\ qrPage \in QrRow
  BY DEF PagesInv, PagesShape
<1>2. PICK new : new = [orders[o] EXCEPT !.status = "CANCELED"]
  OBVIOUS
<1>3. /\ new \in OrderRow /\ new.status = "CANCELED" /\ new.told = orders[o].told
      /\ new.doubt = orders[o].doubt /\ new.price = orders[o].price /\ new.desk = orders[o].desk
  BY <1>1, <1>2 DEF OrderRow, OrderStatus
<1>4. /\ orders' \in [Orders -> OrderRow] /\ orders'[o] = new
      /\ \A b \in Orders : b # o => orders'[b] = orders[b]
      /\ UNCHANGED <<rates, page, net, till, funds, qrPage>> /\ Request("pages")
  BY <1>1, <1>2, <1>3 DEF handleCancel
<1>5. \A b \in Orders : OrderKept(b)'
  BY <1>3, <1>4 DEF PagesInv, OrderKept
<1>6. \A b \in Orders : /\ orders'[b].desk = orders[b].desk
                        /\ orders[b].status \notin {"absent", "session"} =>
                             orders'[b].status \notin {"absent", "session"}
                        /\ orders[b].status # "absent" => orders'[b].status # "absent"
                        /\ orders'[b].status = "CHECKOUT_PENDING" => orders'[b] = orders[b]
  BY <1>3, <1>4
<1>7. TillKept' /\ QrKept'
  <2>1. till.order # None => till.order \in Orders
    BY <1>1 DEF TillRow
  <2>2. qrPage.order # None => qrPage.order \in Orders
    BY <1>1 DEF QrRow
  <2>3. TillKept'
    BY <1>4, <1>6, <2>1 DEF PagesInv, TillKept
  <2>4. QrKept'
    BY <1>4, <1>6, <2>2 DEF PagesInv, QrKept
  <2> QED  BY <2>3, <2>4
<1>8. Stray' \subseteq Stray
  BY <1>4, <1>6 DEF Stray
<1> QED  BY <1>1, <1>4, <1>5, <1>6, <1>7, <1>8, PageStays

-----------------------------------------------------------------------------
\* A session begins on a booking that nobody has.
LEMMA SessionBegun ==
    ASSUME PagesInv, NEW o \in Orders, kioskQr(o)
    PROVE  PagesInv'
<1>1. PagesShape /\ orders \in [Orders -> OrderRow] /\ till \in TillRow /\ funds \in 0..Funds /\ qrPage \in QrRow
  BY DEF PagesInv, PagesShape
<1>2. PICK new : new = [orders[o] EXCEPT !.status = "session"]
  OBVIOUS
<1>3. /\ orders[o].status = "absent" /\ orders[o].told = None /\ ~orders[o].desk /\ o # None
      /\ page.step = "qr"
  BY PagesAssumption DEF kioskQr, NoOrder
<1>4. /\ new \in OrderRow /\ new.status = "session" /\ new.told = None /\ new.desk = orders[o].desk
  BY <1>1, <1>2, <1>3 DEF OrderRow, OrderStatus
<1>5. /\ orders' \in [Orders -> OrderRow] /\ orders'[o] = new
      /\ \A b \in Orders : b # o => orders'[b] = orders[b]
      /\ UNCHANGED <<rates, page, net, till, funds>> /\ Step("pages")
  BY <1>1, <1>2, <1>4 DEF kioskQr
<1>6. qrPage' \in QrRow /\ qrPage'.order = o /\ qrPage'.polling
  BY DEF kioskQr, NoQr, QrRow, OrderStatus
<1>7. \A b \in Orders : OrderKept(b)'
  BY <1>4, <1>5 DEF PagesInv, OrderKept
<1>8. TillKept' /\ QrKept'
  <2>1. till.order # None => till.order \in Orders /\ till.order # o
    BY <1>1, <1>3 DEF TillRow, PagesInv, TillKept
  <2>2. TillKept'
    BY <1>5, <2>1 DEF PagesInv, TillKept
  <2>3. QrKept'
    BY <1>3, <1>4, <1>5, <1>6 DEF QrKept
  <2> QED  BY <2>2, <2>3
<1>9. Stray' \subseteq Stray
  BY <1>4, <1>5 DEF Stray
<1>10. \A b \in Orders : /\ orders'[b].desk = orders[b].desk
                         /\ orders[b].status \notin {"absent", "session"} =>
                              orders'[b].status \notin {"absent", "session"}
  BY <1>3, <1>4, <1>5
<1> QED  BY <1>1, <1>5, <1>6, <1>7, <1>8, <1>9, <1>10, PageStays

\* The telephone makes the booking of the session and takes it to the payment.
LEMMA SessionClaimed ==
    ASSUME PagesInv, Claim
    PROVE  PagesInv'
<1>1. PagesShape /\ orders \in [Orders -> OrderRow] /\ till \in TillRow /\ funds \in 0..Funds /\ qrPage \in QrRow
  BY DEF PagesInv, PagesShape
<1>2. PICK o : o = qrPage.order
  OBVIOUS
<1>3. /\ o \in Orders /\ orders[o].status = "session" /\ create(o) /\ page.step = "qr"
      /\ till.order = None /\ till' = [NoTill EXCEPT !.order = o]
      /\ UNCHANGED <<rates, page, net, funds, qrPage>> /\ Request("pages")
  BY <1>1, <1>2 DEF Claim, QrRow, PagesInv, QrKept
<1>4. page.place # None /\ page.start # None /\ page.duration # None
  BY <1>3 DEF PagesInv, PageKept
<1>5. /\ orders' \in [Orders -> OrderRow] /\ OrderKept(o)'
      /\ \A b \in Orders : b # o => orders'[b] = orders[b]
      /\ orders'[o].status = "CHECKOUT_PENDING"
  BY <1>3, <1>4, OrderMade
<1>6. till' \in TillRow /\ till'.order = o /\ ~till'.use /\ till'.wallet = None
  BY <1>3 DEF NoTill, TillRow
<1>7. \A b \in Orders : OrderKept(b)'
  BY <1>5 DEF PagesInv, OrderKept
<1>8. TillKept' /\ QrKept'
  BY <1>2, <1>3, <1>5, <1>6 DEF PagesInv, TillKept, QrKept
<1>9. Stray' \subseteq Stray
  <2> SUFFICES ASSUME NEW b \in Stray' PROVE b \in Stray
    OBVIOUS
  <2>1. b \in Orders /\ b # o /\ b # None
    BY <1>6, PagesAssumption DEF Stray
  <2> QED  BY <1>3, <1>5, <2>1 DEF Stray
<1>10. budget' \in [requests : Nat, faults : Nat] /\ budget'.faults >= budget.faults
  BY <1>1, <1>3, Turns
<1>11. PagesShape'
  BY <1>1, <1>3, <1>5, <1>6, <1>10 DEF PagesShape
<1>12. page.made = None /\ PageKept' /\ Quoted'
  BY <1>3 DEF PagesInv, PageKept, Quoted, Sure, PresentPrice
<1>13. StrayKept'
  BY <1>1, <1>9, <1>10, StrayShrinks DEF PagesInv, PagesShape
<1> QED  BY <1>7, <1>8, <1>11, <1>12, <1>13 DEF PagesInv

\* The tablet asks until it has been told how the booking ended.
LEMMA Polled ==
    ASSUME PagesInv, poll \/ \E s \in qrPage.polls : PollAnswer(s) \/ PollLost(s)
    PROVE  PagesInv'
<1>1. PagesShape /\ orders \in [Orders -> OrderRow] /\ till \in TillRow /\ funds \in 0..Funds /\ qrPage \in QrRow
  BY DEF PagesInv, PagesShape
<1>2. /\ UNCHANGED <<rates, page, net, orders, till, funds>>
      /\ Request("pages") \/ Step("pages") \/ Fault("pages")
  BY DEF poll, PollAnswer, PollLost
<1>3. TillKept' /\ Stray' \subseteq Stray /\ \A b \in Orders : OrderKept(b)'
  BY <1>2 DEF PagesInv, TillKept, Stray, OrderKept
<1>4. qrPage' \in QrRow /\ QrKept'
  <2>1. CASE poll
    <3>1. PICK s : s = orders[qrPage.order].status
      OBVIOUS
    <3>2. qrPage' = [qrPage EXCEPT !.polls = @ \cup {s}] /\ qrPage.polling
      BY <2>1, <3>1 DEF poll
    <3>3. s \in OrderStatus \/ qrPage.order \notin Orders
      BY <1>1, <3>1 DEF OrderRow
    <3>4. qrPage.order \in Orders
      BY <1>1, <3>2 DEF QrRow, PagesInv, QrKept
    <3> QED  BY <1>1, <1>2, <3>2, <3>3, <3>4 DEF QrRow, QrKept, PagesInv
  <2>2. ASSUME NEW s \in qrPage.polls, PollAnswer(s) PROVE qrPage' \in QrRow /\ QrKept'
    <3>1. qrPage' = [qrPage EXCEPT !.shown = s, !.polls = @ \ {s},
                                !.polling = @ /\ s \notin Final,
                                !.overtaken = @ \/ (s \in Final /\ qrPage.polls # {s})]
      BY <2>2 DEF PollAnswer
    <3>2. s \in OrderStatus
      BY <1>1 DEF QrRow
    <3>3. /\ qrPage' \in QrRow /\ qrPage'.order = qrPage.order /\ qrPage'.shown = s
          /\ qrPage'.polls = qrPage.polls \ {s}
          /\ qrPage'.polling = (qrPage.polling /\ s \notin Final)
          /\ qrPage'.overtaken = (qrPage.overtaken \/ (s \in Final /\ qrPage.polls # {s}))
      BY <1>1, <3>1, <3>2 DEF QrRow
    <3> QED  BY <1>2, <3>3 DEF PagesInv, QrKept
  <2>3. ASSUME NEW s \in qrPage.polls, PollLost(s) PROVE qrPage' \in QrRow /\ QrKept'
    <3>1. /\ qrPage' \in QrRow /\ qrPage'.order = qrPage.order /\ qrPage'.shown = qrPage.shown
          /\ qrPage'.polls = qrPage.polls \ {s}
          /\ qrPage'.polling = qrPage.polling /\ qrPage'.overtaken = qrPage.overtaken
      BY <1>1, <2>3 DEF PollLost, QrRow
    <3> QED  BY <1>2, <3>1 DEF PagesInv, QrKept
  <2> QED  BY <2>1, <2>2, <2>3
<1> QED  BY <1>1, <1>2, <1>3, <1>4, PageStays

\* The tablet goes back to its home: a session that nobody claimed ends.
LEMMA SessionLeft ==
    ASSUME PagesInv, LeaveQr
    PROVE  PagesInv'
<1>1. PagesShape /\ orders \in [Orders -> OrderRow] /\ qrPage \in QrRow
  BY DEF PagesInv, PagesShape
<1>2. PICK o : o = qrPage.order
  OBVIOUS
<1>3. o \in Orders /\ page.step = "qr" /\ page.made = None
  BY <1>1, <1>2 DEF LeaveQr, QrRow, PagesInv, QrKept, PageKept
<1>4. PICK new : new = [orders[o] EXCEPT !.status = IF @ = "session" THEN "CANCELED" ELSE @]
  OBVIOUS
<1>5. /\ new \in OrderRow /\ new.told = orders[o].told /\ new.doubt = orders[o].doubt
      /\ new.price = orders[o].price /\ new.desk = orders[o].desk
      /\ orders[o].status # "session" => new = orders[o]
      /\ orders[o].status = "session" => new.status = "CANCELED"
  BY <1>1, <1>3, <1>4 DEF OrderRow, OrderStatus
<1>6. /\ orders' \in [Orders -> OrderRow] /\ orders'[o] = new
      /\ \A b \in Orders : b # o => orders'[b] = orders[b]
      /\ UNCHANGED <<rates, net, till, funds>> /\ Request("pages")
  BY <1>1, <1>2, <1>3, <1>4, <1>5 DEF LeaveQr
<1>7. qrPage' = NoQr /\ NoQr \in QrRow /\ NoQr.order = None /\ ~NoQr.polling
  BY DEF LeaveQr, NoQr, QrRow, OrderStatus
<1>8. page' = Opened("tablet", FALSE) /\ Opened("tablet", FALSE) \in PageRow
  BY OpenedTyped DEF LeaveQr
<1>9. page'.step = "choose" /\ page'.made = None /\ page'.place = None
  BY <1>8 DEF Opened
<1>10. budget' \in [requests : Nat, faults : Nat] /\ budget'.faults >= budget.faults
  BY <1>1, <1>6, Turns
<1>11. PagesShape'
  BY <1>1, <1>6, <1>7, <1>8, <1>10 DEF PagesShape
<1>12. PageKept' /\ Quoted' /\ QrKept'
  BY <1>7, <1>9 DEF PageKept, Quoted, Sure, QrKept
<1>13. \A b \in Orders : OrderKept(b)'
  BY <1>5, <1>6 DEF PagesInv, OrderKept
<1>14. TillKept'
  <2>1. till.order # None => orders'[till.order] = orders[till.order]
    BY <1>1, <1>3, <1>5, <1>6 DEF PagesShape, TillRow, PagesInv, TillKept
  <2> QED  BY <1>6, <2>1 DEF PagesInv, TillKept
<1>15. Stray' \subseteq Stray
  <2> SUFFICES ASSUME NEW b \in Stray' PROVE b \in Stray
    OBVIOUS
  <2>1. b \in Orders /\ b # None /\ orders'[b] = orders[b]
    BY <1>5, <1>6, PagesAssumption DEF Stray
  <2> QED  BY <1>3, <1>6, <2>1 DEF Stray
<1>16. StrayKept'
  BY <1>1, <1>10, <1>15, StrayShrinks DEF PagesInv, PagesShape
<1> QED  BY <1>11, <1>12, <1>13, <1>14, <1>16 DEF PagesInv

-----------------------------------------------------------------------------
\* Every step keeps the invariant.
LEMMA PagesSteps ==
    ASSUME PagesInv, [PagesNext]_<<baseVars, pagesVars>>
    PROVE  PagesInv'
<1>1. CASE \E r \in TariffRules : EditRates(r)
  BY <1>1, RatesEdited
<1>2. CASE \E p \in Places : choosePlace(p)
  BY <1>2, PlaceChosen
<1>3. CASE \E slot \in page.slots : \E d \in slot.durations : chooseSlot(slot, d)
  BY <1>3, SlotChosen
<1>4. CASE \E a \in net.slots : SlotsAnswer(a) \/ DeskSlotsAnswer(a) \/ SlotsLost(a)
  BY <1>4, SlotsShown, DeskSlotsShown, SlotsMissing
<1>5. CASE \E a \in net.quotes : QuoteAnswer(a) \/ QuoteLost(a)
  BY <1>5, QuoteShown
<1>6. CASE signInFirst \/ BookingAnswer \/ BookingAnswerLost \/ BookingCreated
  BY <1>6, SignedIn, AnswerShown, AnswerMissing, ChoiceLeft
<1>7. CASE \E path \in {"pay", "qr"} : saveDraftAndGo(path)
  BY <1>7, ChoiceLeft
<1>8. CASE \E o \in Orders : handleConfirm(o) \/ handleCreate(o) \/ kioskPay(o) \/ kioskQr(o) \/ handleCancel(o)
  BY <1>8, BookingMade, SessionBegun, Canceled
<1>9. CASE WalletAnswer \/ useWallet \/ FundsSpent \/ handlePay \/ PayAnswer \/ PayAnswerLost
  BY <1>9, TillMoves, PaidAsShown
<1>10. CASE Claim \/ poll \/ LeaveQr
  BY <1>10, SessionClaimed, Polled, SessionLeft
<1>11. CASE \E s \in qrPage.polls : PollAnswer(s) \/ PollLost(s)
  BY <1>11, Polled
<1>12. CASE UNCHANGED <<baseVars, pagesVars>>
  <2>1. UNCHANGED <<budget, rates, page, net, orders, till, funds, qrPage>>
    BY <1>12 DEF baseVars, pagesVars
  <2>2. PagesShape' /\ PageKept' /\ Quoted' /\ TillKept' /\ QrKept' /\ \A o \in Orders : OrderKept(o)'
    BY <2>1 DEF PagesInv, PagesShape, PageKept, Quoted, Sure, PresentPrice, TillKept, QrKept, OrderKept
  <2>3. StrayKept'
    BY <2>1 DEF PagesInv, StrayKept, Stray
  <2> QED  BY <2>2, <2>3 DEF PagesInv
<1> QED
  BY <1>1, <1>2, <1>3, <1>4, <1>5, <1>6, <1>7, <1>8, <1>9, <1>10, <1>11, <1>12, Zenon DEF PagesNext

\* What the theorems say of a state follows from the invariant.
LEMMA PagesTypes ==
    ASSUME PagesInv PROVE PagesTypeOK
<1>1. page \in PageRow /\ orders \in [Orders -> OrderRow] /\ till \in TillRow /\ qrPage \in QrRow
  BY DEF PagesInv, PagesShape
<1>2. rates \subseteq TariffRules /\ funds \in 0..Funds
  BY DEF PagesInv, PagesShape
<1>3. /\ page.surface \in {"web", "tablet", "desk"} /\ page.user \in BOOLEAN
      /\ page.place \in Places \cup {None} /\ page.step \in Steps /\ page.made \in Orders \cup {None}
      /\ {page.loading, page.fetching} \subseteq BOOLEAN /\ page.overtaken \in BOOLEAN
      /\ page.outdated \in BOOLEAN
  BY <1>1 DEF PageRow
<1>4. \A o \in Orders : /\ orders[o].status \in OrderStatus
                        /\ {orders[o].price, orders[o].wallet, orders[o].card} \subseteq Nat
  BY <1>1 DEF OrderRow
<1> QED  BY <1>1, <1>2, <1>3, <1>4 DEF PagesTypeOK, TillRow, QrRow

\* What the pages hold, wherever the answers are (apps/web: /book, /kiosk, /checkout).
THEOREM PagesTyped == PagesSpec => []PagesTypeOK
<1> QED  BY PagesTypes, PagesStart, PagesSteps, PTL DEF PagesSpec

\* What the pages show is what is paid.
LEMMA PaidFromInv ==
    ASSUME PagesInv PROVE PaidIsShown
<1>1. \A o \in Orders : OrderKept(o)
  BY DEF PagesInv
<1>2. Cardinality({o \in Orders : orders[o].status = "CHECKOUT_PENDING" /\ ~orders[o].desk
                                 /\ o \notin {page.made, till.order}}) <= budget.faults
  BY Zenon DEF PagesInv, StrayKept, Stray
<1>3. qrPage.order # None /\ ~qrPage.polling /\ ~qrPage.overtaken => qrPage.shown \in Final
  BY DEF PagesInv, QrKept
<1> QED  BY <1>1, <1>2, <1>3 DEF PaidIsShown, OrderKept

\* The visitor pays what he was shown, whatever order the answers come in, for
\* any number of places, tariffs, bookings and faults: the payment takes the
\* price of /checkout, a price announced is that of the booking unless a slower
\* answer or an edited tariff overtook it, and no booking waits unseen unless
\* an answer was lost (book/page.tsx:90-168, checkout.service.ts:105,
\* kiosk/qr/page.tsx:68-85).
THEOREM ShownIsPaid == PagesSpec => []PaidIsShown
<1> QED  BY PaidFromInv, PagesStart, PagesSteps, PTL DEF PagesSpec
=============================================================================
