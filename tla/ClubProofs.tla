------------------------------ MODULE ClubProofs ------------------------------
(***************************************************************************)
(* The synchronisation with Doinsport and the academy, and what holds of   *)
(* all the components of the club side by side.                            *)
(***************************************************************************)
EXTENDS Club, ComponentProofs, Sums

-----------------------------------------------------------------------------
(* The bookings of Doinsport *)
\* Lists of participants that a run is about to write for a booking
Half(k, b) == IF importers[k].pc = "create" /\ importers[k].booking = b THEN 1 ELSE 0

\* The participants of a booking are written by two runs at most since the
\* last time they were deleted.
MirrorInv ==
    /\ MirrorTypeOK
    /\ \A k \in Importers : importers[k].pc \in {"upsert", "delete", "create"} => importers[k].booking \in LegacyBookings
    /\ \A b \in LegacyBookings : mirror[b].lists + Half("fast", b) + Half("reconciliation", b) <= 2

RunRow == [pc : {"idle", "clients", "list", "get", "upsert", "delete", "create", "find", "revoke"},
           todo : SUBSET LegacyBookings, booking : LegacyBookings \cup {None}, canceled : BOOLEAN]
CopyRow == [canceled : BOOLEAN, known : BOOLEAN, lists : 0..2]

\* Nothing is copied at first.
LEMMA MirrorStart == MirrorInit => MirrorInv
BY DEF MirrorInit, MirrorInv, MirrorTypeOK, NoRun, Half, Importers

\* A run that leaves the copy alone, and no booking waiting for its participants.
LEMMA RunMoves ==
    ASSUME MirrorInv, NEW k \in Importers, NEW row \in RunRow,
           importers' = [importers EXCEPT ![k] = row],
           row.pc \in {"upsert", "delete"} => row.booking \in LegacyBookings, row.pc # "create",
           \A b \in LegacyBookings : mirror'[b].lists = mirror[b].lists,
           mirror' \in [LegacyBookings -> CopyRow], doinsport' = doinsport,
           doors' \in [LegacyBookings -> {"none", "ACTIVE", "REVOKED"}], token' \in {"accepted", "refused"}
    PROVE  MirrorInv'
<1>1. importers \in [Importers -> RunRow]
  BY DEF MirrorInv, MirrorTypeOK, RunRow
<1>2. /\ importers' \in [Importers -> RunRow] /\ importers'[k] = row
      /\ \A j \in Importers : j # k => importers'[j] = importers[j]
  BY <1>1
<1>3. MirrorTypeOK'
  BY <1>2 DEF MirrorInv, MirrorTypeOK, RunRow, CopyRow
<1>4. \A j \in Importers : importers'[j].pc \in {"upsert", "delete", "create"} => importers'[j].booking \in LegacyBookings
  BY <1>2 DEF MirrorInv
<1>5. "fast" \in Importers /\ "reconciliation" \in Importers
  BY DEF Importers
<1>6. \A b \in LegacyBookings : mirror'[b].lists + Half("fast", b)' + Half("reconciliation", b)' <= 2
  <2> SUFFICES ASSUME NEW b \in LegacyBookings
               PROVE  mirror'[b].lists + Half("fast", b)' + Half("reconciliation", b)' <= 2
    OBVIOUS
  <2>1. mirror[b].lists \in Nat /\ mirror'[b].lists = mirror[b].lists
    BY DEF MirrorInv, MirrorTypeOK
  <2>2. mirror[b].lists + Half("fast", b) + Half("reconciliation", b) <= 2
    BY DEF MirrorInv
  <2>3. CASE k = "fast"
    BY <1>2, <1>5, <2>1, <2>2, <2>3 DEF Half
  <2>4. CASE k = "reconciliation"
    BY <1>2, <1>5, <2>1, <2>2, <2>4 DEF Half
  <2> QED  BY <2>3, <2>4 DEF Importers
<1> QED  BY <1>3, <1>4, <1>6 DEF MirrorInv

\* Doinsport and its token leave the copy and the runs alone.
LEMMA DoinsportMoves ==
    ASSUME MirrorInv, UNCHANGED <<mirror, importers>>,
           doinsport' \in [LegacyBookings -> {"absent", "booked", "canceled"}],
           doors' \in [LegacyBookings -> {"none", "ACTIVE", "REVOKED"}], token' \in {"accepted", "refused"}
    PROVE  MirrorInv'
BY DEF MirrorInv, MirrorTypeOK, Half

\* A run moves without a booking in hand.
Moved ==
    \E k \in Importers, row \in RunRow :
        importers' = [importers EXCEPT ![k] = row] /\ row.pc \notin {"upsert", "delete", "create"}

LEMMA MirrorKeeps ==
    ASSUME MirrorInv, [MirrorNext]_<<baseVars, mirrorVars>>
    PROVE  MirrorInv'
<1>t. /\ importers \in [Importers -> RunRow] /\ mirror \in [LegacyBookings -> CopyRow]
      /\ doinsport \in [LegacyBookings -> {"absent", "booked", "canceled"}]
      /\ doors \in [LegacyBookings -> {"none", "ACTIVE", "REVOKED"}] /\ token \in {"accepted", "refused"}
  BY DEF MirrorInv, MirrorTypeOK, RunRow, CopyRow
<1>i. "fast" \in Importers /\ "reconciliation" \in Importers
  BY DEF Importers
<1>n. NoRun \in RunRow /\ NoRun.pc = "idle"
  BY DEF NoRun, RunRow
<1>1. ASSUME NEW b \in LegacyBookings, BookAtDoinsport(b) \/ createBookingInLegacy(b) \/ CancelAtDoinsport(b)
      PROVE  MirrorInv'
  <2>1. /\ UNCHANGED <<mirror, importers>>
        /\ doinsport' \in [LegacyBookings -> {"absent", "booked", "canceled"}]
        /\ doors' \in [LegacyBookings -> {"none", "ACTIVE", "REVOKED"}] /\ token' \in {"accepted", "refused"}
    BY <1>1, <1>t DEF BookAtDoinsport, createBookingInLegacy, CancelAtDoinsport, AcceptBooking
  <2> QED  BY <2>1, DoinsportMoves
<1>2. ASSUME TokenExpires \/ \E k \in Importers : authenticateClub(k)
      PROVE  MirrorInv'
  <2>1. UNCHANGED <<mirror, importers, doinsport, doors>> /\ token' \in {"accepted", "refused"}
    BY <1>2 DEF TokenExpires, authenticateClub
  <2> QED  BY <1>t, <2>1, DoinsportMoves
\* The steps that change the run in hand and nothing else of the copy
<1>3. ASSUME runFastSync \/ runReconciliation \/ FindCanceled \/ ReconciliationEnds
             \/ \E k \in Importers : \/ ClientsImported(k) \/ listBookings(k) \/ RunEnds(k) \/ RunFails(k)
                                     \/ \E b \in LegacyBookings : GetFails(k, b)
      PROVE  MirrorInv'
  <2>1. UNCHANGED <<doinsport, mirror, doors, token>>
    BY <1>3 DEF runFastSync, runReconciliation, FindCanceled, ReconciliationEnds, ClientsImported, listBookings,
       RunEnds, RunFails, GetFails
  <2>2. Moved
    <3>1. CASE runFastSync
      <4>1. [importers["fast"] EXCEPT !.pc = "list"] \in RunRow
        BY <1>t, <1>i DEF RunRow
      <4> QED  BY <3>1, <1>t, <1>i, <4>1 DEF Moved, runFastSync, goto, RunRow
    <3>2. CASE runReconciliation
      <4>1. [importers["reconciliation"] EXCEPT !.pc = "clients"] \in RunRow
        BY <1>t, <1>i DEF RunRow
      <4> QED  BY <3>2, <1>t, <1>i, <4>1 DEF Moved, runReconciliation, goto, RunRow
    <3>3. CASE FindCanceled
      <4>1. PICK T : T = {b \in LegacyBookings : doors[b] = "ACTIVE" /\ mirror[b].canceled}
        OBVIOUS
      <4>2. [importers["reconciliation"] EXCEPT !.pc = "revoke", !.todo = T] \in RunRow
        BY <1>t, <1>i, <4>1 DEF RunRow
      <4> QED  BY <3>3, <1>t, <1>i, <4>1, <4>2 DEF Moved, FindCanceled, RunRow
    <3>4. CASE ReconciliationEnds
      <4>1. [importers["reconciliation"] EXCEPT !.pc = "idle"] \in RunRow
        BY <1>t, <1>i DEF RunRow
      <4> QED  BY <3>4, <1>t, <1>i, <4>1 DEF Moved, ReconciliationEnds, goto, RunRow
    <3>5. ASSUME NEW k \in Importers, ClientsImported(k) \/ RunEnds(k) PROVE Moved
      <4>1. PICK pc \in {"list", "find", "idle"} : importers' = [importers EXCEPT ![k].pc = pc]
        BY <3>5 DEF ClientsImported, RunEnds, goto
      <4>2. [importers[k] EXCEPT !.pc = pc] \in RunRow
        BY <1>t DEF RunRow
      <4> QED  BY <1>t, <4>1, <4>2 DEF Moved, RunRow
    <3>6. ASSUME NEW k \in Importers, listBookings(k) PROVE Moved
      <4>1. [importers[k] EXCEPT !.pc = "get", !.todo = BookingsListed] \in RunRow
        BY <1>t DEF RunRow, BookingsListed
      <4> QED  BY <1>t, <3>6, <4>1 DEF Moved, listBookings, RunRow
    <3>7. ASSUME NEW k \in Importers, RunFails(k) PROVE Moved
      BY <1>t, <1>n, <3>7 DEF Moved, RunFails
    <3>8. ASSUME NEW k \in Importers, NEW b \in LegacyBookings, GetFails(k, b) PROVE Moved
      <4>1. [importers[k] EXCEPT !.todo = importers[k].todo \ {b}] \in RunRow
        BY <1>t DEF RunRow
      <4> QED  BY <1>t, <3>8, <4>1 DEF Moved, GetFails, RunRow
    <3> QED  BY <1>3, <3>1, <3>2, <3>3, <3>4, <3>5, <3>6, <3>7, <3>8
  <2>3. PICK k \in Importers, row \in RunRow :
           importers' = [importers EXCEPT ![k] = row] /\ row.pc \notin {"upsert", "delete", "create"}
    BY <2>2 DEF Moved
  <2> QED  BY <1>t, <2>1, <2>3, RunMoves
\* The booking in hand: fetched, its row written, its participants deleted
<1>4. ASSUME NEW k \in Importers, NEW b \in LegacyBookings, getBooking(k, b) PROVE MirrorInv'
  <2>1. PICK row : row = [pc |-> "upsert", todo |-> importers[k].todo \ {b}, booking |-> b,
                          canceled |-> normalizeBooking(b)]
    OBVIOUS
  <2>2. row \in RunRow /\ row.pc = "upsert" /\ row.booking \in LegacyBookings
    BY <1>t, <2>1 DEF RunRow, normalizeBooking
  <2>3. importers' = [importers EXCEPT ![k] = row] /\ UNCHANGED <<doinsport, mirror, doors, token>>
    BY <1>4, <2>1 DEF getBooking
  <2> QED  BY <1>t, <2>2, <2>3, RunMoves
<1>5. ASSUME NEW k \in Importers, UpsertRow(k) PROVE MirrorInv'
  <2>1. PICK row : row = [importers[k] EXCEPT !.pc = "delete"]
    OBVIOUS
  <2>2. importers[k].booking \in LegacyBookings
    BY <1>5 DEF UpsertRow, MirrorInv
  <2>3. row \in RunRow /\ row.pc = "delete" /\ row.booking \in LegacyBookings
    BY <1>t, <2>1, <2>2 DEF RunRow
  <2>4. importers' = [importers EXCEPT ![k] = row] /\ UNCHANGED <<doinsport, doors, token>>
    BY <1>5, <1>t, <2>1 DEF UpsertRow, goto
  <2>5. mirror' \in [LegacyBookings -> CopyRow] /\ \A b \in LegacyBookings : mirror'[b].lists = mirror[b].lists
    BY <1>5, <1>t, <2>2 DEF UpsertRow, CopyRow, RunRow
  <2> QED  BY <1>t, <2>3, <2>4, <2>5, RunMoves
<1>6. ASSUME NEW k \in Importers, DeleteParticipants(k) \/ CreateParticipants(k) PROVE MirrorInv'
  <2>1. PICK c : c = importers[k].booking
    OBVIOUS
  <2>2. c \in LegacyBookings /\ importers[k].pc \in {"delete", "create"}
    BY <1>6, <2>1 DEF DeleteParticipants, CreateParticipants, MirrorInv
  <2>3. PICK row : /\ row \in RunRow /\ importers' = [importers EXCEPT ![k] = row]
                   /\ \/ row.pc = "create" /\ row.booking = c /\ DeleteParticipants(k)
                      \/ row.pc = "get" /\ row.booking = None /\ CreateParticipants(k)
    <3>1. CASE DeleteParticipants(k)
      <4>1. [importers[k] EXCEPT !.pc = "create"] \in RunRow
        BY <1>t DEF RunRow
      <4> QED  BY <1>t, <2>1, <3>1, <4>1 DEF DeleteParticipants, goto, RunRow
    <3>2. CASE CreateParticipants(k)
      <4>1. PICK w : w = [importers[k] EXCEPT !.pc = "get", !.booking = None, !.canceled = FALSE]
        OBVIOUS
      <4>2. w \in RunRow /\ w.pc = "get" /\ w.booking = None
        BY <1>t, <4>1 DEF RunRow
      <4>3. importers' = [importers EXCEPT ![k] = w]
        BY <3>2, <4>1 DEF CreateParticipants
      <4> QED  BY <3>2, <4>2, <4>3
    <3> QED  BY <1>6, <3>1, <3>2
  <2>4. /\ importers' \in [Importers -> RunRow] /\ importers'[k] = row
        /\ \A j \in Importers : j # k => importers'[j] = importers[j]
    BY <1>t, <2>3
  <2>5. /\ \A b \in LegacyBookings : b # c => mirror'[b] = mirror[b]
        /\ mirror[c].lists \in 0..2
        /\ mirror'[c] = [mirror[c] EXCEPT !.lists = IF row.pc = "create" THEN 0 ELSE mirror[c].lists + 1]
        /\ UNCHANGED <<doinsport, doors, token>>
    BY <1>t, <2>1, <2>2, <2>3 DEF DeleteParticipants, CreateParticipants, CopyRow
  <2>6. \A b \in LegacyBookings : mirror[b].lists + Half("fast", b) + Half("reconciliation", b) <= 2
    BY DEF MirrorInv
  <2>7. row.pc = "get" => importers[k].pc = "create" /\ importers[k].booking = c
    BY <2>1, <2>3 DEF CreateParticipants
  <2>8. \A b \in LegacyBookings : mirror'[b].lists + Half("fast", b)' + Half("reconciliation", b)' <= 2
    <3> SUFFICES ASSUME NEW b \in LegacyBookings
                 PROVE  mirror'[b].lists + Half("fast", b)' + Half("reconciliation", b)' <= 2
      OBVIOUS
    <3>1. mirror[b].lists \in Nat
      BY <1>t DEF CopyRow
    <3>2. CASE b # c
      <4>1. mirror'[b] = mirror[b] /\ \A j \in Importers : Half(j, b)' <= Half(j, b)
        BY <2>3, <2>4, <2>5, <3>2 DEF Half
      <4>2. \A j \in Importers : Half(j, b) \in Nat /\ Half(j, b)' \in Nat
        BY DEF Half
      <4>3. PICK f, g, x, y : f = Half("fast", b) /\ g = Half("reconciliation", b)
                              /\ x = Half("fast", b)' /\ y = Half("reconciliation", b)'
        OBVIOUS
      <4>4. x <= f /\ y <= g /\ {f, g, x, y} \subseteq Nat
        BY <1>i, <4>1, <4>2, <4>3
      <4>5. mirror[b].lists + f + g <= 2
        BY <2>6, <4>3
      <4>6. mirror'[b].lists + x + y <= 2
        BY <3>1, <4>1, <4>4, <4>5
      <4> QED  BY <4>3, <4>6
    <3>3. CASE b = c /\ row.pc = "create"
      <4>1. mirror'[b].lists = 0
        BY <1>t, <2>5, <3>3 DEF CopyRow
      <4> QED  BY <4>1 DEF Half
    <3>4. CASE b = c /\ row.pc = "get"
      <4>1. mirror'[b].lists = mirror[b].lists + 1
        BY <1>t, <2>5, <3>3, <3>4 DEF CopyRow
      <4>2. Half(k, b) = 1 /\ Half(k, b)' = 0 /\ \A j \in Importers : j # k => Half(j, b)' = Half(j, b)
        BY <2>4, <2>7, <3>4 DEF Half
      <4>3. mirror[b].lists + Half("fast", b) + Half("reconciliation", b) <= 2
        BY <2>6
      <4>4. CASE k = "fast"
        BY <1>i, <3>1, <4>1, <4>2, <4>3, <4>4 DEF Half
      <4>5. CASE k = "reconciliation"
        BY <1>i, <3>1, <4>1, <4>2, <4>3, <4>5 DEF Half
      <4> QED  BY <4>4, <4>5 DEF Importers
    <3> QED  BY <2>3, <3>2, <3>3, <3>4
  <2>9. mirror' \in [LegacyBookings -> CopyRow]
    <3>1. mirror'[c].lists \in 0..2
      <4>1. mirror'[c].lists + Half("fast", c)' + Half("reconciliation", c)' <= 2
        BY <2>2, <2>8
      <4>2. mirror'[c].lists \in Nat
        BY <1>t, <2>2, <2>5 DEF CopyRow
      <4> QED  BY <4>1, <4>2 DEF Half
    <3>2. mirror' = [mirror EXCEPT ![c] = mirror'[c]]
      BY <1>t, <2>1, <2>2, <2>3 DEF DeleteParticipants, CreateParticipants, CopyRow
    <3>3. mirror'[c] \in CopyRow
      BY <1>t, <2>2, <2>5, <3>1 DEF CopyRow
    <3> QED  BY <1>t, <3>2, <3>3
  <2>10. MirrorTypeOK'
    BY <1>t, <2>4, <2>5, <2>9 DEF MirrorTypeOK, RunRow, CopyRow
  <2>11. \A j \in Importers : importers'[j].pc \in {"upsert", "delete", "create"} => importers'[j].booking \in LegacyBookings
    BY <2>2, <2>3, <2>4 DEF MirrorInv
  <2> QED  BY <2>8, <2>10, <2>11 DEF MirrorInv
<1>7. ASSUME NEW b \in LegacyBookings, RevokeCanceled(b) PROVE MirrorInv'
  <2>1. PICK row : row = [importers["reconciliation"] EXCEPT !.todo = importers["reconciliation"].todo \ {b}]
    OBVIOUS
  <2>2. row \in RunRow /\ row.pc = "revoke"
    BY <1>7, <1>t, <1>i, <2>1 DEF RevokeCanceled, RunRow
  <2>3. /\ importers' = [importers EXCEPT !["reconciliation"] = row] /\ UNCHANGED <<doinsport, mirror, token>>
        /\ doors' \in [LegacyBookings -> {"none", "ACTIVE", "REVOKED"}]
    BY <1>7, <1>t, <2>1 DEF RevokeCanceled
  <2> QED  BY <1>t, <1>i, <2>2, <2>3, RunMoves
<1>8. CASE UNCHANGED <<baseVars, mirrorVars>>
  BY <1>8 DEF mirrorVars, MirrorInv, MirrorTypeOK, Half
<1>9. ASSUME NEW k \in Importers, RunStep(k) PROVE MirrorInv'
  BY <1>2, <1>3, <1>4, <1>5, <1>6, <1>9 DEF RunStep
<1>10. CASE ReconciliationStep
  BY <1>3, <1>7, <1>10 DEF ReconciliationStep
<1> QED  BY <1>1, <1>2, <1>3, <1>8, <1>9, <1>10 DEF MirrorNext

\* The copy of Doinsport, the runs and the token keep their types; since the two
\* importers overlap, the participants of a booking may be written twice, and
\* never three times (legacy-import.service.ts:235-261).
THEOREM MirrorTyped == MirrorSpec => []MirrorTypeOK
<1>1. MirrorInv => MirrorTypeOK
  BY DEF MirrorInv
<1> QED  BY <1>1, MirrorStart, MirrorKeeps, PTL DEF MirrorSpec

-----------------------------------------------------------------------------
(***************************************************************************)
(* Folds over a finite set, taken in an order that pick chooses: the folds *)
(* of the community modules and the loops over what is sorted.             *)
(***************************************************************************)
\* g holds the value after each set of elements, taken one by one as pick says.
Folded(base, op, pick, S, g) ==
    g = [s \in SUBSET S |-> IF s = {} THEN base ELSE op[<<pick[s], g[s \ {pick[s]}]>>]]

LEMMA FoldsAgree ==
    ASSUME NEW base, NEW op, NEW pick, NEW A, IsFiniteSet(A), \A s \in SUBSET A : s # {} => pick[s] \in s,
           NEW B, NEW g, NEW h, Folded(base, op, pick, A, g), Folded(base, op, pick, B, h)
    PROVE  \A s \in SUBSET (A \cap B) : g[s] = h[s]
<1> DEFINE T == {s \in SUBSET (A \cap B) : g[s] # h[s]}
<1>1. SUFFICES ASSUME T # {} PROVE FALSE
  OBVIOUS
<1>2. PICK m \in T : \A y \in T : y \subseteq m => y = m
  <2>1. T \subseteq SUBSET A  OBVIOUS
  <2> HIDE DEF T
  <2>2. QED  BY <1>1, <2>1, Smallest
<1>3. m \in SUBSET A /\ m \in SUBSET B
  OBVIOUS
<1>4. m # {}
  BY <1>3 DEF Folded
<1>5. pick[m] \in m
  BY <1>3, <1>4
<1>6. g[m \ {pick[m]}] = h[m \ {pick[m]}]
  BY <1>2, <1>3, <1>5
<1>7. /\ g[m] = op[<<pick[m], g[m \ {pick[m]}]>>]
      /\ h[m] = op[<<pick[m], h[m \ {pick[m]}]>>]
  BY <1>3, <1>4 DEF Folded
<1>8. QED
  BY <1>6, <1>7

LEMMA FoldExists ==
    ASSUME NEW base, NEW op, NEW pick, NEW S, IsFiniteSet(S),
           \A s \in SUBSET S : s # {} => pick[s] \in s
    PROVE  \E g : Folded(base, op, pick, S, g)
<1> DEFINE T == {X \in SUBSET S : ~ \E g : Folded(base, op, pick, X, g)}
<1>1. SUFFICES ASSUME T # {} PROVE FALSE
  OBVIOUS
<1>2. PICK m \in T : \A y \in T : y \subseteq m => y = m
  <2>1. T \subseteq SUBSET S  OBVIOUS
  <2> HIDE DEF T
  <2>2. QED  BY <1>1, <2>1, Smallest
<1> DEFINE G(X) == CHOOSE g : Folded(base, op, pick, X, g)
           rest(X) == X \ {pick[X]}
           h == [s \in SUBSET m |->
                   IF s = {} THEN base
                   ELSE IF s = m THEN op[<<pick[m], G(rest(m))[rest(m)]>>]
                   ELSE G(s)[s]]
<1>3. \A X \in SUBSET m : X # m => Folded(base, op, pick, X, G(X)) /\ IsFiniteSet(X)
  BY <1>2, FS_Subset
<1>4. \A X \in SUBSET m : X # {} => pick[X] \in X
  BY <1>2
<1> HIDE DEF G
<1>5. ASSUME NEW s \in SUBSET m
      PROVE  h[s] = IF s = {} THEN base ELSE op[<<pick[s], h[rest(s)]>>]
  <2>1. CASE s = {}
    BY <2>1
  <2>2. CASE s # {} /\ s = m
    <3>1. rest(m) \in SUBSET m /\ rest(m) # m
      BY <1>4, <2>2
    <3>2. h[rest(m)] = G(rest(m))[rest(m)]
      <4>1. CASE rest(m) = {}
        <5>1. Folded(base, op, pick, rest(m), G(rest(m)))  BY <3>1, <1>3
        <5>2. G(rest(m))[rest(m)] = base  BY <4>1, <5>1 DEF Folded
        <5>3. QED  BY <4>1, <5>2
      <4>2. CASE rest(m) # {}
        BY <4>2, <3>1
      <4>3. QED  BY <4>1, <4>2
    <3>3. QED  BY <2>2, <3>2
  <2>3. CASE s # {} /\ s # m
    <3>1. rest(s) \in SUBSET s /\ rest(s) \in SUBSET m /\ rest(s) # m
      BY <1>4, <2>3
    <3>2. Folded(base, op, pick, s, G(s)) /\ IsFiniteSet(s) /\ Folded(base, op, pick, rest(s), G(rest(s)))
      BY <1>3, <2>3, <3>1
    <3>3. G(s)[rest(s)] = G(rest(s))[rest(s)]
      <4>1. rest(s) \in SUBSET (s \cap rest(s))  BY <3>1
      <4>2. \A x \in SUBSET s : x # {} => pick[x] \in x  BY <1>4
      <4>3. QED  BY <4>1, <4>2, <3>2, FoldsAgree
    <3>4. G(s)[s] = op[<<pick[s], G(s)[rest(s)]>>]
      BY <3>2, <2>3 DEF Folded
    <3>5. h[rest(s)] = G(rest(s))[rest(s)]
      <4>1. CASE rest(s) = {}
        BY <4>1, <3>1, <3>2 DEF Folded
      <4>2. CASE rest(s) # {}
        BY <4>2, <3>1
      <4>3. QED  BY <4>1, <4>2
    <3>6. QED  BY <2>3, <3>3, <3>4, <3>5
  <2>4. QED  BY <2>1, <2>2, <2>3
<1>6. Folded(base, op, pick, m, h)
  <2> DEFINE k == [s \in SUBSET m |-> IF s = {} THEN base ELSE op[<<pick[s], h[rest(s)]>>]]
  <2>1. h = k
    <3>1. \A s \in SUBSET m : h[s] = k[s]  BY <1>5
    <3>2. h = [s \in SUBSET m |-> h[s]]  OBVIOUS
    <3> HIDE DEF h
    <3>3. k = [s \in SUBSET m |-> k[s]]  OBVIOUS
    <3>4. QED  BY <3>1, <3>2, <3>3
  <2> HIDE DEF h
  <2>2. QED  BY <2>1 DEF Folded
<1>7. QED
  BY <1>2, <1>6

\* The value of a fold whose steps stay in a set stays in it.
LEMMA FoldTyped ==
    ASSUME NEW base, NEW op, NEW pick, NEW S, IsFiniteSet(S), \A s \in SUBSET S : s # {} => pick[s] \in s,
           NEW D, base \in D, \A x \in S, v \in D : op[<<x, v>>] \in D,
           NEW g, Folded(base, op, pick, S, g)
    PROVE  \A s \in SUBSET S : g[s] \in D
<1> DEFINE T == {s \in SUBSET S : g[s] \notin D}
<1>1. SUFFICES ASSUME T # {} PROVE FALSE
  OBVIOUS
<1>2. PICK m \in T : \A y \in T : y \subseteq m => y = m
  <2>1. T \subseteq SUBSET S  OBVIOUS
  <2> HIDE DEF T
  <2>2. QED  BY <1>1, <2>1, Smallest
<1>3. m \in SUBSET S /\ g[m] \notin D
  OBVIOUS
<1>4. m # {}
  BY <1>3 DEF Folded
<1>5. pick[m] \in m
  BY <1>3, <1>4
<1>6. g[m \ {pick[m]}] \in D
  BY <1>2, <1>3, <1>5
<1>7. g[m] = op[<<pick[m], g[m \ {pick[m]}]>>]
  BY <1>3, <1>4 DEF Folded
<1>8. QED
  BY <1>3, <1>5, <1>6, <1>7

-----------------------------------------------------------------------------
(* The windows that a coach and students have in common *)
RangeRow == [from : Int, to : Int]

\* g holds what is left of the rows of the coach after each set of students
Cuts(given, base, S, g) ==
    g = [s \in SUBSET S |-> IF s = {} THEN base ELSE intersectRangeLists(g[s \ {Some(s)}], given[Some(s)])]

CommonTo(given, base, S) == (CHOOSE g : Cuts(given, base, S, g))[S]

LEMMA CommonUnfold ==
    ASSUME NEW given, NEW base, NEW S
    PROVE  FoldSet(LAMBDA s, w : intersectRangeLists(w, given[s]), base, S) = CommonTo(given, base, S)
BY DEF FoldSet, MapThenFoldSet, Some, Cuts, CommonTo

\* Intersecting two lists: each window lies in one of each, and a range of
\* both lies in one of the result.
LEMMA ListsIntersected ==
    ASSUME NEW a \in SUBSET RangeRow, NEW b \in SUBSET RangeRow
    PROVE  /\ intersectRangeLists(a, b) \subseteq RangeRow
           /\ \A w \in intersectRangeLists(a, b) : isWithinAnyWindow(w, a) /\ isWithinAnyWindow(w, b)
           /\ \A l \in RangeRow : l.from < l.to /\ isWithinAnyWindow(l, a) /\ isWithinAnyWindow(l, b)
                                   => isWithinAnyWindow(l, intersectRangeLists(a, b))
<1>1. ASSUME NEW x \in RangeRow, NEW y \in RangeRow
      PROVE  LET w == intersectRange(x, y) IN
             /\ w \in RangeRow
             /\ w.from >= x.from /\ w.from >= y.from /\ w.to <= x.to /\ w.to <= y.to
             /\ \A l \in RangeRow : l.from >= x.from /\ l.from >= y.from /\ l.to <= x.to /\ l.to <= y.to
                                    => l.from >= w.from /\ l.to <= w.to
  BY <1>1 DEF RangeRow, intersectRange
<1>2. ASSUME NEW w \in intersectRangeLists(a, b)
      PROVE  w \in RangeRow /\ isWithinAnyWindow(w, a) /\ isWithinAnyWindow(w, b)
  <2>1. PICK x \in a : \E y \in b : w = intersectRange(x, y)  BY <1>2 DEF intersectRangeLists
  <2>2. PICK y \in b : w = intersectRange(x, y)  BY <2>1
  <2>3. x \in RangeRow /\ y \in RangeRow  OBVIOUS
  <2>4. QED  BY <1>1, <2>2, <2>3 DEF isWithinAnyWindow
<1>3. ASSUME NEW l \in RangeRow, l.from < l.to, isWithinAnyWindow(l, a), isWithinAnyWindow(l, b)
      PROVE  isWithinAnyWindow(l, intersectRangeLists(a, b))
  <2>1. PICK x \in a : l.from >= x.from /\ l.to <= x.to  BY <1>3 DEF isWithinAnyWindow
  <2>2. PICK y \in b : l.from >= y.from /\ l.to <= y.to  BY <1>3 DEF isWithinAnyWindow
  <2>3. x \in RangeRow /\ y \in RangeRow  OBVIOUS
  <2>4. PICK w : w = intersectRange(x, y)  OBVIOUS
  <2>5. w \in RangeRow /\ l.from >= w.from /\ l.to <= w.to  BY <1>1, <2>1, <2>2, <2>3, <2>4
  <2>6. w.from < w.to  BY <1>3, <2>5 DEF RangeRow
  <2>7. w \in intersectRangeLists(a, b)  BY <2>4, <2>6 DEF intersectRangeLists
  <2>8. QED  BY <2>5, <2>7 DEF isWithinAnyWindow
<1>4. QED  BY <1>2, <1>3

LEMMA CutsExist ==
    ASSUME NEW given, NEW base \in SUBSET RangeRow, NEW S, IsFiniteSet(S), \A s \in S : given[s] \in SUBSET RangeRow
    PROVE  \E g : Cuts(given, base, S, g)
<1> DEFINE D == SUBSET RangeRow
           op == [z \in S \X D |-> intersectRangeLists(z[2], given[z[1]])]
           pick == [s \in SUBSET S |-> Some(s)]
<1>1. \A s \in SUBSET S : s # {} => pick[s] \in s
  BY DEF Some
<1>2. \A x \in S, v \in D : op[<<x, v>>] = intersectRangeLists(v, given[x])
  OBVIOUS
<1>3. \A x \in S, v \in D : op[<<x, v>>] \in D
  <2> SUFFICES ASSUME NEW x \in S, NEW v \in D PROVE op[<<x, v>>] \in D
    OBVIOUS
  <2>1. PICK b : b = given[x]  OBVIOUS
  <2>2. v \in SUBSET RangeRow /\ b \in SUBSET RangeRow  BY <2>1
  <2>3. intersectRangeLists(v, b) \in SUBSET RangeRow  BY <2>2, ListsIntersected
  <2>4. QED  BY <1>2, <2>1, <2>3
<1>4. \A s \in SUBSET S : pick[s] = Some(s)
  OBVIOUS
<1>5. base \in D
  OBVIOUS
<1> HIDE DEF D, op, pick
<1>6. PICK g : Folded(base, op, pick, S, g)
  BY <1>1, FoldExists
<1>7. \A s \in SUBSET S : g[s] \in D
  BY <1>1, <1>3, <1>5, <1>6, FoldTyped
<1>8. \A s \in SUBSET S : s # {} => op[<<pick[s], g[s \ {pick[s]}]>>] = intersectRangeLists(g[s \ {Some(s)}], given[Some(s)])
  <2> SUFFICES ASSUME NEW s \in SUBSET S, s # {}
               PROVE  op[<<pick[s], g[s \ {pick[s]}]>>] = intersectRangeLists(g[s \ {Some(s)}], given[Some(s)])
    OBVIOUS
  <2>1. pick[s] \in S /\ s \ {pick[s]} \in SUBSET S  BY <1>1
  <2>2. g[s \ {pick[s]}] \in D  BY <1>7, <2>1
  <2>3. QED  BY <1>2, <1>4, <2>1, <2>2
<1>9. g = [s \in SUBSET S |-> IF s = {} THEN base ELSE intersectRangeLists(g[s \ {Some(s)}], given[Some(s)])]
  BY <1>6, <1>8 DEF Folded
<1>10. QED
  BY <1>9 DEF Cuts

\* A range that lies in a window which lies in another
LEMMA WithinTwice ==
    ASSUME NEW l \in RangeRow, NEW a \in SUBSET RangeRow, NEW b \in SUBSET RangeRow,
           isWithinAnyWindow(l, a), \A w \in a : isWithinAnyWindow(w, b)
    PROVE  isWithinAnyWindow(l, b)
<1>1. PICK w \in a : l.from >= w.from /\ l.to <= w.to  BY DEF isWithinAnyWindow
<1>2. PICK x \in b : w.from >= x.from /\ w.to <= x.to  BY DEF isWithinAnyWindow
<1>3. w \in RangeRow /\ x \in RangeRow  OBVIOUS
<1>4. l.from >= x.from /\ l.to <= x.to  BY <1>1, <1>2, <1>3 DEF RangeRow
<1>5. QED  BY <1>4 DEF isWithinAnyWindow

\* What is left after all the students lies in the rows of everybody, and
\* whatever lies in the rows of everybody is left.
LEMMA CommonWindows ==
    ASSUME NEW S, IsFiniteSet(S), NEW base \in SUBSET RangeRow, NEW given,
           \A s \in S : given[s] \in SUBSET RangeRow
    PROVE  LET common == CommonTo(given, base, S) IN
           /\ common \in SUBSET RangeRow
           /\ \A w \in common : isWithinAnyWindow(w, base) /\ \A s \in S : isWithinAnyWindow(w, given[s])
           /\ \A l \in RangeRow : l.from < l.to /\ isWithinAnyWindow(l, base)
                                  /\ (\A s \in S : isWithinAnyWindow(l, given[s])) => isWithinAnyWindow(l, common)
<1> DEFINE g == CHOOSE g : Cuts(given, base, S, g)
<1>1. Cuts(given, base, S, g)
  BY CutsExist
<1>2. CommonTo(given, base, S) = g[S]
  BY DEF CommonTo
<1> HIDE DEF g
<1> DEFINE Good(X) == /\ g[X] \in SUBSET RangeRow
                      /\ \A w \in g[X] : isWithinAnyWindow(w, base) /\ \A s \in X : isWithinAnyWindow(w, given[s])
                      /\ \A l \in RangeRow : l.from < l.to /\ isWithinAnyWindow(l, base)
                             /\ (\A s \in X : isWithinAnyWindow(l, given[s])) => isWithinAnyWindow(l, g[X])
           T == {X \in SUBSET S : ~Good(X)}
<1>3. T = {}
  <2>1. SUFFICES ASSUME T # {} PROVE FALSE
    OBVIOUS
  <2>2. PICK m \in T : \A y \in T : y \subseteq m => y = m
    <3>1. T \subseteq SUBSET S  OBVIOUS
    <3> HIDE DEF T
    <3>2. QED  BY <2>1, <3>1, Smallest
  <2>3. m \in SUBSET S /\ ~Good(m)  BY <2>2
  <2>4. \A y \in SUBSET m : y # m => Good(y)  BY <2>2, <2>3
  <2> HIDE DEF T
  <2>5. m # {}
    <3>1. SUFFICES ASSUME m = {} PROVE FALSE  OBVIOUS
    <3>2. g[m] = base  BY <1>1, <2>3, <3>1 DEF Cuts
    <3>3. \A w \in RangeRow : w \in base => isWithinAnyWindow(w, base)  BY DEF isWithinAnyWindow, RangeRow
    <3>4. Good(m)  BY <3>1, <3>2, <3>3
    <3>5. QED  BY <2>3, <3>4
  <2>6. PICK s : s = Some(m)  OBVIOUS
  <2>7. s \in m  BY <2>5, <2>6 DEF Some
  <2>8. PICK r : r = m \ {s}  OBVIOUS
  <2>9. g[m] = intersectRangeLists(g[r], given[s])  BY <1>1, <2>3, <2>5, <2>6, <2>8 DEF Cuts
  <2>10. Good(r)  BY <2>4, <2>7, <2>8
  <2>11. given[s] \in SUBSET RangeRow  BY <2>3, <2>7
  <2>12. m = r \cup {s}  BY <2>7, <2>8
  <2>13. PICK a : a = g[r]  OBVIOUS
  <2>14. PICK b : b = given[s]  OBVIOUS
  <2>15. a \in SUBSET RangeRow /\ b \in SUBSET RangeRow  BY <2>10, <2>11, <2>13, <2>14
  <2>16. g[m] = intersectRangeLists(a, b)  BY <2>9, <2>13, <2>14
  <2>17. ASSUME NEW w \in g[m]
         PROVE  isWithinAnyWindow(w, base) /\ \A x \in m : isWithinAnyWindow(w, given[x])
    <3>1. w \in RangeRow /\ isWithinAnyWindow(w, a) /\ isWithinAnyWindow(w, b)  BY <2>15, <2>16, ListsIntersected
    <3>2. isWithinAnyWindow(w, base)  BY <2>10, <2>13, <2>15, <3>1, WithinTwice
    <3>3. ASSUME NEW x \in r PROVE isWithinAnyWindow(w, given[x])
      <4>1. given[x] \in SUBSET RangeRow  BY <2>3, <2>8
      <4>2. \A v \in a : isWithinAnyWindow(v, given[x])  BY <2>10, <2>13
      <4>3. PICK c : c = given[x]  OBVIOUS
      <4>4. isWithinAnyWindow(w, c)  BY <2>15, <3>1, <4>1, <4>2, <4>3, WithinTwice
      <4>5. QED  BY <4>3, <4>4
    <3>4. QED  BY <2>12, <2>14, <3>1, <3>2, <3>3
  <2>18. ASSUME NEW l \in RangeRow, l.from < l.to, isWithinAnyWindow(l, base),
                \A x \in m : isWithinAnyWindow(l, given[x])
         PROVE  isWithinAnyWindow(l, g[m])
    <3>1. isWithinAnyWindow(l, a)  BY <2>10, <2>12, <2>13, <2>18
    <3>2. isWithinAnyWindow(l, b)  BY <2>7, <2>14, <2>18
    <3>3. QED  BY <2>15, <2>16, <2>18, <3>1, <3>2, ListsIntersected
  <2>19. g[m] \in SUBSET RangeRow  BY <2>15, <2>16, ListsIntersected
  <2>20. Good(m)  BY <2>17, <2>18, <2>19
  <2>21. QED  BY <2>3, <2>20
<1>4. Good(S)  BY <1>3
<1>5. QED  BY <1>2, <1>4

-----------------------------------------------------------------------------
(* The slots of the calendar *)
OpeningRow == [active : BOOLEAN, court : Courts \cup {None}, from : 0..DayMinutes, to : 0..DayMinutes]
Occupied == [court : Courts, origin : {"V2", "LEGACY"}, from : Int, to : Int,
             status : {"CHECKOUT_PENDING", "CONFIRMED", "CANCELED"}]
CalendarKept ==
    /\ calendar \in [opening : SUBSET OpeningRow, durations : SUBSET DurationRules,
                     closures : SUBSET Closures, bookings : SUBSET Occupied]
    /\ \A b \in calendar.bookings : [court |-> b.court, origin |-> b.origin, from |-> b.from, to |-> b.to] \in Occupations

CourtSlot == [start : SlotStarts, durations : SUBSET (Nat \ {0})]

\* What closes a court or occupies it for a minute of the day is cut to a
\* range that holds the minute.
LEMMA MinuteKept ==
    ASSUME NEW x, x.from \in Int, x.to \in Int, NEW m \in 0..(DayMinutes - 1), m \in x.from..(x.to - 1)
    PROVE  /\ rangesOverlap(x, WholeDay)
           /\ toMinuteRange(x) \in RangeRow
           /\ toMinuteRange(x).from <= m /\ m < toMinuteRange(x).to
BY DayAssumption DEF rangesOverlap, WholeDay, toMinuteRange, intersectRange, RangeRow

\* A slot that the calendar proposes is open and free from its first minute
\* to its last.
LEMMA SlotsPlayable ==
    ASSUME CalendarKept, NEW c \in Courts
    PROVE  /\ getAvailability(calendar, c) \in SUBSET CourtSlot
           /\ \A slot \in getAvailability(calendar, c) : \A d \in slot.durations :
                \A m \in slot.start..(slot.start + d - 1) : Playable(c, m)
<1> DEFINE opening == findOpeningRules(calendar.opening, c)
           rules == findDurationRules(calendar.durations, c)
           closed == findClosures(calendar.closures, c)
           occupying == findOccupyingBookings(calendar.bookings, c)
           blocked == {toMinuteRange(x) : x \in closed \cup occupying}
           range(start, d) == [from |-> start, to |-> start + d]
           valid(start) == {d \in allowedDurationsAt(start, rules) :
                              /\ isWithinAnyWindow(range(start, d), opening)
                              /\ \A b \in blocked : ~rangesOverlap(range(start, d), b)}
<1>1. calendar.opening \in SUBSET OpeningRow /\ calendar.durations \in SUBSET DurationRules
      /\ calendar.closures \in SUBSET Closures /\ calendar.bookings \in SUBSET Occupied
  BY DEF CalendarKept
<1>2. \A start : allowedDurationsAt(start, rules) \in SUBSET (Nat \ {0})
  <2>1. \A w \in rules : w.durations \in SUBSET (Nat \ {0})
    BY <1>1, RulesAssumption DEF findDurationRules
  <2> HIDE DEF rules
  <2>2. QED  BY <2>1 DEF allowedDurationsAt
<1>3. \A slot \in getAvailability(calendar, c) :
        slot \in [start : SlotStarts, durations : SUBSET (Nat \ {0})] /\ slot.durations = valid(slot.start)
  <2>1. \A m : valid(m) \in SUBSET (Nat \ {0})
    BY <1>2
  <2>2. getAvailability(calendar, c) = computeAvailableSlots(opening, rules, blocked)
    BY DEF getAvailability
  <2> HIDE DEF opening, rules, blocked
  <2>3. getAvailability(calendar, c) = {slot \in {[start |-> m, durations |-> valid(m)] : m \in SlotStarts} : slot.durations # {}}
    BY <2>2 DEF computeAvailableSlots
  <2> HIDE DEF valid
  <2>4. QED  BY <2>1, <2>3
<1>4. ASSUME NEW slot \in getAvailability(calendar, c), NEW d \in slot.durations,
             NEW m \in slot.start..(slot.start + d - 1)
      PROVE  Playable(c, m)
  <2>1. slot.start \in Nat /\ d \in Nat /\ d \in valid(slot.start)
    BY <1>3, <1>4, DayAssumption DEF SlotStarts
  <2>2. PICK k : k = range(slot.start, d)  OBVIOUS
  <2>3. /\ isWithinAnyWindow(k, opening)
        /\ \A b \in blocked : ~rangesOverlap(k, b)
    BY <2>1, <2>2
  <2>4. k.from = slot.start /\ k.to = slot.start + d
    BY <2>2
  <2>5. PICK w \in opening : k.from >= w.from /\ k.to <= w.to
    BY <2>3 DEF isWithinAnyWindow
  <2>6. w \in calendar.opening /\ w \in OpeningRow /\ w.active /\ w.court \in {c, None}
    BY <1>1, <2>5 DEF findOpeningRules
  <2>7. w.from \in 0..DayMinutes /\ w.to \in 0..DayMinutes
    BY <2>6 DEF OpeningRow
  <2>8. m \in Nat /\ m >= k.from /\ m < k.to /\ k.from \in Nat /\ k.to \in Nat
    BY <2>1, <2>4
  <2>9. m \in w.from..(w.to - 1) /\ m \in 0..(DayMinutes - 1)
    BY <2>5, <2>7, <2>8, DayAssumption
  <2>10. ASSUME NEW x \in closed \cup occupying, x.from \in Int, x.to \in Int
         PROVE  m \notin x.from..(x.to - 1)
    <3>1. SUFFICES ASSUME m \in x.from..(x.to - 1) PROVE FALSE  OBVIOUS
    <3>2. PICK b : b = toMinuteRange(x)  OBVIOUS
    <3>3. b \in RangeRow /\ b.from <= m /\ m < b.to
      BY <2>9, <2>10, <3>1, <3>2, MinuteKept
    <3>4. b \in blocked
      BY <3>2
    <3>5. rangesOverlap(k, b)
      BY <2>8, <3>3 DEF rangesOverlap, RangeRow
    <3>6. QED  BY <2>3, <3>4, <3>5
  <2>11. ASSUME NEW x \in calendar.closures, x.court = c
         PROVE  m \notin x.from..(x.to - 1)
    <3>1. x.from \in Int /\ x.to \in Int
      BY <1>1, AcademyAssumption
    <3>2. SUFFICES ASSUME m \in x.from..(x.to - 1) PROVE FALSE  OBVIOUS
    <3>3. rangesOverlap(x, WholeDay)
      BY <2>9, <3>1, <3>2, MinuteKept
    <3>4. x \in closed
      BY <2>11, <3>3 DEF findClosures
    <3>5. QED  BY <2>10, <3>1, <3>2, <3>4
  <2>12. ASSUME NEW b \in calendar.bookings, b.court = c, b.status # "CANCELED"
         PROVE  m \notin b.from..(b.to - 1)
    <3>1. b \in Occupied
      BY <1>1
    <3>2. b.from \in Int /\ b.to \in Int /\ b.origin \in {"V2", "LEGACY"} /\ b.status \in {"CHECKOUT_PENDING", "CONFIRMED"}
      BY <2>12, <3>1 DEF Occupied
    <3>3. SUFFICES ASSUME m \in b.from..(b.to - 1) PROVE FALSE  OBVIOUS
    <3>4. rangesOverlap(b, WholeDay)
      BY <2>9, <3>2, <3>3, MinuteKept
    <3>5. b \in occupying
      BY <2>12, <3>2, <3>4 DEF findOccupyingBookings, ActiveBookingStatuses
    <3>6. QED  BY <2>10, <3>2, <3>3, <3>5
  <2>13. QED  BY <2>6, <2>9, <2>11, <2>12 DEF Playable
<1>5. QED  BY <1>3, <1>4 DEF CourtSlot

-----------------------------------------------------------------------------
(* The invariant *)
Partial(S, R) == UNION {[D -> R] : D \in SUBSET S}
SearchRow == [step : {"idle", "rows", "courts", "answered"}, duration : Nat, teacherRows : SUBSET RangeRow,
              studentRows : Partial(Students, SUBSET RangeRow), courtSlots : Partial(Courts, SUBSET CourtSlot),
              offers : SUBSET [from : Nat, to : Nat, courts : SUBSET Courts]]

\* The courts are read when every student has been.
SearchKept(q) == DOMAIN search[q].courtSlots # {} => DOMAIN search[q].studentRows = Students
SearchesKept == search \in [Searches -> SearchRow] /\ \A q \in Searches : SearchKept(q)

Decided(h) == deciding[h] # NoDecision => deciding[h].lesson \in Lessons /\ deciding[h].to \in LessonStatuses

AcademyInv ==
    /\ AcademyTypeOK
    /\ CalendarKept
    /\ SearchesKept
    /\ \A h \in Handlers : Decided(h)

LEMMA PartialAdded ==
    ASSUME NEW S, NEW R, NEW f \in Partial(S, R), NEW x \in S, NEW r \in R
    PROVE  /\ Read(f, x, r) \in Partial(S, R)
           /\ DOMAIN Read(f, x, r) = DOMAIN f \cup {x}
           /\ x \notin DOMAIN f => Read(f, x, r)[x] = r
<1>1. PICK D \in SUBSET S : f \in [D -> R]  BY DEF Partial
<1> DEFINE g == [y \in DOMAIN f \cup {x} |-> IF y = x THEN r ELSE f[y]]
<1>2. Read(f, x, r) = g  BY DEF Read
<1>3. g \in [D \cup {x} -> R]  BY <1>1
<1>4. D \cup {x} \in SUBSET S  OBVIOUS
<1>5. g \in Partial(S, R)  BY <1>3, <1>4 DEF Partial
<1>6. QED  BY <1>1, <1>2, <1>5

\* Nothing has been read at first.
LEMMA NothingRead == ASSUME NEW S, NEW R PROVE << >> \in Partial(S, R)
<1>1. << >> \in [{} -> R]  OBVIOUS
<1>2. {} \in SUBSET S  OBVIOUS
<1>3. QED  BY <1>1, <1>2 DEF Partial

\* Nobody has asked anything at first, and the calendar holds the rules alone.
LEMMA AcademyStart == AcademyInit => AcademyInv
<1> SUFFICES ASSUME AcademyInit PROVE AcademyInv
  OBVIOUS
<1>1. AcademyTypeOK
  BY DEF AcademyInit, AcademyTypeOK, NoSearch, NoDecision, LessonStatuses
<1>2. CalendarKept
  <2>1. OpeningRules \in SUBSET OpeningRow  BY RulesAssumption DEF OpeningRow
  <2>2. QED  BY <2>1 DEF AcademyInit, CalendarKept
<1>3. SearchesKept
  <2>1. << >> \in Partial(Students, SUBSET RangeRow) /\ << >> \in Partial(Courts, SUBSET CourtSlot)
    BY NothingRead
  <2>2. NoSearch \in SearchRow
    BY <2>1 DEF NoSearch, SearchRow
  <2>3. DOMAIN NoSearch.courtSlots = {}
    BY DEF NoSearch
  <2>4. QED  BY <2>2, <2>3 DEF AcademyInit, SearchesKept, SearchKept
<1>4. \A h \in Handlers : Decided(h)
  BY DEF AcademyInit, Decided
<1>5. QED  BY <1>1, <1>2, <1>3, <1>4 DEF AcademyInv

\* An edition of the calendar.
LEMMA CalendarEdited ==
    ASSUME AcademyInv, UNCHANGED <<windows, search, lessons, deciding, links, inviting, asked>>,
           CalendarKept', calendar'.closures \subseteq Closures
    PROVE  AcademyInv'
<1>1. AcademyTypeOK'
  BY DEF AcademyInv, AcademyTypeOK, CalendarKept
<1>2. SearchesKept'
  BY DEF AcademyInv, SearchesKept, SearchKept
<1>3. \A h \in Handlers : Decided(h)'
  BY DEF AcademyInv, Decided
<1>4. QED  BY <1>1, <1>2, <1>3 DEF AcademyInv

CalendarStep ==
    \/ \E r \in OpeningRules : deactivateOpeningRule(r) \/ createOpeningRule(r)
    \/ \E c \in Closures : createCourtClosure(c) \/ deleteCourtClosure(c)
    \/ \E o \in Occupations : BookingAppears(o)
    \/ \E b \in calendar.bookings : BookingMoves(b)

LEMMA CalendarSteps == AcademyInv /\ CalendarStep => AcademyInv'
<1> SUFFICES ASSUME AcademyInv, CalendarStep PROVE AcademyInv'
  OBVIOUS
<1> USE DEF AcademyInv, CalendarKept
<1> DEFINE Calendars == [opening : SUBSET OpeningRow, durations : SUBSET DurationRules,
                         closures : SUBSET Closures, bookings : SUBSET Occupied]
           Known(b) == [court |-> b.court, origin |-> b.origin, from |-> b.from, to |-> b.to] \in Occupations
<1>1. ASSUME NEW k \in Calendars, EditCalendar(k), \A b \in k.bookings : Known(b)
      PROVE  AcademyInv'
  BY <1>1, CalendarEdited DEF EditCalendar
<1>2. ASSUME NEW r \in OpeningRules, NEW a \in BOOLEAN PROVE [r EXCEPT !.active = a] \in OpeningRow
  <2>1. r \in OpeningRow  BY RulesAssumption DEF OpeningRow
  <2>2. QED  BY <2>1 DEF OpeningRow
<1>3. ASSUME NEW r \in OpeningRules, deactivateOpeningRule(r) \/ createOpeningRule(r)
      PROVE  AcademyInv'
  <2>1. PICK off : off = [r EXCEPT !.active = FALSE]  OBVIOUS
  <2>2. PICK on : on = [r EXCEPT !.active = TRUE]  OBVIOUS
  <2>3. off \in OpeningRow /\ on \in OpeningRow  BY <1>2, <2>1, <2>2
  <2>4. CASE deactivateOpeningRule(r)
    <3>1. PICK k : k = [calendar EXCEPT !.opening = (@ \ {r}) \cup {off}]  OBVIOUS
    <3>2. k \in Calendars /\ k.bookings = calendar.bookings  BY <2>3, <3>1
    <3>3. QED  BY <1>1, <2>1, <2>4, <3>1, <3>2 DEF deactivateOpeningRule
  <2>5. CASE createOpeningRule(r)
    <3>1. PICK k : k = [calendar EXCEPT !.opening = @ \cup {on}]  OBVIOUS
    <3>2. k \in Calendars /\ k.bookings = calendar.bookings  BY <2>3, <3>1
    <3>3. QED  BY <1>1, <2>2, <2>5, <3>1, <3>2 DEF createOpeningRule
  <2>6. QED  BY <1>3, <2>4, <2>5
<1>4. ASSUME NEW c \in Closures, createCourtClosure(c) \/ deleteCourtClosure(c)
      PROVE  AcademyInv'
  <2>1. CASE createCourtClosure(c)
    <3>1. PICK k : k = [calendar EXCEPT !.closures = @ \cup {c}]  OBVIOUS
    <3>2. k \in Calendars /\ k.bookings = calendar.bookings  BY <3>1
    <3>3. QED  BY <1>1, <2>1, <3>1, <3>2 DEF createCourtClosure
  <2>2. CASE deleteCourtClosure(c)
    <3>1. PICK k : k = [calendar EXCEPT !.closures = @ \ {c}]  OBVIOUS
    <3>2. k \in Calendars /\ k.bookings = calendar.bookings  BY <3>1
    <3>3. QED  BY <1>1, <2>2, <3>1, <3>2 DEF deleteCourtClosure
  <2>3. QED  BY <1>4, <2>1, <2>2
<1>5. ASSUME NEW o \in Occupations, BookingAppears(o)
      PROVE  AcademyInv'
  <2>1. PICK s \in {"CHECKOUT_PENDING", "CONFIRMED"} :
            EditCalendar([calendar EXCEPT !.bookings = @ \cup {At(o, s)}])
    BY <1>5 DEF BookingAppears
  <2>2. o \in [court : Courts, origin : {"V2", "LEGACY"}, from : Int, to : Int]
    BY AcademyAssumption
  <2>3. PICK a : a = At(o, s)  OBVIOUS
  <2>4. a \in Occupied  BY <2>2, <2>3 DEF At, Occupied
  <2>5. Known(a)
    <3>1. [court |-> a.court, origin |-> a.origin, from |-> a.from, to |-> a.to] = o  BY <2>2, <2>3 DEF At
    <3>2. QED  BY <3>1
  <2>6. PICK k : k = [calendar EXCEPT !.bookings = @ \cup {a}]  OBVIOUS
  <2>7. k \in Calendars /\ k.bookings = calendar.bookings \cup {a}  BY <2>4, <2>6
  <2>8. \A b \in k.bookings : Known(b)  BY <2>5, <2>7
  <2>9. QED  BY <1>1, <2>1, <2>3, <2>6, <2>7, <2>8
<1>6. ASSUME NEW b \in calendar.bookings, BookingMoves(b)
      PROVE  AcademyInv'
  <2>1. PICK s \in {"CONFIRMED", "CANCELED"} :
            EditCalendar([calendar EXCEPT !.bookings = (@ \ {b}) \cup {[b EXCEPT !.status = s]}])
    BY <1>6 DEF BookingMoves
  <2>2. b \in Occupied  OBVIOUS
  <2>3. PICK a : a = [b EXCEPT !.status = s]  OBVIOUS
  <2>4. a \in Occupied /\ a.court = b.court /\ a.origin = b.origin /\ a.from = b.from /\ a.to = b.to
    BY <2>2, <2>3 DEF Occupied
  <2>5. Known(a)  BY <2>4
  <2>6. PICK k : k = [calendar EXCEPT !.bookings = (@ \ {b}) \cup {a}]  OBVIOUS
  <2>7. k \in Calendars /\ k.bookings = (calendar.bookings \ {b}) \cup {a}  BY <2>4, <2>6
  <2>8. \A x \in k.bookings : Known(x)  BY <2>5, <2>7
  <2>9. QED  BY <1>1, <2>1, <2>3, <2>6, <2>7, <2>8
<1>7. QED  BY <1>3, <1>4, <1>5, <1>6 DEF CalendarStep

-----------------------------------------------------------------------------
(* The searches *)
SearchStep ==
    \E q \in Searches :
        \/ \E d \in UNION {r.durations : r \in DurationRules} : SearchBegins(q, d)
        \/ \E s \in Students : ReadStudent(q, s)
        \/ \E c \in Courts : ReadCourt(q, c)
        \/ SearchAnswers(q)

\* The rows of an owner, cut to the day.
LEMMA RowsTyped == ASSUME AcademyInv, NEW owner PROVE RowsOf(owner) \in SUBSET RangeRow
<1>1. ASSUME NEW w \in windows PROVE toMinuteRange(w.row) \in RangeRow
  <2>1. w.row \in [from : Int, to : Int]  BY AcademyAssumption DEF AcademyInv, AcademyTypeOK
  <2>2. QED  BY <2>1, DayAssumption DEF toMinuteRange, intersectRange, WholeDay, RangeRow
<1>2. QED  BY <1>1 DEF RowsOf

\* A search that moves on.
LEMMA SearchMoved ==
    ASSUME AcademyInv, NEW q \in Searches, NEW row \in SearchRow, search' = [search EXCEPT ![q] = row],
           DOMAIN row.courtSlots # {} => DOMAIN row.studentRows = Students,
           UNCHANGED <<calendar, windows, lessons, deciding, links, inviting, asked>>
    PROVE  AcademyInv' /\ search'[q] = row /\ \A o \in Searches \ {q} : search'[o] = search[o]
<1>1. search' \in [Searches -> SearchRow] /\ search'[q] = row /\ \A o \in Searches \ {q} : search'[o] = search[o]
  BY DEF AcademyInv, SearchesKept
<1>2. SearchesKept'
  BY <1>1 DEF AcademyInv, SearchesKept, SearchKept
<1>3. AcademyTypeOK'
  BY <1>1 DEF AcademyInv, AcademyTypeOK, SearchRow
<1>4. CalendarKept' /\ \A h \in Handlers : Decided(h)'
  BY DEF AcademyInv, CalendarKept, Decided
<1>5. QED  BY <1>1, <1>2, <1>3, <1>4 DEF AcademyInv

\* Whatever leaves the slots and the step of a search alone fits.
LEMMA FitsUnread ==
    ASSUME NEW q \in Searches, search'[q].courtSlots = search[q].courtSlots \/ DOMAIN search'[q].courtSlots = {},
           search[q].step # "rows" \/ search'[q].step # "answered"
    PROVE  SearchFits(q)
BY DEF SearchFits, SlotsFit

\* The offers of a search that has read every student.
LEMMA OffersMade ==
    ASSUME NEW row \in SearchRow, DOMAIN row.courtSlots = Courts,
           DOMAIN row.courtSlots # {} => DOMAIN row.studentRows = Students,
           NEW offers,
           offers = computePossibleLessonSlots(row.teacherRows, row.studentRows, row.courtSlots, row.duration)
    PROVE  /\ offers \in SUBSET [from : Nat, to : Nat, courts : SUBSET Courts]
           /\ \A o \in offers :
                /\ o.courts # {}
                /\ \A m \in o.from..(o.to - 1) :
                    Given(row.teacherRows, m) /\ \A s \in Students : Given(row.studentRows[s], m)
           /\ \A c \in Courts : \A slot \in row.courtSlots[c] :
                LET lesson == [from |-> slot.start, to |-> slot.start + row.duration]
                IN  /\ row.duration \in slot.durations
                    /\ isWithinAnyWindow(lesson, row.teacherRows)
                    /\ \A s \in Students : isWithinAnyWindow(lesson, row.studentRows[s])
                    => \E o \in offers : o.from = lesson.from /\ c \in o.courts
<1> DEFINE S == DOMAIN row.studentRows
           common == CommonTo(row.studentRows, row.teacherRows, S)
           courtsAt(m) == {c \in DOMAIN row.courtSlots :
                             \E slot \in row.courtSlots[c] : slot.start = m /\ row.duration \in slot.durations}
           lesson(m) == [from |-> m, to |-> m + row.duration]
           offer(m) == [from |-> m, to |-> m + row.duration, courts |-> courtsAt(m)]
           Fits(m) == isWithinAnyWindow(lesson(m), common)
<1>1. /\ row.duration \in Nat /\ row.teacherRows \in SUBSET RangeRow
      /\ row.studentRows \in Partial(Students, SUBSET RangeRow) /\ row.courtSlots \in Partial(Courts, SUBSET CourtSlot)
  BY DEF SearchRow
<1>2. S \in SUBSET Students /\ \A s \in S : row.studentRows[s] \in SUBSET RangeRow
  BY <1>1 DEF Partial
<1>3. \A c \in Courts : row.courtSlots[c] \in SUBSET CourtSlot
  BY <1>1 DEF Partial
<1>4. IsFiniteSet(S)
  BY <1>2, AcademyAssumption, FS_Subset
<1>5. offers = {offer(m) : m \in {m \in SlotStarts : Fits(m) /\ courtsAt(m) # {}}}
  <2>1. FoldSet(LAMBDA s, w : intersectRangeLists(w, row.studentRows[s]), row.teacherRows, S) = common
    BY CommonUnfold
  <2> HIDE DEF common
  <2>2. QED  BY <2>1 DEF computePossibleLessonSlots
<1>6. /\ common \in SUBSET RangeRow
      /\ \A w \in common : isWithinAnyWindow(w, row.teacherRows) /\ \A s \in S : isWithinAnyWindow(w, row.studentRows[s])
      /\ \A l \in RangeRow : l.from < l.to /\ isWithinAnyWindow(l, row.teacherRows)
             /\ (\A s \in S : isWithinAnyWindow(l, row.studentRows[s])) => isWithinAnyWindow(l, common)
  BY <1>1, <1>2, <1>4, CommonWindows
<1> HIDE DEF common
<1>7. \A m \in SlotStarts : m \in Nat /\ m + row.duration \in Nat
  BY <1>1, DayAssumption DEF SlotStarts
<1>8. offers \in SUBSET [from : Nat, to : Nat, courts : SUBSET Courts]
  <2>1. \A m : courtsAt(m) \in SUBSET Courts
    OBVIOUS
  <2> HIDE DEF courtsAt
  <2>2. \A m \in SlotStarts : offer(m) \in [from : Nat, to : Nat, courts : SUBSET Courts]
    BY <1>7, <2>1
  <2>3. QED  BY <1>5, <2>2
<1>9. ASSUME NEW o \in offers
      PROVE  /\ o.courts # {}
             /\ \A m \in o.from..(o.to - 1) :
                  Given(row.teacherRows, m) /\ \A s \in Students : Given(row.studentRows[s], m)
  <2>1. PICK start \in SlotStarts : Fits(start) /\ courtsAt(start) # {} /\ o = offer(start)
    BY <1>5
  <2>2. o.courts # {} /\ o.from = start /\ o.to = start + row.duration
    BY <2>1
  <2>3. S = Students
    BY <2>1
  <2>4. PICK w \in common : start >= w.from /\ start + row.duration <= w.to
    BY <2>1 DEF isWithinAnyWindow
  <2>5. w \in RangeRow
    BY <1>6
  <2>6. ASSUME NEW given \in SUBSET RangeRow, isWithinAnyWindow(w, given), NEW m \in o.from..(o.to - 1)
        PROVE  Given(given, m)
    <3>1. PICK r \in given : w.from >= r.from /\ w.to <= r.to
      BY <2>6 DEF isWithinAnyWindow
    <3>2. r \in RangeRow  OBVIOUS
    <3>3. m \in r.from..(r.to - 1)
      BY <1>1, <1>7, <2>2, <2>4, <2>5, <3>1, <3>2 DEF RangeRow
    <3>4. QED  BY <3>3 DEF Given
  <2>7. QED  BY <1>1, <1>2, <1>6, <2>2, <2>3, <2>6
<1>10. ASSUME NEW c \in Courts, NEW slot \in row.courtSlots[c], row.duration \in slot.durations,
              isWithinAnyWindow(lesson(slot.start), row.teacherRows),
              \A s \in Students : isWithinAnyWindow(lesson(slot.start), row.studentRows[s])
       PROVE  \E o \in offers : o.from = slot.start /\ c \in o.courts
  <2>1. slot \in CourtSlot
    BY <1>3
  <2>2. slot.start \in SlotStarts /\ row.duration \in Nat \ {0}
    BY <1>10, <2>1 DEF CourtSlot
  <2>3. PICK l : l = lesson(slot.start)  OBVIOUS
  <2>4. l \in RangeRow /\ l.from < l.to
    BY <1>7, <2>2, <2>3 DEF RangeRow
  <2>5. \A s \in S : isWithinAnyWindow(l, row.studentRows[s])
    BY <1>2, <1>10, <2>3
  <2>6. isWithinAnyWindow(l, row.teacherRows)
    BY <1>10, <2>3
  <2>7. isWithinAnyWindow(l, common)
    BY <1>6, <2>4, <2>5, <2>6
  <2>8. Fits(slot.start)
    BY <2>3, <2>7
  <2>9. c \in courtsAt(slot.start)
    BY <1>10
  <2>10. PICK o : o = offer(slot.start)  OBVIOUS
  <2>11. o \in offers
    BY <1>5, <2>2, <2>8, <2>9, <2>10
  <2>12. QED  BY <2>9, <2>10, <2>11
<1>11. QED  BY <1>8, <1>9, <1>10

LEMMA SearchSteps ==
    AcademyInv /\ SearchStep => AcademyInv' /\ \A q \in Searches : SearchFits(q)
<1> SUFFICES ASSUME AcademyInv, SearchStep PROVE AcademyInv' /\ \A q \in Searches : SearchFits(q)
  OBVIOUS
<1>1. PICK q \in Searches :
        \/ \E d \in UNION {r.durations : r \in DurationRules} : SearchBegins(q, d)
        \/ \E s \in Students : ReadStudent(q, s)
        \/ \E c \in Courts : ReadCourt(q, c)
        \/ SearchAnswers(q)
  BY DEF SearchStep
<1>2. PICK old : old = search[q]  OBVIOUS
<1>3. old \in SearchRow /\ (DOMAIN old.courtSlots # {} => DOMAIN old.studentRows = Students)
  BY <1>2 DEF AcademyInv, SearchesKept, SearchKept
<1>4. ASSUME NEW row \in SearchRow, search' = [search EXCEPT ![q] = row],
             UNCHANGED <<calendar, windows, lessons, deciding, links, inviting, asked>>,
             DOMAIN row.courtSlots # {} => DOMAIN row.studentRows = Students, SearchFits(q)
      PROVE  AcademyInv' /\ \A o \in Searches : SearchFits(o)
  <2>1. AcademyInv' /\ \A o \in Searches \ {q} : search'[o] = search[o]
    BY <1>4, SearchMoved
  <2>2. \A o \in Searches \ {q} : search[o].step # "rows" \/ search'[o].step # "answered"
    BY <2>1
  <2>3. \A o \in Searches \ {q} : SearchFits(o)
    BY <2>1, <2>2, FitsUnread
  <2>4. QED  BY <1>4, <2>1, <2>3
<1>5. ASSUME NEW row, search' = [search EXCEPT ![q] = row] PROVE search'[q] = row
  BY <1>5 DEF AcademyInv, SearchesKept
<1>6. ASSUME NEW d \in UNION {r.durations : r \in DurationRules}, SearchBegins(q, d)
      PROVE  AcademyInv' /\ \A o \in Searches : SearchFits(o)
  <2>1. PICK row : row = [NoSearch EXCEPT !.step = "rows", !.duration = d, !.teacherRows = RowsOf("coach")]  OBVIOUS
  <2>2. d \in Nat  BY RulesAssumption
  <2>3. << >> \in Partial(Students, SUBSET RangeRow) /\ << >> \in Partial(Courts, SUBSET CourtSlot)
    BY NothingRead
  <2>4. RowsOf("coach") \in SUBSET RangeRow  BY RowsTyped
  <2>5. row = [step |-> "rows", duration |-> d, teacherRows |-> RowsOf("coach"), studentRows |-> << >>,
               courtSlots |-> << >>, offers |-> {}]
    BY <2>1 DEF NoSearch
  <2>6. row \in SearchRow /\ DOMAIN row.courtSlots = {} /\ row.step # "answered"
    BY <2>2, <2>3, <2>4, <2>5 DEF SearchRow
  <2>7. search' = [search EXCEPT ![q] = row]
    BY <1>6, <2>1 DEF SearchBegins
  <2>8. SearchFits(q)
    BY <1>5, <2>6, <2>7, FitsUnread
  <2>9. QED  BY <1>4, <1>6, <2>6, <2>7, <2>8 DEF SearchBegins
<1>7. ASSUME NEW s \in Students, ReadStudent(q, s)
      PROVE  AcademyInv' /\ \A o \in Searches : SearchFits(o)
  <2>1. old.step = "rows" /\ s \notin DOMAIN old.studentRows
    BY <1>2, <1>7 DEF ReadStudent
  <2>2. DOMAIN old.courtSlots = {}
    BY <1>3, <2>1
  <2>3. PICK f : f = Read(old.studentRows, s, RowsOf(s))  OBVIOUS
  <2>4. f \in Partial(Students, SUBSET RangeRow)
    <3>1. old.studentRows \in Partial(Students, SUBSET RangeRow)  BY <1>3 DEF SearchRow
    <3>2. RowsOf(s) \in SUBSET RangeRow  BY RowsTyped
    <3>3. QED  BY <2>3, <3>1, <3>2, PartialAdded
  <2>5. PICK row : row = [old EXCEPT !.studentRows = f]  OBVIOUS
  <2>6. row \in SearchRow /\ row.courtSlots = old.courtSlots /\ row.step = "rows"
    BY <1>3, <2>1, <2>4, <2>5 DEF SearchRow
  <2>7. search' = [search EXCEPT ![q] = row]
    BY <1>2, <1>7, <2>3, <2>5 DEF ReadStudent
  <2>8. SearchFits(q)
    BY <1>5, <2>2, <2>6, <2>7, FitsUnread
  <2>9. QED  BY <1>4, <1>7, <2>2, <2>6, <2>7, <2>8 DEF ReadStudent
<1>8. ASSUME NEW c \in Courts, ReadCourt(q, c)
      PROVE  AcademyInv' /\ \A o \in Searches : SearchFits(o)
  <2>1. old.step = "rows" /\ DOMAIN old.studentRows = Students /\ c \notin DOMAIN old.courtSlots
    BY <1>2, <1>8 DEF ReadCourt
  <2>2. PICK slots : slots = getAvailability(calendar, c)  OBVIOUS
  <2>3. /\ slots \in SUBSET CourtSlot
        /\ \A slot \in slots : \A d \in slot.durations : \A m \in slot.start..(slot.start + d - 1) : Playable(c, m)
    BY <2>2, SlotsPlayable DEF AcademyInv
  <2>4. PICK f : f = Read(old.courtSlots, c, slots)  OBVIOUS
  <2>5. f \in Partial(Courts, SUBSET CourtSlot) /\ DOMAIN f = DOMAIN old.courtSlots \cup {c} /\ f[c] = slots
    <3>1. PICK g : g = old.courtSlots  OBVIOUS
    <3>2. g \in Partial(Courts, SUBSET CourtSlot) /\ c \notin DOMAIN g  BY <1>3, <2>1, <3>1 DEF SearchRow
    <3>3. PICK R : R = SUBSET CourtSlot  OBVIOUS
    <3>4. g \in Partial(Courts, R) /\ slots \in R  BY <2>3, <3>2, <3>3
    <3>5. f = Read(g, c, slots)  BY <2>4, <3>1
    <3>6. f \in Partial(Courts, R) /\ DOMAIN f = DOMAIN g \cup {c} /\ f[c] = slots
      BY <3>2, <3>4, <3>5, PartialAdded
    <3>7. QED  BY <3>1, <3>3, <3>6
  <2>6. PICK row : row = [old EXCEPT !.courtSlots = f]  OBVIOUS
  <2>7. row \in SearchRow /\ row.courtSlots = f /\ row.studentRows = old.studentRows /\ row.step = "rows"
    BY <1>3, <2>1, <2>5, <2>6 DEF SearchRow
  <2>8. search' = [search EXCEPT ![q] = row]
    BY <1>2, <1>8, <2>2, <2>4, <2>6 DEF ReadCourt
  <2>9. search'[q] = row
    BY <1>5, <2>8
  <2>10. SlotsFit(q)
    BY <1>2, <2>3, <2>5, <2>7, <2>9 DEF SlotsFit
  <2>11. SearchFits(q)
    BY <2>7, <2>9, <2>10 DEF SearchFits
  <2>12. QED  BY <1>4, <1>8, <2>1, <2>7, <2>8, <2>11 DEF ReadCourt
<1>9. ASSUME SearchAnswers(q)
      PROVE  AcademyInv' /\ \A o \in Searches : SearchFits(o)
  <2>1. DOMAIN old.courtSlots = Courts
    BY <1>2, <1>9 DEF SearchAnswers
  <2>2. PICK offers :
          offers = computePossibleLessonSlots(old.teacherRows, old.studentRows, old.courtSlots, old.duration)
    OBVIOUS
  <2>3. PICK row : row = [old EXCEPT !.step = "answered", !.offers = offers]  OBVIOUS
  <2>4. /\ offers \in SUBSET [from : Nat, to : Nat, courts : SUBSET Courts]
        /\ \A o \in offers :
             /\ o.courts # {}
             /\ \A m \in o.from..(o.to - 1) :
                 Given(old.teacherRows, m) /\ \A s \in Students : Given(old.studentRows[s], m)
        /\ \A c \in Courts : \A slot \in old.courtSlots[c] :
             LET lesson == [from |-> slot.start, to |-> slot.start + old.duration]
             IN  /\ old.duration \in slot.durations
                 /\ isWithinAnyWindow(lesson, old.teacherRows)
                 /\ \A s \in Students : isWithinAnyWindow(lesson, old.studentRows[s])
                 => \E o \in offers : o.from = lesson.from /\ c \in o.courts
    BY <1>3, <2>1, <2>2, OffersMade
  <2>5. row \in SearchRow /\ row.courtSlots = old.courtSlots /\ row.studentRows = old.studentRows /\ row.offers = offers
    BY <1>3, <2>3, <2>4 DEF SearchRow
  <2>6. search' = [search EXCEPT ![q] = row]
    BY <1>2, <1>9, <2>2, <2>3 DEF SearchAnswers
  <2>7. search'[q] = row
    BY <1>5, <2>6
  <2>8. NoOfferTooMany(q)
    BY <1>2, <2>4, <2>5, <2>7 DEF NoOfferTooMany
  <2>9. NoOfferMissing(q)
    BY <1>2, <2>4, <2>5, <2>7 DEF NoOfferMissing
  <2>10. SlotsFit(q)
    BY <1>2, <2>5, <2>7 DEF SlotsFit
  <2>11. SearchFits(q)
    BY <2>8, <2>9, <2>10 DEF SearchFits
  <2>12. QED  BY <1>3, <1>4, <1>9, <2>5, <2>6, <2>11 DEF SearchAnswers
<1>10. QED  BY <1>1, <1>6, <1>7, <1>8, <1>9

-----------------------------------------------------------------------------
(* The free times, the links and the lessons *)
HandlerStep ==
    \/ \E row \in FreeTimes :
        \/ addTeacherAvailability(row)
        \/ \E k \in Links, s \in Students : addStudentAvailability(k, s, row)
    \/ \E w \in windows : deleteAvailability(w)
    \/ \E k \in Links, s \in Students : submitCourseRequest(k, s)
    \/ \E h \in Handlers, s \in Students : RevokeActiveInvitations(h, s)
    \/ \E h \in Handlers, k \in Links : createInvitation(h, k)
    \/ \E k \in Links : LinkEnds(k)

LessonStep ==
    \/ \E l \in Lessons : proposeLesson(l)
    \/ \E h \in Handlers, l \in Lessons, to \in {"CONFIRMED", "CANCELLED"} : CheckTransition(h, l, to)
    \/ \E h \in Handlers : updateLessonStatus(h)

LEMMA HandlerSteps ==
    AcademyInv /\ HandlerStep => AcademyInv' /\ UNCHANGED search
<1> SUFFICES ASSUME AcademyInv, HandlerStep PROVE AcademyInv' /\ UNCHANGED search
  OBVIOUS
<1> DEFINE LinkRow == [student : Students \cup {None}, used : BOOLEAN, dead : BOOLEAN]
<1> USE DEF AcademyInv, AcademyTypeOK
<1>1. ASSUME UNCHANGED <<calendar, search, lessons, deciding>>, windows' \subseteq [owner : Owners, row : FreeTimes],
             links' \in [Links -> LinkRow], inviting' \in [Handlers -> Students \cup {None}], asked' \subseteq Students
      PROVE  AcademyInv' /\ UNCHANGED search
  BY <1>1 DEF CalendarKept, SearchesKept, SearchKept, Decided
<1>2. \A k \in Links : MarkedUsed(k) \in [Links -> LinkRow]
  BY DEF MarkedUsed
<1>3. ASSUME NEW row \in FreeTimes, addTeacherAvailability(row) PROVE AcademyInv' /\ UNCHANGED search
  BY <1>1, <1>3 DEF addTeacherAvailability, Owners
<1>4. ASSUME NEW row \in FreeTimes, NEW k \in Links, NEW s \in Students, addStudentAvailability(k, s, row)
      PROVE  AcademyInv' /\ UNCHANGED search
  BY <1>1, <1>2, <1>4 DEF addStudentAvailability, Owners
<1>5. ASSUME NEW w \in windows, deleteAvailability(w) PROVE AcademyInv' /\ UNCHANGED search
  BY <1>1, <1>2, <1>5 DEF deleteAvailability
<1>6. ASSUME NEW k \in Links, NEW s \in Students, submitCourseRequest(k, s) PROVE AcademyInv' /\ UNCHANGED search
  BY <1>1, <1>2, <1>6 DEF submitCourseRequest
<1>7. ASSUME NEW h \in Handlers, NEW s \in Students, RevokeActiveInvitations(h, s)
      PROVE  AcademyInv' /\ UNCHANGED search
  <2>1. links \in [Links -> LinkRow]  OBVIOUS
  <2>2. \A k \in Links : [links[k] EXCEPT !.dead = TRUE] \in LinkRow /\ links[k] \in LinkRow  BY <2>1
  <2> HIDE DEF LinkRow, AcademyInv, AcademyTypeOK
  <2>3. links' \in [Links -> LinkRow]  BY <1>7, <2>2 DEF RevokeActiveInvitations
  <2> USE DEF LinkRow, AcademyInv, AcademyTypeOK
  <2>4. QED  BY <1>1, <1>7, <2>3 DEF RevokeActiveInvitations
<1>8. ASSUME NEW h \in Handlers, NEW k \in Links, createInvitation(h, k) PROVE AcademyInv' /\ UNCHANGED search
  <2>1. links' \in [Links -> LinkRow]  BY <1>8 DEF createInvitation
  <2>2. QED  BY <1>1, <1>8, <2>1 DEF createInvitation
<1>9. ASSUME NEW k \in Links, LinkEnds(k) PROVE AcademyInv' /\ UNCHANGED search
  BY <1>1, <1>9 DEF LinkEnds
<1>10. QED  BY <1>3, <1>4, <1>5, <1>6, <1>7, <1>8, <1>9 DEF HandlerStep

LEMMA LessonSteps ==
    AcademyInv /\ LessonStep => AcademyInv' /\ UNCHANGED search
<1> SUFFICES ASSUME AcademyInv, LessonStep PROVE AcademyInv' /\ UNCHANGED search
  OBVIOUS
<1> DEFINE LessonRow == [status : LessonStatuses, notices : SUBSET LessonStatuses]
           Deciding == [lesson : Lessons \cup {None}, to : LessonStatuses \cup {None}]
<1>1. lessons \in [Lessons -> LessonRow] /\ deciding \in [Handlers -> Deciding]
  BY DEF AcademyInv, AcademyTypeOK
<1>2. ASSUME UNCHANGED <<calendar, windows, search, links, inviting, asked>>,
             lessons' \in [Lessons -> LessonRow], deciding' \in [Handlers -> Deciding],
             \A h \in Handlers : Decided(h)'
      PROVE  AcademyInv' /\ UNCHANGED search
  BY <1>2 DEF AcademyInv, AcademyTypeOK, CalendarKept, SearchesKept, SearchKept
<1>3. ASSUME NEW l \in Lessons, proposeLesson(l) PROVE AcademyInv' /\ UNCHANGED search
  <2>1. lessons' \in [Lessons -> LessonRow]  BY <1>1, <1>3 DEF proposeLesson, LessonStatuses
  <2>2. \A h \in Handlers : Decided(h)'  BY <1>3 DEF proposeLesson, AcademyInv, Decided
  <2>3. QED  BY <1>1, <1>2, <1>3, <2>1, <2>2 DEF proposeLesson
<1>4. ASSUME NEW h \in Handlers, NEW l \in Lessons, NEW to \in {"CONFIRMED", "CANCELLED"}, CheckTransition(h, l, to)
      PROVE  AcademyInv' /\ UNCHANGED search
  <2>1. deciding' = [deciding EXCEPT ![h] = [lesson |-> l, to |-> to]] /\ to \in LessonStatuses
    BY <1>4 DEF CheckTransition, LessonStatuses
  <2>2. deciding' \in [Handlers -> Deciding]  BY <1>1, <2>1
  <2>3. \A o \in Handlers : Decided(o)'  BY <1>1, <2>1 DEF AcademyInv, Decided
  <2>4. QED  BY <1>1, <1>2, <1>4, <2>2, <2>3 DEF CheckTransition
<1>5. ASSUME NEW h \in Handlers, updateLessonStatus(h) PROVE AcademyInv' /\ UNCHANGED search
  <2>1. PICK l : l = deciding[h].lesson  OBVIOUS
  <2>2. PICK to : to = deciding[h].to  OBVIOUS
  <2>3. l \in Lessons /\ to \in LessonStatuses  BY <1>5, <2>1, <2>2 DEF updateLessonStatus, AcademyInv, Decided
  <2>4. lessons' = [lessons EXCEPT ![l].status = to, ![l].notices = @ \cup {to}]
    BY <1>5, <2>1, <2>2 DEF updateLessonStatus
  <2>5. lessons' \in [Lessons -> LessonRow]  BY <1>1, <2>3, <2>4
  <2>6. deciding' = [deciding EXCEPT ![h] = NoDecision]  BY <1>5 DEF updateLessonStatus
  <2>7. deciding' \in [Handlers -> Deciding]  BY <1>1, <2>6 DEF NoDecision
  <2>8. \A o \in Handlers : Decided(o)'  BY <1>1, <2>6 DEF AcademyInv, Decided
  <2>9. QED  BY <1>2, <1>5, <2>5, <2>7, <2>8 DEF updateLessonStatus
<1>6. QED  BY <1>3, <1>4, <1>5 DEF LessonStep

\* A step of the academy, or of another component, keeps the invariant, and
\* every search fits.
LEMMA AcademySteps ==
    AcademyInv /\ (AcademyNext \/ UNCHANGED academyVars) => AcademyInv' /\ \A q \in Searches : SearchFits(q)
<1> SUFFICES ASSUME AcademyInv, AcademyNext \/ UNCHANGED academyVars
             PROVE  AcademyInv' /\ \A q \in Searches : SearchFits(q)
  OBVIOUS
<1>1. AcademyNext => CalendarStep \/ SearchStep \/ HandlerStep \/ LessonStep
  BY Zenon DEF AcademyNext, CalendarStep, SearchStep, HandlerStep, LessonStep
<1>2. ASSUME UNCHANGED search PROVE \A q \in Searches : SearchFits(q)
  <2>1. \A q \in Searches : search'[q] = search[q]  BY <1>2
  <2>2. \A q \in Searches : search[q].step # "rows" \/ search'[q].step # "answered"  BY <2>1
  <2>3. QED  BY <2>1, <2>2, FitsUnread
<1>3. CalendarStep => UNCHANGED search
  BY DEF CalendarStep, deactivateOpeningRule, createOpeningRule, createCourtClosure, deleteCourtClosure,
         BookingAppears, BookingMoves, EditCalendar
<1>4. CASE UNCHANGED academyVars
  <2>1. UNCHANGED <<calendar, windows, search, lessons, deciding, links, inviting, asked>>
    BY <1>4 DEF academyVars
  <2>2. AcademyInv'
    BY <2>1 DEF AcademyInv, AcademyTypeOK, CalendarKept, SearchesKept, SearchKept, Decided
  <2>3. QED  BY <1>2, <2>1, <2>2
<1>5. QED  BY <1>1, <1>2, <1>3, <1>4, CalendarSteps, SearchSteps, HandlerSteps, LessonSteps

\* The state of the calendar, the searches and the lessons keeps its type in
\* every run.
THEOREM AcademyTyped == AcademySpec => []AcademyTypeOK
<1>1. AcademyInv /\ [AcademyNext]_<<baseVars, academyVars>> => AcademyInv'
  BY AcademySteps
<1>2. AcademyInv => AcademyTypeOK
  BY DEF AcademyInv
<1>3. QED
  BY <1>1, <1>2, AcademyStart, PTL DEF AcademySpec

\* Whatever changes between the queries of a search, its slots were playable
\* when they were read, and its offers are the lessons that the coach, the
\* students and a court can give: none too many, none missing
\* (academy-scheduling.ts:77-121, slot-calculator.ts:57-80).
THEOREM OffersRight == AcademySpec => OffersFit
<1>1. AcademyInv /\ [AcademyNext]_<<baseVars, academyVars>> => AcademyInv' /\ [\A q \in Searches : SearchFits(q)]_<<baseVars, academyVars>>
  BY AcademySteps
<1>2. QED
  BY <1>1, AcademyStart, PTL DEF AcademySpec, OffersFit

-----------------------------------------------------------------------------
(* The light of a court *)
\* A minute in which the light is on
Covers(r, m) == r.from <= m /\ m < r.to
Lit(plan, m) == \E i \in 1..Len(plan) : Covers(plan[i], m)

\* A plan of the light: each interval ends before the next one starts.
Plan(p) ==
    /\ p \in Seq(RangeRow)
    /\ \A i \in 1..Len(p) : p[i].from < p[i].to
    /\ \A i, j \in 1..Len(p) : i < j => p[i].to < p[j].from

\* One turn of the loop, with an interval that starts after all the others.
LEMMA TurnMerges ==
    ASSUME NEW p, Plan(p), NEW x \in RangeRow, x.from < x.to,
           \A i \in 1..Len(p) : p[i].from <= x.from
    PROVE  LET q == mergeNext(p, x) IN
           /\ Plan(q)
           /\ \A m \in Int : Lit(q, m) <=> Lit(p, m) \/ Covers(x, m)
           /\ \A i \in 1..Len(q) : q[i].from = x.from \/ \E j \in 1..Len(p) : q[i].from = p[j].from
<1>0. p \in Seq(RangeRow) /\ Len(p) \in Nat /\ \A i \in 1..Len(p) : p[i] \in RangeRow
  BY DEF Plan
<1>1. CASE p = << >> \/ x.from > Last(p).to
  <2>1. PICK q : q = Append(p, x)  OBVIOUS
  <2>2. mergeNext(p, x) = q
    BY <1>1, <2>1 DEF mergeNext
  <2>3. /\ q \in Seq(RangeRow) /\ Len(q) = Len(p) + 1 /\ q[Len(p) + 1] = x
        /\ \A i \in 1..Len(p) : q[i] = p[i]
    BY <1>0, <2>1
  <2>4. \A i \in 1..Len(p) : p[i].to < x.from
    <3> SUFFICES ASSUME NEW i \in 1..Len(p) PROVE p[i].to < x.from
      OBVIOUS
    <3>1. Len(p) \in 1..Len(p) /\ x.from > p[Len(p)].to
      BY <1>0, <1>1 DEF Last
    <3>2. i # Len(p) => p[i].to < p[Len(p)].from
      BY <1>0, <3>1 DEF Plan
    <3>3. p[Len(p)].from < p[Len(p)].to
      BY <3>1 DEF Plan
    <3>4. p[i] \in RangeRow /\ p[Len(p)] \in RangeRow
      BY <1>0, <3>1
    <3>5. QED  BY <3>1, <3>2, <3>3, <3>4 DEF RangeRow
  <2>5. Plan(q)
    <3>1. \A i \in 1..Len(q) : q[i].from < q[i].to
      BY <1>0, <2>3 DEF Plan
    <3>2. ASSUME NEW i \in 1..Len(q), NEW j \in 1..Len(q), i < j PROVE q[i].to < q[j].from
      <4>1. i \in 1..Len(p)  BY <1>0, <2>3, <3>2
      <4>2. CASE j \in 1..Len(p)  BY <2>3, <3>2, <4>1, <4>2 DEF Plan
      <4>3. CASE j = Len(p) + 1  BY <2>3, <2>4, <4>1, <4>3
      <4>4. QED  BY <1>0, <2>3, <4>2, <4>3
    <3>3. QED  BY <2>3, <3>1, <3>2 DEF Plan
  <2>6. \A m \in Int : Lit(q, m) <=> Lit(p, m) \/ Covers(x, m)
    <3>1. 1..Len(q) = 1..Len(p) \cup {Len(p) + 1}  BY <1>0, <2>3
    <3>2. QED  BY <2>3, <3>1 DEF Lit
  <2>7. \A i \in 1..Len(q) : q[i].from = x.from \/ \E j \in 1..Len(p) : q[i].from = p[j].from
    BY <1>0, <2>3
  <2>8. QED  BY <2>2, <2>5, <2>6, <2>7
<1>2. CASE p # << >> /\ ~(x.from > Last(p).to)
  <2>1. PICK n : n = Len(p)  OBVIOUS
  <2>2. n \in 1..Len(p) /\ n = Len(p) /\ Last(p) = p[n] /\ p[n] \in RangeRow
    BY <1>0, <1>2, <2>1 DEF Last
  <2>3. PICK l : l = p[n]  OBVIOUS
  <2>4. l \in RangeRow /\ l.from <= x.from /\ x.from <= l.to /\ l.from < l.to
    BY <1>2, <2>2, <2>3 DEF Plan, RangeRow
  <2>5. CASE x.to > l.to
    <3>1. PICK w : w = [l EXCEPT !.to = x.to]  OBVIOUS
    <3>2. w \in RangeRow /\ w.from = l.from /\ w.to = x.to
      BY <2>4, <3>1 DEF RangeRow
    <3>3. PICK q : q = [p EXCEPT ![n] = w]  OBVIOUS
    <3>4. mergeNext(p, x) = q
      BY <1>2, <2>1, <2>2, <2>3, <2>5, <3>1, <3>3 DEF mergeNext
    <3>5. /\ q \in Seq(RangeRow) /\ Len(q) = Len(p) /\ q[n] = w
          /\ \A i \in 1..Len(p) : i # n => q[i] = p[i]
      BY <1>0, <2>2, <3>2, <3>3
    <3>6. Plan(q)
      <4>1. ASSUME NEW i \in 1..Len(q) PROVE q[i].from < q[i].to
        <5>1. w.from < w.to  BY <2>4, <2>5, <3>2 DEF RangeRow
        <5>2. CASE i = n  BY <3>5, <5>1, <5>2
        <5>3. CASE i # n  BY <3>5, <5>3 DEF Plan
        <5>4. QED  BY <5>2, <5>3
      <4>2. ASSUME NEW i \in 1..Len(q), NEW j \in 1..Len(q), i < j PROVE q[i].to < q[j].from
        <5>1. i # n /\ q[i] = p[i] /\ q[j].from = p[j].from
          BY <1>0, <2>2, <2>3, <3>2, <3>5, <4>2
        <5>2. QED  BY <3>5, <4>2, <5>1 DEF Plan
      <4>3. QED  BY <3>5, <4>1, <4>2 DEF Plan
    <3>7. \A m \in Int : Covers(w, m) <=> Covers(l, m) \/ Covers(x, m)
      BY <2>4, <2>5, <3>2 DEF Covers, RangeRow
    <3>8. \A m \in Int : Lit(q, m) <=> Lit(p, m) \/ Covers(x, m)
      <4> SUFFICES ASSUME NEW m \in Int PROVE Lit(q, m) <=> Lit(p, m) \/ Covers(x, m)
        OBVIOUS
      <4>1. Lit(p, m) <=> Covers(l, m) \/ \E i \in 1..Len(p) : i # n /\ Covers(p[i], m)
        BY <2>2, <2>3 DEF Lit
      <4>2. Lit(q, m) <=> Covers(w, m) \/ \E i \in 1..Len(p) : i # n /\ Covers(p[i], m)
        BY <2>2, <3>5 DEF Lit
      <4>3. QED  BY <3>7, <4>1, <4>2
    <3>9. \A i \in 1..Len(q) : \E j \in 1..Len(p) : q[i].from = p[j].from
      BY <2>2, <2>3, <3>2, <3>5
    <3>10. QED  BY <3>4, <3>6, <3>8, <3>9
  <2>6. CASE ~(x.to > l.to)
    <3>1. mergeNext(p, x) = p
      BY <1>2, <2>2, <2>3, <2>6 DEF mergeNext
    <3>2. \A m \in Int : Covers(x, m) => Covers(l, m)
      BY <2>4, <2>6 DEF Covers, RangeRow
    <3>3. \A m \in Int : Covers(x, m) => Lit(p, m)
      BY <2>2, <2>3, <3>2 DEF Lit
    <3>4. QED  BY <3>1, <3>3
  <2>7. QED  BY <2>5, <2>6
<1>3. QED  BY <1>1, <1>2

\* Of finitely many intervals one starts last.
LEMMA LatestStarts ==
    ASSUME NEW S \in SUBSET RangeRow, IsFiniteSet(S), S # {}
    PROVE  Latest(S) \in S /\ \A y \in S : Latest(S).from >= y.from
<1> DEFINE after(y) == {z \in S : z.from > y.from}
           T == {after(y) : y \in S}
<1>1. T \subseteq SUBSET S /\ T # {}
  OBVIOUS
<1>2. PICK m \in T : \A y \in T : y \subseteq m => y = m
  <2> HIDE DEF T
  <2>1. QED  BY <1>1, Smallest
<1>3. PICK x \in S : m = after(x)
  OBVIOUS
<1>4. ASSUME NEW z \in m PROVE FALSE
  <2>1. z \in S /\ z.from > x.from  BY <1>3, <1>4
  <2>2. after(z) \subseteq m /\ z \notin after(z)
    BY <1>3, <2>1 DEF RangeRow
  <2>3. after(z) \in T  BY <2>1
  <2>4. QED  BY <1>2, <1>4, <2>2, <2>3
<1>5. \A y \in S : x.from >= y.from
  BY <1>3, <1>4 DEF RangeRow
<1>6. QED
  BY <1>5 DEF Latest

\* The loop of mergeLightIntervals, after each set of intervals
LightTurns(raw, g) ==
    g = [todo \in SUBSET raw |-> IF todo = {} THEN << >> ELSE mergeNext(g[todo \ {Latest(todo)}], Latest(todo))]

LEMMA TurnsUnfold ==
    ASSUME NEW raw
    PROVE  mergeLightIntervals(raw) = (CHOOSE g : LightTurns(raw, g))[raw]
BY DEF mergeLightIntervals, LightTurns

\* mergeNext always gives a sequence of intervals
LEMMA MergeTyped ==
    ASSUME NEW p \in Seq(RangeRow), NEW x \in RangeRow
    PROVE  mergeNext(p, x) \in Seq(RangeRow)
<1>1. CASE p = << >>
  BY <1>1 DEF mergeNext
<1>2. CASE p # << >>
  <2>1. Len(p) \in 1..Len(p) /\ Last(p) \in RangeRow  BY <1>2 DEF Last
  <2>2. PICK w : w = [Last(p) EXCEPT !.to = x.to]  OBVIOUS
  <2>3. w \in RangeRow  BY <2>1, <2>2 DEF RangeRow
  <2>4. [p EXCEPT ![Len(p)] = w] \in Seq(RangeRow)  BY <2>1, <2>3
  <2>5. Append(p, x) \in Seq(RangeRow)  OBVIOUS
  <2>6. QED  BY <2>2, <2>4, <2>5 DEF mergeNext
<1>3. QED  BY <1>1, <1>2

LEMMA TurnsExist ==
    ASSUME NEW raw \in SUBSET RangeRow, IsFiniteSet(raw)
    PROVE  \E g : LightTurns(raw, g)
<1> DEFINE D == Seq(RangeRow)
           op == [z \in raw \X D |-> mergeNext(z[2], z[1])]
           pick == [s \in SUBSET raw |-> Latest(s)]
<1>1. \A s \in SUBSET raw : s # {} => pick[s] \in s
  BY LatestStarts, FS_Subset
<1>2. \A x \in raw, v \in D : op[<<x, v>>] = mergeNext(v, x)
  OBVIOUS
<1>3. \A x \in raw, v \in D : op[<<x, v>>] \in D
  BY <1>2, MergeTyped
<1>4. << >> \in D
  OBVIOUS
<1>5. \A s \in SUBSET raw : pick[s] = Latest(s)
  OBVIOUS
<1> HIDE DEF D, op, pick
<1>6. PICK g : Folded(<< >>, op, pick, raw, g)
  BY <1>1, FoldExists
<1>7. \A s \in SUBSET raw : g[s] \in D
  BY <1>1, <1>3, <1>4, <1>6, FoldTyped
<1>8. \A s \in SUBSET raw : s # {} => op[<<pick[s], g[s \ {pick[s]}]>>] = mergeNext(g[s \ {Latest(s)}], Latest(s))
  <2> SUFFICES ASSUME NEW s \in SUBSET raw, s # {}
               PROVE  op[<<pick[s], g[s \ {pick[s]}]>>] = mergeNext(g[s \ {Latest(s)}], Latest(s))
    OBVIOUS
  <2>1. pick[s] \in raw /\ s \ {pick[s]} \in SUBSET raw  BY <1>1
  <2>2. g[s \ {pick[s]}] \in D  BY <1>7, <2>1
  <2>3. QED  BY <1>2, <1>5, <2>1, <2>2
<1>9. g = [s \in SUBSET raw |-> IF s = {} THEN << >> ELSE mergeNext(g[s \ {Latest(s)}], Latest(s))]
  BY <1>6, <1>8 DEF Folded
<1>10. QED
  BY <1>9 DEF LightTurns

\* The merged intervals are apart and cover the minutes of the given ones.
LEMMA IntervalsMerged ==
    ASSUME NEW raw \in SUBSET RangeRow, IsFiniteSet(raw), \A x \in raw : x.from < x.to
    PROVE  LET plan == mergeLightIntervals(raw) IN
           Plan(plan) /\ \A m \in Int : Lit(plan, m) <=> \E x \in raw : Covers(x, m)
<1> DEFINE g == CHOOSE g : LightTurns(raw, g)
<1>1. LightTurns(raw, g)
  BY TurnsExist
<1>2. mergeLightIntervals(raw) = g[raw]
  BY TurnsUnfold
<1> HIDE DEF g
<1> DEFINE Good(s) == /\ Plan(g[s])
                      /\ \A m \in Int : Lit(g[s], m) <=> \E x \in s : Covers(x, m)
                      /\ \A i \in 1..Len(g[s]) : \E x \in s : g[s][i].from = x.from
           T == {s \in SUBSET raw : ~Good(s)}
<1>3. T = {}
  <2>1. SUFFICES ASSUME T # {} PROVE FALSE
    OBVIOUS
  <2>2. PICK m \in T : \A y \in T : y \subseteq m => y = m
    <3>1. T \subseteq SUBSET raw  OBVIOUS
    <3> HIDE DEF T
    <3>2. QED  BY <2>1, <3>1, Smallest
  <2>3. m \in SUBSET raw /\ ~Good(m)  BY <2>2
  <2>4. \A y \in SUBSET m : y # m => Good(y)  BY <2>2, <2>3
  <2> HIDE DEF T
  <2>5. m # {}
    <3>1. SUFFICES ASSUME m = {} PROVE FALSE  OBVIOUS
    <3>2. g[m] = << >>  BY <1>1, <2>3, <3>1 DEF LightTurns
    <3>3. Plan(<< >>) /\ \A n : ~Lit(<< >>, n)  BY DEF Plan, Lit
    <3>4. Good(m)  BY <3>1, <3>2, <3>3
    <3>5. QED  BY <2>3, <3>4
  <2>6. PICK x : x = Latest(m)  OBVIOUS
  <2>7. m \in SUBSET RangeRow /\ IsFiniteSet(m)
    BY <2>3, FS_Subset
  <2>8. x \in m /\ \A y \in m : x.from >= y.from
    BY <2>5, <2>6, <2>7, LatestStarts
  <2>9. PICK r : r = m \ {x}  OBVIOUS
  <2>10. g[m] = mergeNext(g[r], x)  BY <1>1, <2>3, <2>5, <2>6, <2>9 DEF LightTurns
  <2>11. Good(r)  BY <2>4, <2>8, <2>9
  <2>12. PICK p : p = g[r]  OBVIOUS
  <2>13. x \in RangeRow /\ x.from < x.to  BY <2>3, <2>8
  <2>14. \A i \in 1..Len(p) : p[i].from <= x.from
    <3> SUFFICES ASSUME NEW i \in 1..Len(p) PROVE p[i].from <= x.from
      OBVIOUS
    <3>1. PICK y \in r : p[i].from = y.from  BY <2>11, <2>12
    <3>2. y \in m /\ y \in RangeRow  BY <2>7, <2>9
    <3>3. QED  BY <2>8, <2>13, <3>1, <3>2 DEF RangeRow
  <2>15. Plan(p)  BY <2>11, <2>12
  <2>16. PICK q : q = mergeNext(p, x)  OBVIOUS
  <2>17. /\ Plan(q)
         /\ \A n \in Int : Lit(q, n) <=> Lit(p, n) \/ Covers(x, n)
         /\ \A i \in 1..Len(q) : q[i].from = x.from \/ \E j \in 1..Len(p) : q[i].from = p[j].from
    BY <2>13, <2>14, <2>15, <2>16, TurnMerges
  <2>18. g[m] = q  BY <2>10, <2>12, <2>16
  <2>19. m = r \cup {x}  BY <2>8, <2>9
  <2>20. \A n \in Int : Lit(q, n) <=> \E y \in m : Covers(y, n)
    BY <2>11, <2>12, <2>17, <2>19
  <2>21. \A i \in 1..Len(q) : \E y \in m : q[i].from = y.from
    <3> SUFFICES ASSUME NEW i \in 1..Len(q) PROVE \E y \in m : q[i].from = y.from
      OBVIOUS
    <3>1. CASE q[i].from = x.from  BY <2>8, <3>1
    <3>2. CASE \E j \in 1..Len(p) : q[i].from = p[j].from
      <4>1. PICK j \in 1..Len(p) : q[i].from = p[j].from  BY <3>2
      <4>2. PICK y \in r : p[j].from = y.from  BY <2>11, <2>12
      <4>3. QED  BY <2>19, <4>1, <4>2
    <3>3. QED  BY <2>17, <3>1, <3>2
  <2>22. Good(m)  BY <2>17, <2>18, <2>20, <2>21
  <2>23. QED  BY <2>3, <2>22
<1>4. Good(raw)  BY <1>3
<1>5. QED  BY <1>2, <1>4

\* The bookings are finitely many, and Doinsport has none that waits for money.
BookingsKept ==
    /\ IsFiniteSet(calendar.bookings)
    /\ \A b \in calendar.bookings : b.origin = "LEGACY" => b.status \in {"CONFIRMED", "CANCELED"}

LEMMA BookingsStart == AcademyInit => BookingsKept
BY FS_EmptySet DEF AcademyInit, BookingsKept

LEMMA BookingsSteps ==
    AcademyInv /\ BookingsKept /\ (AcademyNext \/ UNCHANGED academyVars) => BookingsKept'
<1> SUFFICES ASSUME AcademyInv, BookingsKept, AcademyNext \/ UNCHANGED academyVars PROVE BookingsKept'
  OBVIOUS
<1>1. AcademyNext => CalendarStep \/ SearchStep \/ HandlerStep \/ LessonStep
  BY Zenon DEF AcademyNext, CalendarStep, SearchStep, HandlerStep, LessonStep
<1>2. calendar \in [opening : SUBSET OpeningRow, durations : SUBSET DurationRules,
                    closures : SUBSET Closures, bookings : SUBSET Occupied]
  BY DEF AcademyInv, CalendarKept
<1>3. CASE UNCHANGED calendar
  BY <1>3 DEF BookingsKept
<1>4. ASSUME NEW S, NEW x, calendar' = [calendar EXCEPT !.bookings = S \cup {x}], S \subseteq calendar.bookings,
             x.origin = "LEGACY" => x.status \in {"CONFIRMED", "CANCELED"}
      PROVE  BookingsKept'
  <2>1. calendar'.bookings = S \cup {x}  BY <1>2, <1>4
  <2>2. IsFiniteSet(S \cup {x})  BY <1>4, FS_Subset, FS_AddElement DEF BookingsKept
  <2>3. QED  BY <1>4, <2>1, <2>2 DEF BookingsKept
<1>5. ASSUME NEW c, EditCalendar(c), c.bookings = calendar.bookings PROVE BookingsKept'
  <2>1. calendar'.bookings = calendar.bookings  BY <1>5 DEF EditCalendar
  <2>2. QED  BY <2>1 DEF BookingsKept
<1>6. ASSUME CalendarStep PROVE BookingsKept'
  <2>1. ASSUME NEW o \in Occupations, BookingAppears(o) PROVE BookingsKept'
    <3>1. PICK s : /\ s \in IF o.origin = "V2" THEN {"CHECKOUT_PENDING", "CONFIRMED"} ELSE {"CONFIRMED"}
                   /\ EditCalendar([calendar EXCEPT !.bookings = @ \cup {At(o, s)}])
      BY <2>1 DEF BookingAppears
    <3>2. PICK x : x = At(o, s)  OBVIOUS
    <3>3. x.origin = "LEGACY" => x.status \in {"CONFIRMED", "CANCELED"}
      BY <3>1, <3>2 DEF At
    <3>4. calendar' = [calendar EXCEPT !.bookings = calendar.bookings \cup {x}]
      BY <3>1, <3>2 DEF EditCalendar
    <3>5. QED  BY <1>4, <3>3, <3>4
  <2>2. ASSUME NEW b \in calendar.bookings, BookingMoves(b) PROVE BookingsKept'
    <3>1. PICK s \in {"CONFIRMED", "CANCELED"} :
            EditCalendar([calendar EXCEPT !.bookings = (@ \ {b}) \cup {[b EXCEPT !.status = s]}])
      BY <2>2 DEF BookingMoves
    <3>2. PICK x : x = [b EXCEPT !.status = s]  OBVIOUS
    <3>3. x.status = s
      BY <1>2, <3>2 DEF Occupied
    <3>4. calendar' = [calendar EXCEPT !.bookings = (calendar.bookings \ {b}) \cup {x}]
      BY <3>1, <3>2 DEF EditCalendar
    <3>5. QED  BY <1>4, <3>1, <3>3, <3>4
  <2>3. ASSUME NEW r, deactivateOpeningRule(r) \/ createOpeningRule(r) \/ createCourtClosure(r) \/ deleteCourtClosure(r)
        PROVE  BookingsKept'
    BY <1>2, <1>5, <2>3 DEF deactivateOpeningRule, createOpeningRule, createCourtClosure, deleteCourtClosure
  <2>4. QED  BY <1>6, <2>1, <2>2, <2>3 DEF CalendarStep
<1>7. SearchStep \/ HandlerStep \/ LessonStep => UNCHANGED calendar
  BY DEF SearchStep, SearchBegins, ReadStudent, ReadCourt, SearchAnswers, HandlerStep, addTeacherAvailability,
         addStudentAvailability, deleteAvailability, submitCourseRequest, RevokeActiveInvitations, createInvitation,
         LinkEnds, LessonStep, proposeLesson, CheckTransition, updateLessonStatus
<1>8. QED  BY <1>1, <1>3, <1>6, <1>7 DEF academyVars

LEMMA LightFromInv == AcademyInv /\ BookingsKept => LightStaysOn
<1> SUFFICES ASSUME AcademyInv, BookingsKept, NEW c \in Courts
             PROVE  LET plan == lightIntervals(calendar.bookings, c)
                        on(i, m) == m \in plan[i].from..(plan[i].to - 1)
                        wanted(m) == \E b \in calendar.bookings :
                                        /\ b.court = c /\ b.status = "CONFIRMED"
                                        /\ m \in (b.from - MarginBefore)..(b.to + MarginAfter - 1)
                    IN  /\ \A m \in (-DayMinutes)..(2 * DayMinutes) : wanted(m) <=> \E i \in DOMAIN plan : on(i, m)
                        /\ \A i, j \in DOMAIN plan : i < j => plan[i].to < plan[j].from
  BY DEF LightStaysOn
<1> DEFINE lit == findOccupiedWindowsForCourt(calendar.bookings, c)
<1>1. PICK raw : raw = {Padded(b) : b \in lit}
  OBVIOUS
<1>2. PICK plan : plan = lightIntervals(calendar.bookings, c)
  OBVIOUS
<1>3. plan = mergeLightIntervals(raw)
  BY <1>1, <1>2 DEF lightIntervals
<1>4. \A b \in calendar.bookings : b \in Occupied /\ b.from \in Int /\ b.to \in Int /\ b.from < b.to
  <2> SUFFICES ASSUME NEW b \in calendar.bookings
               PROVE  b \in Occupied /\ b.from \in Int /\ b.to \in Int /\ b.from < b.to
    OBVIOUS
  <2>1. b \in Occupied  BY DEF AcademyInv, CalendarKept
  <2>2. PICK o \in Occupations : o = [court |-> b.court, origin |-> b.origin, from |-> b.from, to |-> b.to]
    BY DEF AcademyInv, CalendarKept
  <2>3. o.from = b.from /\ o.to = b.to  BY <2>2
  <2>4. QED  BY <2>1, <2>3, AcademyAssumption DEF Occupied
<1>5. \A b \in calendar.bookings : b \in lit <=> b.court = c /\ b.status = "CONFIRMED"
  BY <1>4 DEF findOccupiedWindowsForCourt, BookingsKept, Occupied
<1>6. lit \subseteq calendar.bookings
  BY DEF findOccupiedWindowsForCourt
<1> HIDE DEF lit
<1>7. \A b \in lit : Padded(b) \in RangeRow /\ Padded(b).from < Padded(b).to
  BY <1>4, <1>6, DayAssumption DEF Padded, RangeRow
<1>8. raw \in SUBSET RangeRow /\ \A x \in raw : x.from < x.to
  BY <1>1, <1>7
<1>9. IsFiniteSet(raw)
  <2>1. IsFiniteSet(lit)  BY <1>6, FS_Subset DEF BookingsKept
  <2>2. IsFiniteSet({Padded(b) : b \in lit})
    <3>1. PICK f : f = [b \in lit |-> Padded(b)]  OBVIOUS
    <3>2. f \in Surjection(lit, raw)  BY <1>1, <3>1 DEF Surjection
    <3>3. QED  BY <1>1, <2>1, <3>2, FS_Surjection
  <2>3. QED  BY <1>1, <2>2
<1>10. Plan(plan) /\ \A m \in Int : Lit(plan, m) <=> \E x \in raw : Covers(x, m)
  BY <1>3, <1>8, <1>9, IntervalsMerged
<1>11. DOMAIN plan = 1..Len(plan) /\ \A i \in 1..Len(plan) : plan[i] \in RangeRow
  BY <1>10 DEF Plan
<1>12. \A m \in Int : (\E i \in DOMAIN plan : m \in plan[i].from..(plan[i].to - 1)) <=> Lit(plan, m)
  <2> SUFFICES ASSUME NEW m \in Int
               PROVE  (\E i \in DOMAIN plan : m \in plan[i].from..(plan[i].to - 1)) <=> Lit(plan, m)
    OBVIOUS
  <2>1. ASSUME NEW i \in DOMAIN plan PROVE m \in plan[i].from..(plan[i].to - 1) <=> Covers(plan[i], m)
    <3>1. plan[i].from \in Int /\ plan[i].to \in Int  BY <1>11, <2>1 DEF RangeRow
    <3>2. QED  BY <3>1 DEF Covers
  <2>2. QED  BY <1>11, <2>1 DEF Lit
<1>13. \A m \in Int : (\E x \in raw : Covers(x, m))
          <=> \E b \in calendar.bookings : /\ b.court = c /\ b.status = "CONFIRMED"
                                           /\ m \in (b.from - MarginBefore)..(b.to + MarginAfter - 1)
  <2> SUFFICES ASSUME NEW m \in Int
               PROVE  (\E x \in raw : Covers(x, m))
                        <=> \E b \in calendar.bookings : /\ b.court = c /\ b.status = "CONFIRMED"
                                 /\ m \in (b.from - MarginBefore)..(b.to + MarginAfter - 1)
    OBVIOUS
  <2>1. (\E x \in raw : Covers(x, m)) <=> \E b \in lit : Covers(Padded(b), m)
    BY <1>1
  <2>2. \A b \in calendar.bookings :
          Covers(Padded(b), m) <=> m \in (b.from - MarginBefore)..(b.to + MarginAfter - 1)
    BY <1>4, DayAssumption DEF Covers, Padded
  <2>3. QED  BY <1>5, <1>6, <2>1, <2>2
<1>14. \A m \in (-DayMinutes)..(2 * DayMinutes) : m \in Int
  OBVIOUS
<1>15. \A i, j \in DOMAIN plan : i < j => plan[i].to < plan[j].from
  BY <1>10, <1>11 DEF Plan
<1>16. QED
  BY <1>2, <1>10, <1>12, <1>13, <1>14, <1>15

\* Whatever bookings come and go, the light of a court is on exactly in the
\* minutes of its confirmed games and their margins, in intervals that neither
\* overlap nor touch (light-interval-merger.ts:11-17).
THEOREM LightOn == AcademySpec => []LightStaysOn
<1>1. AcademyInv /\ BookingsKept /\ [AcademyNext]_<<baseVars, academyVars>> => AcademyInv' /\ BookingsKept'
  BY AcademySteps, BookingsSteps
<1>2. QED
  BY <1>1, AcademyStart, BookingsStart, LightFromInv, PTL DEF AcademySpec

-----------------------------------------------------------------------------
(* All the components side by side.  A step of one leaves the state of the *)
(* others alone, but counts a request or a failure: what an invariant says *)
(* of the counters holds while they grow.                                  *)
Turn ==
    /\ UNCHANGED focus
    /\ \/ UNCHANGED budget
       \/ budget' = [budget EXCEPT !.requests = @ + 1]
       \/ budget' = [budget EXCEPT !.faults = @ + 1]

LEMMA TurnTaken == ASSUME NEW c, Request(c) \/ Fault(c) \/ Step(c) PROVE Turn
BY DEF Request, Fault, Step, Turn, baseVars

LEMMA TurnCounts ==
    ASSUME BaseTypeOK, Turn
    PROVE  BaseTypeOK' /\ budget'.faults >= budget.faults
BY DEF BaseTypeOK, Turn


\* Every action of every component is a request, a failure or a step.
LEMMA AccessTurns == AccessNext => Turn
<1>1. \A b : Confirm(b) => Turn  BY TurnTaken DEF Confirm
<1>2. \A b : GenerationExhausted(b) => Turn  BY TurnTaken DEF GenerationExhausted
<1>3. \A b : CreateGrant(b) => Turn  BY TurnTaken DEF CreateGrant
<1>4. \A b : Provisioned(b) => Turn  BY TurnTaken DEF Provisioned
<1>5. \A b : ProvisioningFailed(b) => Turn  BY TurnTaken DEF ProvisioningFailed
<1>6. \A b : CancelBooked(b) => Turn  BY TurnTaken DEF CancelBooked
<1>7. \A b : RevokeFind(b) => Turn  BY TurnTaken DEF RevokeFind
<1>8. \A b : RevokeWrite(b) => Turn  BY TurnTaken DEF RevokeWrite
<1>9. \A b : AccessRestart(b) => Turn  BY TurnTaken DEF AccessRestart
<1>10. \A b, code : ImportLegacyGrant(b, code) => Turn  BY TurnTaken DEF ImportLegacyGrant
<1>11. \A b, code : GenerateCode(b, code) => Turn  BY TurnTaken DEF GenerateCode
<1>12. \A code : createStaffCode(code) => Turn  BY TurnTaken DEF createStaffCode
<1>13. revokeStaffCode => Turn  BY TurnTaken DEF revokeStaffCode
<1>14. StaffCodeDeadline => Turn  BY TurnTaken DEF StaffCodeDeadline
<1>15. \A code : DoinsportCode(code) => Turn  BY TurnTaken DEF DoinsportCode
<1>16. QED  BY <1>1, <1>2, <1>3, <1>4, <1>5, <1>6, <1>7, <1>8, <1>9, <1>10, <1>11, <1>12, <1>13, <1>14, <1>15 DEF AccessNext

LEMMA DeviceTurns == DeviceNext => Turn
<1>1. \A c : queueCommand(c) => Turn  BY TurnTaken DEF queueCommand
<1>2. \A c : queueManualCommand(c) => Turn  BY TurnTaken DEF queueManualCommand
<1>3. \A c : ManualCommandCreated(c) => Turn  BY TurnTaken DEF ManualCommandCreated, DeviceStep
<1>4. \A c : CommandDeadline(c) => Turn  BY TurnTaken DEF CommandDeadline, DeviceStep
<1>5. revokeDevice => Turn  BY TurnTaken DEF revokeDevice
<1>6. DeviceSilent => Turn  BY TurnTaken DEF DeviceSilent
<1>7. LightPlanChanges => Turn  BY TurnTaken DEF LightPlanChanges
<1>8. AnswerLost => Turn  BY TurnTaken DEF AnswerLost
<1>9. SnapshotFailed => Turn  BY TurnTaken DEF SnapshotFailed, DeviceStep
<1>10. SnapshotNotModified => Turn  BY TurnTaken DEF SnapshotNotModified, DeviceStep
<1>11. SnapshotApplied => Turn  BY TurnTaken DEF SnapshotApplied, DeviceStep
<1>12. CommandsDone => Turn  BY TurnTaken DEF CommandsDone, DeviceStep
<1>13. AlreadyExecuted => Turn  BY TurnTaken DEF AlreadyExecuted, DeviceStep
<1>14. RunCommand => Turn  BY TurnTaken DEF RunCommand, DeviceStep
<1>15. RunCommandFails => Turn  BY TurnTaken DEF RunCommandFails
<1>16. MarkExecuted => Turn  BY TurnTaken DEF MarkExecuted, DeviceStep
<1>17. SendAck => Turn  BY TurnTaken DEF SendAck, DeviceStep
<1>18. AckLost => Turn  BY TurnTaken DEF AckLost
<1>19. FlushEvents => Turn  BY TurnTaken DEF FlushEvents, DeviceStep
<1>20. FlushAnswerLost => Turn  BY TurnTaken DEF FlushAnswerLost
<1>21. EvaluateLighting => Turn  BY TurnTaken DEF EvaluateLighting
<1>22. KeypadCode => Turn  BY TurnTaken DEF KeypadCode
<1>23. DeviceRestart => Turn  BY TurnTaken DEF DeviceRestart
<1>24. QED  BY <1>1, <1>2, <1>3, <1>4, <1>5, <1>6, <1>7, <1>8, <1>9, <1>10, <1>11, <1>12, <1>13, <1>14, <1>15,
              <1>16, <1>17, <1>18, <1>19, <1>20, <1>21, <1>22, <1>23 DEF DeviceNext

LEMMA PanelTurns == PanelNext => Turn
<1>1. \A c : handleManualCommand(c) => Turn  BY TurnTaken DEF handleManualCommand
<1>2. CommandRefused => Turn  BY TurnTaken DEF CommandRefused
<1>3. pollCommand => Turn  BY TurnTaken DEF pollCommand
<1>4. CommandAnswerLost => Turn  BY TurnTaken DEF CommandAnswerLost
<1>5. getCommand => Turn  BY TurnTaken DEF getCommand
<1>6. CommandTimeout => Turn  BY TurnTaken DEF CommandTimeout
<1>7. \A a : CommandAnswer(a) => Turn  BY TurnTaken DEF CommandAnswer
<1>8. QED  BY <1>1, <1>2, <1>3, <1>4, <1>5, <1>6, <1>7 DEF PanelNext

LEMMA OutboxTurns == OutboxNext => Turn
<1>1. \A n : enqueue(n) => Turn  BY TurnTaken DEF enqueue
<1>2. \A d : dispatchDue(d) => Turn  BY TurnTaken DEF dispatchDue
<1>3. \A d : MailSent(d) => Turn  BY TurnTaken DEF MailSent
<1>4. \A d : MarkSentFails(d) => Turn  BY TurnTaken DEF MarkSentFails
<1>5. \A d : DispatchRestart(d) => Turn  BY TurnTaken DEF DispatchRestart
<1>6. \A d, n : SendMail(d, n) => Turn  BY TurnTaken DEF SendMail
<1>7. \A d, n : SendMailFails(d, n) => Turn  BY TurnTaken DEF SendMailFails
<1>8. QED  BY <1>1, <1>2, <1>3, <1>4, <1>5, <1>6, <1>7 DEF OutboxNext

LEMMA PacksTurns == PacksNext => Turn
<1>1. createPurchase => Turn  BY TurnTaken DEF createPurchase
<1>2. createPaymentRow => Turn  BY TurnTaken DEF createPaymentRow
<1>3. LinkPayment => Turn  BY TurnTaken DEF LinkPayment
<1>4. \A s : createPayment(s) => Turn  BY TurnTaken DEF createPayment
<1>5. \A s : ThreeDSecure(s) => Turn  BY TurnTaken DEF ThreeDSecure
<1>6. \A h : Delivered(h) => Turn  BY TurnTaken DEF Delivered
<1>7. \A h : continueAfterAuthorizationConfirmed(h) => Turn  BY TurnTaken DEF continueAfterAuthorizationConfirmed
<1>8. \A h : MarkAuthorized(h) => Turn  BY TurnTaken DEF MarkAuthorized
<1>9. \A h : Capture(h) => Turn  BY TurnTaken DEF Capture
<1>10. \A h : CaptureRefused(h) => Turn  BY TurnTaken DEF CaptureRefused
<1>11. \A h : CaptureFails(h) => Turn  BY TurnTaken DEF CaptureFails
<1>12. \A h : MarkFailed(h) => Turn  BY TurnTaken DEF MarkFailed
<1>13. \A h : MarkSucceeded(h) => Turn  BY TurnTaken DEF MarkSucceeded
<1>14. \A h : MarkPaid(h) => Turn  BY TurnTaken DEF MarkPaid
<1>15. \A h : markCreditedIfPaid(h) => Turn  BY TurnTaken DEF markCreditedIfPaid
<1>16. \A h : creditPaid(h) => Turn  BY TurnTaken DEF creditPaid
<1>17. \A h : creditBonus(h) => Turn  BY TurnTaken DEF creditBonus
<1>18. \A h : PacksRestart(h) => Turn  BY TurnTaken DEF PacksRestart
<1>19. \A r, amount : RefundAsked(r, amount) => Turn  BY TurnTaken DEF RefundAsked
<1>20. \A r : RefundAtStripe(r) => Turn  BY TurnTaken DEF RefundAtStripe
<1>21. \A r : RefundRecorded(r) => Turn  BY TurnTaken DEF RefundRecorded
<1>22. \A r : RefundCut(r) => Turn  BY TurnTaken DEF RefundCut
<1>23. QED  BY <1>1, <1>2, <1>3, <1>4, <1>5, <1>6, <1>7, <1>8, <1>9, <1>10, <1>11, <1>12, <1>13, <1>14, <1>15,
              <1>16, <1>17, <1>18, <1>19, <1>20, <1>21, <1>22 DEF PacksNext

LEMMA DeskTurns == DeskNext => Turn
<1>1. revokeTablet => Turn  BY TurnTaken DEF revokeTablet
<1>2. TabletSilent => Turn  BY TurnTaken DEF TabletSilent
<1>3. \A s : createSession(s) => Turn  BY TurnTaken DEF createSession
<1>4. \A s : SessionDeadline(s) => Turn  BY TurnTaken DEF SessionDeadline
<1>5. \A s : cancelSession(s) => Turn  BY TurnTaken DEF cancelSession
<1>6. \A s : DraftPending(s) => Turn  BY TurnTaken DEF DraftPending
<1>7. \A s : Paid(s) => Turn  BY TurnTaken DEF Paid
<1>8. \A s : cancelBooking(s) => Turn  BY TurnTaken DEF cancelBooking
<1>9. \A s : CancelAccepted(s) => Turn  BY TurnTaken DEF CancelAccepted
<1>10. \A s : CancelRefused(s) => Turn  BY TurnTaken DEF CancelRefused
<1>11. \A s : forceResync(s) => Turn  BY TurnTaken DEF forceResync
<1>12. \A u, s : Scan(u, s) => Turn  BY TurnTaken DEF Scan
<1>13. \A u, s : createBooking(u, s) => Turn  BY TurnTaken DEF createBooking
<1>14. \A s, p : removeParticipant(s, p) => Turn  BY TurnTaken DEF removeParticipant
<1>15. \A w, s, p : addParticipant(w, s, p) => Turn  BY TurnTaken DEF addParticipant
<1>16. \A u : claimIfPending(u) => Turn  BY TurnTaken DEF claimIfPending
<1>17. \A u : ClaimRefused(u) => Turn  BY TurnTaken DEF ClaimRefused
<1>18. \A u : ClaimBooks(u) => Turn  BY TurnTaken DEF ClaimBooks
<1>19. \A u : ClaimPending(u) => Turn  BY TurnTaken DEF ClaimPending
<1>20. \A u : setBookingId(u) => Turn  BY TurnTaken DEF setBookingId
<1>21. \A w : ParticipantAdded(w) => Turn  BY TurnTaken DEF ParticipantAdded
<1>22. QED  BY <1>1, <1>2, <1>3, <1>4, <1>5, <1>6, <1>7, <1>8, <1>9, <1>10, <1>11, <1>12, <1>13, <1>14, <1>15,
              <1>16, <1>17, <1>18, <1>19, <1>20, <1>21 DEF DeskNext

LEMMA MigrationTurns == MigrationNext => Turn
<1>1. importClients => Turn  BY TurnTaken DEF importClients
<1>2. ImportWrites => Turn  BY TurnTaken DEF ImportWrites
<1>3. ReviewWrites => Turn  BY TurnTaken DEF ReviewWrites
<1>4. JoinWrites => Turn  BY TurnTaken DEF JoinWrites
<1>5. MigrationCrash => Turn  BY TurnTaken DEF MigrationCrash
<1>6. \A e : registerDirectly(e) => Turn  BY TurnTaken DEF registerDirectly
<1>7. \A c : ImportDecides(c) => Turn  BY TurnTaken DEF ImportDecides
<1>8. \A c : disable(c) => Turn  BY TurnTaken DEF disable
<1>9. \A c : resetToPending(c) => Turn  BY TurnTaken DEF resetToPending
<1>10. \A i, c : invite(i, c) => Turn  BY TurnTaken DEF invite
<1>11. \A c, e : linkToUser(c, e) => Turn  BY TurnTaken DEF linkToUser
<1>12. \A i : InvitationExpires(i) => Turn  BY TurnTaken DEF InvitationExpires
<1>13. \A i : validateToken(i) => Turn  BY TurnTaken DEF validateToken
<1>14. \A i : confirm(i) => Turn  BY TurnTaken DEF confirm
<1>15. QED  BY <1>1, <1>2, <1>3, <1>4, <1>5, <1>6, <1>7, <1>8, <1>9, <1>10, <1>11, <1>12, <1>13, <1>14 DEF MigrationNext

LEMMA MirrorTurns == MirrorNext => Turn
<1>1. \A b : BookAtDoinsport(b) => Turn  BY TurnTaken DEF BookAtDoinsport
<1>2. \A b : createBookingInLegacy(b) => Turn  BY TurnTaken DEF createBookingInLegacy
<1>3. \A b : CancelAtDoinsport(b) => Turn  BY TurnTaken DEF CancelAtDoinsport
<1>4. TokenExpires => Turn  BY TurnTaken DEF TokenExpires
<1>5. runFastSync => Turn  BY TurnTaken DEF runFastSync
<1>6. runReconciliation => Turn  BY TurnTaken DEF runReconciliation
<1>7. ReconciliationStep => Turn  BY TurnTaken DEF ReconciliationStep, FindCanceled, ReconciliationEnds,
                                                   RevokeCanceled
<1>8. \A k : RunStep(k) => Turn  BY TurnTaken DEF RunStep, ClientsImported, CreateParticipants,
                                                  DeleteParticipants, RunEnds, UpsertRow, authenticateClub,
                                                  getBooking, listBookings
<1>9. \A k : RunFails(k) => Turn  BY TurnTaken DEF RunFails
<1>10. \A k, b : GetFails(k, b) => Turn  BY TurnTaken DEF GetFails
<1>11. QED  BY <1>1, <1>2, <1>3, <1>4, <1>5, <1>6, <1>7, <1>8, <1>9, <1>10 DEF MirrorNext

LEMMA IdentityTurns == IdentityNext => Turn
<1>1. \A u : register(u) => Turn  BY TurnTaken DEF register
<1>2. \A u : resendVerificationEmail(u) => Turn  BY TurnTaken DEF resendVerificationEmail
<1>3. \A u : verifyEmail(u) => Turn  BY TurnTaken DEF verifyEmail
<1>4. \A u : activateUser(u) => Turn  BY TurnTaken DEF activateUser
<1>5. \A u : WrongPassword(u) => Turn  BY TurnTaken DEF WrongPassword
<1>6. \A u : recordLoginAttempt(u) => Turn  BY TurnTaken DEF recordLoginAttempt
<1>7. \A u : FailuresForgotten(u) => Turn  BY TurnTaken DEF FailuresForgotten
<1>8. \A u : requestPasswordReset(u) => Turn  BY TurnTaken DEF requestPasswordReset
<1>9. \A u : resetPassword(u) => Turn  BY TurnTaken DEF resetPassword
<1>10. \A u : markPasswordResetTokenUsed(u) => Turn  BY TurnTaken DEF markPasswordResetTokenUsed
<1>11. \A u : ResetRevokes(u) => Turn  BY TurnTaken DEF ResetRevokes
<1>12. \A u : confirmEmailChange(u) => Turn  BY TurnTaken DEF confirmEmailChange
<1>13. \A u : markEmailChangeTokenUsed(u) => Turn  BY TurnTaken DEF markEmailChangeTokenUsed
<1>14. \A u, kind : TokenDeadline(u, kind) => Turn  BY TurnTaken DEF TokenDeadline
<1>15. \A u, role : changeRole(u, role) => Turn  BY TurnTaken DEF changeRole
<1>16. \A s, u : login(s, u) => Turn  BY TurnTaken DEF login
<1>17. \A s : openSession(s) => Turn  BY TurnTaken DEF openSession
<1>18. \A s : logout(s) => Turn  BY TurnTaken DEF logout
<1>19. \A s : logoutAll(s) => Turn  BY TurnTaken DEF logoutAll
<1>20. \A s : SessionExpires(s) => Turn  BY TurnTaken DEF SessionExpires
<1>21. \A s : changePassword(s) => Turn  BY TurnTaken DEF changePassword
<1>22. \A s : requestEmailChange(s) => Turn  BY TurnTaken DEF requestEmailChange
<1>23. \A s, route : attachAuthUser(s, route) => Turn  BY TurnTaken DEF attachAuthUser
<1>24. \A route : WithoutSession(route) => Turn  BY TurnTaken DEF WithoutSession
<1>25. Handled => Turn  BY TurnTaken DEF Handled
<1>26. IdentityRestart => Turn  BY TurnTaken DEF IdentityRestart
<1>27. QED  BY <1>1, <1>2, <1>3, <1>4, <1>5, <1>6, <1>7, <1>8, <1>9, <1>10, <1>11, <1>12, <1>13, <1>14, <1>15,
              <1>16, <1>17, <1>18, <1>19, <1>20, <1>21, <1>22, <1>23, <1>24, <1>25, <1>26 DEF IdentityNext

LEMMA AcademyTurns == AcademyNext => Turn
<1>1. \A r : deactivateOpeningRule(r) => Turn  BY TurnTaken DEF deactivateOpeningRule, EditCalendar
<1>2. \A r : createOpeningRule(r) => Turn  BY TurnTaken DEF createOpeningRule, EditCalendar
<1>3. \A c : createCourtClosure(c) => Turn  BY TurnTaken DEF createCourtClosure, EditCalendar
<1>4. \A c : deleteCourtClosure(c) => Turn  BY TurnTaken DEF deleteCourtClosure, EditCalendar
<1>5. \A o : BookingAppears(o) => Turn  BY TurnTaken DEF BookingAppears, EditCalendar
<1>6. \A b : BookingMoves(b) => Turn  BY TurnTaken DEF BookingMoves, EditCalendar
<1>7. \A row : addTeacherAvailability(row) => Turn  BY TurnTaken DEF addTeacherAvailability
<1>8. \A k, s, row : addStudentAvailability(k, s, row) => Turn  BY TurnTaken DEF addStudentAvailability
<1>9. \A w : deleteAvailability(w) => Turn  BY TurnTaken DEF deleteAvailability
<1>10. \A k, s : submitCourseRequest(k, s) => Turn  BY TurnTaken DEF submitCourseRequest
<1>11. \A h, s : RevokeActiveInvitations(h, s) => Turn  BY TurnTaken DEF RevokeActiveInvitations
<1>12. \A h, k : createInvitation(h, k) => Turn  BY TurnTaken DEF createInvitation
<1>13. \A k : LinkEnds(k) => Turn  BY TurnTaken DEF LinkEnds
<1>14. \A q, d : SearchBegins(q, d) => Turn  BY TurnTaken DEF SearchBegins
<1>15. \A q, s : ReadStudent(q, s) => Turn  BY TurnTaken DEF ReadStudent
<1>16. \A q, c : ReadCourt(q, c) => Turn  BY TurnTaken DEF ReadCourt
<1>17. \A q : SearchAnswers(q) => Turn  BY TurnTaken DEF SearchAnswers
<1>18. \A l : proposeLesson(l) => Turn  BY TurnTaken DEF proposeLesson
<1>19. \A h, l, to : CheckTransition(h, l, to) => Turn  BY TurnTaken DEF CheckTransition
<1>20. \A h : updateLessonStatus(h) => Turn  BY TurnTaken DEF updateLessonStatus
<1>21. QED  BY <1>1, <1>2, <1>3, <1>4, <1>5, <1>6, <1>7, <1>8, <1>9, <1>10, <1>11, <1>12, <1>13, <1>14, <1>15,
              <1>16, <1>17, <1>18, <1>19, <1>20 DEF AcademyNext

LEMMA PagesTurns == PagesNext => Turn
<1>1. \A r : EditRates(r) => Turn  BY TurnTaken DEF EditRates
<1>2. \A p : choosePlace(p) => Turn  BY TurnTaken DEF choosePlace
<1>3. \A slot, d : chooseSlot(slot, d) => Turn  BY TurnTaken DEF chooseSlot
<1>4. \A a : SlotsAnswer(a) => Turn  BY TurnTaken DEF SlotsAnswer
<1>5. \A a : DeskSlotsAnswer(a) => Turn  BY TurnTaken DEF DeskSlotsAnswer
<1>6. \A a : SlotsLost(a) => Turn  BY TurnTaken DEF SlotsLost
<1>7. \A a : QuoteAnswer(a) => Turn  BY TurnTaken DEF QuoteAnswer
<1>8. \A a : QuoteLost(a) => Turn  BY TurnTaken DEF QuoteLost
<1>9. signInFirst => Turn  BY TurnTaken DEF signInFirst
<1>10. BookingAnswer => Turn  BY TurnTaken DEF BookingAnswer
<1>11. BookingAnswerLost => Turn  BY TurnTaken DEF BookingAnswerLost
<1>12. BookingCreated => Turn  BY TurnTaken DEF BookingCreated
<1>13. \A path : saveDraftAndGo(path) => Turn  BY TurnTaken DEF saveDraftAndGo
<1>14. \A o : handleConfirm(o) => Turn  BY TurnTaken DEF handleConfirm
<1>15. \A o : handleCreate(o) => Turn  BY TurnTaken DEF handleCreate
<1>16. \A o : kioskPay(o) => Turn  BY TurnTaken DEF kioskPay
<1>17. \A o : kioskQr(o) => Turn  BY TurnTaken DEF kioskQr
<1>18. \A o : handleCancel(o) => Turn  BY TurnTaken DEF handleCancel
<1>19. WalletAnswer => Turn  BY TurnTaken DEF WalletAnswer
<1>20. useWallet => Turn  BY TurnTaken DEF useWallet
<1>21. FundsSpent => Turn  BY TurnTaken DEF FundsSpent
<1>22. handlePay => Turn  BY TurnTaken DEF handlePay
<1>23. PayAnswer => Turn  BY TurnTaken DEF PayAnswer
<1>24. PayAnswerLost => Turn  BY TurnTaken DEF PayAnswerLost
<1>25. Claim => Turn  BY TurnTaken DEF Claim
<1>26. poll => Turn  BY TurnTaken DEF poll
<1>27. LeaveQr => Turn  BY TurnTaken DEF LeaveQr
<1>28. \A s : PollAnswer(s) => Turn  BY TurnTaken DEF PollAnswer
<1>29. \A s : PollLost(s) => Turn  BY TurnTaken DEF PollLost
<1>30. QED  BY <1>1, <1>2, <1>3, <1>4, <1>5, <1>6, <1>7, <1>8, <1>9, <1>10, <1>11, <1>12, <1>13, <1>14, <1>15,
              <1>16, <1>17, <1>18, <1>19, <1>20, <1>21, <1>22, <1>23, <1>24, <1>25, <1>26, <1>27, <1>28, <1>29 DEF PagesNext

LEMMA MembersTurns == MembersNext => Turn
<1>1. \A m, i : Join(m, i) => Turn  BY TurnTaken DEF Join
<1>2. \A i : Leave(i) => Turn  BY TurnTaken DEF Leave
<1>3. runInBackground => Turn  BY TurnTaken DEF runInBackground
<1>4. authenticate => Turn  BY TurnTaken DEF authenticate
<1>5. FirstPage => Turn  BY TurnTaken DEF FirstPage
<1>6. NextPage => Turn  BY TurnTaken DEF NextPage
<1>7. upsertListRow => Turn  BY TurnTaken DEF upsertListRow
<1>8. getPlayerDetail => Turn  BY TurnTaken DEF getPlayerDetail
<1>9. SheetFails => Turn  BY TurnTaken DEF SheetFails
<1>10. SyncEnds => Turn  BY TurnTaken DEF SyncEnds
<1>11. SyncFails => Turn  BY TurnTaken DEF SyncFails
<1>12. QED  BY <1>1, <1>2, <1>3, <1>4, <1>5, <1>6, <1>7, <1>8, <1>9, <1>10, <1>11 DEF MembersNext

LEMMA BankTurns == BankNext => Turn
<1>1. \A p : PaymentRecorded(p) => Turn  BY TurnTaken DEF PaymentRecorded
<1>2. \A p : PaymentReversed(p) => Turn  BY TurnTaken DEF PaymentReversed
<1>3. \A i, sheet : importBatch(i, sheet) => Turn  BY TurnTaken DEF importBatch
<1>4. \A i, e : ReadMatched(i, e) => Turn  BY TurnTaken DEF ReadMatched
<1>5. \A i : FindCandidates(i) => Turn  BY TurnTaken DEF FindCandidates
<1>6. \A i : WriteRow(i) => Turn  BY TurnTaken DEF WriteRow
<1>7. \A e, p : confirmMatch(e, p) => Turn  BY TurnTaken DEF confirmMatch
<1>8. ImportCut => Turn  BY TurnTaken DEF ImportCut
<1>9. QED  BY <1>1, <1>2, <1>3, <1>4, <1>5, <1>6, <1>7, <1>8 DEF BankNext

LEMMA PremisesTurns == PremisesNext => Turn
<1>1. PollSnapshot => Turn  BY TurnTaken DEF PollSnapshot, DeviceStep
<1>2. QED  BY <1>1, AccessTurns, DeviceTurns, PanelTurns DEF PremisesNext

LEMMA ClubTurns == [ClubNext]_clubVars => Turn
<1>1. UNCHANGED clubVars => Turn
  BY DEF clubVars, baseVars, Turn
<1>2. QED
  BY <1>1, PremisesTurns, OutboxTurns, PacksTurns, DeskTurns, BankTurns, MigrationTurns, MirrorTurns,
     IdentityTurns, MembersTurns, AcademyTurns, PagesTurns DEF ClubNext

-----------------------------------------------------------------------------
(* The state that a step leaves alone *)
LEMMA AccessSame == AccessInv /\ UNCHANGED accessVars => AccessInv'
BY DEF accessVars, AccessInv, AccessTypeOK, InOrder, Revoked, Live, Apart

LEMMA OutboxSame == OutboxInv /\ UNCHANGED outboxVars => OutboxInv'
BY DEF outboxVars, OutboxInv, OutboxTypeOK, InBatch, OneHolder, Settled

LEMMA DeskSame == DeskIndInv /\ UNCHANGED deskVars => DeskIndInv'
BY DEF deskVars, DeskIndInv, DeskTypeOK, ClaimingShape, AddingShape, ClaimHolds, SessionsKept

LEMMA MigrationSame == MigrationInv /\ UNCHANGED migrationVars => MigrationInv'
BY DEF migrationVars, MigrationInv, MigrationTypeOK, ReviewTask, JoinTask, ClientsKept, ClientKept,
       LinkedElsewhere, ImportKnows, ReviewKnows, InvitationsKnown, JoinKnows

LEMMA MirrorSame == MirrorInv /\ UNCHANGED mirrorVars => MirrorInv'
BY DEF mirrorVars, MirrorInv, MirrorTypeOK, Half

LEMMA IdentitySame == IdentityInv /\ UNCHANGED identityVars => IdentityInv'
BY DEF identityVars, IdentityInv, IdentityTypeOK, AccountKept, SessionKept, LoginKept, RequestKept

LEMMA MembersSame == MembersInv /\ UNCHANGED membersVars => MembersInv'
BY DEF membersVars, MembersInv, MembersTypeOK, Listing, Reading, Ahead, ReadAll, Writing

LEMMA BankSame == BankInv /\ UNCHANGED bankVars => BankInv'
BY DEF bankVars, BankInv, BankTypeOK, ImportKept, Owned, Explains, InWindow, RowKept, PairKept

LEMMA PlacesSame == PlacesKept /\ UNCHANGED deskVars => PlacesKept'
<1> SUFFICES ASSUME PlacesKept, UNCHANGED deskVars PROVE PlacesKept'
  OBVIOUS
<1>1. rooms' = rooms /\ adding' = adding
  BY DEF deskVars
<1>2. \A s : AddsTo(s)' = AddsTo(s)
  BY <1>1 DEF AddsTo
<1>3. \A s : Reserved(s)' = Reserved(s)
  BY <1>1, <1>2 DEF Reserved
<1>4. QED
  BY <1>1, <1>3 DEF PlacesKept

\* The counters of the behaviour may have grown.
LEMMA PacksSame ==
    ASSUME PacksInv, UNCHANGED packVars, Turn
    PROVE  PacksInv'
<1>1. BaseTypeOK' /\ budget'.faults >= budget.faults
  BY TurnCounts DEF PacksInv
<1>2. budget.faults \in Nat /\ budget'.faults \in Nat
  BY <1>1 DEF PacksInv, BaseTypeOK
<1>3. budget'.faults = 0 => budget.faults = 0
  BY <1>1, <1>2
<1>4. PacksTypeOK' /\ RefundsGiven' /\ OneWinner' /\ Linked'
  BY DEF packVars, PacksInv, CreditInv, PacksTypeOK, RefundsGiven, Handed, OneWinner, Linked
<1>5. Ledger'
  BY <1>3 DEF packVars, PacksInv, CreditInv, Ledger
<1>6. QED
  BY <1>1, <1>4, <1>5 DEF PacksInv, CreditInv

LEMMA PagesSame ==
    ASSUME PagesInv, BaseTypeOK, UNCHANGED pagesVars, Turn
    PROVE  PagesInv'
<1>1. BaseTypeOK' /\ budget'.faults >= budget.faults
  BY TurnCounts
<1>2. PagesShape'
  BY <1>1 DEF pagesVars, PagesInv, PagesShape, BaseTypeOK
<1>3. PageKept' /\ TillKept' /\ QrKept'
  BY DEF pagesVars, PagesInv, PageKept, TillKept, QrKept
<1>4. Quoted'
  BY DEF pagesVars, PagesInv, Quoted, Sure, PresentPrice
<1>5. \A o \in Orders : OrderKept(o)'
  BY DEF pagesVars, PagesInv, OrderKept
<1>6. StrayKept'
  <2>1. Stray' = Stray
    BY DEF pagesVars, Stray
  <2>2. budget.faults \in Nat /\ budget'.faults \in Nat
    BY <1>1 DEF BaseTypeOK
  <2>3. IsFiniteSet(Stray) /\ Cardinality(Stray) <= budget.faults /\ Cardinality(Stray) \in Nat
    BY FS_CardinalityType DEF PagesInv, StrayKept
  <2>4. Cardinality(Stray) <= budget'.faults
    BY <1>1, <2>2, <2>3
  <2>5. QED
    BY <2>1, <2>3, <2>4 DEF StrayKept
<1>7. QED
  BY <1>2, <1>3, <1>4, <1>5, <1>6 DEF PagesInv

-----------------------------------------------------------------------------
(* The invariant of the club *)
ClubInv ==
    /\ BaseTypeOK
    /\ AccessInv /\ DeviceInv /\ OutboxInv /\ PacksInv /\ DeskIndInv /\ PlacesKept /\ BankInv
    /\ MigrationInv /\ MirrorInv /\ IdentityInv /\ MembersInv /\ AcademyInv /\ BookingsKept /\ PagesInv

LEMMA ClubStart == ClubInit => ClubInv
<1> SUFFICES ASSUME ClubInit PROVE ClubInv
  OBVIOUS
<1>1. BaseInit /\ BaseTypeOK
  BY DEF ClubInit, BaseInit, BaseTypeOK
<1>2. AccessInv /\ DeviceInv /\ OutboxInv /\ PacksInv /\ DeskIndInv /\ PlacesKept /\ BankInv
  BY <1>1, AccessStart, DeviceStart, OutboxStart, PacksStart, DeskStart, PlacesStart, BankStart DEF ClubInit
<1>3. MigrationInv /\ MirrorInv /\ IdentityInv /\ MembersInv /\ AcademyInv /\ BookingsKept /\ PagesInv
  BY <1>1, MigrationStart, MirrorStart, IdentityStart, MembersStart, AcademyStart, BookingsStart, PagesStart
     DEF ClubInit
<1>4. QED  BY <1>1, <1>2, <1>3 DEF ClubInv

\* A step of the club is a step of a component, or leaves it alone.
LEMMA StepsOfOthers ==
    ASSUME [ClubNext]_clubVars
    PROVE  /\ premisesStep \/ UNCHANGED premises
           /\ OutboxNext \/ UNCHANGED outboxVars
           /\ PacksNext \/ UNCHANGED packVars
           /\ DeskNext \/ UNCHANGED deskVars
           /\ BankNext \/ UNCHANGED bankVars
           /\ MigrationNext \/ UNCHANGED migrationVars
           /\ MirrorNext \/ UNCHANGED mirrorVars
           /\ IdentityNext \/ UNCHANGED identityVars
           /\ MembersNext \/ UNCHANGED membersVars
           /\ AcademyNext \/ UNCHANGED academyVars
           /\ PagesNext \/ UNCHANGED pagesVars
BY DEF ClubNext, clubVars, premisesStep, premises, backOffice, records, calendars, notPremises, notOutbox, notPacks,
       notDesk, notBank, notMigration, notMirror, notIdentity, notMembers, notAcademy, notPages

\* A step of one component keeps what holds of all.
LEMMA ClubKeeps == ClubInv /\ [ClubNext]_clubVars => ClubInv'
<1> SUFFICES ASSUME ClubInv, [ClubNext]_clubVars PROVE ClubInv'
  OBVIOUS
<1> USE DEF ClubInv
<1>1. Turn
  BY ClubTurns
<1>2. BaseTypeOK'
  BY <1>1, TurnCounts
<1>3. AccessInv' /\ DeviceInv'
  <2>1. CASE premisesStep
    BY <2>1, PremisesKeep
  <2>2. CASE UNCHANGED premises
    BY <2>2, AccessSame, DeviceSame DEF premises
  <2>3. QED  BY <2>1, <2>2, StepsOfOthers
<1>4. OutboxInv'
  BY StepsOfOthers, OutboxStep, OutboxSame DEF outboxStep
<1>5. PacksInv'
  BY <1>1, StepsOfOthers, PacksStep, PacksSame DEF packsStep
<1>6. DeskIndInv' /\ PlacesKept'
  BY StepsOfOthers, DeskStep, PlacesStep, DeskSame, PlacesSame
<1>7. BankInv'
  BY StepsOfOthers, BankKeeps, BankSame DEF bankStep
<1>8. MigrationInv'
  BY StepsOfOthers, MigrationStepKeeps, MigrationSame DEF migrationStep
<1>9. MirrorInv'
  BY StepsOfOthers, MirrorKeeps, MirrorSame
<1>10. IdentityInv'
  BY StepsOfOthers, IdentityKeeps, IdentitySame DEF identityStep
<1>11. MembersInv'
  BY StepsOfOthers, MembersSteps, MembersSame
<1>12. AcademyInv' /\ BookingsKept'
  BY StepsOfOthers, AcademySteps, BookingsSteps
<1>13. PagesInv'
  BY <1>1, StepsOfOthers, PagesSteps, PagesSame
<1>14. QED  BY <1>2, <1>3, <1>4, <1>5, <1>6, <1>7, <1>8, <1>9, <1>10, <1>11, <1>12, <1>13

-----------------------------------------------------------------------------
\* All the state of the club keeps its type, whatever the components do side
\* by side.
THEOREM ClubTyped == ClubSpec => []ClubTypeOK
<1>1. ASSUME ClubInv PROVE ClubTypeOK
  <2>1. BaseTypeOK /\ AccessTypeOK /\ DeviceTypeOK /\ OutboxTypeOK /\ PacksTypeOK /\ DeskTypeOK /\ MigrationTypeOK
    BY <1>1, ShapeTyped DEF ClubInv, AccessInv, DeviceInv, OutboxInv, PacksInv, DeskIndInv, MigrationInv
  <2>2. MirrorTypeOK /\ IdentityTypeOK /\ AcademyTypeOK /\ PagesTypeOK /\ MembersTypeOK /\ BankTypeOK
    BY <1>1, PagesTypes DEF ClubInv, MirrorInv, IdentityInv, AcademyInv, MembersInv, BankInv
  <2>3. QED  BY <2>1, <2>2 DEF ClubTypeOK
<1>2. QED
  BY <1>1, ClubStart, ClubKeeps, PTL DEF ClubSpec

\* What each component promises on its own holds of the club, where the steps
\* of the others come between its own and share the counters of the behaviour:
\* the codes of the doors follow the bookings, a command moves its relay once,
\* a pack is credited once, the places and the sessions of the desk, the
\* clients and their accounts, the sessions and the passwords, the members,
\* the matches of the bank, the prices of the pages, the light of the courts.
THEOREM ClubSafe ==
    ClubSpec => [](/\ CodesFollowBookings /\ CommandsRunOnce /\ PackCreditedOnce /\ DeskKept
                   /\ OneClientPerAccount /\ SessionsFollowPasswords /\ NobodyForgotten
                   /\ MatchedOnce /\ PaidIsShown /\ LightStaysOn)
<1> DEFINE Safe == /\ CodesFollowBookings /\ CommandsRunOnce /\ PackCreditedOnce /\ DeskKept
                   /\ OneClientPerAccount /\ SessionsFollowPasswords /\ NobodyForgotten
                   /\ MatchedOnce /\ PaidIsShown /\ LightStaysOn
<1>1. ASSUME ClubInv PROVE Safe
  <2>1. CodesFollowBookings /\ CommandsRunOnce /\ PackCreditedOnce
    BY <1>1, CodesFromInv, DeviceFromInv, CreditFromInv DEF ClubInv
  <2>2. DeskKept /\ OneClientPerAccount /\ SessionsFollowPasswords
    BY <1>1, DeskFromInv, AccountsFromInv, PasswordsFromInv DEF ClubInv
  <2>3. NobodyForgotten /\ MatchedOnce /\ PaidIsShown /\ LightStaysOn
    BY <1>1, NobodyFromInv, BankFromInv, PaidFromInv, LightFromInv DEF ClubInv
  <2>4. QED  BY <2>1, <2>2, <2>3
<1> HIDE DEF Safe
<1>2. ClubSpec => []Safe
  BY <1>1, ClubStart, ClubKeeps, PTL DEF ClubSpec
<1>3. QED
  BY <1>2 DEF Safe

\* A notification that is settled stays so, in every step of the club.
THEOREM ClubSettles == ClubSpec => SentIsFinal
<1>1. ClubInv /\ [ClubNext]_clubVars =>
        [\A n \in Notices : Settled(n) /\ ~outbox[n].shared =>
            outbox'[n].status = outbox[n].status /\ outbox'[n].mails = outbox[n].mails]_<<baseVars, outboxVars>>
  <2> SUFFICES ASSUME ClubInv, [ClubNext]_clubVars, NEW n \in Notices, Settled(n), ~outbox[n].shared
               PROVE  outbox'[n].status = outbox[n].status /\ outbox'[n].mails = outbox[n].mails
    OBVIOUS
  <2>1. CASE OutboxNext
    BY <2>1, SettledStays DEF ClubInv, outboxStep
  <2>2. CASE UNCHANGED outboxVars
    BY <2>2 DEF outboxVars
  <2>3. QED  BY <2>1, <2>2, StepsOfOthers
<1>2. QED
  BY <1>1, ClubStart, ClubKeeps, PTL DEF ClubSpec, SentIsFinal

\* Whatever changes between the queries of a search of the academy, in every
\* step of the club: the slots it reads are playable at that moment, and its
\* offers are the lessons that the coach, the students and a court can give,
\* none too many and none missing.
THEOREM ClubOffers == ClubSpec => OffersFit
<1>1. ClubInv /\ [ClubNext]_clubVars => [\A q \in Searches : SearchFits(q)]_<<baseVars, academyVars>>
  BY StepsOfOthers, AcademySteps DEF ClubInv
<1>2. QED
  BY <1>1, ClubStart, ClubKeeps, PTL DEF ClubSpec, OffersFit
=============================================================================
