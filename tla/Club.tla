-------------------------------- MODULE Club --------------------------------
(***************************************************************************)
(* The components of the club that do not handle the payments of bookings, *)
(* side by side.  In one behaviour the users of one component are active,  *)
(* the one that focus names; the doors and the device that opens them are  *)
(* one system (DeviceSync extends AccessGrants), the others share nothing  *)
(* but the definitions they extend.  One specification for all of them     *)
(* means one set of constants, one next-state relation and one statement   *)
(* of what goes on by itself.                                              *)
(***************************************************************************)
EXTENDS DeviceSync, Outbox, CreditPacks, Desk, Migration, LegacyMirror, Identity, Academy,
        BookingPages, MemberSync, Reconciliation

clubVars == <<baseVars, accessVars, deviceVars, outboxVars, packVars, deskVars, migrationVars,
              mirrorVars, identityVars, academyVars, pagesVars, membersVars, bankVars>>

ClubInit ==
    /\ BaseInit /\ AccessInit /\ DeviceInit /\ OutboxInit /\ PacksInit /\ DeskInit /\ MigrationInit
    /\ MirrorInit /\ IdentityInit /\ AcademyInit /\ PagesInit /\ MembersInit
    /\ BankInit

\* What each one leaves alone
backOffice == <<outboxVars, packVars, deskVars, bankVars>>
records == <<migrationVars, mirrorVars, identityVars, membersVars>>
premises == <<accessVars, deviceVars>>
calendars == <<academyVars, pagesVars>>

notPremises == <<backOffice, records, calendars>>
notOutbox == <<premises, packVars, deskVars, bankVars, records, calendars>>
notPacks == <<premises, outboxVars, deskVars, bankVars, records, calendars>>
notDesk == <<premises, outboxVars, packVars, bankVars, records, calendars>>
notBank == <<premises, outboxVars, packVars, deskVars, records, calendars>>
notMigration == <<premises, backOffice, mirrorVars, identityVars, membersVars, calendars>>
notMirror == <<premises, backOffice, migrationVars, identityVars, membersVars, calendars>>
notIdentity == <<premises, backOffice, migrationVars, mirrorVars, membersVars, calendars>>
notMembers == <<premises, backOffice, migrationVars, mirrorVars, identityVars, calendars>>
notAcademy == <<premises, backOffice, records, pagesVars>>
notPages == <<premises, backOffice, records, academyVars>>

ClubNext ==
    \/ PremisesNext /\ UNCHANGED notPremises
    \/ OutboxNext /\ UNCHANGED notOutbox
    \/ PacksNext /\ UNCHANGED notPacks
    \/ DeskNext /\ UNCHANGED notDesk
    \/ BankNext /\ UNCHANGED notBank
    \/ MigrationNext /\ UNCHANGED notMigration
    \/ MirrorNext /\ UNCHANGED notMirror
    \/ IdentityNext /\ UNCHANGED notIdentity
    \/ MembersNext /\ UNCHANGED notMembers
    \/ AcademyNext /\ UNCHANGED notAcademy
    \/ PagesNext /\ UNCHANGED notPages

(* The loop of the device, the clock and the timer of the page that follows *)
(* a command go on; a batch of notifications that was started goes on; the  *)
(* timers of the synchronisation fire for as long as the server runs, and a *)
(* run goes on unless it fails.                                             *)
ClubFairness ==
    /\ WF_premises(DeviceLoop)
    /\ \A c \in Commands : WF_premises(Clock(c))
    /\ WF_premises(PanelClock)
    /\ \A d \in Dispatchers : WF_outboxVars(DispatcherStep(d))
    /\ WF_mirrorVars(runFastSync)
    /\ WF_mirrorVars(runReconciliation)
    /\ \A k \in Importers : WF_mirrorVars(RunStep(k))
    /\ WF_mirrorVars(ReconciliationStep)

ClubSpec == ClubInit /\ [][ClubNext]_clubVars /\ ClubFairness

\* The types of all the state of these modules
ClubTypeOK ==
    /\ BaseTypeOK /\ AccessTypeOK /\ DeviceTypeOK /\ OutboxTypeOK /\ PacksTypeOK /\ DeskTypeOK
    /\ MigrationTypeOK /\ MirrorTypeOK /\ IdentityTypeOK /\ AcademyTypeOK /\ PagesTypeOK
    /\ MembersTypeOK /\ BankTypeOK
=============================================================================
