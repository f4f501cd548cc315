------------------------------- MODULE Routes -------------------------------
(***************************************************************************)
(* What a request must show to reach an operation of the server.  One      *)
(* definition per router (the *.routes.ts files): an operation is named by *)
(* its method and path, and belongs to the area its path begins with; the  *)
(* middlewares of its route say what it needs.  The parsing of parameters, *)
(* the call of the service and the shape of the answer are left to the     *)
(* modules of the services; so is the check that a booking, a payment or a *)
(* method belongs to the user who asks.                                    *)
(***************************************************************************)
EXTENDS Integers

\* Roles, from the least to the most
Roles == {"CUSTOMER", "COACH", "STAFF", "ADMIN", "SUPER_ADMIN"}
Rank == [r \in Roles |-> CASE r = "CUSTOMER" -> 0 [] r = "COACH" -> 1 [] r = "STAFF" -> 2
                           [] r = "ADMIN" -> 3 [] r = "SUPER_ADMIN" -> 4]
roleAtLeast(role, required) == Rank[role] >= Rank[required]

\* A need: nothing, a session (requireAuth), a session with a role
\* (requireRole), or the key of a tablet, the key of a device, the token of a
\* student, the signature of Stripe
Needs == {"anyone", "user", "kiosk", "device", "student", "stripe"} \cup Roles
Areas == {"auth", "me", "club", "academy", "kiosk", "device", "webhook", "nextore", "admin"}

Route(area, needs, operations) == [area : {area}, needs : {needs}, operation : operations]

AcademyRoutes ==
    Route("academy", "COACH", {
        "POST /academy/teacher-availability", "GET /academy/teacher-availability",
        "DELETE /academy/teacher-availability/:id", "GET /academy/lessons/teacher",
        "POST /academy/lessons", "POST /academy/lessons/:id/confirm",
        "POST /academy/lessons/:id/cancel", "GET /academy/possible-slots"})
    \cup Route("academy", "STAFF", {"POST /academy/invitations"})
    \cup Route("academy", "anyone", {"GET /academy/invitations/:token"})
    \cup Route("academy", "student", {
        "POST /academy/student-availability", "GET /academy/student-availability",
        "DELETE /academy/student-availability/:id", "POST /academy/course-requests",
        "GET /academy/my-lessons"})

AccessRoutes ==
    Route("club", "user", {"GET /bookings/:id/access"})

AlertsRoutes ==
    Route("admin", "STAFF", {"GET /admin/alerts"})

AuditLogRoutes ==
    Route("admin", "STAFF", {"GET /admin/audit-log"})

BookingsAdminRoutes ==
    Route("admin", "STAFF", {
        "GET /admin/bookings", "GET /admin/legacy-bookings", "GET /admin/revenue-by-channel",
        "GET /admin/access-grants", "GET /admin/bookings/:id"})
    \cup Route("admin", "ADMIN", {
        "POST /admin/bookings", "POST /admin/bookings/:id/cancel",
        "POST /admin/bookings/:id/force-resync", "POST /admin/bookings/:id/participants",
        "DELETE /admin/bookings/:id/participants/:participantId"})

CreditPackAdminRoutes ==
    Route("admin", "STAFF", {
        "GET /admin/credit-packs", "GET /admin/credit-pack-purchases"})
    \cup Route("admin", "ADMIN", {
        "POST /admin/credit-packs", "PATCH /admin/credit-packs/:id",
        "POST /admin/credit-packs/:id/deactivate"})

CrmRoutes ==
    Route("admin", "STAFF", {
        "GET /admin/clients", "GET /admin/clients/:userId",
        "POST /admin/clients/:userId/notes"})
    \cup Route("admin", "SUPER_ADMIN", {"PATCH /admin/clients/:userId/role"})
    \cup Route("admin", "ADMIN", {"PATCH /admin/clients/:userId/pilot-cohort"})

HealthIndicatorsRoutes ==
    Route("admin", "STAFF", {"GET /admin/health-indicators"})

LegacyMigrationAdminRoutes ==
    Route("admin", "STAFF", {"GET /admin/legacy-clients", "GET /admin/legacy-sync-runs"})
    \cup Route("admin", "ADMIN", {
        "POST /admin/legacy-clients/:id/link", "POST /admin/legacy-clients/:id/disable",
        "POST /admin/legacy-clients/:id/reset"})

PaymentsAdminRoutes ==
    Route("admin", "STAFF", {"GET /admin/payments"})
    \cup Route("admin", "ADMIN", {"POST /admin/payments/:id/refund"})

ReportsRoutes ==
    Route("admin", "STAFF", {"GET /admin/reports/bookings-revenue"})

SchedulingAdminRoutes ==
    Route("admin", "STAFF", {
        "GET /admin/tariff-rules", "GET /admin/opening-rules", "GET /admin/court-closures"})
    \cup Route("admin", "ADMIN", {
        "POST /admin/tariff-rules", "POST /admin/tariff-rules/:id/deactivate",
        "POST /admin/opening-rules", "POST /admin/opening-rules/:id/deactivate",
        "POST /admin/court-closures", "DELETE /admin/court-closures/:id"})

SettingsRoutes ==
    Route("admin", "SUPER_ADMIN", {"GET /admin/settings"})

TerminalAdminRoutes ==
    Route("admin", "STAFF", {"GET /admin/terminal-devices"})
    \cup Route("admin", "ADMIN", {
        "POST /admin/terminal-devices", "POST /admin/terminal-devices/:id/revoke"})

WalletAdminRoutes ==
    Route("admin", "STAFF", {
        "GET /admin/wallets/:walletAccountId/holds",
        "GET /admin/wallets/:walletAccountId/transactions"})
    \cup Route("admin", "ADMIN", {
        "POST /admin/wallets/:walletAccountId/credit",
        "POST /admin/wallets/:walletAccountId/debit", "POST /admin/wallet-holds/:id/release",
        "POST /admin/wallet-holds/:id/capture"})

AfpadelRoutes ==
    Route("admin", "STAFF", {
        "GET /admin/afp-members", "GET /admin/afp-members/export",
        "GET /admin/afp-members/sync-status"})
    \cup Route("admin", "ADMIN", {"POST /admin/afp-members/sync"})

AutomationRoutes ==
    Route("admin", "ADMIN", {
        "POST /admin/automation-devices", "GET /admin/automation-devices",
        "POST /admin/automation-devices/:id/revoke", "POST /admin/automation-zones",
        "PATCH /admin/automation-zones/:id", "POST /admin/automation-devices/:id/commands"})
    \cup Route("admin", "STAFF", {
        "GET /admin/automation-zones", "POST /admin/automation-zones/:key/commands",
        "GET /admin/automation-devices/:id/commands", "GET /admin/automation-commands/:id",
        "POST /admin/automation/test-code"})
    \cup Route("device", "device", {
        "GET /devices/automation/snapshot", "POST /devices/automation/heartbeat",
        "POST /devices/automation/commands/:id/ack", "POST /devices/automation/events"})

StaffAccessCodeRoutes ==
    Route("admin", "ADMIN", {
        "POST /admin/staff-access-codes", "GET /admin/staff-access-codes",
        "POST /admin/staff-access-codes/:id/revoke"})

AvailabilityRoutes ==
    Route("club", "anyone", {"GET /availability"})

BookingSharesRoutes ==
    Route("club", "user", {
        "GET /bookings/:id/shares", "POST /booking-shares/:token/pay"})
    \cup Route("club", "anyone", {"GET /booking-shares/:token"})

BookingsRoutes ==
    Route("club", "user", {
        "POST /bookings", "GET /bookings/:id", "POST /bookings/:id/cancel",
        "POST /bookings/:id/participants", "DELETE /bookings/:id/participants/:participantId"})
    \cup Route("me", "user", {"GET /me/bookings"})

CourtsRoutes ==
    Route("club", "anyone", {"GET /courts"})

CreditPacksRoutes ==
    Route("club", "anyone", {"GET /credit-packs"})
    \cup Route("club", "user", {
        "POST /credit-packs/:id/purchase", "GET /credit-pack-purchases/:id"})

IdentityRoutes ==
    Route("auth", "anyone", {
        "POST /auth/register", "POST /auth/verify-email", "POST /auth/verify-email/resend",
        "POST /auth/login", "POST /auth/logout", "POST /auth/password/forgot",
        "POST /auth/password/reset", "POST /auth/email-change/confirm"})
    \cup Route("auth", "user", {
        "POST /auth/logout-all", "GET /auth/me", "POST /auth/password/change"})

ProfileRoutes ==
    Route("me", "user", {
        "GET /me/profile", "PATCH /me/profile", "POST /me/profile/email-change"})

KioskRoutes ==
    Route("admin", "ADMIN", {
        "POST /admin/kiosk-devices", "GET /admin/kiosk-devices",
        "POST /admin/kiosk-devices/:id/revoke"})
    \cup Route("kiosk", "kiosk", {
        "POST /kiosk/checkout-sessions", "GET /kiosk/checkout-sessions/:id/status",
        "POST /kiosk/checkout-sessions/:id/cancel"})
    \cup Route("kiosk", "anyone", {"GET /kiosk/checkout-sessions/:token"})

MigrationInvitationRoutes ==
    Route("admin", "ADMIN", {"POST /admin/legacy-clients/:id/invite"})
    \cup Route("auth", "anyone", {
        "POST /auth/migration-invite/validate", "POST /auth/migration-invite/confirm"})

NextoreAccountsRoutes ==
    Route("nextore", "STAFF", {
        "GET /nextore/clients/search", "GET /nextore/accounts", "POST /nextore/accounts",
        "GET /nextore/accounts/:id", "POST /nextore/accounts/:id/participants",
        "POST /nextore/participants/:participantId/leave", "POST /nextore/accounts/:id/lines",
        "POST /nextore/lines/:lineId/void", "POST /nextore/accounts/:id/close"})

NextoreCashSessionRoutes ==
    Route("nextore", "STAFF", {
        "GET /nextore/cash-sessions/current", "POST /nextore/cash-sessions",
        "GET /nextore/cash-sessions/:id", "GET /nextore/cash-sessions/:id/report",
        "POST /nextore/cash-sessions/:id/movements"})
    \cup Route("nextore", "ADMIN", {"POST /nextore/cash-sessions/:id/close"})

NextoreCatalogRoutes ==
    Route("nextore", "STAFF", {"GET /nextore/categories", "GET /nextore/articles"})
    \cup Route("admin", "ADMIN", {
        "POST /admin/nextore/categories", "PATCH /admin/nextore/categories/:id/active",
        "POST /admin/nextore/articles", "POST /admin/nextore/articles/:id/duplicate",
        "PATCH /admin/nextore/articles/:id/price", "PATCH /admin/nextore/articles/:id/active"})

NextorePaymentsRoutes ==
    Route("nextore", "STAFF", {
        "GET /nextore/accounts/:id/payments", "POST /nextore/accounts/:id/payments",
        "POST /nextore/payments/:paymentId/reverse"})

NextoreReconciliationRoutes ==
    Route("admin", "ADMIN", {
        "POST /admin/nextore/reconciliation/import",
        "GET /admin/nextore/reconciliation/exceptions",
        "GET /admin/nextore/reconciliation/unreconciled-card-payments",
        "POST /admin/nextore/reconciliation/entries/:entryId/confirm"})

NextoreReportingRoutes ==
    Route("admin", "ADMIN", {
        "GET /admin/nextore/reports/sales-by-day",
        "GET /admin/nextore/reports/sales-by-article",
        "GET /admin/nextore/reports/sales-by-category",
        "GET /admin/nextore/reports/sales-by-vat-rate",
        "GET /admin/nextore/reports/payments-by-method",
        "GET /admin/nextore/reports/voided-lines",
        "GET /admin/nextore/reports/reversed-payments",
        "GET /admin/nextore/reports/cash-variances"})
    \cup Route("admin", "STAFF", {
        "GET /admin/nextore/reports/open-accounts",
        "GET /admin/nextore/reports/stale-open-accounts"})

NextoreSplitRoutes ==
    Route("nextore", "STAFF", {
        "GET /nextore/accounts/:id/split-preview",
        "GET /nextore/accounts/:id/participants-summary"})

NotificationsRoutes ==
    Route("admin", "ADMIN", {"POST /admin/notifications/dispatch-due"})

PaymentsRoutes ==
    Route("club", "user", {
        "POST /payments/checkout", "GET /bookings/:id/split-preview",
        "GET /payments/:id/status", "POST /payments/setup"})
    \cup Route("me", "user", {"GET /me/payment-methods", "DELETE /me/payment-methods/:id"})

TerminalRoutes ==
    Route("kiosk", "kiosk", {
        "POST /terminal/connection-token", "POST /terminal/payment-intents",
        "GET /terminal/devices"})

WebhookRoutes ==
    Route("webhook", "stripe", {"POST /webhooks/stripe"})

PricingRoutes ==
    Route("club", "anyone", {"GET /pricing/quote"})

WalletRoutes ==
    Route("me", "user", {"GET /me/wallet", "GET /me/wallet/transactions"})

HealthRoutes ==
    Route("club", "anyone", {"GET /health"})

\* The routers createApp mounts
Routes ==
    UNION {AcademyRoutes, AccessRoutes, AlertsRoutes, AuditLogRoutes, BookingsAdminRoutes,
           CreditPackAdminRoutes, CrmRoutes, HealthIndicatorsRoutes,
           LegacyMigrationAdminRoutes, PaymentsAdminRoutes, ReportsRoutes,
           SchedulingAdminRoutes, SettingsRoutes, TerminalAdminRoutes, WalletAdminRoutes,
           AfpadelRoutes, AutomationRoutes, StaffAccessCodeRoutes, AvailabilityRoutes,
           BookingSharesRoutes, BookingsRoutes, CourtsRoutes, CreditPacksRoutes,
           IdentityRoutes, ProfileRoutes, KioskRoutes, MigrationInvitationRoutes,
           NextoreAccountsRoutes, NextoreCashSessionRoutes, NextoreCatalogRoutes,
           NextorePaymentsRoutes, NextoreReconciliationRoutes, NextoreReportingRoutes,
           NextoreSplitRoutes, NotificationsRoutes, PaymentsRoutes, TerminalRoutes,
           WebhookRoutes, PricingRoutes, WalletRoutes, HealthRoutes}
=============================================================================
