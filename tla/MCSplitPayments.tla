-------------------------- MODULE MCSplitPayments --------------------------
EXTENDS SplitPayments

\* calls whose failure the code handles before any money moved
MCHandled == {"authorizeShare", "debit", "insertPayment", "legacy", "capture"}

\* an issuer that never asks a guest for 3-D Secure
MCNoChallenge == {"requires_capture", "failed", "error"}
MCAnyAnswer == {"requires_action", "requires_capture", "failed", "error"}
=============================================================================
