--------------------------- MODULE CreditAccount ----------------------------
(***************************************************************************)
(* What the wallet promises its callers (ADR 0007): an account with a      *)
(* total and a reserved part, on which every operation is one step and     *)
(* nothing is debited or reserved beyond what is available.                *)
(***************************************************************************)
EXTENDS Integers

VARIABLES total, reserved

Init == total \in Nat /\ reserved = 0

Available == total - reserved

Credit == total' > total /\ UNCHANGED reserved

Debit == total' < total /\ total - total' <= Available /\ UNCHANGED reserved

Reserve == reserved' > reserved /\ reserved' - reserved <= Available /\ UNCHANGED total

Release == reserved' < reserved /\ reserved' >= 0 /\ UNCHANGED total

\* a hold becomes a debit of the same amount
Settle ==
    /\ reserved' < reserved /\ reserved' >= 0
    /\ total - total' = reserved - reserved'

Next == Credit \/ Debit \/ Reserve \/ Release \/ Settle

Spec == Init /\ [][Next]_<<total, reserved>>

\* Reservations are always covered by credits.
Solvent == 0 <= reserved /\ reserved <= total
=============================================================================
