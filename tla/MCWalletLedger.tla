--------------------------- MODULE MCWalletLedger ---------------------------
EXTENDS WalletLedger, TLC

Opening(bonus, paid, comp) ==
    [o \in Origins |-> IF o = "BONUS" THEN bonus ELSE IF o = "PAID" THEN paid ELSE comp]

\* a credit of every origin, so that a debit spans several
MCOpenings == {Opening(1, 1, 1)}
MCSmallOpenings == {Opening(0, 3, 0), Opening(1, 2, 0)}

MCSymmetry == Permutations(Holds) \cup Permutations(Procs)
=============================================================================
