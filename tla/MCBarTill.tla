----------------------------- MODULE MCBarTill -----------------------------
EXTENDS BarTill, TLC

MCSymmetry == Permutations(Procs) \cup Permutations(Keys)

\* One till: nobody counts the cash while a payment, a movement or a reversal
\* is being entered, and reversals are entered one at a time.
MCApart == {{"reverse"}, {"reverse", "count"}, {"pay", "count"}, {"move", "count"}}

\* calls whose failure recordPayment handles
MCHandled == {"balance", "debit"}
=============================================================================
