----------------------------- MODULE MCCheckout -----------------------------
EXTENDS Checkout, TLC

MCSymmetry == Permutations(Holds) \cup Permutations(Procs)

\* calls made once the money is authorized
MCExternal == {"legacy", "capture", "cancelLegacy"}

\* every call may fail, and the server may stop
MCAnywhere == (Pc \ {"idle"}) \cup {"crash"}
=============================================================================
