--------------------------- MODULE SplitCalculator ---------------------------
(***************************************************************************)
(* computeSplitShares (bookings/split-calculator.ts) over splitEvenly      *)
(* (packages/shared/src/money.ts): the price of the court and the service  *)
(* fee cut into whole cents.  Share 1 is the organizer's.                  *)
(***************************************************************************)
EXTENDS Integers, Functions

Allocations == {"ORGANIZER", "PRO_RATA"}

\* mutant: the cents that are left over are lost
splitByFloor(total, parts) == [i \in 1..parts |-> total \div parts]

\* the cents that are left over go to the first parts
splitEvenly(total, parts) ==
    [i \in 1..parts |-> total \div parts + (IF i <= total % parts THEN 1 ELSE 0)]

feeAmounts(fee, parts, allocation) ==
    IF allocation = "ORGANIZER" THEN [i \in 1..parts |-> IF i = 1 THEN fee ELSE 0]
    ELSE splitEvenly(fee, parts)

computeSplitShares(price, parts, fee, allocation) ==
    [i \in 1..parts |-> splitEvenly(price, parts)[i] + feeAmounts(fee, parts, allocation)[i]]

=============================================================================
