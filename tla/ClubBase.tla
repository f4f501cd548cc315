------------------------------ MODULE ClubBase ------------------------------
(***************************************************************************)
(* What the component modules of the club share: the null value, the       *)
(* component that receives requests in the present behaviour, and the      *)
(* counters that bound a behaviour.  The bounds are functions of the       *)
(* component, so that each one is given what its cases need.               *)
(***************************************************************************)
EXTENDS Integers, FiniteSets

CONSTANTS
    None,          \* null
    Components,    \* names of the components
    MaxRequests,   \* bound: requests received, by component
    MaxFaults      \* bound: failures of the network or of a process, by component

ASSUME ClubAssumption ==
    /\ MaxRequests \in [Components -> Nat]
    /\ MaxFaults \in [Components -> Nat]

VARIABLES
    focus,    \* the component whose users are active in this behaviour
    budget    \* requests and faults so far

baseVars == <<focus, budget>>

BaseTypeOK == focus \in Components /\ budget \in [requests : Nat, faults : Nat]

BaseInit == focus \in Components /\ budget = [requests |-> 0, faults |-> 0]

Request(c) ==
    /\ focus = c /\ budget.requests < MaxRequests[c]
    /\ budget' = [budget EXCEPT !.requests = @ + 1]
    /\ UNCHANGED focus

Fault(c) ==
    /\ focus = c /\ budget.faults < MaxFaults[c]
    /\ budget' = [budget EXCEPT !.faults = @ + 1]
    /\ UNCHANGED focus

Step(c) == focus = c /\ UNCHANGED baseVars
=============================================================================
