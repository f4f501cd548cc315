------------------------------- MODULE MCClub -------------------------------
(***************************************************************************)
(* A small club: what the configurations club.cfg and lost_command.cfg     *)
(* give to the constants that are not sets of model values.                *)
(***************************************************************************)
EXTENDS Club

\* Requests received while one component is in focus, and failures
MCRequests == [c \in Components |->
    CASE c \in {"device", "panel", "outbox", "afpadel"} -> 2
      [] c \in {"access", "mirror", "migration"} -> 3
      [] c \in {"packs", "academy", "pages", "bank"} -> 4
      [] OTHER -> 5]

MCFaults == [c \in Components |->
    CASE c = "academy" -> 0 [] c \in {"outbox", "mirror"} -> 2 [] OTHER -> 1]

\* Two opening rules that overlap, games of two units, the light one unit before
MCOpeningRules == {[active |-> TRUE, court |-> None, from |-> 0, to |-> 2],
                   [active |-> TRUE, court |-> None, from |-> 1, to |-> 4]}

MCDurationRules == {[active |-> TRUE, court |-> None, from |-> 0, to |-> 4, durations |-> {2}]}

MCClosures == {[court |-> "t1", from |-> 3, to |-> 6]}

MCOccupations == {[court |-> "t1", origin |-> "V2", from |-> 0, to |-> 1],
                  [court |-> "t1", origin |-> "V2", from |-> -1, to |-> 1],
                  [court |-> "t1", origin |-> "LEGACY", from |-> 2, to |-> 3]}

MCFreeTimes == {[from |-> 0, to |-> 3], [from |-> 1, to |-> 6]}

\* A price for the block before two o'clock, a price per player otherwise
MCTariffRules ==
    {[active |-> TRUE, court |-> None, duration |-> 2, from |-> 0, to |-> 2, priority |-> 2,
      id |-> 1, total |-> 3, each |-> None, capacity |-> 2],
     [active |-> TRUE, court |-> None, duration |-> 2, from |-> 0, to |-> 4, priority |-> 1,
      id |-> 2, total |-> None, each |-> 1, capacity |-> 2]}

\* Days 1 and 4 are three days apart, days 0 and 4 are not
MCTillPayments == {[method |-> "CARD", amount |-> 1, day |-> 0], [method |-> "CARD", amount |-> 1, day |-> 1]}
MCStatementRows == {[amount |-> 1, day |-> 4], [amount |-> 2, day |-> 3]}
=============================================================================
