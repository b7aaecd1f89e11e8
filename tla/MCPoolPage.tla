----------------------------- MODULE MCPoolPage -----------------------------
(***************************************************************************)
(* Instances of PoolPage for TLC.                                          *)
(***************************************************************************)
EXTENDS PoolPage

CONSTANTS p, q, w, v

Record(status, late, payers, owed, cursor) ==
  [state |-> status, late |-> late, gone |-> FALSE, payers |-> payers,
   owed |-> owed, cursor |-> cursor]

\* A pass that has skipped this wallet and has a seat ahead, or a pool that has
\* expired with this wallet on its roster.
Refunding ==
  [pool \in Pool |->
     IF pool = p THEN Record("REFUNDING", TRUE, <<w, "other">>, {1, 2}, 1)
                 ELSE Record("EXPIRED", TRUE, <<w>>, {1}, 0)]

\* A pass that has skipped one wallet of the page and has the other ahead.
Shared == [pool \in Pool |-> Record("REFUNDING", TRUE, <<w, v>>, {1, 2}, 1)]

\* A pool with its last seat on sale, and one that is full.
OnSale ==
  [pool \in Pool |->
     IF pool = p THEN Record("OPEN", FALSE, <<"other">>, {1}, 0)
                 ELSE Record("FUNDED", FALSE, <<"other", "other">>, {1, 2}, 0)]
=============================================================================
