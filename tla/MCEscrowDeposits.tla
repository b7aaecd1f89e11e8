-------------------------- MODULE MCEscrowDeposits --------------------------
(***************************************************************************)
(* Escrow with an account book beside it: what is left of each deposit.    *)
(* Every step that moves the application's ALGO writes the boxes of one    *)
(* agreement, and is charged to that agreement.                            *)
(***************************************************************************)
EXTENDS MCEscrow

VARIABLE left

Before(id) == IF id \in Live THEN <<agreements[id], roster[id]>> ELSE <<>>

Charged(id) == Before(id) # Before(id)'

LedgerInit == Init /\ left = [id \in Ids |-> 0]

LedgerNext ==
  /\ Next
  /\ left' = [id \in Ids |-> left[id] + IF Charged(id) THEN algo' - algo ELSE 0]

LedgerSpec == LedgerInit /\ [][LedgerNext]_<<vars, left>>

\* No agreement spends more than its own deposit, its close included, whatever
\* the minimum fee does: contract.py:196 gives this as the reason for pricing
\* the reserve at the live fee.
OwnDeposit == \A id \in Ids : left[id] >= 0
=============================================================================
