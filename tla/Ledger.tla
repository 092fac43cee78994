------------------------------- MODULE Ledger --------------------------------
(***************************************************************************)
(* What billing promises, without instances, lanes, buckets or locks: rows *)
(* are recorded once, each is settled at most once, and settling a set of  *)
(* rows takes exactly their cost from each owner's money, whatever mix of  *)
(* temporary and ordinary balance it comes from.                           *)
(***************************************************************************)
EXTENDS Integers, FiniteSetsExt

CONSTANTS Users, Rows, Owner, Cost, StartBalance

VARIABLES
  recorded,  \* rows in the usage log
  billed,    \* rows settled
  wealth     \* user -> balance plus what is left of the temporary balances

ledgerVars == <<recorded, billed, wealth>>

Price(S, u) == SumFunctionOnSet(Cost, {r \in S : Owner[r] = u})

Init ==
  /\ recorded = {}
  /\ billed = {}
  /\ wealth = StartBalance

Record(r) ==
  /\ r \notin recorded
  /\ recorded' = recorded \cup {r}
  /\ UNCHANGED <<billed, wealth>>

Fund(u) ==
  /\ wealth'[u] > wealth[u]
  /\ wealth' = [wealth EXCEPT ![u] = wealth'[u]]
  /\ UNCHANGED <<recorded, billed>>

SettleRows(S) ==
  /\ S # {}
  /\ billed' = billed \cup S
  /\ wealth' = [u \in Users |-> wealth[u] - Price(S, u)]
  /\ UNCHANGED recorded

Next ==
  \/ \E r \in Rows : Record(r)
  \/ \E u \in Users : Fund(u)
  \/ \E S \in SUBSET (recorded \ billed) : SettleRows(S)

Spec == Init /\ [][Next]_ledgerVars
=============================================================================
