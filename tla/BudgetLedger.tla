---------------------------- MODULE BudgetLedger ----------------------------
(***************************************************************************)
(* What the budget accounting of the gateway promises, without saying how: *)
(* a call is admitted only when its cost still fits next to what is spent  *)
(* and held, and an admitted call is charged once or released once.  The   *)
(* check of the limit and the reservation are one atomic step here; in     *)
(* pipeline.py they are a stage and the reserve at the end of before.      *)
(***************************************************************************)
EXTENDS Integers

CONSTANTS Calls,
          Price,    \* call -> its cost in cents, a natural number
          Limit     \* the session budget in cents, a natural number

VARIABLES account,   \* call -> where its money is
          spent, held

ledger == <<account, spent, held>>

LedgerInit == account = [c \in Calls |-> "closed"] /\ spent = 0 /\ held = 0

Hold(c) ==
    /\ account[c] = "closed"
    /\ spent + held + Price[c] <= Limit
    /\ account' = [account EXCEPT ![c] = "held"]
    /\ held' = held + Price[c]
    /\ spent' = spent

Charge(c) ==
    /\ account[c] = "held"
    /\ account' = [account EXCEPT ![c] = "charged"]
    /\ held' = held - Price[c]
    /\ spent' = spent + Price[c]

GiveBack(c) ==
    /\ account[c] = "held"
    /\ account' = [account EXCEPT ![c] = "released"]
    /\ held' = held - Price[c]
    /\ spent' = spent

LedgerNext == \E c \in Calls : Hold(c) \/ Charge(c) \/ GiveBack(c)

LedgerSpec == LedgerInit /\ [][LedgerNext]_ledger
=============================================================================
