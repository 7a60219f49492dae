---------------------------- MODULE AttemptLedger ----------------------------
(***************************************************************************)
(* What the generation state file promises (RetryState, save_state): a     *)
(* ledger of generation attempts.  Attempts are only added to it, a few at *)
(* a time and within the budget; a completed attempt never changes, and of *)
(* the failed ones only an initial attempt is ever completed later, under  *)
(* the same identity.                                                      *)
(***************************************************************************)
EXTENDS Integers, FiniteSets

CONSTANTS Attempt,   \* identities of attempts
          Initial,   \* the attempts that exist before the first refill
          Yield,     \* numbers of rows that a completed attempt may have
          Budget,    \* the most attempts that are ever recorded
          BatchSize  \* the most attempts that one save adds or changes

Absent == -2
Failed == -1

VARIABLE ledger

Recorded == {a \in Attempt : ledger[a] # Absent}

LedgerInit == ledger = [a \in Attempt |-> Absent]

Changed == {a \in Attempt : ledger'[a] # ledger[a]}

Record ==
    /\ ledger' \in [Attempt -> Yield \cup {Absent, Failed}]
    /\ Changed # {} /\ Cardinality(Changed) <= BatchSize
    /\ \A a \in Changed :
          /\ ledger[a] = Absent \/ (ledger[a] = Failed /\ a \in Initial)
          /\ ledger'[a] # Absent
    /\ Cardinality(Recorded') <= Budget

LedgerSpec == LedgerInit /\ [][Record]_ledger
=============================================================================
