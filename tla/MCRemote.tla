------------------------------ MODULE MCRemote ------------------------------
(* Small instances of what stands between remote callers and paid calls:   *)
(* the A2A tasks, the admission of scoped MCP calls and the budget of a    *)
(* nested run, one of them at a time.                                      *)
EXTENDS A2ATasks, ScopedAdmission, ParentBudget

CONSTANTS big, small, plain

TwoConsults == {big, small}
ThreeTaskIds == TwoConsults \cup {plain}
OneIsBig == [t \in ThreeTaskIds |-> IF t = big THEN 3 ELSE 1]

RemoteInit == A2AInit /\ ScopedInit /\ BudgetInit

TasksAlone == A2ANext /\ UNCHANGED <<scopedVars, budgetVars>>
CallsAlone == ScopedNext /\ UNCHANGED <<a2aVars, budgetVars>>
BudgetAlone == BudgetNext /\ UNCHANGED <<a2aVars, scopedVars>>

RemoteNext ==
  \/ ScopedInit /\ BudgetInit /\ TasksAlone
  \/ A2AInit /\ BudgetInit /\ CallsAlone
  \/ A2AInit /\ ScopedInit /\ BudgetAlone

RemoteSpec ==
  /\ RemoteInit /\ [][RemoteNext]_<<a2aVars, scopedVars, budgetVars>>
  /\ A2AFairness

(* Every variable of the three components has its type.                    *)
RemoteTypesOK == A2ATypeOK /\ ScopedTypeOK /\ BudgetTypeOK
=============================================================================
