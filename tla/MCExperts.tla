----------------------------- MODULE MCExperts -----------------------------
(* Small instances of the expert runtime: a conversation, a consult, the   *)
(* dispatcher of a council and a belief store, one of them at a time.      *)
EXTENDS ExpertConversations, ConsultTransaction, TaskDispatch, BeliefStore

CONSTANTS t1, t2, t3, absorber, syncer, learner, chatter

ThreeTasks == {t1, t2, t3}

\* every dependency map without a task that waits for itself
AnyPlan == {deps \in [ThreeTasks -> SUBSET ThreeTasks] : \A t \in ThreeTasks : t \notin deps[t]}

FourUsers == {absorber, syncer, learner, chatter}
OneVerbEach ==
  [u \in FourUsers |->
     CASE u = absorber -> "absorb" [] u = syncer -> "sync" [] u = learner -> "learning-apply" [] u = chatter -> "chat"]

ExpertsInit == ConvInit /\ ConsultInit /\ DispatchInit /\ StoreInit

\* of the two initial stores, one is enough beside the other components
StoreUnused == StoreInit /\ snap = NoSnap

ConversationAlone == ConvNext /\ UNCHANGED <<consultVars, dispatchVars, storeVars>>
ConsultAlone == ConsultNext /\ UNCHANGED <<convVars, dispatchVars, storeVars>>
CouncilAlone == DispatchNext /\ UNCHANGED <<convVars, consultVars, storeVars>>
BeliefsAlone == StoreNext /\ UNCHANGED <<convVars, consultVars, dispatchVars>>

ExpertsNext ==
  \/ ConsultInit /\ DispatchInit /\ StoreUnused /\ ConversationAlone
  \/ ConvInit /\ DispatchInit /\ StoreUnused /\ ConsultAlone
  \/ ConvInit /\ ConsultInit /\ StoreUnused /\ CouncilAlone
  \/ ConvInit /\ ConsultInit /\ DispatchInit /\ BeliefsAlone

ExpertsSpec ==
  /\ ExpertsInit /\ [][ExpertsNext]_<<convVars, consultVars, dispatchVars, storeVars>>
  /\ ConvFairness /\ ConsultFairness /\ DispatchFairness

(* Every variable of the four components has its type.                     *)
ExpertTypesOK == ConvTypeOK /\ ConsultTypeOK /\ DispatchTypeOK /\ StoreTypeOK
=============================================================================
