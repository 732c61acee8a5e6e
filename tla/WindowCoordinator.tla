-------------------------- MODULE WindowCoordinator --------------------------
(***************************************************************************)
(* The window coordinator of strict-async training,                        *)
(* verl/experimental/fully_async_policy/black_opd_window_coordinator.py.   *)
(*                                                                         *)
(* WindowCoordinatorState keeps the current parameter version and the      *)
(* groups that belong to it.  It is wrapped in a single-threaded actor, so *)
(* each method is one atomic action.  Callers may invoke the methods in    *)
(* any order with any identifier; a refused admission and a call that      *)
(* raises (KeyError, RuntimeError) change nothing and are stuttering steps *)
(* here.                                                                   *)
(***************************************************************************)
EXTENDS Naturals, FiniteSets

CONSTANTS
  TargetGroupCount,  (* strict_async.target_group_count *)
  MaxVersion         (* bound on the parameter version *)

(* The constructor raises ValueError for a target that is not positive. *)
ASSUME TargetAssumption == TargetGroupCount \in Nat \ {0}
ASSUME VersionAssumption == MaxVersion \in Nat

VARIABLES
  paramVersion,   (* current_param_version *)
  windowId,       (* window_id *)
  windowState,    (* window_state *)
  nextIndex,      (* _next_group_index *)
  admitted,       (* _admitted_group_ids *)
  rewardDone,     (* _reward_done_group_ids *)
  consumed        (* _consumed_group_ids *)

coordinatorVars == <<paramVersion, windowId, windowState, nextIndex,
          admitted, rewardDone, consumed>>

WindowState == {"OPEN", "SEALED", "READY_TO_UPDATE"}

(* f"v{version}-g{index}" is injective, so the pair stands for the string. *)
GroupIds == (0 .. MaxVersion) \X (0 .. TargetGroupCount - 1)

CoordinatorInit ==
  /\ paramVersion = 0
  /\ windowId = 0
  /\ windowState = "OPEN"
  /\ nextIndex = 0
  /\ admitted = {}
  /\ rewardDone = {}
  /\ consumed = {}

-----------------------------------------------------------------------------
(* The methods. *)

NextGroupId == <<paramVersion, nextIndex>>

WindowFullLate(members) == Cardinality(members) > TargetGroupCount
WindowFull(members) == Cardinality(members) >= TargetGroupCount

RequestAdmission ==
  /\ windowState = "OPEN"
  /\ nextIndex' = nextIndex + 1
  /\ admitted' = admitted \union {NextGroupId}
  /\ windowState' = IF WindowFull(admitted')
                    THEN "SEALED" ELSE windowState
  /\ UNCHANGED <<paramVersion, windowId, rewardDone, consumed>>

MarkRewardDoneChecksFirst(g) ==
  /\ g \in admitted
  /\ rewardDone' = rewardDone \union {g}
  /\ windowState' = IF windowState = "SEALED" /\ rewardDone = admitted
                    THEN "READY_TO_UPDATE" ELSE windowState
  /\ UNCHANGED <<paramVersion, windowId, nextIndex, admitted, consumed>>

MarkRewardDone(g) ==
  /\ g \in admitted
  /\ rewardDone' = rewardDone \union {g}
  /\ windowState' = IF windowState = "SEALED" /\ rewardDone' = admitted
                    THEN "READY_TO_UPDATE" ELSE windowState
  /\ UNCHANGED <<paramVersion, windowId, nextIndex, admitted, consumed>>

MarkConsumed(g) ==
  /\ g \in admitted
  /\ consumed' = consumed \union {g}
  /\ UNCHANGED <<paramVersion, windowId, windowState, nextIndex, admitted,
                 rewardDone>>

ReadyWithoutRewards == consumed = admitted   \* mutant: SEALED is enough

ReadyForSync ==
  /\ windowState = "READY_TO_UPDATE"
  /\ consumed = admitted

AdvanceVersion ==
  /\ ReadyForSync
  /\ paramVersion < MaxVersion
  /\ paramVersion' = paramVersion + 1
  /\ windowId' = windowId + 1
  /\ windowState' = "OPEN"
  /\ nextIndex' = 0
  /\ admitted' = {}
  /\ rewardDone' = {}
  /\ consumed' = {}

CoordinatorNext ==
  \/ RequestAdmission
  \/ \E g \in GroupIds : MarkRewardDone(g)
  \/ \E g \in GroupIds : MarkConsumed(g)
  \/ AdvanceVersion

CoordinatorSpec == CoordinatorInit /\ [][CoordinatorNext]_coordinatorVars

-----------------------------------------------------------------------------
(* Correctness. *)

(* Every variable has its type, the window counter never drifts from the   *)
(* version it is advanced with, and only members of the window are judged  *)
(* or consumed.                                                            *)
CoordinatorTypeOK ==
  /\ paramVersion \in 0 .. MaxVersion
  /\ windowId = paramVersion
  /\ windowState \in WindowState
  /\ nextIndex \in 0 .. TargetGroupCount
  /\ admitted \subseteq GroupIds
  /\ rewardDone \subseteq admitted
  /\ consumed \subseteq admitted

(* The admitted identifiers are exactly those of this version numbered so  *)
(* far: an index is never given twice within a window, and the window      *)
(* never takes more groups than its target.                                *)
MembersAreNumbered ==
  /\ admitted = {paramVersion} \X (0 .. nextIndex - 1)
  /\ IsFiniteSet(admitted) /\ Cardinality(admitted) = nextIndex
  /\ windowState = "OPEN" <=> nextIndex < TargetGroupCount

(* READY_TO_UPDATE is entered in mark_reward_done only, so a sealed window *)
(* whose groups are all judged would stay sealed for good: there is none.  *)
(* And a window that is ready has all its rewards.                         *)
SealedAwaitsReward ==
  /\ windowState = "SEALED" => rewardDone # admitted
  /\ windowState = "READY_TO_UPDATE" => rewardDone = admitted

CoordinatorIInv ==
  /\ CoordinatorTypeOK
  /\ MembersAreNumbered
  /\ SealedAwaitsReward

(* The coordinator implements the promise of strict on-policy training.    *)
IdsUsed ==
  admitted \union ((0 .. paramVersion - 1) \X (0 .. TargetGroupCount - 1))

Abstract == INSTANCE OnPolicyWindows WITH
  Groups <- GroupIds, WindowSize <- TargetGroupCount,
  version <- paramVersion, used <- IdsUsed, members <- admitted,
  judged <- rewardDone, trained <- consumed

CoordinatorImplementsWindows == Abstract!Spec
=============================================================================
