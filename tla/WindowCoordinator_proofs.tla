----------------------- MODULE WindowCoordinator_proofs -----------------------
(***************************************************************************)
(* The invariants of the window coordinator hold for every target and      *)
(* every number of versions, and the coordinator implements                *)
(* OnPolicyWindows.                                                        *)
(***************************************************************************)
EXTENDS WindowCoordinator, FiniteSetTheorems, TLAPS

(* A window's identifiers are fresh: the next one is not yet admitted, and *)
(* admitting it counts one more.                                           *)
LEMMA NextIdIsFresh ==
  ASSUME CoordinatorTypeOK, MembersAreNumbered
  PROVE  /\ NextGroupId \notin admitted
         /\ IsFiniteSet(admitted \union {NextGroupId})
         /\ Cardinality(admitted \union {NextGroupId}) = nextIndex + 1
         /\ admitted \union {NextGroupId} = {paramVersion} \X (0 .. nextIndex)
<1>0. paramVersion \in Nat /\ nextIndex \in Nat
  BY TargetAssumption, VersionAssumption DEF CoordinatorTypeOK
<1>1. NextGroupId \notin admitted
  BY <1>0 DEF MembersAreNumbered, NextGroupId
<1>2. /\ IsFiniteSet(admitted \union {NextGroupId})
      /\ Cardinality(admitted \union {NextGroupId}) = nextIndex + 1
  BY <1>1, FS_AddElement DEF MembersAreNumbered
<1>3. 0 .. nextIndex = (0 .. nextIndex - 1) \union {nextIndex}
  BY <1>0
<1>4. admitted \union {NextGroupId} = {paramVersion} \X (0 .. nextIndex)
  BY <1>3 DEF MembersAreNumbered, NextGroupId
<1> QED
  BY <1>1, <1>2, <1>4

LEMMA InitIInv == CoordinatorInit => CoordinatorIInv
<1> SUFFICES ASSUME CoordinatorInit PROVE CoordinatorIInv
  OBVIOUS
<1>1. CoordinatorTypeOK
  BY TargetAssumption, VersionAssumption
     DEF CoordinatorInit, CoordinatorTypeOK, WindowState, GroupIds
<1>2. MembersAreNumbered
  <2>1. admitted = {paramVersion} \X (0 .. nextIndex - 1)
    BY DEF CoordinatorInit
  <2>2. IsFiniteSet(admitted) /\ Cardinality(admitted) = nextIndex
    BY FS_EmptySet DEF CoordinatorInit
  <2> QED
    BY <2>1, <2>2, TargetAssumption DEF CoordinatorInit, MembersAreNumbered
<1>3. SealedAwaitsReward
  BY DEF CoordinatorInit, SealedAwaitsReward
<1> QED
  BY <1>1, <1>2, <1>3 DEF CoordinatorIInv

LEMMA AdmissionKeepsIInv ==
  CoordinatorIInv /\ RequestAdmission => CoordinatorIInv'
<1> SUFFICES ASSUME CoordinatorIInv, RequestAdmission PROVE CoordinatorIInv'
  OBVIOUS
<1> USE DEF CoordinatorIInv
<1>0. /\ paramVersion \in Nat /\ nextIndex \in Nat
      /\ nextIndex < TargetGroupCount
  BY TargetAssumption, VersionAssumption
     DEF CoordinatorTypeOK, MembersAreNumbered, RequestAdmission
<1>1. /\ NextGroupId \notin admitted
      /\ IsFiniteSet(admitted')
      /\ Cardinality(admitted') = nextIndex'
      /\ admitted' = {paramVersion'} \X (0 .. nextIndex' - 1)
  <2>1. nextIndex' - 1 = nextIndex
    BY <1>0 DEF RequestAdmission
  <2> QED
    BY <2>1, NextIdIsFresh DEF RequestAdmission
<1>2. windowState' = IF nextIndex' >= TargetGroupCount THEN "SEALED" ELSE "OPEN"
  BY <1>1 DEF RequestAdmission, WindowFull
<1>3. CoordinatorTypeOK'
  <2>1. NextGroupId \in GroupIds
    BY <1>0, TargetAssumption, VersionAssumption
       DEF CoordinatorTypeOK, GroupIds, NextGroupId
  <2> QED
    BY <1>0, <1>2, <2>1, TargetAssumption
       DEF CoordinatorTypeOK, WindowState, RequestAdmission
<1>4. MembersAreNumbered'
  BY <1>0, <1>1, <1>2, TargetAssumption DEF MembersAreNumbered, RequestAdmission
<1>5. SealedAwaitsReward'
  <2>1. NextGroupId \notin rewardDone' /\ NextGroupId \in admitted'
    BY <1>1 DEF CoordinatorTypeOK, RequestAdmission
  <2> QED
    BY <1>2, <2>1 DEF SealedAwaitsReward
<1> QED
  BY <1>3, <1>4, <1>5

LEMMA RewardKeepsIInv ==
  ASSUME NEW g, CoordinatorIInv, MarkRewardDone(g)
  PROVE  CoordinatorIInv'
<1> USE DEF CoordinatorIInv
<1>1. CoordinatorTypeOK'
  BY DEF CoordinatorTypeOK, WindowState, MarkRewardDone
<1>2. MembersAreNumbered'
  BY DEF MembersAreNumbered, MarkRewardDone
<1>3. SealedAwaitsReward'
  <2>1. rewardDone \subseteq admitted /\ rewardDone' \subseteq admitted
    BY DEF CoordinatorTypeOK, MarkRewardDone
  <2>2. CASE windowState = "READY_TO_UPDATE"
    BY <2>1, <2>2 DEF SealedAwaitsReward, MarkRewardDone
  <2>3. CASE windowState # "READY_TO_UPDATE"
    BY <2>3 DEF SealedAwaitsReward, MarkRewardDone
  <2> QED
    BY <2>2, <2>3
<1> QED
  BY <1>1, <1>2, <1>3

LEMMA ConsumptionKeepsIInv ==
  ASSUME NEW g, CoordinatorIInv, MarkConsumed(g)
  PROVE  CoordinatorIInv'
BY DEF CoordinatorIInv, CoordinatorTypeOK, MembersAreNumbered,
       SealedAwaitsReward, MarkConsumed

LEMMA AdvanceKeepsIInv == CoordinatorIInv /\ AdvanceVersion => CoordinatorIInv'
<1> SUFFICES ASSUME CoordinatorIInv, AdvanceVersion PROVE CoordinatorIInv'
  OBVIOUS
<1>1. CoordinatorTypeOK'
  BY TargetAssumption, VersionAssumption
     DEF CoordinatorIInv, CoordinatorTypeOK, WindowState, AdvanceVersion
<1>2. MembersAreNumbered'
  <2>1. admitted' = {paramVersion'} \X (0 .. nextIndex' - 1)
    BY DEF AdvanceVersion
  <2>2. IsFiniteSet(admitted') /\ Cardinality(admitted') = nextIndex'
    BY FS_EmptySet DEF AdvanceVersion
  <2> QED
    BY <2>1, <2>2, TargetAssumption DEF AdvanceVersion, MembersAreNumbered
<1>3. SealedAwaitsReward'
  BY DEF AdvanceVersion, SealedAwaitsReward
<1> QED
  BY <1>1, <1>2, <1>3 DEF CoordinatorIInv

LEMMA StepKeepsIInv ==
  CoordinatorIInv /\ [CoordinatorNext]_coordinatorVars => CoordinatorIInv'
<1> SUFFICES ASSUME CoordinatorIInv, [CoordinatorNext]_coordinatorVars
             PROVE  CoordinatorIInv'
  OBVIOUS
<1>1. CASE RequestAdmission
  BY <1>1, AdmissionKeepsIInv
<1>2. ASSUME NEW g \in GroupIds, MarkRewardDone(g) PROVE CoordinatorIInv'
  BY <1>2, RewardKeepsIInv
<1>3. ASSUME NEW g \in GroupIds, MarkConsumed(g) PROVE CoordinatorIInv'
  BY <1>3, ConsumptionKeepsIInv
<1>4. CASE AdvanceVersion
  BY <1>4, AdvanceKeepsIInv
<1>5. CASE UNCHANGED coordinatorVars
  BY <1>5 DEF coordinatorVars, CoordinatorIInv, CoordinatorTypeOK,
              MembersAreNumbered, SealedAwaitsReward
<1> QED
  BY <1>1, <1>2, <1>3, <1>4, <1>5 DEF CoordinatorNext

(* The inductive invariant holds throughout. *)
THEOREM CoordinatorInvariant == CoordinatorSpec => []CoordinatorIInv
<1>1. CoordinatorInit => CoordinatorIInv
  BY InitIInv
<1>2. CoordinatorIInv /\ [CoordinatorNext]_coordinatorVars => CoordinatorIInv'
  BY StepKeepsIInv
<1> QED
  BY <1>1, <1>2, PTL DEF CoordinatorSpec

(* A sealed window always waits for at least one reward, so it can always  *)
(* still become ready, and a ready window has all of them: for every       *)
(* target size.                                                            *)
THEOREM CoordinatorNeverStuckSealed == CoordinatorSpec => []SealedAwaitsReward
<1>1. CoordinatorIInv => SealedAwaitsReward
  BY DEF CoordinatorIInv
<1> QED
  BY <1>1, CoordinatorInvariant, PTL

(* No identifier is given twice and no window outgrows its target.         *)
THEOREM CoordinatorNumbersMembers ==
  CoordinatorSpec => [](CoordinatorTypeOK /\ MembersAreNumbered)
<1>1. CoordinatorIInv => CoordinatorTypeOK /\ MembersAreNumbered
  BY DEF CoordinatorIInv
<1> QED
  BY <1>1, CoordinatorInvariant, PTL

-----------------------------------------------------------------------------
(* Refinement of OnPolicyWindows. *)

(* An admission uses one identifier that was never used, and an advance,   *)
(* coming off a full window, leaves the used ones as they are.             *)
LEMMA AdmissionUsesFreshId ==
  ASSUME CoordinatorIInv, RequestAdmission
  PROVE  /\ NextGroupId \in GroupIds /\ NextGroupId \notin IdsUsed
         /\ IdsUsed' = IdsUsed \union {NextGroupId}
<1> USE DEF CoordinatorIInv
<1>0. /\ paramVersion \in Nat /\ nextIndex \in Nat
      /\ nextIndex < TargetGroupCount
  BY TargetAssumption, VersionAssumption
     DEF CoordinatorTypeOK, RequestAdmission, MembersAreNumbered
<1>1. NextGroupId \in GroupIds
  BY <1>0, TargetAssumption DEF CoordinatorTypeOK, GroupIds, NextGroupId
<1>2. NextGroupId \notin (0 .. paramVersion - 1) \X (0 .. TargetGroupCount - 1)
  BY <1>0 DEF NextGroupId
<1>3. NextGroupId \notin admitted
  BY NextIdIsFresh
<1> QED
  BY <1>1, <1>2, <1>3 DEF IdsUsed, RequestAdmission

LEMMA AdvanceKeepsIds ==
  ASSUME CoordinatorIInv, AdvanceVersion
  PROVE  /\ IdsUsed' = IdsUsed
         /\ Cardinality(admitted) = TargetGroupCount
         /\ rewardDone = admitted /\ consumed = admitted
<1> USE DEF CoordinatorIInv
<1>0. paramVersion \in Nat /\ nextIndex \in Nat
  BY TargetAssumption, VersionAssumption DEF CoordinatorTypeOK
<1>1. nextIndex = TargetGroupCount
  BY <1>0, TargetAssumption
     DEF AdvanceVersion, ReadyForSync, MembersAreNumbered, CoordinatorTypeOK
<1>2. admitted = {paramVersion} \X (0 .. TargetGroupCount - 1)
  BY <1>1 DEF MembersAreNumbered
<1>3. 0 .. paramVersion = (0 .. paramVersion - 1) \union {paramVersion}
  BY <1>0
<1>4. IdsUsed' = (0 .. paramVersion) \X (0 .. TargetGroupCount - 1)
  BY <1>0 DEF AdvanceVersion, IdsUsed
<1> QED
  BY <1>1, <1>2, <1>3, <1>4
     DEF IdsUsed, AdvanceVersion, ReadyForSync, MembersAreNumbered,
         SealedAwaitsReward

LEMMA InitImplements == CoordinatorInit => Abstract!Init
BY DEF CoordinatorInit, Abstract!Init, IdsUsed

LEMMA StepImplements ==
  CoordinatorIInv /\ [CoordinatorNext]_coordinatorVars
    => [Abstract!Next]_(Abstract!vars)
<1> SUFFICES ASSUME CoordinatorIInv, [CoordinatorNext]_coordinatorVars
             PROVE  [Abstract!Next]_(Abstract!vars)
  OBVIOUS
<1> USE DEF CoordinatorIInv
<1>1. CASE RequestAdmission
  <2>1. Cardinality(admitted) < TargetGroupCount
    BY <1>1 DEF RequestAdmission, MembersAreNumbered
  <2>2. NextGroupId \in GroupIds /\ Abstract!Join(NextGroupId)
    BY <1>1, <2>1, AdmissionUsesFreshId
       DEF RequestAdmission, Abstract!Join, Cardinality, Abstract!Cardinality
  <2> QED
    BY <2>2 DEF Abstract!Next
<1>2. ASSUME NEW g \in GroupIds, MarkRewardDone(g)
      PROVE  [Abstract!Next]_(Abstract!vars)
  <2>1. CASE g \in rewardDone
    BY <1>2, <2>1 DEF MarkRewardDone, Abstract!vars, IdsUsed
  <2>2. CASE g \notin rewardDone
    <3>1. Abstract!Judge(g)
      BY <1>2, <2>2 DEF MarkRewardDone, Abstract!Judge, IdsUsed
    <3> QED
      BY <3>1 DEF Abstract!Next
  <2> QED
    BY <2>1, <2>2
<1>3. ASSUME NEW g \in GroupIds, MarkConsumed(g)
      PROVE  [Abstract!Next]_(Abstract!vars)
  <2>1. CASE g \in consumed
    BY <1>3, <2>1 DEF MarkConsumed, Abstract!vars, IdsUsed
  <2>2. CASE g \notin consumed
    <3>1. Abstract!Train({g})
      BY <1>3, <2>2 DEF MarkConsumed, Abstract!Train, IdsUsed
    <3>2. {g} \in SUBSET (admitted \ consumed)
      BY <1>3, <2>2 DEF MarkConsumed
    <3> QED
      BY <3>1, <3>2 DEF Abstract!Next
  <2> QED
    BY <2>1, <2>2
<1>4. CASE AdvanceVersion
  <2>1. Abstract!Advance
    BY <1>4, AdvanceKeepsIds DEF AdvanceVersion, Abstract!Advance,
       Cardinality, Abstract!Cardinality
  <2> QED
    BY <2>1 DEF Abstract!Next
<1>5. CASE UNCHANGED coordinatorVars
  BY <1>5 DEF coordinatorVars, Abstract!vars, IdsUsed
<1> QED
  BY <1>1, <1>2, <1>3, <1>4, <1>5 DEF CoordinatorNext

(* Every behaviour of the coordinator is one of OnPolicyWindows: the       *)
(* version advances only off a full window, all judged and all consumed,   *)
(* and no group identifier is ever used twice, whatever the target.        *)
THEOREM CoordinatorImplementsOnPolicyWindows ==
  CoordinatorSpec => CoordinatorImplementsWindows
<1>1. CoordinatorInit => Abstract!Init
  BY InitImplements
<1>2. CoordinatorIInv /\ [CoordinatorNext]_coordinatorVars
        => [Abstract!Next]_(Abstract!vars)
  BY StepImplements
<1> QED
  BY <1>1, <1>2, CoordinatorInvariant, PTL
     DEF CoordinatorSpec, CoordinatorImplementsWindows, Abstract!Spec
=============================================================================
