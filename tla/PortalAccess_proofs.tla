------------------------- MODULE PortalAccess_proofs -------------------------
(***************************************************************************)
(* Proofs about PortalAccess, for every set of keys, requests and workers  *)
(* and every number of tries and faults.                                   *)
(***************************************************************************)
EXTENDS PortalAccess, TLAPS

USE PortalAssumption

Closed == {"MAPPING_DISABLED", "COMPLETED"}

(* Status, stage and tries of the disable operation.                       *)
OperationAgrees ==
    /\ disable.status = "NONE" <=> disable.stage = "NONE"
    /\ disable.status = "COMPLETED" <=> disable.stage = "COMPLETED"
    /\ disable.status \in {"NONE", "PROCESSING", "RETRY_WAIT"} =>
           disable.tries < DisableTries

(* What a closed stage rests on: the portal was closed before the link,    *)
(* and the invitations with the link.                                      *)
ClosedInOrder ==
    /\ disable.stage \in Closed => link = "DISABLED" /\ portal = "DISABLED"
    /\ link = "DISABLED" => \A k \in Keys : invites[k] # "PENDING"

(* What slot s knows of the closing it works on.                           *)
CloserKnows(s) ==
    /\ At(s, "DISABLE", "FROZEN") => portal = "DISABLED"
    /\ At(s, "DISABLE", "MAPPING_DISABLED") => disable.stage \in Closed

PortalInv ==
    /\ PortalAccessTypeOK
    /\ OperationAgrees
    /\ ClosedInOrder
    /\ \A s \in Slots : CloserKnows(s)
    /\ InviteMatchesLink

-----------------------------------------------------------------------------
(* What the ways to write a slot do.                                       *)

(* Slot s has moved; a run of another slot may have become outdated.       *)
SlotMoves(s) ==
    /\ work' \in [Slots -> Jobs \cup {Idle}]
    /\ \A r \in Slots \ {s} : /\ work'[r].job = work[r].job
                              /\ work'[r].at = work[r].at

SlotEnds(s) == SlotMoves(s) /\ work'[s].job = "IDLE"

SlotGoesOn(s, at) ==
    SlotMoves(s) /\ work'[s].job = work[s].job /\ work'[s].at = at

LEMMA Working ==
  ASSUME PortalAccessTypeOK, NEW s \in Slots, work[s].job # "IDLE"
  PROVE  work[s] \in Jobs
  BY DEF PortalAccessTypeOK, Idle

LEMMA KeyOfRun ==
  ASSUME PortalAccessTypeOK, NEW s \in Slots, work[s].job # "IDLE"
  PROVE  /\ work[s].job # "DISABLE" => work[s].key \in Keys
         /\ work[s].at \in Steps
  BY Working DEF Jobs

LEMMA FinishEnds ==
  ASSUME PortalAccessTypeOK, NEW s \in Slots, Finish(s)
  PROVE  SlotEnds(s)
  BY DEF PortalAccessTypeOK, Finish, Do, SlotEnds, SlotMoves, Idle

LEMMA DoMoves ==
  ASSUME PortalAccessTypeOK, NEW s \in Slots, NEW w \in Jobs, Do(s, w)
  PROVE  SlotMoves(s) /\ work'[s] = w
  BY DEF PortalAccessTypeOK, Do, SlotMoves

LEMMA MoveToGoesOn ==
  ASSUME PortalAccessTypeOK, NEW s \in Slots, work[s].job # "IDLE",
         NEW at \in Steps, MoveTo(s, at)
  PROVE  SlotGoesOn(s, at)
  <1>1. work[s] \in Jobs
    BY Working
  <1>2. /\ [work[s] EXCEPT !.at = at] \in Jobs
        /\ [work[s] EXCEPT !.at = at].job = work[s].job
        /\ [work[s] EXCEPT !.at = at].at = at
    BY <1>1 DEF Jobs
  <1>3. work' = [work EXCEPT ![s] = [work[s] EXCEPT !.at = at]]
    BY DEF MoveTo, PortalAccessTypeOK
  <1> QED
    BY <1>2, <1>3, DoMoves DEF Do, SlotGoesOn

LEMMA OutdatedTyped ==
  ASSUME PortalAccessTypeOK, NEW s \in Slots, NEW k
  PROVE  /\ Outdated(s, k) \in [Slots -> Jobs \cup {Idle}]
         /\ Outdated(s, k)[s] = work[s]
         /\ \A r \in Slots : /\ Outdated(s, k)[r].job = work[r].job
                             /\ Outdated(s, k)[r].at = work[r].at
  <1>1. \A r \in Slots : work[r].job = "PROVISION" =>
           /\ [work[r] EXCEPT !.fresh = FALSE] \in Jobs
           /\ [work[r] EXCEPT !.fresh = FALSE].job = work[r].job
           /\ [work[r] EXCEPT !.fresh = FALSE].at = work[r].at
    BY Working DEF Jobs
  <1> QED
    BY <1>1 DEF Outdated, PortalAccessTypeOK

LEMMA AdvanceMoves ==
  ASSUME PortalAccessTypeOK, NEW s \in Slots, work[s].job = "PROVISION",
         NEW stage \in Stages, NEW step \in Steps,
         AdvanceProvisionOperation(s, stage, step)
  PROVE  \/ ops' = ops /\ SlotEnds(s)
         \/ ops' = [ops EXCEPT ![work[s].key] = stage] /\ SlotGoesOn(s, step)
  <1>1. CASE ~work[s].fresh
    BY <1>1, FinishEnds DEF AdvanceProvisionOperation
  <1>2. CASE work[s].fresh
    <2> DEFINE o == Outdated(s, work[s].key)
    <2>1. /\ ops' = [ops EXCEPT ![work[s].key] = stage]
          /\ work' = [o EXCEPT ![s].at = step]
      BY <1>2 DEF AdvanceProvisionOperation
    <2>2. /\ o \in [Slots -> Jobs \cup {Idle}] /\ o[s] = work[s]
          /\ \A r \in Slots : o[r].job = work[r].job /\ o[r].at = work[r].at
      BY OutdatedTyped
    <2> HIDE DEF o
    <2>3. work[s] \in Jobs
      BY Working
    <2>4. /\ [work[s] EXCEPT !.at = step] \in Jobs
          /\ [work[s] EXCEPT !.at = step].job = work[s].job
          /\ [work[s] EXCEPT !.at = step].at = step
      BY <2>3 DEF Jobs
    <2>5. work' = [o EXCEPT ![s] = [work[s] EXCEPT !.at = step]]
      BY <2>1, <2>2
    <2>6. SlotGoesOn(s, step)
      BY <2>2, <2>4, <2>5 DEF SlotGoesOn, SlotMoves
    <2> QED
      BY <2>1, <2>6
  <1> QED
    BY <1>1, <1>2

LEMMA OutdatedEnds ==
  ASSUME PortalAccessTypeOK, NEW s \in Slots, NEW k,
         work' = [Outdated(s, k) EXCEPT ![s] = Idle]
  PROVE  SlotEnds(s)
  <1> DEFINE o == Outdated(s, k)
  <1>1. /\ o \in [Slots -> Jobs \cup {Idle}]
        /\ \A r \in Slots : o[r].job = work[r].job /\ o[r].at = work[r].at
    BY OutdatedTyped
  <1> HIDE DEF o
  <1>2. work' = [o EXCEPT ![s] = Idle]
    BY DEF o
  <1>3. /\ work'[s] = Idle
        /\ \A r \in Slots \ {s} : work'[r] = o[r]
        /\ work' \in [Slots -> Jobs \cup {Idle}]
    BY <1>1, <1>2
  <1>4. Idle.job = "IDLE"
    BY DEF Idle
  <1> QED
    BY <1>1, <1>3, <1>4 DEF SlotEnds, SlotMoves

LEMMA FailProvisionEnds ==
  ASSUME PortalAccessTypeOK, NEW s \in Slots, FailProvision(s)
  PROVE  SlotEnds(s)
  BY FinishEnds, OutdatedEnds DEF FailProvision

LEMMA OwedTyped ==
  ASSUME PortalAccessTypeOK, NEW t \in TaskIds
  PROVE  Owed(t) \in [TaskIds -> TaskRows]
  BY DEF PortalAccessTypeOK, Owed, TaskRows

-----------------------------------------------------------------------------
LEMMA PortalInit == Init => PortalInv
  <1> SUFFICES ASSUME Init PROVE PortalInv
    OBVIOUS
  <1>1. PortalAccessTypeOK
    <2>1. /\ disable \in DisableOperations
          /\ tasks \in [TaskIds -> TaskRows]
      BY DEF Init, DisableOperations, TaskRows
    <2>2. faults \in 0..MaxFaults
      BY DEF Init
    <2> QED
      BY <2>1, <2>2
         DEF Init, PortalAccessTypeOK, Stages, InviteStatuses, LinkStatuses
  <1>2. \A s \in Slots : work[s].job = "IDLE"
    BY DEF Init, Idle
  <1>3. OperationAgrees /\ ClosedInOrder /\ InviteMatchesLink
    BY DEF Init, OperationAgrees, ClosedInOrder, InviteMatchesLink, Closed
  <1>4. \A s \in Slots : CloserKnows(s)
    BY <1>2 DEF CloserKnows, At
  <1> QED
    BY <1>1, <1>3, <1>4 DEF PortalInv

(* A step that leaves the link, the invitations and the disable operation  *)
(* alone and does not open a closed portal.                                *)
Quiet ==
    /\ UNCHANGED <<invites, link, disable>>
    /\ ops' \in [Keys -> Stages]
    /\ portal' \in LinkStatuses
    /\ portal = "DISABLED" => portal' = "DISABLED"
    /\ tasks' \in [TaskIds -> TaskRows]
    /\ faults' \in 0..MaxFaults

LEMMA QuietKeeps ==
  ASSUME PortalInv, NEW s \in Slots, SlotMoves(s), Quiet, CloserKnows(s)'
  PROVE  PortalInv'
  <1> USE DEF PortalInv
  <1>1. PortalAccessTypeOK'
    BY DEF Quiet, PortalAccessTypeOK, SlotMoves
  <1>2. OperationAgrees' /\ ClosedInOrder'
    BY DEF Quiet, OperationAgrees, ClosedInOrder
  <1>3. \A r \in Slots : CloserKnows(r)'
    <2> SUFFICES ASSUME NEW r \in Slots, r # s PROVE CloserKnows(r)'
      OBVIOUS
    <2>1. CloserKnows(r) /\ work'[r].job = work[r].job /\ work'[r].at = work[r].at
      BY DEF SlotMoves
    <2>2. /\ portal = "DISABLED" => portal' = "DISABLED"
          /\ disable' = disable
      BY DEF Quiet
    <2> QED
      BY <2>1, <2>2 DEF CloserKnows, At
  <1>4. InviteMatchesLink'
    BY DEF Quiet, InviteMatchesLink
  <1> QED
    BY <1>1, <1>2, <1>3, <1>4

(* The slot ends, or works on a login or a task.                           *)
LEMMA QuietAside ==
  ASSUME PortalInv, NEW s \in Slots, SlotMoves(s), Quiet, ops' = ops,
         work'[s].job \notin {"PROVISION", "DISABLE"}
  PROVE  PortalInv'
  <1>1. CloserKnows(s)'
    BY DEF CloserKnows, At
  <1> QED
    BY <1>1, QuietKeeps

(* What Quiet asks of a step that changes no variable but work.            *)
LEMMA NothingIsQuiet ==
  ASSUME PortalInv,
         UNCHANGED <<ops, invites, link, portal, disable, tasks, faults>>
  PROVE  Quiet
  BY DEF PortalInv, PortalAccessTypeOK, Quiet

LEMMA FaultTyped ==
  ASSUME PortalInv, Fault \/ NoFault
  PROVE  faults' \in 0..MaxFaults
  BY DEF PortalInv, PortalAccessTypeOK, Fault, NoFault

LEMMA CreateKeeps ==
  ASSUME PortalInv, NEW s \in Slots, NEW k \in Keys, Create(s, k)
  PROVE  PortalInv'
  <1> DEFINE stage == IF ops[k] = "NONE" THEN "PREPARED" ELSE ops[k]
  <1>1. stage \in Stages \ {"NONE"}
    BY DEF PortalInv, PortalAccessTypeOK, Stages
  <1>2. /\ ops' = [ops EXCEPT ![k] = stage]
        /\ Do(s, Start("PROVISION", k, stage))
        /\ UNCHANGED <<invites, link, portal, disable, tasks, faults>>
    BY DEF Create
  <1> HIDE DEF stage
  <1>3. /\ Start("PROVISION", k, stage) \in Jobs
        /\ Start("PROVISION", k, stage).job = "PROVISION"
        /\ Start("PROVISION", k, stage).at = stage
    BY <1>1 DEF Start, Jobs, Steps
  <1>4. SlotMoves(s) /\ work'[s].job = "PROVISION"
    BY <1>2, <1>3, DoMoves DEF PortalInv
  <1>5. Quiet
    BY <1>1, <1>2 DEF Quiet, PortalInv, PortalAccessTypeOK
  <1>6. CloserKnows(s)'
    BY <1>4 DEF CloserKnows, At
  <1> QED
    BY <1>4, <1>5, <1>6, QuietKeeps

LEMMA ProvisionExternalUserKeeps ==
  ASSUME PortalInv, NEW s \in Slots, ProvisionExternalUser(s)
  PROVE  PortalInv'
  <1> USE DEF PortalInv
  <1>1. /\ work[s].job = "PROVISION"
        /\ UNCHANGED <<invites, link, portal, disable, tasks>>
    BY DEF ProvisionExternalUser, At
  <1>2. faults' \in 0..MaxFaults
    BY FaultTyped DEF ProvisionExternalUser
  <1>3. CASE ops' = ops /\ SlotEnds(s)
    <2>1. Quiet
      BY <1>1, <1>2, <1>3 DEF Quiet, PortalAccessTypeOK
    <2> QED
      BY <1>3, <2>1, QuietAside DEF SlotEnds
  <1>4. CASE /\ ops' = [ops EXCEPT ![work[s].key] = "USER_PROVISIONED"]
             /\ SlotGoesOn(s, "USER_PROVISIONED")
    <2>1. Quiet
      BY <1>1, <1>2, <1>4 DEF Quiet, PortalAccessTypeOK, Stages
    <2>2. CloserKnows(s)'
      BY <1>1, <1>4 DEF SlotGoesOn, CloserKnows, At
    <2> QED
      BY <1>4, <2>1, <2>2, QuietKeeps DEF SlotGoesOn
  <1>5. \/ AdvanceProvisionOperation(s, "USER_PROVISIONED", "USER_PROVISIONED")
        \/ FailProvision(s) /\ ops' = ops
    BY DEF ProvisionExternalUser
  <1> QED
    BY <1>1, <1>3, <1>4, <1>5, AdvanceMoves, FailProvisionEnds
       DEF Stages, Steps

LEMMA AssignPortalRoleKeeps ==
  ASSUME PortalInv, NEW s \in Slots, AssignPortalRole(s)
  PROVE  PortalInv'
  <1> USE DEF PortalInv
  <1>1. /\ work[s].job = "PROVISION"
        /\ UNCHANGED <<invites, link, portal, disable>>
    BY DEF AssignPortalRole, At
  <1>2. faults' \in 0..MaxFaults
    BY FaultTyped DEF AssignPortalRole, StopInCall
  <1>3. tasks' \in [TaskIds -> TaskRows]
    <2>1. Task("ROLE", work[s].key) \in TaskIds
      BY <1>1, KeyOfRun DEF Task, TaskIds
    <2>2. tasks' = tasks \/ tasks' = Owed(Task("ROLE", work[s].key))
      BY DEF AssignPortalRole, ProvisionFailed, StopInCall
    <2> QED
      BY <2>1, <2>2, OwedTyped DEF PortalAccessTypeOK
  <1>4. CASE ops' = ops /\ SlotEnds(s)
    <2>1. Quiet
      BY <1>1, <1>2, <1>3, <1>4 DEF Quiet, PortalAccessTypeOK
    <2> QED
      BY <1>4, <2>1, QuietAside DEF SlotEnds
  <1>5. CASE /\ \/ ops' = ops
                \/ ops' = [ops EXCEPT ![work[s].key] = "ROLE_ASSIGNED"]
             /\ SlotGoesOn(s, "ROLE_READY")
    <2>1. ops' \in [Keys -> Stages]
      BY <1>5 DEF PortalAccessTypeOK, Stages
    <2>2. Quiet
      BY <1>1, <1>2, <1>3, <2>1 DEF Quiet, PortalAccessTypeOK
    <2>3. CloserKnows(s)'
      BY <1>1, <1>5 DEF SlotGoesOn, CloserKnows, At
    <2> QED
      BY <1>5, <2>2, <2>3, QuietKeeps DEF SlotGoesOn
  <1>6. CASE ProvisionFailed(s, "ROLE") \/ StopInCall(s)
    BY <1>4, <1>6, FinishEnds, FailProvisionEnds
       DEF ProvisionFailed, StopInCall
  <1>7. CASE RoleAssigned(s)
    <2>1. work[s].at \in {"USER_PROVISIONED", "ROLE_ASSIGNED", "COMPLETED"}
      BY DEF AssignPortalRole, At
    <2>2. CASE work[s].at = "USER_PROVISIONED"
      <3>1. AdvanceProvisionOperation(s, "ROLE_ASSIGNED", "ROLE_READY")
        BY <1>7, <2>2 DEF RoleAssigned
      <3> QED
        BY <1>1, <1>4, <1>5, <3>1, AdvanceMoves DEF Stages, Steps
    <2>3. CASE work[s].at = "ROLE_ASSIGNED"
      <3>1. MoveTo(s, "ROLE_READY") /\ ops' = ops
        BY <1>7, <2>3 DEF RoleAssigned
      <3> QED
        BY <1>1, <1>5, <3>1, MoveToGoesOn DEF Steps
    <2>4. CASE work[s].at = "COMPLETED"
      <3>1. Finish(s) /\ ops' = ops
        BY <1>7, <2>4 DEF RoleAssigned
      <3> QED
        BY <1>4, <3>1, FinishEnds
    <2> QED
      BY <2>1, <2>2, <2>3, <2>4
  <1> QED
    BY <1>6, <1>7 DEF AssignPortalRole

LEMMA ProvisionPortalMappingKeeps ==
  ASSUME PortalInv, NEW s \in Slots, ProvisionPortalMapping(s)
  PROVE  PortalInv'
  <1> USE DEF PortalInv
  <1>1. /\ work[s].job = "PROVISION" /\ work[s].at = "ROLE_READY"
        /\ UNCHANGED <<invites, link, disable>>
    BY DEF ProvisionPortalMapping, At
  <1>2. faults' \in 0..MaxFaults
    BY FaultTyped DEF ProvisionPortalMapping, StopInCall
  <1>3. portal' \in LinkStatuses /\ (portal = "DISABLED" => portal' = "DISABLED")
    BY DEF ProvisionPortalMapping, Registered, PortalAccessTypeOK, LinkStatuses
  <1>4. tasks' \in [TaskIds -> TaskRows]
    <2>1. Task("MAPPING", work[s].key) \in TaskIds
      BY <1>1, KeyOfRun DEF Task, TaskIds
    <2>2. tasks' = tasks \/ tasks' = Owed(Task("MAPPING", work[s].key))
      BY DEF ProvisionPortalMapping, ProvisionFailed, StopInCall
    <2> QED
      BY <2>1, <2>2, OwedTyped DEF PortalAccessTypeOK
  <1>5. CASE ops' = ops /\ SlotEnds(s)
    <2>1. Quiet
      BY <1>1, <1>2, <1>3, <1>4, <1>5 DEF Quiet, PortalAccessTypeOK
    <2> QED
      BY <1>5, <2>1, QuietAside DEF SlotEnds
  <1>6. CASE /\ ops' = [ops EXCEPT ![work[s].key] = "MAPPING_READY"]
             /\ SlotGoesOn(s, "MAPPING_READY")
    <2>1. ops' \in [Keys -> Stages]
      BY <1>6 DEF PortalAccessTypeOK, Stages
    <2>2. Quiet
      BY <1>1, <1>2, <1>3, <1>4, <2>1 DEF Quiet, PortalAccessTypeOK
    <2>3. CloserKnows(s)'
      BY <1>1, <1>6 DEF SlotGoesOn, CloserKnows, At
    <2> QED
      BY <1>6, <2>2, <2>3, QuietKeeps DEF SlotGoesOn
  <1>7. CASE ProvisionFailed(s, "MAPPING") \/ StopInCall(s)
    BY <1>5, <1>7, FinishEnds, FailProvisionEnds
       DEF ProvisionFailed, StopInCall
  <1>8. CASE AdvanceProvisionOperation(s, "MAPPING_READY", "MAPPING_READY")
    BY <1>1, <1>5, <1>6, <1>8, AdvanceMoves DEF Stages, Steps
  <1> QED
    BY <1>7, <1>8 DEF ProvisionPortalMapping

(* A slot ends, or its work is dropped, and nothing else happens.          *)
LEMMA EndsKeep ==
  ASSUME PortalInv, NEW s \in Slots, Finish(s), Fault \/ NoFault,
         UNCHANGED <<ops, invites, link, portal, disable, tasks>>
  PROVE  PortalInv'
  <1>1. SlotEnds(s)
    BY FinishEnds DEF PortalInv
  <1>2. Quiet
    BY FaultTyped DEF PortalInv, PortalAccessTypeOK, Quiet
  <1> QED
    BY <1>1, <1>2, QuietAside DEF SlotEnds

LEMMA RefusedKeep ==
  ASSUME PortalInv, NEW s \in Slots,
         FinalizeRefused(s) \/ MappingRefused(s) \/ Stop(s)
  PROVE  PortalInv'
  BY EndsKeep DEF FinalizeRefused, MappingRefused, Stop, NoFault

LEMMA LoginKeeps ==
  ASSUME PortalInv, NEW s \in Slots,
         \/ \E k \in Keys : BeginInvitationLogin(s, k)
         \/ CompleteLogin(s)
         \/ RevertActivation(s)
  PROVE  PortalInv'
  <1> USE DEF PortalInv
  <1>1. SlotMoves(s) /\ work'[s].job \notin {"PROVISION", "DISABLE"}
    <2>1. ASSUME NEW k \in Keys, BeginInvitationLogin(s, k)
          PROVE  SlotMoves(s) /\ work'[s].job = "LOGIN"
      <3>1. /\ Start("LOGIN", k, "VERIFIED") \in Jobs
            /\ Start("LOGIN", k, "VERIFIED").job = "LOGIN"
        BY DEF Start, Jobs, Steps
      <3> QED
        BY <2>1, <3>1, DoMoves DEF BeginInvitationLogin
    <2>2. CASE CompleteLogin(s)
      <3>1. CASE MappingUsable
        <4> DEFINE w == [work[s] EXCEPT !.at = "SESSION",
                                        !.activated = (portal = "PENDING")]
        <4>1. work[s] \in Jobs /\ work[s].job = "LOGIN"
          BY <2>2, Working DEF CompleteLogin, At
        <4>2. (portal = "PENDING") \in BOOLEAN
          OBVIOUS
        <4>3. w \in Jobs /\ w.job = "LOGIN"
          BY <4>1, <4>2 DEF Jobs, Steps
        <4>4. Do(s, w)
          BY <2>2, <3>1 DEF CompleteLogin
        <4> HIDE DEF w
        <4> QED
          BY <4>3, <4>4, DoMoves
      <3>2. CASE ~MappingUsable
        BY <2>2, <3>2, FinishEnds DEF CompleteLogin, SlotEnds
      <3> QED
        BY <3>1, <3>2
    <2>3. CASE RevertActivation(s)
      BY <2>3, FinishEnds DEF RevertActivation, SlotEnds
    <2> QED
      BY <2>1, <2>2, <2>3
  <1>2. UNCHANGED <<ops, invites, link, disable, tasks, faults>>
    BY DEF BeginInvitationLogin, CompleteLogin, RevertActivation
  <1>3. portal' \in LinkStatuses /\ (portal = "DISABLED" => portal' = "DISABLED")
    BY DEF BeginInvitationLogin, CompleteLogin, RevertActivation,
           MappingUsable, PortalAccessTypeOK, LinkStatuses
  <1>4. Quiet
    BY <1>2, <1>3 DEF Quiet, PortalAccessTypeOK
  <1> QED
    BY <1>1, <1>2, <1>4, QuietAside

LEMMA LeftTyped ==
  ASSUME NEW ts \in [TaskIds -> TaskRows], NEW t,
         NEW status \in {"WAITING", "ENDED"}
  PROVE  Left(ts, t, status) \in [TaskIds -> TaskRows]
  <1>1. [status |-> status, owner |-> Nobody] \in TaskRows
    BY DEF TaskRows
  <1> QED
    BY <1>1 DEF Left

LEMMA FailTaskEnds ==
  ASSUME PortalInv, NEW s \in Slots, FailTask(s)
  PROVE  SlotEnds(s) /\ tasks' \in [TaskIds -> TaskRows]
  BY LeftTyped, FinishEnds DEF FailTask, PortalInv, PortalAccessTypeOK

LEMMA ClaimTaskKeeps ==
  ASSUME PortalInv, NEW s \in Slots, NEW t \in TaskIds, ClaimTask(s, t)
  PROVE  PortalInv'
  <1> USE DEF PortalInv
  <1>1. /\ Start(t.type, t.key, "CLAIMED") \in Jobs
        /\ Start(t.type, t.key, "CLAIMED").job \in {"ROLE", "MAPPING"}
    BY DEF Start, Jobs, Steps, TaskIds
  <1>2. SlotMoves(s) /\ work'[s].job \notin {"PROVISION", "DISABLE"}
    BY <1>1, DoMoves DEF ClaimTask
  <1>3. tasks' \in [TaskIds -> TaskRows]
    <2>1. tasks' = [tasks EXCEPT ![t].status = "PROCESSING", ![t].owner = s]
      BY DEF ClaimTask
    <2>2. tasks \in [TaskIds -> TaskRows]
      BY DEF PortalAccessTypeOK
    <2> QED
      BY <2>1, <2>2 DEF TaskRows
  <1>4. faults' \in 0..MaxFaults
    BY FaultTyped DEF ClaimTask
  <1>5. Quiet
    BY <1>3, <1>4 DEF ClaimTask, Quiet, PortalAccessTypeOK
  <1> QED
    BY <1>2, <1>5, QuietAside DEF ClaimTask

LEMMA RunTaskKeeps ==
  ASSUME PortalInv, NEW s \in Slots, RunRoleTask(s) \/ RunMappingTask(s)
  PROVE  PortalInv'
  <1> USE DEF PortalInv
  <1>1. work[s].job \in {"ROLE", "MAPPING"}
    BY DEF RunRoleTask, RunMappingTask, At
  <1>2. /\ SlotMoves(s) /\ work'[s].job \notin {"PROVISION", "DISABLE"}
        /\ tasks' \in [TaskIds -> TaskRows]
    <2>1. CASE FailTask(s)
      BY <2>1, FailTaskEnds DEF SlotEnds
    <2>2. CASE CompleteRole(s)
      <3>1. Task("MAPPING", TaskOf(s).key) \in TaskIds
        BY <1>1, KeyOfRun DEF Task, TaskOf, TaskIds
      <3>2. Owed(Task("MAPPING", TaskOf(s).key)) \in [TaskIds -> TaskRows]
        BY <3>1, OwedTyped
      <3>3. tasks' \in [TaskIds -> TaskRows]
        BY <2>2, <3>2, LeftTyped DEF CompleteRole, PortalAccessTypeOK
      <3> QED
        BY <2>2, <3>3, FinishEnds DEF CompleteRole, SlotEnds
    <2>3. CASE MoveTo(s, "MAPPED") /\ tasks' = tasks
      BY <1>1, <2>3, MoveToGoesOn DEF SlotGoesOn, Steps, PortalAccessTypeOK
    <2> QED
      BY <2>1, <2>2, <2>3 DEF RunRoleTask, RunMappingTask
  <1>3. /\ UNCHANGED <<ops, invites, link, disable>>
        /\ faults' \in 0..MaxFaults
    BY FaultTyped DEF RunRoleTask, RunMappingTask
  <1>4. portal' \in LinkStatuses /\ (portal = "DISABLED" => portal' = "DISABLED")
    BY DEF RunRoleTask, RunMappingTask, Registered, PortalAccessTypeOK,
           LinkStatuses
  <1>5. Quiet
    BY <1>2, <1>3, <1>4 DEF Quiet, PortalAccessTypeOK
  <1> QED
    BY <1>2, <1>3, <1>5, QuietAside

LEMMA CloseLinkMissedKeeps ==
  ASSUME PortalInv, NEW s \in Slots, CloseLinkMissed(s)
  PROVE  PortalInv'
  <1> USE DEF PortalInv
  <1>1. /\ work[s].job = "DISABLE"
        /\ UNCHANGED <<ops, invites, link, portal, disable, tasks, faults>>
    BY DEF CloseLinkMissed, At
  <1>2. CASE Finish(s)
    BY <1>1, <1>2, EndsKeep DEF NoFault
  <1>3. CASE /\ disable.stage = "MAPPING_DISABLED"
             /\ MoveTo(s, "MAPPING_DISABLED")
    <2>1. SlotGoesOn(s, "MAPPING_DISABLED")
      BY <1>1, <1>3, MoveToGoesOn DEF Steps
    <2>2. Quiet
      BY <1>1, NothingIsQuiet
    <2>3. CloserKnows(s)'
      BY <1>1, <1>3, <2>1 DEF SlotGoesOn, CloserKnows, At, Closed
    <2> QED
      BY <2>1, <2>2, <2>3, QuietKeeps DEF SlotGoesOn
  <1> QED
    BY <1>2, <1>3 DEF CloseLinkMissed

-----------------------------------------------------------------------------
(* The closers, when one slot has moved and what they know still holds.    *)
LEMMA ClosersStay ==
  ASSUME PortalInv, NEW s \in Slots, SlotMoves(s), CloserKnows(s)',
         portal = "DISABLED" => portal' = "DISABLED",
         disable.stage \in Closed => disable'.stage \in Closed
  PROVE  \A r \in Slots : CloserKnows(r)'
  <1> SUFFICES ASSUME NEW r \in Slots, r # s PROVE CloserKnows(r)'
    OBVIOUS
  <1>1. /\ CloserKnows(r)
        /\ work'[r].job = work[r].job /\ work'[r].at = work[r].at
    BY DEF SlotMoves, PortalInv
  <1> QED
    BY <1>1 DEF CloserKnows, At

(* A step on the disable operation that leaves access as it is.            *)
LEMMA OperationKeeps ==
  ASSUME PortalInv, NEW s \in Slots, SlotMoves(s), CloserKnows(s)',
         UNCHANGED <<ops, invites, link, tasks>>,
         disable' \in DisableOperations, OperationAgrees',
         disable'.stage \in Closed => disable.stage \in Closed,
         disable.stage \in Closed => disable'.stage \in Closed,
         portal' \in {portal, "DISABLED"},
         faults' \in 0..MaxFaults
  PROVE  PortalInv'
  <1> USE DEF PortalInv
  <1>1. PortalAccessTypeOK'
    BY DEF PortalAccessTypeOK, SlotMoves, LinkStatuses
  <1>2. ClosedInOrder'
    BY DEF ClosedInOrder
  <1>3. \A r \in Slots : CloserKnows(r)'
    BY ClosersStay
  <1>4. InviteMatchesLink'
    BY DEF InviteMatchesLink
  <1> QED
    BY <1>1, <1>2, <1>3, <1>4

LEMMA OperationTyped ==
  ASSUME PortalInv
  PROVE  /\ disable \in DisableOperations
         /\ disable.tries \in 0..DisableTries
         /\ disable.stage \in {"NONE", "PREPARED"} \cup Closed
  BY DEF PortalInv, PortalAccessTypeOK, DisableOperations, Closed

LEMMA DisableKeeps ==
  ASSUME PortalInv, NEW s \in Slots, Disable(s)
  PROVE  PortalInv'
  <1> USE DEF PortalInv
  <1>1. /\ Start("DISABLE", Nobody, "PREPARED") \in Jobs
        /\ Start("DISABLE", Nobody, "PREPARED").job = "DISABLE"
        /\ Start("DISABLE", Nobody, "PREPARED").at = "PREPARED"
    BY DEF Start, Jobs, Steps, Stages
  <1>2. /\ SlotMoves(s)
        /\ work'[s].job = "DISABLE" /\ work'[s].at = "PREPARED"
    BY <1>1, DoMoves DEF Disable
  <1>3. CloserKnows(s)'
    BY <1>2 DEF CloserKnows, At
  <1>4. /\ disable' = [disable EXCEPT !.stage = "PREPARED",
                          !.status = "PROCESSING", !.owner = s, !.fresh = TRUE]
        /\ disable.status = "NONE"
        /\ UNCHANGED <<ops, invites, link, portal, tasks, faults>>
    BY DEF Disable
  <1>5. /\ disable' \in DisableOperations /\ disable'.tries = disable.tries
        /\ disable'.stage = "PREPARED" /\ disable'.status = "PROCESSING"
    BY <1>4, OperationTyped DEF DisableOperations
  <1>6. disable.stage = "NONE" /\ disable.tries < DisableTries
    BY <1>4 DEF OperationAgrees
  <1>7. OperationAgrees'
    BY <1>5, <1>6 DEF OperationAgrees
  <1> QED
    BY <1>2, <1>3, <1>4, <1>5, <1>6, <1>7, OperationKeeps
       DEF Closed, PortalAccessTypeOK

LEMMA ClaimAccessDisableKeeps ==
  ASSUME PortalInv, NEW s \in Slots, ClaimAccessDisable(s)
  PROVE  PortalInv'
  <1> USE DEF PortalInv
  <1> DEFINE w == Start("DISABLE", Nobody, disable.stage)
  <1>1. /\ disable' = [disable EXCEPT !.status = "PROCESSING", !.owner = s]
        /\ disable.status \in {"PROCESSING", "RETRY_WAIT"}
        /\ Do(s, w)
        /\ UNCHANGED <<ops, invites, link, portal, tasks>>
    BY DEF ClaimAccessDisable
  <1>2. disable.stage \in {"PREPARED", "MAPPING_DISABLED"}
    BY <1>1, OperationTyped DEF OperationAgrees, Closed
  <1>3. w \in Jobs /\ w.job = "DISABLE" /\ w.at = disable.stage
    BY <1>2 DEF Start, Jobs, Steps, Stages
  <1> HIDE DEF w
  <1>4. /\ SlotMoves(s)
        /\ work'[s].job = "DISABLE" /\ work'[s].at = disable.stage
    BY <1>1, <1>3, DoMoves
  <1>5. /\ disable' \in DisableOperations /\ disable'.tries = disable.tries
        /\ disable'.stage = disable.stage /\ disable'.status = "PROCESSING"
    BY <1>1, OperationTyped DEF DisableOperations
  <1>6. CloserKnows(s)'
    BY <1>2, <1>4, <1>5 DEF CloserKnows, At, Closed
  <1>7. OperationAgrees'
    BY <1>1, <1>2, <1>5 DEF OperationAgrees
  <1>8. faults' \in 0..MaxFaults
    BY FaultTyped DEF ClaimAccessDisable
  <1> QED
    BY <1>1, <1>4, <1>5, <1>6, <1>7, <1>8, OperationKeeps
       DEF PortalAccessTypeOK

LEMMA FailDisableRecords ==
  ASSUME PortalInv, NEW s \in Slots, FailDisable(s)
  PROVE  /\ SlotEnds(s) /\ faults' \in 0..MaxFaults
         /\ disable' \in DisableOperations /\ disable'.stage = disable.stage
         /\ OperationAgrees'
  <1> USE DEF PortalInv
  <1> DEFINE tries == disable.tries + 1
             next == IF tries >= DisableTries THEN "DEAD_LETTER"
                                              ELSE "RETRY_WAIT"
             d == [disable EXCEPT !.status = next, !.tries = tries,
                                  !.owner = Nobody]
  <1>1. Record(s, d)
    BY DEF FailDisable
  <1>2. SlotEnds(s) /\ faults' \in 0..MaxFaults
    BY <1>1, FinishEnds, FaultTyped DEF Record
  <1>3. CASE disable' = disable
    BY <1>2, <1>3, OperationTyped DEF OperationAgrees
  <1>4. CASE Owned(s) /\ disable' = d
    <2>1. disable.status = "PROCESSING" /\ disable.tries < DisableTries
      BY <1>4 DEF Owned, OperationAgrees
    <2>2. tries \in 0..DisableTries
      BY <2>1, OperationTyped
    <2>3. next \in {"DEAD_LETTER", "RETRY_WAIT"}
          /\ (next = "RETRY_WAIT" => tries < DisableTries)
      BY <2>2
    <2> HIDE DEF tries, next
    <2>4. /\ disable' \in DisableOperations /\ disable'.stage = disable.stage
          /\ disable'.status = next /\ disable'.tries = tries
      BY <1>4, <2>2, <2>3, OperationTyped DEF DisableOperations
    <2>5. OperationAgrees'
      BY <2>1, <2>3, <2>4 DEF OperationAgrees
    <2> QED
      BY <1>2, <2>4, <2>5
  <1> QED
    BY <1>1, <1>3, <1>4 DEF Record

LEMMA DisableMappingKeeps ==
  ASSUME PortalInv, NEW s \in Slots, DisableMapping(s)
  PROVE  PortalInv'
  <1> USE DEF PortalInv
  <1>1. /\ work[s].job = "DISABLE"
        /\ UNCHANGED <<ops, invites, link, tasks>>
    BY DEF DisableMapping, At
  <1>2. CASE /\ portal' = "DISABLED" /\ MoveTo(s, "FROZEN")
             /\ faults' = faults /\ disable' = disable
    <2>1. SlotGoesOn(s, "FROZEN")
      BY <1>1, <1>2, MoveToGoesOn DEF Steps
    <2>2. CloserKnows(s)'
      BY <1>2, <2>1 DEF SlotGoesOn, CloserKnows, At
    <2>3. OperationAgrees'
      BY <1>2 DEF OperationAgrees
    <2> QED
      BY <1>1, <1>2, <2>1, <2>2, <2>3, OperationKeeps
         DEF SlotGoesOn, PortalAccessTypeOK
  <1>3. CASE portal' \in {portal, "DISABLED"} /\ FailDisable(s)
    <2>1. /\ SlotEnds(s) /\ faults' \in 0..MaxFaults
          /\ disable' \in DisableOperations /\ disable'.stage = disable.stage
          /\ OperationAgrees'
      BY <1>3, FailDisableRecords
    <2>2. CloserKnows(s)'
      BY <2>1 DEF SlotEnds, CloserKnows, At
    <2> QED
      BY <1>1, <1>3, <2>1, <2>2, OperationKeeps DEF SlotEnds
  <1> QED
    BY <1>2, <1>3 DEF DisableMapping, NoFault

LEMMA RevokePortalRoleKeeps ==
  ASSUME PortalInv, NEW s \in Slots, RevokePortalRole(s)
  PROVE  PortalInv'
  <1> USE DEF PortalInv
  <1>1. /\ work[s].job = "DISABLE" /\ disable.stage \in Closed
        /\ UNCHANGED <<ops, invites, link, portal, tasks>>
    BY DEF RevokePortalRole, CloserKnows, At
  <1>2. CASE FailDisable(s)
    <2>1. /\ SlotEnds(s) /\ faults' \in 0..MaxFaults
          /\ disable' \in DisableOperations /\ disable'.stage = disable.stage
          /\ OperationAgrees'
      BY <1>2, FailDisableRecords
    <2>2. CloserKnows(s)'
      BY <2>1 DEF SlotEnds, CloserKnows, At
    <2> QED
      BY <1>1, <2>1, <2>2, OperationKeeps DEF SlotEnds
  <1>3. CASE Record(s, [disable EXCEPT !.stage = "COMPLETED", !.owner = Nobody,
                                       !.status = "COMPLETED"])
    <2>1. SlotEnds(s) /\ faults' \in 0..MaxFaults
      BY <1>3, FinishEnds, FaultTyped DEF Record
    <2>2. /\ disable' \in DisableOperations
          /\ \/ disable' = disable
             \/ disable'.stage = "COMPLETED" /\ disable'.status = "COMPLETED"
      BY <1>3, OperationTyped DEF Record, DisableOperations
    <2>3. OperationAgrees' /\ disable'.stage \in Closed
      BY <1>1, <2>2 DEF OperationAgrees, Closed
    <2>4. CloserKnows(s)'
      BY <2>1 DEF SlotEnds, CloserKnows, At
    <2> QED
      BY <1>1, <2>1, <2>2, <2>3, <2>4, OperationKeeps DEF SlotEnds
  <1> QED
    BY <1>2, <1>3 DEF RevokePortalRole

-----------------------------------------------------------------------------
(* Steps on the link and the invitations.                                  *)

LEMMA RevokedTyped ==
  ASSUME PortalInv
  PROVE  /\ RevokePending \in [Keys -> InviteStatuses]
         /\ \A j \in Keys : RevokePending[j] # "PENDING"
  BY DEF PortalInv, PortalAccessTypeOK, RevokePending, InviteStatuses

(* LinkWritten, or nothing, is written to the disable operation.           *)
LEMMA WrittenAgrees ==
  ASSUME PortalInv, disable' \in {disable, LinkWritten}
  PROVE  /\ disable' \in DisableOperations
         /\ disable'.stage = disable.stage
         /\ OperationAgrees'
  <1>1. /\ disable' \in DisableOperations
        /\ disable'.stage = disable.stage /\ disable'.status = disable.status
        /\ disable'.tries = disable.tries
    BY OperationTyped DEF LinkWritten, DisableOperations
  <1> QED
    BY <1>1 DEF PortalInv, OperationAgrees

(* A step on a link that is not closed and stays so.                       *)
LEMMA OpenLinkKeeps ==
  ASSUME PortalInv, NEW s \in Slots, SlotEnds(s) \/ SlotGoesOn(s, "FAILED"),
         work[s].job # "DISABLE",
         link # "DISABLED", link' \in {"PENDING", "ACTIVE"},
         disable' \in {disable, LinkWritten},
         UNCHANGED portal, faults' \in 0..MaxFaults,
         tasks' \in [TaskIds -> TaskRows], ops' \in [Keys -> Stages],
         invites' \in [Keys -> InviteStatuses],
         InviteMatchesLink'
  PROVE  PortalInv'
  <1> USE DEF PortalInv
  <1>1. SlotMoves(s)
    BY DEF SlotEnds, SlotGoesOn
  <1>2. /\ disable' \in DisableOperations /\ disable'.stage = disable.stage
        /\ OperationAgrees'
    BY WrittenAgrees
  <1>3. PortalAccessTypeOK'
    BY <1>1, <1>2 DEF PortalAccessTypeOK, SlotMoves, LinkStatuses
  <1>4. ClosedInOrder'
    BY <1>2 DEF ClosedInOrder
  <1>5. CloserKnows(s)'
    BY DEF CloserKnows, At, SlotEnds, SlotGoesOn
  <1>6. \A r \in Slots : CloserKnows(r)'
    BY <1>1, <1>2, <1>5, ClosersStay
  <1> QED
    BY <1>2, <1>3, <1>4, <1>6

LEMMA FinalizeProvisionKeeps ==
  ASSUME PortalInv, NEW s \in Slots, FinalizeProvision(s)
  PROVE  PortalInv'
  <1> USE DEF PortalInv
  <1> DEFINE k == work[s].key
  <1>1. /\ work[s].job = "PROVISION" /\ work[s].at = "MAPPING_READY"
        /\ link # "DISABLED" /\ link' = "PENDING"
        /\ invites' = [RevokePending EXCEPT ![k] = "PENDING"]
        /\ disable' = LinkWritten
        /\ ops' = [ops EXCEPT ![k] = "COMPLETED"]
        /\ work' = [Outdated(s, k) EXCEPT ![s] = Idle]
        /\ UNCHANGED <<portal, tasks, faults>>
    BY DEF FinalizeProvision, At, LinkMayOpen, Invited
  <1>2. SlotEnds(s)
    BY <1>1, OutdatedEnds
  <1>3. /\ invites' \in [Keys -> InviteStatuses]
        /\ \A j \in Keys : invites'[j] = "PENDING" => j = k
    <2> DEFINE f == RevokePending
    <2>1. f \in [Keys -> InviteStatuses] /\ \A j \in Keys : f[j] # "PENDING"
      BY RevokedTyped
    <2>2. "PENDING" \in InviteStatuses
      BY DEF InviteStatuses
    <2>3. invites' = [f EXCEPT ![k] = "PENDING"]
      BY <1>1
    <2> HIDE DEF f, k
    <2> QED
      BY <2>1, <2>2, <2>3
  <1>4. ops' \in [Keys -> Stages]
    BY <1>1 DEF PortalAccessTypeOK, Stages
  <1>5. InviteMatchesLink'
    BY <1>1, <1>3 DEF InviteMatchesLink
  <1> QED
    BY <1>1, <1>2, <1>3, <1>4, <1>5, OpenLinkKeeps
       DEF PortalAccessTypeOK

LEMMA ConsumeKeeps ==
  ASSUME PortalInv, NEW s \in Slots, Consume(s)
  PROVE  PortalInv'
  <1> USE DEF PortalInv
  <1> DEFINE k == work[s].key
  <1>1. /\ work[s].job = "LOGIN" /\ k \in Keys
        /\ UNCHANGED <<ops, portal, tasks>>
        /\ faults' \in 0..MaxFaults
    BY KeyOfRun, FaultTyped DEF Consume, At
  <1>2. SlotEnds(s) \/ SlotGoesOn(s, "FAILED")
    BY <1>1, FinishEnds, MoveToGoesOn DEF Consume, Steps
  <1>3. CASE Consumable(k) /\ ConsumeInvite(k)
    <2>1. /\ \/ invites[k] = "PENDING" /\ link = "PENDING"
             \/ invites[k] = "USED" /\ link = "ACTIVE"
          /\ invites' = [invites EXCEPT ![k] = "USED"]
          /\ link' = "ACTIVE"
          /\ disable' \in {disable, LinkWritten}
      BY <1>3 DEF Consumable, ConsumeInvite
    <2>2. invites' \in [Keys -> InviteStatuses]
      BY <2>1 DEF PortalAccessTypeOK, InviteStatuses
    <2>3. invites'[k] = "USED" /\ \A j \in Keys : invites'[j] # "PENDING"
      BY <1>1, <2>1 DEF InviteMatchesLink, PortalAccessTypeOK
    <2>4. InviteMatchesLink'
      BY <1>1, <2>3 DEF InviteMatchesLink
    <2> QED
      BY <1>1, <1>2, <2>1, <2>2, <2>4, OpenLinkKeeps DEF PortalAccessTypeOK
  <1>4. CASE MoveTo(s, "FAILED") /\ UNCHANGED <<invites, link, disable>>
    <2>1. SlotGoesOn(s, "FAILED")
      BY <1>1, <1>4, MoveToGoesOn DEF Steps
    <2>2. Quiet
      BY <1>1, <1>4 DEF Quiet, PortalAccessTypeOK
    <2> QED
      BY <1>1, <2>1, <2>2, QuietAside DEF SlotGoesOn
  <1> QED
    BY <1>3, <1>4 DEF Consume

LEMMA EndInviteKeeps ==
  ASSUME PortalInv, NEW k \in Keys, EndInvite(k)
  PROVE  PortalInv'
  <1> USE DEF PortalInv
  <1>1. /\ invites' = [invites EXCEPT ![k] = "CLOSED"]
        /\ invites[k] = "PENDING"
        /\ UNCHANGED <<ops, link, portal, disable, tasks, work, faults>>
    BY DEF EndInvite
  <1>2. PortalAccessTypeOK'
    BY <1>1 DEF PortalAccessTypeOK, InviteStatuses
  <1>3. \A j \in Keys : /\ invites'[j] = "PENDING" => invites[j] = "PENDING"
                        /\ invites[j] = "USED" => invites'[j] = "USED"
    BY <1>1 DEF PortalAccessTypeOK
  <1>4. OperationAgrees'
    BY <1>1 DEF OperationAgrees
  <1>5. ClosedInOrder' /\ InviteMatchesLink'
    BY <1>1, <1>3 DEF ClosedInOrder, InviteMatchesLink
  <1>6. \A s \in Slots : CloserKnows(s)'
    BY <1>1 DEF CloserKnows, At
  <1> QED
    BY <1>2, <1>4, <1>5, <1>6

LEMMA CloseLinkKeeps ==
  ASSUME PortalInv, NEW s \in Slots, CloseLink(s)
  PROVE  PortalInv'
  <1> USE DEF PortalInv
  <1>1. /\ work[s].job = "DISABLE" /\ portal = "DISABLED"
        /\ disable.stage = "PREPARED"
        /\ link' = "DISABLED" /\ invites' = RevokePending
        /\ disable' = [disable EXCEPT !.stage = "MAPPING_DISABLED"]
        /\ MoveTo(s, "MAPPING_DISABLED")
        /\ UNCHANGED <<ops, portal, tasks, faults>>
    BY DEF CloseLink, At, CloserKnows
  <1>2. SlotGoesOn(s, "MAPPING_DISABLED")
    BY <1>1, MoveToGoesOn DEF Steps
  <1>3. /\ disable' \in DisableOperations
        /\ disable'.stage = "MAPPING_DISABLED"
        /\ disable'.status = disable.status /\ disable'.tries = disable.tries
    BY <1>1, OperationTyped DEF DisableOperations
  <1>4. PortalAccessTypeOK'
    BY <1>1, <1>2, <1>3, RevokedTyped
       DEF PortalAccessTypeOK, SlotGoesOn, SlotMoves, LinkStatuses
  <1>5. OperationAgrees'
    BY <1>1, <1>3 DEF OperationAgrees
  <1>6. ClosedInOrder' /\ InviteMatchesLink'
    BY <1>1, RevokedTyped DEF ClosedInOrder, InviteMatchesLink
  <1>7. CloserKnows(s)'
    BY <1>2, <1>3 DEF CloserKnows, At, SlotGoesOn, Closed
  <1>8. \A r \in Slots : CloserKnows(r)'
    BY <1>1, <1>2, <1>3, <1>7, ClosersStay DEF SlotGoesOn, Closed
  <1> QED
    BY <1>4, <1>5, <1>6, <1>8

LEMMA CompleteMappingKeeps ==
  ASSUME PortalInv, NEW s \in Slots, CompleteMapping(s)
  PROVE  PortalInv'
  <1> USE DEF PortalInv
  <1>1. /\ work[s].job = "MAPPING" /\ link # "DISABLED"
        /\ link' = "PENDING" /\ disable' = LinkWritten
        /\ tasks' = Left(tasks, TaskOf(s), "ENDED")
        /\ Finish(s)
        /\ UNCHANGED <<ops, invites, portal, faults>>
    BY DEF CompleteMapping, At, MayMap, LinkMayOpen
  <1>2. SlotEnds(s)
    BY <1>1, FinishEnds
  <1>3. tasks' \in [TaskIds -> TaskRows]
    BY <1>1, LeftTyped DEF PortalAccessTypeOK
  <1>4. InviteMatchesLink'
    BY <1>1 DEF InviteMatchesLink
  <1> QED
    BY <1>1, <1>2, <1>3, <1>4, OpenLinkKeeps DEF PortalAccessTypeOK

-----------------------------------------------------------------------------
LEMMA PortalStep == PortalInv /\ [Next]_vars => PortalInv'
  <1> SUFFICES ASSUME PortalInv, [Next]_vars PROVE PortalInv'
    OBVIOUS
  <1>1. CASE UNCHANGED vars
    <2>1. UNCHANGED <<ops, invites, link, portal, disable, tasks, work,
                      faults>>
      BY <1>1 DEF vars
    <2>2. PortalAccessTypeOK' /\ OperationAgrees' /\ ClosedInOrder'
      BY <2>1 DEF PortalInv, PortalAccessTypeOK, OperationAgrees, ClosedInOrder
    <2>3. InviteMatchesLink'
      BY <2>1 DEF PortalInv, InviteMatchesLink
    <2>4. \A s \in Slots : CloserKnows(s)'
      BY <2>1 DEF PortalInv, CloserKnows, At
    <2> QED
      BY <2>2, <2>3, <2>4 DEF PortalInv
  <1>2. ASSUME NEW k \in Keys, EndInvite(k) PROVE PortalInv'
    BY <1>2, EndInviteKeeps
  <1>3. ASSUME NEW s \in Slots, NEW k \in Keys,
               Create(s, k) \/ BeginInvitationLogin(s, k)
        PROVE  PortalInv'
    BY <1>3, CreateKeeps, LoginKeeps
  <1>4. ASSUME NEW s \in Slots, NEW t \in TaskIds, ClaimTask(s, t)
        PROVE  PortalInv'
    BY <1>4, ClaimTaskKeeps
  <1>5. ASSUME NEW s \in Slots, Disable(s) \/ ClaimAccessDisable(s)
        PROVE  PortalInv'
    BY <1>5, DisableKeeps, ClaimAccessDisableKeeps
  <1>6. ASSUME NEW s \in Slots, OpenStep(s) PROVE PortalInv'
    BY <1>6, ProvisionExternalUserKeeps, AssignPortalRoleKeeps,
       ProvisionPortalMappingKeeps, FinalizeProvisionKeeps, RefusedKeep
       DEF OpenStep
  <1>7. ASSUME NEW s \in Slots, LoginStep(s) PROVE PortalInv'
    BY <1>7, LoginKeeps, ConsumeKeeps DEF LoginStep
  <1>8. ASSUME NEW s \in Slots, DisableStep(s) PROVE PortalInv'
    BY <1>8, DisableMappingKeeps, CloseLinkKeeps, CloseLinkMissedKeeps,
       RevokePortalRoleKeeps DEF DisableStep
  <1>9. ASSUME NEW s \in Slots, TaskStep(s) PROVE PortalInv'
    BY <1>9, RunTaskKeeps, CompleteMappingKeeps, RefusedKeep DEF TaskStep
  <1>10. ASSUME NEW s \in Slots, Stop(s) PROVE PortalInv'
    BY <1>10, RefusedKeep
  <1> QED
    BY <1>1, <1>2, <1>3, <1>4, <1>5, <1>6, <1>7, <1>8, <1>9, <1>10 DEF Next

LEMMA PortalInvariance == Spec => []PortalInv
  BY PortalInit, PortalStep, PTL DEF Spec

(* Every variable keeps to its type: a run never holds a stage, and the    *)
(* disable operation never a number of tries, that the code does not know. *)
THEOREM PortalTyped == Spec => []PortalAccessTypeOK
  <1>1. PortalInv => PortalAccessTypeOK
    BY DEF PortalInv
  <1> QED
    BY <1>1, PortalInvariance, PTL

(* Once the link is closed by a disable operation, no provision, login or  *)
(* task that began before opens the link, the portal or an invitation.     *)
THEOREM ClosedForGood == Spec => []AccessStaysClosed
  <1>1. PortalInv => AccessStaysClosed
    BY DEF PortalInv, AccessStaysClosed, ClosedInOrder, Closed
  <1> QED
    BY <1>1, PortalInvariance, PTL

(* One invitation is open at a time, for a pending link, and a link is     *)
(* active only after an invitation was used.                               *)
THEOREM InviteAndLinkAgree == Spec => []InviteMatchesLink
  <1>1. PortalInv => InviteMatchesLink
    BY DEF PortalInv
  <1> QED
    BY <1>1, PortalInvariance, PTL

=============================================================================
