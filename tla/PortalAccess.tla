---------------------------- MODULE PortalAccess ----------------------------
(***************************************************************************)
(* Access of one customer's registered contact to the portal: opening it   *)
(* with an invitation and closing it for good                              *)
(* (src/internal/modules/portalinvite), the tasks that make up for calls   *)
(* which failed (portalinvitecompensationworker), the recovery of disable  *)
(* operations (portalaccessdisableworker) and the portal's side of the     *)
(* mapping (src/internal/modules/portal/account).                          *)
(*                                                                         *)
(* The parties share no transaction.  A call to the platform or the portal *)
(* may fail, applied or not, and a process may stop at any point.  A call  *)
(* and the transaction that records its outcome are two actions where      *)
(* somebody else can do something about it between the two.                *)
(*                                                                         *)
(* The customer stays active and keeps its contact, and the portal is the  *)
(* authority on its own mapping: the bindings of the platform mode, the    *)
(* sessions and the tokens are left out.  So is the role itself: the code  *)
(* never reads it back, and an administrator of the platform may take it   *)
(* away at any time; what is modelled are the calls that give and take it. *)
(***************************************************************************)
EXTENDS Naturals

CONSTANTS
    Keys,          \* idempotency keys under which access is opened
    Requests,      \* requests that may be under way at the same time
    Workers,       \* worker processes
    Nobody,        \* no slot, and no key
    DisableTries,  \* attempts to close access before a dead letter
    MaxFaults      \* bound on failed calls, lost answers, stops and overrun leases

ASSUME PortalAssumption ==
    /\ Nobody \notin Keys \cup Requests \cup Workers
    /\ DisableTries \in Nat \ {0}
    /\ MaxFaults \in Nat

VARIABLES
    ops,      \* ops[k]: stage of the provision operation of key k
    invites,  \* invites[k]: status of the invitation that operation k created
    link,     \* status of crm_portal_identity_links
    portal,   \* status of portal_identity_links
    disable,  \* the disable operation of the customer
    tasks,    \* tasks[t]: compensation task
    work,     \* work[s]: what request or worker s is doing
    faults

vars == <<ops, invites, link, portal, disable, tasks, work, faults>>

Slots == Requests \cup Workers

Stages == {"NONE", "PREPARED", "USER_PROVISIONED", "ROLE_ASSIGNED",
           "MAPPING_READY", "COMPLETED"}

(* CLOSED: REVOKED or EXPIRED.                                             *)
InviteStatuses == {"NONE", "PENDING", "USED", "CLOSED"}

LinkStatuses == {"NONE", "PENDING", "ACTIVE", "DISABLED"}

(* fresh: the link still has the version that the operation has frozen.     *)
DisableOperations ==
    [stage : {"NONE", "PREPARED", "MAPPING_DISABLED", "COMPLETED"},
     status : {"NONE", "PROCESSING", "RETRY_WAIT", "COMPLETED", "DEAD_LETTER"},
     owner : Slots \cup {Nobody},
     tries : 0..DisableTries, fresh : BOOLEAN]

TaskIds == [type : {"ROLE", "MAPPING"}, key : Keys]

(* WAITING: PENDING or RETRY_WAIT.  ENDED: SUCCEEDED or DEAD_LETTER.         *)
TaskRows ==
    [status : {"NONE", "WAITING", "PROCESSING", "ENDED"},
     owner : Slots \cup {Nobody}]

(* at: the stage read, or the step reached (ROLE_READY: the role has been   *)
(* assigned in this run; FROZEN, MAPPED: the portal has answered; FAILED:  *)
(* the invitation was not consumed).  fresh: a run of a provision has the  *)
(* current version of its row; activated: a login has activated the        *)
(* account itself.                                                         *)
Steps == (Stages \ {"NONE"}) \cup
         {"ROLE_READY", "VERIFIED", "SESSION", "FAILED", "FROZEN",
          "MAPPING_DISABLED", "CLAIMED", "MAPPED"}

Jobs == [job : {"PROVISION", "LOGIN", "ROLE", "MAPPING"}, key : Keys,
         at : Steps, fresh : BOOLEAN, activated : BOOLEAN]
        \cup
        [job : {"DISABLE"}, key : {Nobody},
         at : Steps, fresh : BOOLEAN, activated : BOOLEAN]

Idle == [job |-> "IDLE", key |-> Nobody, at |-> "NONE",
         fresh |-> FALSE, activated |-> FALSE]

PortalAccessTypeOK ==
    /\ ops \in [Keys -> Stages]
    /\ invites \in [Keys -> InviteStatuses]
    /\ link \in LinkStatuses
    /\ portal \in LinkStatuses
    /\ disable \in DisableOperations
    /\ tasks \in [TaskIds -> TaskRows]
    /\ work \in [Slots -> Jobs \cup {Idle}]
    /\ faults \in 0..MaxFaults

Init ==
    /\ ops = [k \in Keys |-> "NONE"]
    /\ invites = [k \in Keys |-> "NONE"]
    /\ link = "NONE"
    /\ portal = "NONE"
    /\ disable = [stage |-> "NONE", status |-> "NONE", owner |-> Nobody,
                  tries |-> 0, fresh |-> FALSE]
    /\ tasks = [t \in TaskIds |-> [status |-> "NONE", owner |-> Nobody]]
    /\ work = [s \in Slots |-> Idle]
    /\ faults = 0

-----------------------------------------------------------------------------
(* Slots and faults.                                                       *)

IsIdle(s) == work[s] = Idle

At(s, job, at) == work[s].job = job /\ work[s].at = at

Start(job, key, at) ==
    [job |-> job, key |-> key, at |-> at,
     fresh |-> job = "PROVISION", activated |-> FALSE]

Do(s, w) == work' = [work EXCEPT ![s] = w]

Finish(s) == Do(s, Idle)

MoveTo(s, at) == work' = [work EXCEPT ![s].at = at]

Fault == faults < MaxFaults /\ faults' = faults + 1

NoFault == faults' = faults

-----------------------------------------------------------------------------
(* Compensation tasks.                                                     *)

Task(type, k) == [type |-> type, key |-> k]

(* ON CONFLICT DO NOTHING, and FirstOrCreate.                              *)
Owed(t) ==
    IF tasks[t].status = "NONE" THEN [tasks EXCEPT ![t].status = "WAITING"]
                                ELSE tasks

(* The access of a customer is being closed, or closing it has failed.     *)
HasBlockingAccessDisable ==
    disable.status \in {"PROCESSING", "RETRY_WAIT", "DEAD_LETTER"}

(* A write to the link raises its version.                                 *)
LinkWritten == [disable EXCEPT !.fresh = FALSE]

-----------------------------------------------------------------------------
(* Opening access.                                                         *)

(* A request with a new key creates an operation; one with a known key     *)
(* resumes it where it stands.                                             *)
Create(s, k) ==
    LET stage == IF ops[k] = "NONE" THEN "PREPARED" ELSE ops[k]
    IN  /\ s \in Requests /\ IsIdle(s)
        /\ ops' = [ops EXCEPT ![k] = stage]
        /\ Do(s, Start("PROVISION", k, stage))
        /\ UNCHANGED <<invites, link, portal, disable, tasks, faults>>

(* The other runs of the same operation have read the row before.          *)
Outdated(s, k) ==
    [r \in Slots |->
        IF work[r].job = "PROVISION" /\ work[r].key = k /\ r # s
        THEN [work[r] EXCEPT !.fresh = FALSE] ELSE work[r]]

StageRead(s) ==
    IF work[s].at = "ROLE_READY" THEN "ROLE_ASSIGNED" ELSE work[s].at

(* The row has the version this run knows: the stage is written and the    *)
(* run goes on at the given step.  Otherwise the run ends.                 *)
AdvanceProvisionOperation(s, stage, step) ==
    LET k == work[s].key
    IN  IF work[s].fresh
        THEN /\ ops' = [ops EXCEPT ![k] = stage]
             /\ work' = [Outdated(s, k) EXCEPT ![s].at = step]
        ELSE Finish(s) /\ UNCHANGED ops

(* Only the version of the row and fields no step depends on are written.  *)
FailProvision(s) ==
    LET k == work[s].key
    IN  IF ops[k] = StageRead(s) /\ ops[k] # "COMPLETED"
        THEN work' = [Outdated(s, k) EXCEPT ![s] = Idle]
        ELSE Finish(s)

(* A call has failed: a task is left for it, and the failure is recorded.  *)
ProvisionFailed(s, type) ==
    /\ tasks' = Owed(Task(type, work[s].key))
    /\ FailProvision(s)
    /\ UNCHANGED ops

(* The process has stopped before it knew or recorded what became of it.   *)
StopInCall(s) == Fault /\ Finish(s) /\ UNCHANGED <<ops, tasks>>

ProvisionExternalUser(s) ==
    /\ At(s, "PROVISION", "PREPARED")
    /\ \/ NoFault
          /\ AdvanceProvisionOperation(s, "USER_PROVISIONED", "USER_PROVISIONED")
       \/ Fault /\ FailProvision(s) /\ UNCHANGED ops
    /\ UNCHANGED <<invites, link, portal, disable, tasks>>

(* A run that finds the role assigned, or the operation completed, assigns *)
(* it again.                                                               *)
RoleAssigned(s) ==
    CASE work[s].at = "USER_PROVISIONED" ->
             AdvanceProvisionOperation(s, "ROLE_ASSIGNED", "ROLE_READY")
      [] work[s].at = "ROLE_ASSIGNED" -> MoveTo(s, "ROLE_READY") /\ UNCHANGED ops
      [] work[s].at = "COMPLETED" -> Finish(s) /\ UNCHANGED ops

AssignPortalRole(s) ==
    /\ \E at \in {"USER_PROVISIONED", "ROLE_ASSIGNED", "COMPLETED"} :
           At(s, "PROVISION", at)
    /\ \/ RoleAssigned(s) /\ NoFault /\ UNCHANGED tasks
       \/ ProvisionFailed(s, "ROLE") /\ Fault
       \/ StopInCall(s)
    /\ UNCHANGED <<invites, link, portal, disable>>

(* The portal registers the account; one that it has disabled it refuses.  *)
Registered == IF portal = "NONE" THEN "PENDING" ELSE portal

ProvisionPortalMapping(s) ==
    /\ At(s, "PROVISION", "ROLE_READY")
    /\ \/ /\ portal # "DISABLED" /\ portal' = Registered
          /\ AdvanceProvisionOperation(s, "MAPPING_READY", "MAPPING_READY")
          /\ NoFault /\ UNCHANGED tasks
       \/ /\ portal' \in {portal, Registered}
          /\ ProvisionFailed(s, "MAPPING")
          /\ IF portal = "DISABLED" THEN NoFault ELSE Fault
       \/ portal' = Registered /\ StopInCall(s)
    /\ UNCHANGED <<invites, link, disable>>

RevokePending == [k \in Keys |-> IF invites[k] = "PENDING" THEN "CLOSED"
                                                           ELSE invites[k]]

(* Variant: the earlier invitations are left open.                         *)
InvitedBeside(k) == [invites EXCEPT ![k] = "PENDING"]

(* The new invitation takes the place of the earlier ones.                 *)
Invited(k) == [RevokePending EXCEPT ![k] = "PENDING"]

(* Variant: a disabled link is opened again.                               *)
AnyLinkMayOpen == link \in LinkStatuses

(* UpsertLink.                                                             *)
LinkMayOpen == link # "DISABLED"

FinalizeProvision(s) ==
    LET k == work[s].key
    IN  /\ At(s, "PROVISION", "MAPPING_READY") /\ work[s].fresh
        /\ ~HasBlockingAccessDisable /\ LinkMayOpen
        /\ invites' = Invited(k)
        /\ link' = "PENDING"
        /\ disable' = LinkWritten
        /\ ops' = [ops EXCEPT ![k] = "COMPLETED"]
        /\ work' = [Outdated(s, k) EXCEPT ![s] = Idle]
        /\ UNCHANGED <<portal, tasks, faults>>

FinalizeRefused(s) ==
    /\ At(s, "PROVISION", "MAPPING_READY")
    /\ ~work[s].fresh \/ HasBlockingAccessDisable \/ ~LinkMayOpen
    /\ Finish(s)
    /\ UNCHANGED <<ops, invites, link, portal, disable, tasks, faults>>

-----------------------------------------------------------------------------
(* Using an invitation, and its other ends.                                *)

MappingUsable == portal \in {"PENDING", "ACTIVE"}

BeginInvitationLogin(s, k) ==
    /\ s \in Requests /\ IsIdle(s)
    /\ invites[k] = "PENDING" /\ MappingUsable
    /\ Do(s, Start("LOGIN", k, "VERIFIED"))
    /\ UNCHANGED <<ops, invites, link, portal, disable, tasks, faults>>

(* The session and the activation of the account, in one transaction.      *)
CompleteLogin(s) ==
    /\ At(s, "LOGIN", "VERIFIED")
    /\ IF MappingUsable
       THEN /\ Do(s, [work[s] EXCEPT !.at = "SESSION",
                                     !.activated = (portal = "PENDING")])
            /\ portal' = "ACTIVE"
       ELSE Finish(s) /\ UNCHANGED portal
    /\ UNCHANGED <<ops, invites, link, disable, tasks, faults>>

(* Repeated for an invitation that is used, it succeeds if the link is     *)
(* active.                                                                 *)
Consumable(k) ==
    /\ ~HasBlockingAccessDisable
    /\ \/ invites[k] = "PENDING" /\ link = "PENDING"
       \/ invites[k] = "USED" /\ link = "ACTIVE"

ConsumeInvite(k) ==
    /\ invites' = [invites EXCEPT ![k] = "USED"]
    /\ link' = "ACTIVE"
    /\ disable' = IF link = "ACTIVE" THEN disable ELSE LinkWritten

Consume(s) ==
    LET k == work[s].key
    IN  /\ At(s, "LOGIN", "SESSION")
        /\ \/ Consumable(k) /\ ConsumeInvite(k) /\ Finish(s) /\ NoFault
           \/ Consumable(k) /\ ConsumeInvite(k) /\ MoveTo(s, "FAILED") /\ Fault
           \/ /\ MoveTo(s, "FAILED")
              /\ IF Consumable(k) THEN Fault ELSE NoFault
              /\ UNCHANGED <<invites, link, disable>>
        /\ UNCHANGED <<ops, portal, tasks>>

(* The session is revoked, and the activation taken back if it is the      *)
(* login's own and still stands.                                           *)
RevertActivation(s) ==
    /\ At(s, "LOGIN", "FAILED")
    /\ portal' = IF work[s].activated /\ portal = "ACTIVE" THEN "PENDING"
                                                           ELSE portal
    /\ Finish(s)
    /\ UNCHANGED <<ops, invites, link, disable, tasks, faults>>

(* By a user, or because its time has passed.                              *)
EndInvite(k) ==
    /\ invites[k] = "PENDING"
    /\ invites' = [invites EXCEPT ![k] = "CLOSED"]
    /\ UNCHANGED <<ops, link, portal, disable, tasks, work, faults>>

-----------------------------------------------------------------------------
(* Closing access.                                                         *)

(* The operation freezes the version of the link.                          *)
Disable(s) ==
    /\ s \in Requests /\ IsIdle(s)
    /\ disable.status = "NONE" /\ link \in {"PENDING", "ACTIVE"}
    /\ disable' = [disable EXCEPT !.stage = "PREPARED", !.status = "PROCESSING",
                                  !.owner = s, !.fresh = TRUE]
    /\ Do(s, Start("DISABLE", Nobody, "PREPARED"))
    /\ UNCHANGED <<ops, invites, link, portal, tasks, faults>>

Owned(s) == disable.status = "PROCESSING" /\ disable.owner = s

(* By a repeated request or by the recovery worker: when the retry is due  *)
(* or the lease has run out, which is a fault if its owner is still at it. *)
ClaimAccessDisable(s) ==
    /\ IsIdle(s)
    /\ disable.status \in {"PROCESSING", "RETRY_WAIT"}
    /\ IF \E r \in Slots : Owned(r) /\ work[r].job = "DISABLE"
       THEN Fault ELSE NoFault
    /\ disable' = [disable EXCEPT !.status = "PROCESSING", !.owner = s]
    /\ Do(s, Start("DISABLE", Nobody, disable.stage))
    /\ UNCHANGED <<ops, invites, link, portal, tasks>>

(* The outcome of a call is recorded by the owner of the lease.  Where it  *)
(* has run out by then, or the process stops, nothing is recorded.         *)
Record(s, outcome) ==
    /\ \/ disable' = (IF Owned(s) THEN outcome ELSE disable) /\ NoFault
       \/ UNCHANGED disable /\ Fault
    /\ Finish(s)

(* Variants: one try more than there are; tries that are not counted.      *)
FailDisableLate(s) ==
    LET tries == disable.tries + 1
        next == IF tries > DisableTries THEN "DEAD_LETTER" ELSE "RETRY_WAIT"
    IN  Record(s, [disable EXCEPT !.status = next, !.tries = tries,
                                  !.owner = Nobody])

FailDisableUncounted(s) ==
    Record(s, [disable EXCEPT !.status = "RETRY_WAIT", !.owner = Nobody])

(* The next retry is due after a while, unless the tries are used up.      *)
FailDisable(s) ==
    LET tries == disable.tries + 1
        next == IF tries >= DisableTries THEN "DEAD_LETTER" ELSE "RETRY_WAIT"
    IN  Record(s, [disable EXCEPT !.status = next, !.tries = tries,
                                  !.owner = Nobody])

DisableMapping(s) ==
    /\ At(s, "DISABLE", "PREPARED")
    /\ \/ /\ portal' = "DISABLED" /\ MoveTo(s, "FROZEN")
          /\ NoFault /\ UNCHANGED disable
       \/ portal' \in {portal, "DISABLED"} /\ FailDisable(s)
    /\ UNCHANGED <<ops, invites, link, tasks>>

(* DisableIdentityLink: the link is as it was when the operation began.    *)
LinkAsFrozen == link = "DISABLED" \/ disable.fresh

(* The link and the invitations are closed together.  The lease is held    *)
(* against a time read before the call: that it has run out since does not *)
(* matter unless another has claimed the operation.                        *)
CloseLink(s) ==
    /\ At(s, "DISABLE", "FROZEN")
    /\ disable.stage = "PREPARED" /\ disable.owner = s /\ LinkAsFrozen
    /\ link' = "DISABLED"
    /\ invites' = RevokePending
    /\ disable' = [disable EXCEPT !.stage = "MAPPING_DISABLED"]
    /\ MoveTo(s, "MAPPING_DISABLED")
    /\ UNCHANGED <<ops, portal, tasks, faults>>

(* Another has closed it, or the transaction is refused and nobody works   *)
(* on the operation until its lease has run out.                           *)
CloseLinkMissed(s) ==
    /\ At(s, "DISABLE", "FROZEN")
    /\ \/ disable.stage = "MAPPING_DISABLED" /\ MoveTo(s, "MAPPING_DISABLED")
       \/ disable.stage = "COMPLETED" /\ Finish(s)
       \/ /\ disable.stage = "PREPARED"
          /\ disable.owner # s \/ ~LinkAsFrozen
          /\ Finish(s)
    /\ UNCHANGED <<ops, invites, link, portal, disable, tasks, faults>>

RevokePortalRole(s) ==
    /\ At(s, "DISABLE", "MAPPING_DISABLED")
    /\ \/ Record(s, [disable EXCEPT !.stage = "COMPLETED", !.owner = Nobody,
                                    !.status = "COMPLETED"])
       \/ FailDisable(s)
    /\ UNCHANGED <<ops, invites, link, portal, tasks>>

-----------------------------------------------------------------------------
(* The compensation worker.                                                *)

WorksOn(s, t) == work[s].job = t.type /\ work[s].key = t.key

Owns(s, t) == tasks[t].status = "PROCESSING" /\ tasks[t].owner = s

(* A task in progress is claimed again when its lease has run out, which   *)
(* is a fault if its owner is still at it.                                 *)
ClaimTask(s, t) ==
    /\ s \in Workers /\ IsIdle(s)
    /\ tasks[t].status \in {"WAITING", "PROCESSING"}
    /\ IF \E r \in Slots : Owns(r, t) /\ WorksOn(r, t) THEN Fault ELSE NoFault
    /\ tasks' = [tasks EXCEPT ![t].status = "PROCESSING", ![t].owner = s]
    /\ Do(s, Start(t.type, t.key, "CLAIMED"))
    /\ UNCHANGED <<ops, invites, link, portal, disable>>

TaskOf(s) == Task(work[s].job, work[s].key)

Left(ts, t, status) == [ts EXCEPT ![t] = [status |-> status, owner |-> Nobody]]

(* Tried again after a while, or given up after a number of tries.          *)
FailTask(s) ==
    LET t == TaskOf(s)
    IN  /\ IF Owns(s, t)
           THEN \E status \in {"WAITING", "ENDED"} :
                    tasks' = Left(tasks, t, status)
           ELSE UNCHANGED tasks
        /\ Finish(s)

(* The next task of the chain is created with it.                          *)
CompleteRole(s) ==
    LET t == TaskOf(s)
    IN  /\ tasks' = IF Owns(s, t)
                    THEN Left(Owed(Task("MAPPING", t.key)), t, "ENDED")
                    ELSE tasks
        /\ Finish(s)

RunRoleTask(s) ==
    /\ At(s, "ROLE", "CLAIMED")
    /\ \/ CompleteRole(s) /\ NoFault
       \/ FailTask(s) /\ Fault
    /\ UNCHANGED <<ops, invites, link, portal, disable>>

RunMappingTask(s) ==
    /\ At(s, "MAPPING", "CLAIMED")
    /\ \/ /\ portal # "DISABLED" /\ portal' = Registered
          /\ MoveTo(s, "MAPPED") /\ NoFault /\ UNCHANGED tasks
       \/ /\ portal' \in {portal, Registered} /\ FailTask(s)
          /\ IF portal = "DISABLED" THEN NoFault ELSE Fault
    /\ UNCHANGED <<ops, invites, link, disable>>

MayMap(s) == Owns(s, TaskOf(s)) /\ LinkMayOpen

(* The link is created or set back to PENDING.                             *)
CompleteMapping(s) ==
    /\ At(s, "MAPPING", "MAPPED") /\ MayMap(s)
    /\ link' = "PENDING"
    /\ disable' = LinkWritten
    /\ tasks' = Left(tasks, TaskOf(s), "ENDED")
    /\ Finish(s)
    /\ UNCHANGED <<ops, invites, portal, faults>>

(* The task keeps its lease and is tried again.                            *)
MappingRefused(s) ==
    /\ At(s, "MAPPING", "MAPPED") /\ ~MayMap(s)
    /\ Finish(s)
    /\ UNCHANGED <<ops, invites, link, portal, disable, tasks, faults>>

-----------------------------------------------------------------------------
(* The process stops, or the licence of a worker is denied: what has been  *)
(* claimed keeps its lease.                                                *)
Stop(s) ==
    /\ ~IsIdle(s)
    /\ Fault
    /\ Finish(s)
    /\ UNCHANGED <<ops, invites, link, portal, disable, tasks>>

OpenStep(s) ==
    \/ ProvisionExternalUser(s) \/ AssignPortalRole(s)
    \/ ProvisionPortalMapping(s) \/ FinalizeProvision(s) \/ FinalizeRefused(s)

LoginStep(s) == CompleteLogin(s) \/ Consume(s) \/ RevertActivation(s)

DisableStep(s) ==
    \/ DisableMapping(s) \/ CloseLink(s) \/ CloseLinkMissed(s)
    \/ RevokePortalRole(s)

TaskStep(s) ==
    \/ RunRoleTask(s) \/ RunMappingTask(s)
    \/ CompleteMapping(s) \/ MappingRefused(s)

Next ==
    \/ \E k \in Keys : EndInvite(k)
    \/ \E s \in Slots :
          \/ \E k \in Keys : Create(s, k) \/ BeginInvitationLogin(s, k)
          \/ \E t \in TaskIds : ClaimTask(s, t)
          \/ Disable(s) \/ ClaimAccessDisable(s)
          \/ OpenStep(s) \/ LoginStep(s) \/ DisableStep(s) \/ TaskStep(s)
          \/ Stop(s)

Spec == Init /\ [][Next]_vars

(* What a request or a worker has begun it goes on with, and a worker polls *)
(* for operations whose retry is due or whose lease has run out.            *)
PortalFairness ==
    /\ \A s \in Slots : WF_vars(DisableStep(s) \/ TaskStep(s))
    /\ \A w \in Workers : SF_vars(ClaimAccessDisable(w) /\ NoFault)

FairSpec == Spec /\ PortalFairness

-----------------------------------------------------------------------------
(* Closed means closed: from the transaction that closes the link on, no   *)
(* run of an operation, login or task that began before gives access back. *)
(* (service.go, resumeDisable; repository.go, UpsertLink.)                  *)
AccessStaysClosed ==
    disable.stage \in {"MAPPING_DISABLED", "COMPLETED"} =>
        /\ link = "DISABLED" /\ portal = "DISABLED"
        /\ \A k \in Keys : invites[k] # "PENDING"

(* One invitation is open at a time, for a link that waits for it; the     *)
(* link is active only through a used invitation.  (finalizeProvision,     *)
(* Consume, completeMapping.)                                              *)
InviteMatchesLink ==
    /\ \A k \in Keys : invites[k] = "PENDING" =>
           /\ link = "PENDING"
           /\ \A j \in Keys \ {k} : invites[j] # "PENDING"
    /\ link = "ACTIVE" => \E k \in Keys : invites[k] = "USED"

(* The operation of the customer is not finished.                          *)
DisableOpen == disable.status \in {"PROCESSING", "RETRY_WAIT"}

(* An operation begun completes or ends as a dead letter, unless the link  *)
(* has been written after the operation froze its version.                 *)
DisableSettles ==
    DisableOpen ~> ~DisableOpen \/ (disable.stage = "PREPARED" /\ ~disable.fresh)

=============================================================================
