--------------------------- MODULE Presale_proofs ---------------------------
(***************************************************************************)
(* Proofs about the compositions, for every value of the constants.        *)
(*                                                                         *)
(* The whole request implements the specification of either half; so what  *)
(* was proved of the halves holds of the whole.  The handover does not     *)
(* implement the execution half, as a transfer moves rows and leaves the   *)
(* version: it keeps the core of its invariant, and that is proved here.   *)
(***************************************************************************)
EXTENDS Presale, PresaleHandover, PresaleApproval_proofs, PresaleExecution_proofs

(* A decision is a move that the execution half allows for.                *)
LEMMA DecisionIsMove ==
  ASSUME req.status = "PENDING_APPROVAL", UNCHANGED round,
         UNCHANGED executionVars,
         NEW i, NEW result, ApplyDecision(i, result)
  PROVE  ApprovalMoves
  <1>1. CASE MoveTo([req EXCEPT !.node = 0], "REJECTED")
    BY <1>1 DEF ApprovalMoves
  <1>2. CASE /\ \E m \in ApprovalNodes : UpdateRequestVersioned([req EXCEPT !.node = m])
             /\ UNCHANGED statusLog
    BY <1>2 DEF ApprovalMoves
  <1>3. CASE MoveTo([req EXCEPT !.node = 0], "APPROVED_PENDING_ASSIGNMENT")
    BY <1>3 DEF ApprovalMoves
  <1> QED
    BY <1>1, <1>2, <1>3 DEF ApplyDecision

(* So is every step of the approval half that writes the request.          *)
LEMMA ApprovalStepIsMove ==
  ASSUME ApprovalSteps, UNCHANGED executionVars
  PROVE  ApprovalMoves \/ UNCHANGED executionState
  <1> USE DEF executionState
  <1>1. CASE \E u \in Users : Look(u)
    BY <1>1 DEF Look
  <1>2. CASE \E u \in Users, a \in Actions : DecideInternally(u, a)
    BY <1>2, DecisionIsMove DEF DecideInternally, MayDecide
  <1>3. CASE \E u \in Users, a \in Actions : RequestDecision(u, a)
    BY <1>3 DEF RequestDecision
  <1>4. CASE \E m \in callbacks : HandleApprovalCallback(m)
    BY <1>4, DecisionIsMove DEF HandleApprovalCallback
  <1>5. CASE \E n \in ApprovalNodes : EngineOpens(n)
    BY <1>5 DEF EngineOpens
  <1>6. CASE \E e \in outbox : Deliver(e) \/ DeliveryFails(e)
    BY <1>6 DEF Deliver, DeliveryFails
  <1>7. CASE \E u \in Users : Cancel(u)
    BY <1>7 DEF Cancel, ApprovalMoves
  <1>8. CASE \E u \in Users : Reopen(u)
    BY <1>8 DEF Reopen, ApprovalMoves
  <1> QED
    BY <1>1, <1>2, <1>3, <1>4, <1>5, <1>6, <1>7, <1>8 DEF ApprovalSteps

(* Every step of the whole is a step of the execution half, or none.       *)
LEMMA StepOfExecution ==
  [Next]_vars => [ExecutionNext]_executionState
  <1> SUFFICES ASSUME [Next]_vars PROVE [ExecutionNext]_executionState
    OBVIOUS
  <1>1. CASE ApprovalSteps /\ UNCHANGED executionVars
    BY <1>1, ApprovalStepIsMove DEF ExecutionNext
  <1>2. CASE ExecutionSteps
    BY <1>2 DEF ExecutionNext
  <1>3. CASE UNCHANGED vars
    BY <1>3 DEF vars, executionState
  <1> QED
    BY <1>1, <1>2, <1>3 DEF Next

(* The whole implements the execution half.                                *)
THEOREM ImplementsExecution == Spec => ExecutionSpec
  <1>1. Init => ExecutionInit
    BY DEF Init
  <1> QED
    BY <1>1, StepOfExecution, PTL DEF Spec, ExecutionSpec

-----------------------------------------------------------------------------
(* A step of the execution half is quiet, or it writes an assignable       *)
(* request that stays an approved one, once or twice.                      *)
LEMMA ExecutionStepWrites ==
  ASSUME CoreInv, ExecutionSteps
  PROVE  \/ UNCHANGED requestVars
         \/ /\ req.status \in Assignable /\ req'.status \in ApprovedStatuses
            /\ ExecutionWrite /\ UNCHANGED round
  <1> USE DEF Assignable, ApprovedStatuses
  <1>0. /\ req \in RequestType /\ statusLog \in LogType
        /\ calls \in SUBSET Calls
    BY DEF CoreInv, ExecutionTypeOK, RequestTypeOK
  <1>1. CASE SelectDepartmentOnly
    <2>1. req'.status = req.status
      BY <1>0, <1>1, UpdateFields DEF SelectDepartmentOnly
    <2> QED
      BY <1>1, <2>1, SelectDepartmentKeeps DEF SelectDepartmentOnly
  <1>2. CASE \E people \in SUBSET Persons : ReplaceAssignments(people)
    <2>1. PICK people \in SUBSET Persons : ReplaceAssignments(people)
      BY <1>2
    <2>2. AssignExecutors(people, req.level) /\ req.level \in Levels
      BY <1>0, <2>1 DEF ReplaceAssignments, RequestType
    <2>3. req'.status \in {"EXECUTING", "COMPLETED"}
      BY <2>2, AssignEffect DEF CoreInv, Aggregate
    <2> QED
      BY <2>1, <2>3, ReplaceAssignmentsKeeps DEF ReplaceAssignments
  <1>3. CASE \E c \in calls : CommitSelectTeamLead(c)
    <2>1. PICK c \in calls : CommitSelectTeamLead(c)
      BY <1>3
    <2>2. PICK p \in Persons :
            MoveTo([req EXCEPT !.lead = p, !.level = "TEAM_LEAD"],
                   "PENDING_EXECUTION_ASSIGNMENT")
      BY <1>0, <2>1 DEF CommitSelectTeamLead, Calls
    <2>3. /\ [req EXCEPT !.lead = p, !.level = "TEAM_LEAD"] \in RequestType
          /\ [req EXCEPT !.lead = p, !.level = "TEAM_LEAD"].version = req.version
      BY <1>0 DEF RequestType, Levels
    <2>4. req'.status = "PENDING_EXECUTION_ASSIGNMENT"
      BY <1>0, <2>2, <2>3, MoveFields DEF Statuses
    <2> QED
      BY <2>1, <2>4, CommitSelectKeeps DEF CommitSelectTeamLead, Finish
  <1>4. CASE \E c \in calls : CommitReplaceExecutors(c)
    <2>1. PICK c \in calls : CommitReplaceExecutors(c)
      BY <1>4
    <2>2. AssignExecutors(c.people, "EXECUTOR") /\ c.people \in SUBSET Persons
      BY <1>0, <2>1 DEF CommitReplaceExecutors, Calls
    <2>3. req'.status \in {"EXECUTING", "COMPLETED"}
      BY <2>2, AssignEffect DEF CoreInv, Aggregate, Levels
    <2> QED
      BY <2>1, <2>3, CommitReplaceKeeps DEF CommitReplaceExecutors, Finish
  <1>5. CASE \E c \in calls : CommitTakeover(c)
    <2>1. PICK c \in calls : CommitTakeover(c)
      BY <1>5
    <2>2. PICK p \in Persons : UpdateRequestVersioned([req EXCEPT !.lead = p])
      BY <1>0, <2>1 DEF CommitTakeover, Calls
    <2>3. /\ [req EXCEPT !.lead = p] \in RequestType
          /\ [req EXCEPT !.lead = p].version = req.version
          /\ [req EXCEPT !.lead = p].status = req.status
      BY <1>0 DEF RequestType
    <2>4. req'.status = req.status
      BY <1>0, <2>2, <2>3, UpdateFields
    <2> QED
      BY <2>1, <2>4, CommitTakeoverKeeps DEF CommitTakeover, Finish
  <1>6. CASE SentBack
    <2>1. MoveTo([req EXCEPT !.lead = NoLead, !.level = "NONE"],
                 "APPROVED_PENDING_ASSIGNMENT")
      BY <1>6 DEF SentBack, BackToAssignment
    <2>2. /\ [req EXCEPT !.lead = NoLead, !.level = "NONE"] \in RequestType
          /\ [req EXCEPT !.lead = NoLead, !.level = "NONE"].version = req.version
      BY <1>0 DEF RequestType, Levels, NoLead
    <2>3. req'.status = "APPROVED_PENDING_ASSIGNMENT"
      BY <1>0, <2>1, <2>2, MoveFields DEF Statuses
    <2> QED
      BY <1>6, <2>3, SentBackKeeps DEF SentBack
  <1>7. CASE \E p \in Persons : Complete(p)
    <2>1. PICK p \in Persons : Complete(p)
      BY <1>7
    <2>2. req'.status = "COMPLETED"
      BY <1>0, <2>1, MoveFields DEF Complete, Statuses
    <2> QED
      BY <2>1, <2>2, CompleteKeeps DEF Complete
  <1>8. CASE Quiet
    BY <1>8 DEF Quiet
  <1> QED
    BY <1>1, <1>2, <1>3, <1>4, <1>5, <1>6, <1>7, <1>8, StepKinds DEF Writes

(* Every step of the whole is a step of the approval half, or none.  Here  *)
(* the invariant of the execution half is needed: the two log entries of   *)
(* one transaction look like one move only because the log is gapless.     *)
LEMMA StepOfApproval ==
  ExecutionInv /\ [Next]_vars => [ApprovalNext]_approvalState
  <1> SUFFICES ASSUME ExecutionInv, [Next]_vars
               PROVE  [ApprovalNext]_approvalState
    OBVIOUS
  <1>1. CASE ApprovalSteps
    BY <1>1 DEF ApprovalNext
  <1>2. CASE UNCHANGED vars
    BY <1>2 DEF vars, approvalState
  <1>3. CASE ExecutionSteps /\ UNCHANGED approvalVars
    <2>1. CASE UNCHANGED requestVars
      BY <1>3, <2>1 DEF approvalState
    <2>2. CASE /\ req.status \in Assignable /\ req'.status \in ApprovedStatuses
               /\ ExecutionWrite /\ UNCHANGED round
      <3>1. /\ req \in RequestType /\ statusLog \in LogType /\ StatusLogComplete
            /\ req' \in RequestType /\ statusLog' \in LogType
            /\ StatusLogComplete'
        BY <1>3, AggregateStep
        DEF ExecutionNext, ExecutionInv, CoreInv, Aggregate, RequestTypeOK
      <3>2. /\ req'.lead \in Persons \cup {NoPerson} /\ req'.level \in Levels
            /\ req'.version \in 1..MaxVersion
        BY <3>1 DEF RequestType
      <3>3. req' = [req EXCEPT !.status = req'.status, !.lead = req'.lead,
                               !.level = req'.level, !.version = req'.version]
        BY <2>2, <3>1 DEF RequestType, ExecutionWrite
      <3>4. statusLog' = [statusLog EXCEPT !.end = req'.status]
        BY <3>1 DEF LogType, StatusLogComplete
      <3>5. ExecutionMoves
        <4> DEFINE Move(to, p, l, v) ==
                     /\ v = req.version + 1 \/ v = req.version + 2
                     /\ req' = [req EXCEPT !.status = to, !.lead = p,
                                           !.level = l, !.version = v]
                     /\ statusLog' = [statusLog EXCEPT !.end = to]
        <4>1. Move(req'.status, req'.lead, req'.level, req'.version)
          <5>1. \/ req'.version = req.version + 1
                \/ req'.version = req.version + 2
            BY <2>2 DEF ExecutionWrite
          <5> QED
            BY <5>1, <3>3, <3>4, Zenon
        <4> HIDE DEF Move
        <4>2. \E to \in ApprovedStatuses, p \in Persons \cup {NoPerson},
                l \in Levels, v \in 1..MaxVersion : Move(to, p, l, v)
          BY <2>2, <3>2, <4>1, Zenon
        <4> QED
          BY <1>3, <2>2, <4>2, Zenon DEF ExecutionMoves, Move
      <3> QED
        BY <3>5 DEF ApprovalNext
    <2> QED
      BY <1>3, <2>1, <2>2, ExecutionStepWrites DEF ExecutionInv
  <1> QED
    BY <1>1, <1>2, <1>3 DEF Next

(* The whole implements the approval half.                                 *)
THEOREM ImplementsApproval == Spec => ApprovalSpec
  <1>1. Init => ApprovalInit
    BY DEF Init
  <1>2. Spec => []ExecutionInv
    BY ImplementsExecution, ExecutionInvariant, PTL
  <1> QED
    BY <1>1, <1>2, StepOfApproval, PTL DEF Spec, ApprovalSpec

(* A request is assigned, executed and completed only in a round that has  *)
(* passed every approval node, and under the assignments its status asks   *)
(* for, with the commands of both halves, the engine and the personnel     *)
(* synchronisation interleaved.                                            *)
THEOREM ExecutedOnlyAsApproved == Spec => []ExecutedAsApproved
  <1>1. RoundFullyApproved /\ StatusFitsAssignments => ExecutedAsApproved
    BY DEF ExecutedAsApproved
  <1>2. Spec => []RoundFullyApproved
    BY ImplementsApproval, FullyApproved, PTL
  <1>3. Spec => []StatusFitsAssignments
    BY ImplementsExecution, StatusFits, PTL
  <1> QED
    BY <1>1, <1>2, <1>3, PTL

(* Decisions and cancellations act on what their user had on the screen,   *)
(* also while commands of the execution half raise the version of the same *)
(* row: no such write lets a stale screen through.                         *)
THEOREM SeenBeforeActedInWhole == Spec => ActsOnWhatWasSeen
  BY ImplementsApproval, SeenBeforeActed, PTL

(* People being handed over get no row from the commands of the whole.     *)
THEOREM FrozenIsSafeInWhole == Spec => FrozenGetsNothing
  BY ImplementsExecution, FrozenIsSafe, PTL

-----------------------------------------------------------------------------
(* The handover.                                                           *)

(* A transfer hands over from one person to another.                       *)
TransfersSound ==
    /\ transfers \in SUBSET Transfers
    /\ receipts \in [Keys -> {"NONE", "APPLIED", "REJECTED"}]
    /\ \A t \in transfers : t.from # t.to

(* Of the invariant of the execution half, the core stays: the lead, the   *)
(* log, and what commands in flight rely on.  RowsFit does not: a transfer *)
(* records no assignment event, and it can end the last rows.              *)
HandoverInv == CoreInv /\ TransfersSound

(* A step is one of execution, the commit of a transfer, or it leaves rows *)
(* and receipts alone.                                                     *)
LEMMA HandoverKinds ==
  ASSUME [HandoverNext]_handoverState
  PROVE  \/ [ExecutionNext]_executionState /\ UNCHANGED handoverVars
         \/ \E t \in transfers : CommitTransfer(t)
         \/ UNCHANGED <<executionState, receipts>>
  <1>1. CASE \E k \in Keys, from, to \in Persons : BeginTransfer(k, from, to)
    BY <1>1 DEF BeginTransfer
  <1>2. CASE \E t \in transfers : OpenTransfer(t) \/ AbandonTransfer(t)
    BY <1>2 DEF OpenTransfer, AbandonTransfer
  <1>3. CASE UNCHANGED handoverState
    BY <1>3 DEF handoverState
  <1> QED
    BY <1>1, <1>2, <1>3 DEF HandoverNext, HandoverSteps

(* The commit of a transfer writes executors, receipts and nothing else.   *)
(* Only the successor may gain a row, and nobody who is frozen is one.     *)
LEMMA CommitTransferEffect ==
  ASSUME ExecutionTypeOK, TransfersSound, NEW t \in transfers, CommitTransfer(t)
  PROVE  /\ executors' \in [Persons -> 0..MaxRows]
         /\ UNCHANGED <<requestVars, leadRows, evidence, worked, peopleVars,
                        calls, invalidations>>
         /\ t.to \notin frozen
         /\ \A p \in Persons \ {t.to} : executors'[p] <= executors[p]
         /\ t.key \in Keys /\ receipts[t.key] = "NONE"
         /\ \E status \in {"APPLIED", "REJECTED"} :
               receipts' = [receipts EXCEPT ![t.key] = status]
  <1>1. /\ executors \in [Persons -> 0..MaxRows] /\ MaxRows \in Nat
        /\ t.key \in Keys /\ t.from \in Persons /\ t.to \in Persons
        /\ t.from # t.to
    BY ExecutionAssumption DEF ExecutionTypeOK, TransfersSound, Transfers
  <1>2. \A p \in Persons : executors[p] \in Nat /\ executors[p] <= MaxRows
    BY <1>1
  <1>3. /\ UNCHANGED <<requestVars, leadRows, evidence, worked, peopleVars,
                        calls, invalidations>>
        /\ t.to \notin frozen
    BY DEF CommitTransfer, GuardSuccessor
  <1>4. CASE UNCHANGED executors /\ WriteReceipt(t.key, "REJECTED")
    BY <1>1, <1>2, <1>3, <1>4 DEF WriteReceipt
  <1>5. CASE /\ executors[t.to] < MaxRows
             /\ executors' = [executors EXCEPT ![t.from] = 0, ![t.to] = @ + 1]
             /\ WriteReceipt(t.key, "APPLIED")
    <2>1. /\ executors' \in [Persons -> 0..MaxRows]
          /\ \A p \in Persons \ {t.to} : executors'[p] <= executors[p]
      BY <1>1, <1>2, <1>5
    <2> QED
      BY <1>1, <1>3, <1>5, <2>1 DEF WriteReceipt
  <1>6. CASE /\ executors' = [executors EXCEPT ![t.from] = 0]
             /\ WriteReceipt(t.key, "REJECTED")
    <2>1. /\ executors' \in [Persons -> 0..MaxRows]
          /\ \A p \in Persons \ {t.to} : executors'[p] <= executors[p]
      BY <1>1, <1>2, <1>6
    <2> QED
      BY <1>1, <1>3, <1>6, <2>1 DEF WriteReceipt
  <1> QED
    BY <1>4, <1>5, <1>6 DEF CommitTransfer

(* Transfers and receipts.                                                 *)
LEMMA TransfersStep ==
  ASSUME HandoverInv, [HandoverNext]_handoverState
  PROVE  TransfersSound'
  <1>0. /\ transfers \in SUBSET Transfers
        /\ receipts \in [Keys -> {"NONE", "APPLIED", "REJECTED"}]
        /\ \A t \in transfers : t.from # t.to
    BY DEF HandoverInv, TransfersSound
  <1>1. CASE \E k \in Keys, from, to \in Persons : BeginTransfer(k, from, to)
    BY <1>0, <1>1 DEF BeginTransfer, TransfersSound, Transfers, Reads
  <1>2. CASE \E t \in transfers : OpenTransfer(t)
    <2>1. PICK t \in transfers : OpenTransfer(t)
      BY <1>2
    <2>2. PICK read \in Reads :
            /\ transfers' = (transfers \ {t}) \cup {[t EXCEPT !.read = read]}
            /\ receipts' = receipts
      BY <2>1 DEF OpenTransfer, Reads
    <2>3. /\ [t EXCEPT !.read = read] \in Transfers
          /\ [t EXCEPT !.read = read].from = t.from
          /\ [t EXCEPT !.read = read].to = t.to
      BY <1>0 DEF Transfers
    <2> QED
      BY <1>0, <2>2, <2>3 DEF TransfersSound
  <1>3. CASE \E t \in transfers : CommitTransfer(t)
    <2>1. PICK t \in transfers : CommitTransfer(t)
      BY <1>3
    <2>2. transfers' = transfers \ {t}
      BY <2>1 DEF CommitTransfer
    <2>3. receipts' \in [Keys -> {"NONE", "APPLIED", "REJECTED"}]
      BY <1>0, <2>1, CommitTransferEffect DEF HandoverInv, CoreInv
    <2> QED
      BY <1>0, <2>2, <2>3 DEF TransfersSound
  <1>4. CASE \E t \in transfers : AbandonTransfer(t)
    BY <1>0, <1>4 DEF AbandonTransfer, TransfersSound
  <1>5. CASE UNCHANGED handoverVars
    BY <1>0, <1>5 DEF handoverVars, TransfersSound
  <1> QED
    BY <1>1, <1>2, <1>3, <1>4, <1>5
    DEF HandoverNext, HandoverSteps, handoverState

(* The commit of a transfer keeps the core: it writes none of the state    *)
(* the core is about but the executors, and of those it keeps the type.    *)
LEMMA CommitTransferKeeps ==
  ASSUME HandoverInv, NEW t \in transfers, CommitTransfer(t)
  PROVE  CoreInv'
  <1>1. /\ executors' \in [Persons -> 0..MaxRows]
        /\ UNCHANGED <<requestVars, leadRows, evidence, worked, peopleVars,
                       calls, invalidations>>
    BY CommitTransferEffect DEF HandoverInv, CoreInv
  <1> USE DEF HandoverInv, CoreInv, requestVars, peopleVars
  <1>2. RequestTypeOK' /\ RowsTypeOK'
    BY <1>1 DEF Aggregate, RequestTypeOK, RowsTypeOK
  <1>3. ExecutionTypeOK'
    BY <1>1, <1>2 DEF ExecutionTypeOK, RowsTypeOK
  <1>4. LeadProjection' /\ StatusLogComplete'
    BY <1>1 DEF Aggregate, LeadProjection, StatusLogComplete
  <1>5. CallsSound' /\ PrecheckStillHolds'
    BY <1>1 DEF CallsSound, PrecheckStillHolds
  <1> QED
    BY <1>2, <1>3, <1>4, <1>5 DEF Aggregate

(* The invariant is inductive.                                             *)
LEMMA HandoverInitInv == HandoverInit => HandoverInv
  BY InitInv DEF HandoverInit, HandoverInv, ExecutionInv, TransfersSound

LEMMA HandoverInvStep ==
  HandoverInv /\ [HandoverNext]_handoverState => HandoverInv'
  <1> SUFFICES ASSUME HandoverInv, [HandoverNext]_handoverState
               PROVE  HandoverInv'
    OBVIOUS
  <1>1. CoreInv'
    <2>1. CASE [ExecutionNext]_executionState
      BY <2>1, CoreStep DEF HandoverInv
    <2>2. CASE \E t \in transfers : CommitTransfer(t)
      BY <2>2, CommitTransferKeeps
    <2> QED
      BY <2>1, <2>2, HandoverKinds
  <1> QED
    BY <1>1, TransfersStep DEF HandoverInv

(* It holds throughout.                                                    *)
THEOREM HandoverInvariant == HandoverSpec => []HandoverInv
  BY HandoverInitInv, HandoverInvStep, PTL DEF HandoverSpec

(* Every variable keeps its type; in particular no transfer drives the     *)
(* rows of a person below zero or above the bound.                         *)
THEOREM HandoverTypeCorrect == HandoverSpec => []HandoverTypeOK
  <1>1. HandoverInv => HandoverTypeOK
    BY DEF HandoverInv, CoreInv, TransfersSound, HandoverTypeOK
  <1> QED
    BY <1>1, HandoverInvariant, PTL

(* A transfer that commits between precheck and transaction of a command   *)
(* leaves the version, and yet the command finds of the request what it    *)
(* has read.                                                               *)
THEOREM PrechecksHoldInHandover == HandoverSpec => []PrecheckStillHolds
  <1>1. HandoverInv => PrecheckStillHolds
    BY DEF HandoverInv, CoreInv
  <1> QED
    BY <1>1, HandoverInvariant, PTL

(* Lead and TEAM_LEAD rows agree under transfers as well, which move the   *)
(* rows of executors only.                                                 *)
THEOREM LeadProjectedInHandover == HandoverSpec => []LeadProjection
  <1>1. HandoverInv => LeadProjection
    BY DEF HandoverInv, CoreInv, Aggregate
  <1> QED
    BY <1>1, HandoverInvariant, PTL

(* Nobody who is being handed over gets a row, from a command or as the    *)
(* successor of another transfer.                                          *)
THEOREM FrozenIsSafeInHandover == HandoverSpec => FrozenGetsNothing
  <1>1. HandoverInv /\ [HandoverNext]_handoverState =>
          [\A p \in frozen : /\ executors'[p] <= executors[p]
                             /\ leadRows'[p] <= leadRows[p]]_executionState
    <2> SUFFICES ASSUME HandoverInv, [HandoverNext]_handoverState,
                        executionState' # executionState, NEW p \in frozen
                 PROVE  executors'[p] <= executors[p] /\ leadRows'[p] <= leadRows[p]
      OBVIOUS
    <2>1. /\ ExecutionTypeOK /\ TransfersSound
          /\ p \in Persons /\ leadRows[p] \in Int
      BY ExecutionAssumption DEF HandoverInv, CoreInv, ExecutionTypeOK
    <2>2. CASE [ExecutionNext]_executionState
      BY <2>1, <2>2, GuardedWrites
    <2>3. CASE \E t \in transfers : CommitTransfer(t)
      BY <2>1, <2>3, CommitTransferEffect
    <2> QED
      BY <2>2, <2>3, HandoverKinds
  <1> QED
    BY <1>1, HandoverInvariant, PTL DEF HandoverSpec, FrozenGetsNothing

(* What a transfer has done stands: no repetition of a key changes its     *)
(* receipt, and rows that move under an unchanged request move with a      *)
(* receipt that is written in the same step.                               *)
THEOREM ReceiptsStand == HandoverSpec => ReceiptStands
  <1>1. HandoverInv /\ [HandoverNext]_handoverState =>
          [/\ \A k \in Keys : receipts[k] # "NONE" => receipts'[k] = receipts[k]
           /\ executors' # executors /\ UNCHANGED req =>
                \E k \in Keys : receipts[k] = "NONE" /\ receipts'[k] # "NONE"
          ]_handoverState
    <2> SUFFICES ASSUME HandoverInv, [HandoverNext]_handoverState
                 PROVE  /\ \A k \in Keys : receipts[k] # "NONE" =>
                                             receipts'[k] = receipts[k]
                        /\ executors' # executors /\ UNCHANGED req =>
                             \E k \in Keys : /\ receipts[k] = "NONE"
                                             /\ receipts'[k] # "NONE"
      OBVIOUS
    <2>1. /\ CoreInv /\ ExecutionTypeOK /\ TransfersSound /\ req.version \in Nat
          /\ receipts \in [Keys -> {"NONE", "APPLIED", "REJECTED"}]
      BY DEF HandoverInv, CoreInv, Aggregate, RequestTypeOK, RequestType,
             TransfersSound
    <2>2. CASE [ExecutionNext]_executionState /\ UNCHANGED handoverVars
      <3>1. UNCHANGED req => UNCHANGED executors
        BY <2>1, <2>2, AggregateStep DEF Quiet, rowVars
      <3> QED
        BY <2>2, <3>1 DEF handoverVars
    <2>3. CASE \E t \in transfers : CommitTransfer(t)
      <3>1. PICK t \in transfers : CommitTransfer(t)
        BY <2>3
      <3>2. PICK status \in {"APPLIED", "REJECTED"} :
              receipts' = [receipts EXCEPT ![t.key] = status]
        BY <2>1, <3>1, CommitTransferEffect
      <3>3. t.key \in Keys /\ receipts[t.key] = "NONE"
        BY <2>1, <3>1, CommitTransferEffect
      <3> QED
        BY <2>1, <3>2, <3>3
    <2>4. CASE UNCHANGED <<executionState, receipts>>
      BY <2>4 DEF executionState, executionVars, rowVars
    <2> QED
      BY <2>2, <2>3, <2>4, HandoverKinds
  <1> QED
    BY <1>1, HandoverInvariant, PTL DEF HandoverSpec, ReceiptStands

=============================================================================
