----------------------- MODULE PresaleApproval_proofs -----------------------
(***************************************************************************)
(* Proofs about PresaleApproval, for every rule snapshot, every set of     *)
(* users and every bound.                                                  *)
(***************************************************************************)
EXTENDS PresaleApproval, PresaleRequest_proofs

USE DEF requestVars, approvalVars, engineVars, approvalState

-----------------------------------------------------------------------------
(* Type correctness.                                                       *)

(* Events that are still delivered have a try left.                        *)
TriesLeft == \A e \in outbox : e.status = "PENDING" => e.tries < MaxTries

TypeInv == ApprovalTypeOK /\ TriesLeft

(* A decision keeps the types of the request and of the instance.          *)
LEMMA DecisionType ==
  ASSUME ApprovalTypeOK, NEW i \in Instances, NEW result \in Actions,
         UNCHANGED round, ApplyDecision(i, result)
  PROVE  RequestTypeOK' /\ inst' \in Instances
  <1> DEFINE Node(n) == [req EXCEPT !.node = n]
  <1>0. req \in RequestType /\ statusLog \in LogType /\ round \in 1..MaxRound
    BY DEF ApprovalTypeOK, RequestTypeOK
  <1>1. \A n \in Nat : Node(n) \in RequestType /\ Node(n).version = req.version
    BY DEF ApprovalTypeOK, RequestTypeOK, RequestType
  <1>2. Node(0) \in RequestType /\ Node(0).version = req.version
    BY <1>1
  <1>3. CASE MoveTo(Node(0), "REJECTED")
             /\ inst' = [i EXCEPT !.status = "REJECTED"]
    <2>1. RequestTypeOK'
      BY <1>0, <1>2, <1>3, MoveType DEF RequestTypeOK, Statuses
    <2> QED
      BY <1>3, <2>1 DEF Instances
  <1>4. CASE MoveTo(Node(0), "APPROVED_PENDING_ASSIGNMENT")
             /\ inst' = [i EXCEPT !.status = "APPROVED"]
    <2>1. RequestTypeOK'
      BY <1>0, <1>2, <1>4, MoveType DEF RequestTypeOK, Statuses
    <2> QED
      BY <1>4, <2>1 DEF Instances
  <1>5. ASSUME NEW m \in ApprovalNodes, UpdateRequestVersioned(Node(m)),
               inst' = [i EXCEPT !.node = m], UNCHANGED statusLog
        PROVE  RequestTypeOK' /\ inst' \in Instances
    <2>1. m \in Nat
      BY ApprovalNodesAreNat
    <2>2. req' \in RequestType
      BY <1>0, <1>1, <1>5, <2>1, UpdateType
    <2> QED
      BY <1>0, <1>5, <2>1, <2>2 DEF RequestTypeOK, Instances
  <1> QED
    BY <1>3, <1>4, <1>5 DEF ApplyDecision

LEMMA TypeInit == ApprovalInit => TypeInv
  BY BoundAssumption, ApprovalAssumption, SnapshotAssumption
  DEF ApprovalInit, RequestInit, TypeInv, ApprovalTypeOK, RequestTypeOK,
      TriesLeft, RequestType, LogType, Instances, Views, Statuses,
      Levels, NoTask, Engines

LEMMA TypeStep == TypeInv /\ [ApprovalNext]_approvalState => TypeInv'
  <1> SUFFICES ASSUME TypeInv, [ApprovalNext]_approvalState PROVE TypeInv'
    OBVIOUS
  <1> USE ApprovalAssumption
  <1>0. /\ ApprovalTypeOK /\ TriesLeft /\ RequestTypeOK
        /\ req \in RequestType /\ inst \in Instances /\ engine \in Engines
        /\ round \in 1..MaxRound /\ statusLog \in LogType
    BY DEF TypeInv, ApprovalTypeOK, RequestTypeOK
  <1>1. ASSUME NEW u \in Users, Look(u) PROVE TypeInv'
    <2>1. [version |-> req.version, status |-> req.status, node |-> req.node,
           round |-> round] \in Views
      BY <1>0, BoundAssumption DEF RequestType, Instances, Views
    <2> QED
      BY <1>0, <1>1, <2>1
      DEF Look, TypeInv, ApprovalTypeOK, RequestTypeOK, TriesLeft
  <1>2. ASSUME NEW u \in Users, NEW a \in Actions, DecideInternally(u, a)
        PROVE  TypeInv'
    <2>1. [inst EXCEPT !.lastSeq = @ + 1] \in Instances
      BY <1>0 DEF Instances
    <2>2. RequestTypeOK' /\ inst' \in Instances
      BY <1>0, <1>2, <2>1, DecisionType DEF DecideInternally
    <2>3. approvalLog' \subseteq LogEntries
      BY <1>0, <1>2 DEF DecideInternally, ApprovalTypeOK, LogEntries,
                        RequestType, Instances, NoTask
    <2> QED
      BY <1>0, <1>2, <2>2, <2>3
      DEF DecideInternally, TypeInv, ApprovalTypeOK, TriesLeft
  <1>3. ASSUME NEW u \in Users, NEW a \in Actions, RequestDecision(u, a)
        PROVE  TypeInv'
    <2>1. engine.open \in 1..MaxTask
      BY <1>0, <1>3 DEF RequestDecision, Engines, NoTask
    <2>2. inst' \in Instances
      <3> DEFINE p == [task |-> engine.open, approver |-> u, action |-> a]
      <3>1. p \in Bindings /\ inst' = [inst EXCEPT !.pending = p]
        BY <1>3, <2>1 DEF RequestDecision, Bindings
      <3> HIDE DEF p
      <3> QED
        BY <1>0, <3>1 DEF Instances
    <2> DEFINE e == [task |-> engine.open, approver |-> u, action |-> a,
                     round |-> round, tries |-> 0, status |-> "PENDING"]
    <2>3. e \in Events /\ e.tries < MaxTries
      BY <1>0, <2>1 DEF Events
    <2>4. outbox' = outbox \cup {e}
      BY <1>3 DEF RequestDecision
    <2> QED
      BY <1>0, <1>3, <2>2, <2>3, <2>4
      DEF RequestDecision, TypeInv, ApprovalTypeOK, RequestTypeOK,
          TriesLeft
  <1>4. ASSUME NEW m \in callbacks, HandleApprovalCallback(m)
        PROVE  TypeInv'
    <2>0. m \in Messages
      BY <1>0 DEF ApprovalTypeOK
    <2>1. [inst EXCEPT !.lastSeq = m.seq, !.pending = NoBinding] \in Instances
      BY <1>0, <2>0 DEF Instances, Messages
    <2>2. RequestTypeOK' /\ inst' \in Instances
      BY <1>0, <1>4, <2>0, <2>1, DecisionType
      DEF HandleApprovalCallback, Messages
    <2>3. approvalLog' \subseteq LogEntries
      BY <1>0, <1>4, <2>0 DEF HandleApprovalCallback, ApprovalTypeOK,
                              LogEntries, Instances, Messages
    <2> QED
      BY <1>0, <1>4, <2>2, <2>3
      DEF HandleApprovalCallback, TypeInv, ApprovalTypeOK, TriesLeft
  <1>5. ASSUME NEW n \in ApprovalNodes, EngineOpens(n) PROVE TypeInv'
    <2>1. n \in Nat
      BY ApprovalNodesAreNat
    <2>2. engine.last + 1 \in 0..MaxTask
      BY <1>0, <1>5 DEF EngineOpens, Engines
    <2>3. engine' \in Engines
      BY <1>0, <1>5, <2>1, <2>2 DEF EngineOpens, Engines
    <2> QED
      BY <1>0, <1>5, <2>3
      DEF EngineOpens, TypeInv, ApprovalTypeOK, RequestTypeOK,
          TriesLeft
  <1>6. ASSUME NEW e \in outbox, Deliver(e) PROVE TypeInv'
    <2>0. e \in Events
      BY <1>0 DEF ApprovalTypeOK
    <2>1. engine' \in Engines
      <3>1. engine.seq + 1 \in Nat /\ NoTask \in 0..MaxTask
        BY <1>0 DEF Engines, NoTask
      <3>2. engine' = engine
            \/ engine' = [engine EXCEPT !.open = NoTask, !.seq = engine.seq + 1]
        BY <1>6 DEF Deliver, EngineActs
      <3> QED
        BY <1>0, <3>1, <3>2 DEF Engines
    <2>2. callbacks' \subseteq Messages
      BY <1>0, <1>6, <2>0 DEF Deliver, EngineActs, ApprovalTypeOK, Messages,
                              Events, Engines
    <2>3. outbox' \subseteq Events /\ TriesLeft'
      BY <1>0, <1>6, <2>0 DEF Deliver, Resolve, ApprovalTypeOK, Events,
                              TriesLeft
    <2> QED
      BY <1>0, <1>6, <2>1, <2>2, <2>3
      DEF Deliver, TypeInv, ApprovalTypeOK, RequestTypeOK
  <1>7. ASSUME NEW e \in outbox, DeliveryFails(e) PROVE TypeInv'
    <2>0. e \in Events /\ e.tries < MaxTries
      BY <1>0, <1>7 DEF ApprovalTypeOK, TriesLeft, DeliveryFails
    <2> DEFINE s == IF e.tries + 1 = MaxTries THEN "DEAD_LETTER" ELSE "PENDING"
               f == [e EXCEPT !.status = s, !.tries = e.tries + 1]
    <2>1. /\ e.tries + 1 \in 0..MaxTries
          /\ s \in {"PENDING", "DEAD_LETTER"}
          /\ s = "PENDING" => e.tries + 1 < MaxTries
      BY <2>0 DEF Events
    <2>2. outbox' = (outbox \ {e}) \cup {f}
      BY <1>7 DEF DeliveryFails, Resolve
    <2> HIDE DEF s
    <2>3. f \in Events /\ (f.status = "PENDING" => f.tries < MaxTries)
      BY <2>0, <2>1 DEF Events
    <2> HIDE DEF f
    <2> QED
      BY <1>0, <1>7, <2>2, <2>3
      DEF DeliveryFails, TypeInv, ApprovalTypeOK, RequestTypeOK,
          TriesLeft
  <1>8. ASSUME NEW u \in Users, Cancel(u) PROVE TypeInv'
    <2>1. RequestTypeOK'
      <3>1. req' \in RequestType /\ statusLog' \in LogType
        BY <1>0, <1>8, MoveType DEF Cancel, Statuses
      <3> QED
        BY <1>0, <1>8, <3>1 DEF Cancel, RequestTypeOK
    <2> QED
      BY <1>0, <1>8, <2>1
      DEF Cancel, TypeInv, ApprovalTypeOK, TriesLeft
  <1>9. ASSUME NEW u \in Users, Reopen(u) PROVE TypeInv'
    <2>1. /\ [req EXCEPT !.node = 1] \in RequestType
          /\ [req EXCEPT !.node = 1].version = req.version
      BY <1>0 DEF RequestType
    <2>2. req' \in RequestType /\ statusLog' \in LogType
      BY <1>0, <1>9, <2>1, MoveType DEF Reopen, RequestTypeOK, Statuses
    <2>3. round' \in 1..MaxRound
      BY <1>0, <1>9, BoundAssumption DEF Reopen, RequestTypeOK
    <2>4. inst' \in Instances
      BY <1>0, <1>9 DEF Reopen, Instances
    <2> QED
      BY <1>0, <1>9, <2>2, <2>3, <2>4
      DEF Reopen, TypeInv, ApprovalTypeOK, RequestTypeOK, TriesLeft
  <1>10. CASE ExecutionMoves
    <2>1. PICK to \in ApprovedStatuses, q \in Persons \cup {NoPerson},
               l \in Levels, v \in 1..MaxVersion :
             /\ req' = [req EXCEPT !.status = to, !.lead = q, !.level = l,
                                   !.version = v]
             /\ statusLog' = [statusLog EXCEPT !.end = to]
      BY <1>10 DEF ExecutionMoves
    <2>2. to \in Statuses
      BY <2>1 DEF ApprovedStatuses, Assignable, Statuses
    <2>3. req' \in RequestType /\ statusLog' \in LogType
      BY <1>0, <2>1, <2>2 DEF RequestType, RequestTypeOK, LogType
    <2> QED
      BY <1>0, <1>10, <2>3
      DEF ExecutionMoves, TypeInv, ApprovalTypeOK, RequestTypeOK, TriesLeft
  <1>11. CASE UNCHANGED approvalState
    BY <1>0, <1>11 DEF TypeInv, ApprovalTypeOK, RequestTypeOK, TriesLeft
  <1> QED
    BY <1>1, <1>2, <1>3, <1>4, <1>5, <1>6, <1>7, <1>8, <1>9, <1>10, <1>11
    DEF ApprovalNext, ApprovalSteps

(* Every reachable state has its types, and an event that is still tried   *)
(* has a try left.                                                         *)
THEOREM TypeCorrect == ApprovalSpec => []ApprovalTypeOK
  <1>1. TypeInv => ApprovalTypeOK
    BY DEF TypeInv
  <1> QED
    BY <1>1, TypeInit, TypeStep, PTL DEF ApprovalSpec

-----------------------------------------------------------------------------
(* The approval of a round.                                                *)

(* While a request waits for approval, its instance waits at the same node,*)
(* an approval node.                                                       *)
WaitsAtNode ==
    req.status = "PENDING_APPROVAL" =>
        /\ req.node \in ApprovalNodes
        /\ inst.status = "PENDING" /\ inst.node = req.node

(* The log of the running round has decisions of nodes before the current  *)
(* one only, and no log is of a round that has not begun.                  *)
LogIsBehind ==
    /\ \A l \in approvalLog : l.round <= round
    /\ req.status = "PENDING_APPROVAL" =>
          \A l \in approvalLog : l.round = round => l.node < req.node

RoundInv == TypeInv /\ WaitsAtNode /\ LogIsBehind
            /\ RoundFullyApproved /\ OneDecisionPerNode

(* What a decision of the current node does to request, log and instance.  *)
(* It is the common part of DecideInternally and HandleApprovalCallback.   *)
LEMMA DecisionPreserves ==
  ASSUME RoundInv, TypeInv', req.status = "PENDING_APPROVAL",
         NEW l \in LogEntries, l.round = round, l.node = req.node,
         NEW i \in Instances, i.status = "PENDING", i.node = inst.node,
         UNCHANGED round, approvalLog' = approvalLog \cup {l},
         ApplyDecision(i, l.result)
  PROVE  RoundInv'
  <1>0. /\ req \in RequestType /\ approvalLog \subseteq LogEntries
        /\ inst \in Instances /\ req.node \in ApprovalNodes
        /\ ApprovalNodes \subseteq Nat \ {0} /\ round \in 1..MaxRound
    BY ApprovalNodesAreNat
    DEF RoundInv, TypeInv, ApprovalTypeOK, RequestTypeOK, WaitsAtNode
  <1>1. /\ req'.status = "REJECTED" \/ req'.status = "PENDING_APPROVAL"
           \/ req'.status = "APPROVED_PENDING_ASSIGNMENT"
        /\ round' = round
        /\ l.result = "REJECT" <=> req'.status = "REJECTED"
        /\ req'.status = "PENDING_APPROVAL" =>
              /\ Follows(req.node, req'.node)
              /\ inst'.status = "PENDING" /\ inst'.node = req'.node
        /\ req'.status = "APPROVED_PENDING_ASSIGNMENT" => IsLastNode(req.node)
    <2> USE <1>0 DEF RequestType, Instances
    <2>1. CASE /\ l.result = "REJECT"
               /\ MoveTo([req EXCEPT !.node = 0], "REJECTED")
               /\ inst' = [i EXCEPT !.status = "REJECTED"]
      BY <2>1 DEF MoveTo, UpdateRequestVersioned, Written
    <2>2. ASSUME l.result = "PASS", NEW m \in ApprovalNodes,
                 Follows(req.node, m),
                 UpdateRequestVersioned([req EXCEPT !.node = m]),
                 inst' = [i EXCEPT !.node = m]
          PROVE  /\ req'.status = "PENDING_APPROVAL" /\ req'.node = m
                 /\ inst'.status = "PENDING" /\ inst'.node = m
                 /\ round' = round
      BY <2>2 DEF UpdateRequestVersioned, Written
    <2>3. CASE /\ l.result = "PASS" /\ IsLastNode(req.node)
               /\ MoveTo([req EXCEPT !.node = 0],
                         "APPROVED_PENDING_ASSIGNMENT")
               /\ inst' = [i EXCEPT !.status = "APPROVED"]
      BY <2>3 DEF MoveTo, UpdateRequestVersioned, Written
    <2> QED
      BY <2>1, <2>2, <2>3 DEF ApplyDecision
  <1>2. WaitsAtNode'
    BY <1>1 DEF WaitsAtNode, Follows
  <1>3. \A k \in approvalLog : k.round = round => k.node < req.node
    BY DEF RoundInv, LogIsBehind
  <1>4. LogIsBehind'
    <2>1. \A k \in approvalLog' : k.round <= round'
      BY <1>0, <1>1 DEF RoundInv, LogIsBehind, Instances
    <2>2. ASSUME req'.status = "PENDING_APPROVAL", NEW k \in approvalLog',
                 k.round = round'
          PROVE  k.node < req'.node
      <3>1. /\ req.node < req'.node
            /\ req.node \in Nat /\ req'.node \in Nat
        BY <1>0, <1>1, <2>2 DEF Follows
      <3>2. k.node <= req.node /\ k.node \in Nat
        BY <1>0, <1>1, <1>3, <2>2, <3>1 DEF LogEntries
      <3> QED
        BY <3>1, <3>2
    <2> QED
      BY <2>1, <2>2 DEF LogIsBehind
  <1>5. OneDecisionPerNode'
    <2>1. \A k \in approvalLog : k.round = round => k.node # req.node
      BY <1>0, <1>3 DEF LogEntries
    <2>2. \A k \in approvalLog : k.round = round => k.result # "REJECT"
      BY DEF RoundInv, OneDecisionPerNode
    <2> QED
      BY <1>1, <2>1, <2>2 DEF RoundInv, OneDecisionPerNode
  <1>6. RoundFullyApproved'
    <2>0. l.result = "PASS" \/ req'.status = "REJECTED"
      BY <1>1 DEF LogEntries, Actions
    <2>1. \A n \in ApprovalNodes : n < req.node => PassedInRound(n)
      BY DEF RoundInv, RoundFullyApproved
    <2>2. ASSUME NEW n \in ApprovalNodes, n <= req.node,
                 req'.status # "REJECTED"
          PROVE  PassedInRound(n)'
      <3>1. CASE n = req.node
        BY <1>1, <2>0, <2>2, <3>1 DEF PassedInRound
      <3>2. CASE n < req.node
        BY <1>1, <2>1, <3>2 DEF PassedInRound
      <3> QED
        <4>1. n \in Nat /\ req.node \in Nat
          BY <1>0
        <4> QED
          BY <2>2, <3>1, <3>2, <4>1
    <2>3. ASSUME req'.status = "APPROVED_PENDING_ASSIGNMENT",
                 NEW n \in ApprovalNodes
          PROVE  PassedInRound(n)'
      BY <1>1, <2>2, <2>3 DEF IsLastNode
    <2>4. ASSUME req'.status = "PENDING_APPROVAL", NEW n \in ApprovalNodes,
                 n < req'.node
          PROVE  PassedInRound(n)'
      <3>1. n <= req.node
        <4>1. n \in Nat /\ req.node \in Nat /\ req'.node \in Nat
          BY <1>0, <1>1, <2>4 DEF Follows
        <4>2. n > req.node => req'.node <= n
          BY <1>1, <2>4 DEF Follows
        <4> QED
          BY <2>4, <4>1, <4>2
      <3> QED
        BY <2>2, <2>4, <3>1
    <2> QED
      BY <1>1, <2>3, <2>4
      DEF RoundFullyApproved, ApprovedStatuses, Assignable
  <1> QED
    BY <1>2, <1>4, <1>5, <1>6 DEF RoundInv

(* A step that keeps the log and the instance, and the request or its      *)
(* place in the approved half, or ends the round.                          *)
LEMMA OutsideDecisionPreserves ==
  ASSUME RoundInv, TypeInv', UNCHANGED approvalLog,
         inst'.status = inst.status, inst'.node = inst.node,
         round' = round,
         \/ req'.status = req.status /\ req'.node = req.node
         \/ req.status \in ApprovedStatuses /\ req'.status \in ApprovedStatuses
         \/ req.status # "REJECTED" /\ req'.status = "CANCELLED"
  PROVE  RoundInv'
  <1> QED
    BY DEF RoundInv, WaitsAtNode, LogIsBehind, RoundFullyApproved,
           OneDecisionPerNode, PassedInRound, ApprovedStatuses, Assignable

LEMMA RoundInit == ApprovalInit => RoundInv
  BY TypeInit, SnapshotAssumption, ApprovalNodesAreNat
  DEF ApprovalInit, RequestInit, RoundInv, WaitsAtNode, LogIsBehind,
      RoundFullyApproved, OneDecisionPerNode, ApprovedStatuses, Assignable

LEMMA RoundStep == RoundInv /\ [ApprovalNext]_approvalState => RoundInv'
  <1> SUFFICES ASSUME RoundInv, [ApprovalNext]_approvalState PROVE RoundInv'
    OBVIOUS
  <1>0. /\ TypeInv /\ TypeInv'
        /\ req \in RequestType /\ inst \in Instances
        /\ engine \in Engines /\ callbacks \subseteq Messages
        /\ round \in 1..MaxRound /\ approvalLog \subseteq LogEntries
    BY TypeStep DEF RoundInv, TypeInv, ApprovalTypeOK, RequestTypeOK
  <1>1. ASSUME NEW u \in Users, Look(u) PROVE RoundInv'
    BY <1>0, <1>1, OutsideDecisionPreserves DEF Look
  <1>2. ASSUME NEW u \in Users, NEW a \in Actions, DecideInternally(u, a)
        PROVE  RoundInv'
    <2> DEFINE l == [round |-> round, node |-> req.node, approver |-> u,
                     result |-> a, seq |-> inst.lastSeq + 1, task |-> NoTask]
               i == [inst EXCEPT !.lastSeq = @ + 1]
    <2>1. /\ req.status = "PENDING_APPROVAL" /\ inst.status = "PENDING"
          /\ UNCHANGED round /\ approvalLog' = approvalLog \cup {l}
          /\ ApplyDecision(i, l.result)
      BY <1>2 DEF DecideInternally, MayDecide
    <2>2. l \in LogEntries /\ l.round = round /\ l.node = req.node
      BY <1>0, <1>2, ApprovalAssumption
      DEF LogEntries, RequestType, Instances, NoTask
    <2>3. /\ i \in Instances /\ i.status = inst.status /\ i.node = inst.node
      BY <1>0 DEF Instances
    <2> HIDE DEF l, i
    <2> QED
      BY <1>0, <2>1, <2>2, <2>3, DecisionPreserves
  <1>3. ASSUME NEW u \in Users, NEW a \in Actions, RequestDecision(u, a)
        PROVE  RoundInv'
    BY <1>0, <1>3, OutsideDecisionPreserves DEF RequestDecision, Instances
  <1>4. ASSUME NEW m \in callbacks, HandleApprovalCallback(m)
        PROVE  RoundInv'
    <2> DEFINE l == [round |-> round, node |-> m.node,
                     approver |-> m.approver, result |-> m.result,
                     seq |-> m.seq, task |-> m.task]
               i == [inst EXCEPT !.lastSeq = m.seq, !.pending = NoBinding]
    <2>0. m \in Messages
      BY <1>0
    <2>1. /\ req.status = "PENDING_APPROVAL" /\ m.node = req.node
          /\ UNCHANGED round /\ approvalLog' = approvalLog \cup {l}
          /\ ApplyDecision(i, l.result)
      BY <1>4 DEF HandleApprovalCallback
    <2>2. l \in LogEntries /\ l.round = round /\ l.node = req.node
      BY <1>0, <2>0, <2>1 DEF LogEntries, Messages, Instances
    <2>3. /\ i \in Instances /\ i.status = inst.status /\ i.node = inst.node
      BY <1>0, <2>0 DEF Instances, Messages
    <2>4. inst.status = "PENDING"
      BY <2>1 DEF RoundInv, WaitsAtNode
    <2> HIDE DEF l, i
    <2> QED
      BY <1>0, <2>1, <2>2, <2>3, <2>4, DecisionPreserves
  <1>5. ASSUME NEW n \in ApprovalNodes, EngineOpens(n) PROVE RoundInv'
    BY <1>0, <1>5, OutsideDecisionPreserves DEF EngineOpens
  <1>6. ASSUME NEW e \in outbox, Deliver(e) PROVE RoundInv'
    BY <1>0, <1>6, OutsideDecisionPreserves DEF Deliver
  <1>7. ASSUME NEW e \in outbox, DeliveryFails(e) PROVE RoundInv'
    BY <1>0, <1>7, OutsideDecisionPreserves DEF DeliveryFails
  <1>8. ASSUME NEW u \in Users, Cancel(u) PROVE RoundInv'
    <2>1. req.status # "REJECTED" /\ req'.status = "CANCELLED"
      BY <1>0, <1>8
      DEF Cancel, MoveTo, UpdateRequestVersioned, Written, RequestType,
          Assignable
    <2> QED
      BY <1>0, <1>8, <2>1, OutsideDecisionPreserves DEF Cancel
  <1>9. ASSUME NEW u \in Users, Reopen(u) PROVE RoundInv'
    <2>1. /\ req'.status = "PENDING_APPROVAL" /\ req'.node = 1
          /\ inst'.status = "PENDING" /\ inst'.node = 1
          /\ round' = round + 1 /\ UNCHANGED approvalLog
      BY <1>0, <1>9
      DEF Reopen, MoveTo, UpdateRequestVersioned, Written, RequestType,
          Instances
    <2>2. \A k \in approvalLog : k.round \in Nat /\ k.round < round + 1
      BY <1>0, BoundAssumption DEF RoundInv, LogIsBehind, LogEntries
    <2>3. WaitsAtNode' /\ LogIsBehind' /\ OneDecisionPerNode'
      BY <1>0, <2>1, <2>2, SnapshotAssumption
      DEF WaitsAtNode, LogIsBehind, OneDecisionPerNode, RoundInv, Instances
    <2>4. RoundFullyApproved'
      BY <2>1, ApprovalNodesAreNat
      DEF RoundFullyApproved, ApprovedStatuses, Assignable
    <2> QED
      BY <1>0, <2>3, <2>4 DEF RoundInv
  <1>10. CASE ExecutionMoves
    <2>1. req.status \in ApprovedStatuses /\ req'.status \in ApprovedStatuses
      BY <1>0, <1>10 DEF ExecutionMoves, MoveTo, UpdateRequestVersioned,
                         RequestType, ApprovedStatuses
    <2> QED
      BY <1>0, <1>10, <2>1, OutsideDecisionPreserves DEF ExecutionMoves
  <1>11. CASE UNCHANGED approvalState
    BY <1>0, <1>11, OutsideDecisionPreserves
  <1> QED
    BY <1>1, <1>2, <1>3, <1>4, <1>5, <1>6, <1>7, <1>8, <1>9, <1>10, <1>11
    DEF ApprovalNext, ApprovalSteps

(* No request is assigned, executed or completed before every approval     *)
(* node of its snapshot was passed in the running round.                   *)
THEOREM FullyApproved == ApprovalSpec => []RoundFullyApproved
  <1>1. RoundInv => RoundFullyApproved
    BY DEF RoundInv
  <1> QED
    BY <1>1, RoundInit, RoundStep, PTL DEF ApprovalSpec

(* No node is decided twice in one round, and a rejection ends its round.  *)
THEOREM DecidedOnce == ApprovalSpec => []OneDecisionPerNode
  <1>1. RoundInv => OneDecisionPerNode
    BY DEF RoundInv
  <1> QED
    BY <1>1, RoundInit, RoundStep, PTL DEF ApprovalSpec

-----------------------------------------------------------------------------
(* Versions and views.                                                     *)

ViewInv ==
    /\ TypeInv
    /\ \A u \in Users : screen[u].version <= req.version
    /\ VersionNamesTheView

(* A step keeps what the users see of the request or raises its version.   *)
LEMMA ViewStepKinds ==
  ASSUME TypeInv, ApprovalNext, ~ \E u \in Users : Look(u)
  PROVE  /\ UNCHANGED screen
         /\ \/ UNCHANGED req /\ round' = round
            \/ req'.version > req.version
  <1>0. req \in RequestType /\ req.version \in Nat
    BY DEF TypeInv, ApprovalTypeOK, RequestTypeOK, RequestType
  <1>1. ASSUME NEW row \in RequestType, row.version = req.version,
               UpdateRequestVersioned(row)
        PROVE  req'.version > req.version
    <2>1. req'.version = req.version + 1
      BY <1>1 DEF UpdateRequestVersioned, Written, RequestType
    <2> QED
      BY <1>0, <2>1
  <1>2. ASSUME NEW row \in RequestType, row.version = req.version,
               NEW to \in Statuses, MoveTo(row, to)
        PROVE  req'.version > req.version
    <2>1. /\ [row EXCEPT !.status = to] \in RequestType
          /\ [row EXCEPT !.status = to].version = req.version
      BY <1>2 DEF RequestType
    <2> QED
      BY <1>1, <1>2, <2>1 DEF MoveTo
  <1>3. \A n \in Nat : /\ [req EXCEPT !.node = n] \in RequestType
                       /\ [req EXCEPT !.node = n].version = req.version
    BY <1>0 DEF RequestType
  <1>10. ASSUME NEW i, NEW result, ApplyDecision(i, result)
        PROVE  req'.version > req.version
    <2>1. ASSUME NEW m \in ApprovalNodes,
                 UpdateRequestVersioned([req EXCEPT !.node = m])
          PROVE  req'.version > req.version
      <3>1. m \in Nat
        BY ApprovalNodesAreNat
      <3> QED
        BY <1>1, <1>3, <2>1, <3>1
    <2> QED
      BY <1>2, <1>3, <1>10, <2>1 DEF ApplyDecision, Statuses
  <1>4. ASSUME NEW u \in Users, NEW a \in Actions, DecideInternally(u, a)
        PROVE  UNCHANGED screen /\ req'.version > req.version
    BY <1>10, <1>4 DEF DecideInternally
  <1>5. ASSUME NEW m \in callbacks, HandleApprovalCallback(m)
        PROVE  UNCHANGED screen /\ req'.version > req.version
    BY <1>10, <1>5 DEF HandleApprovalCallback
  <1>6. ASSUME NEW u \in Users, Cancel(u) \/ Reopen(u)
        PROVE  UNCHANGED screen /\ req'.version > req.version
    BY <1>0, <1>2, <1>3, <1>6 DEF Cancel, Reopen, Statuses
  <1>7. CASE ExecutionMoves
    <2>1. PICK v \in 1..MaxVersion :
             /\ v = req.version + 1 \/ v = req.version + 2
             /\ req'.version = v
      BY <1>0, <1>7 DEF ExecutionMoves, RequestType
    <2> QED
      BY <1>0, <1>7, <2>1 DEF ExecutionMoves
  <1>8. ASSUME NEW u \in Users, NEW a \in Actions, RequestDecision(u, a)
        PROVE  UNCHANGED <<screen, req>> /\ round' = round
    BY <1>0, <1>8 DEF RequestDecision, Instances
  <1>9. ASSUME \/ \E n \in ApprovalNodes : EngineOpens(n)
               \/ \E e \in outbox : Deliver(e) \/ DeliveryFails(e)
        PROVE  UNCHANGED <<screen, req, round>>
    BY <1>9 DEF EngineOpens, Deliver, DeliveryFails
  <1> QED
    BY <1>4, <1>5, <1>6, <1>7, <1>8, <1>9 DEF ApprovalNext, ApprovalSteps

LEMMA ViewStep == ViewInv /\ [ApprovalNext]_approvalState => ViewInv'
  <1> SUFFICES ASSUME ViewInv, [ApprovalNext]_approvalState PROVE ViewInv'
    OBVIOUS
  <1>0. /\ TypeInv /\ TypeInv' /\ req \in RequestType /\ req' \in RequestType
        /\ screen \in [Users -> Views] /\ inst \in Instances
    BY TypeStep DEF ViewInv, TypeInv, ApprovalTypeOK, RequestTypeOK
  <1>1. ASSUME NEW u \in Users, Look(u) PROVE ViewInv'
    <2> DEFINE w == [version |-> req.version, status |-> req.status,
                     node |-> req.node, round |-> round]
    <2>1. UNCHANGED <<req, round>> /\ screen' = [screen EXCEPT ![u] = w]
      BY <1>1 DEF Look
    <2>2. \A v \in Users : screen'[v] = IF v = u THEN w ELSE screen[v]
      BY <1>0, <2>1
    <2>3. req.version \in Nat
      BY <1>0 DEF RequestType
    <2> QED
      BY <1>0, <2>1, <2>2, <2>3 DEF ViewInv, VersionNamesTheView
  <1>2. ASSUME ApprovalNext, ~ \E u \in Users : Look(u) PROVE ViewInv'
    <2>1. \A u \in Users : screen[u].version \in Nat
      BY <1>0 DEF Views
    <2>2. req.version \in Nat /\ req'.version \in Nat
      BY <1>0 DEF RequestType
    <2>3. CASE UNCHANGED <<screen, req>> /\ round' = round
      BY <1>0, <2>3 DEF ViewInv, VersionNamesTheView
    <2>4. CASE UNCHANGED screen /\ req'.version > req.version
      BY <1>0, <2>1, <2>2, <2>4 DEF ViewInv, VersionNamesTheView
    <2> QED
      BY <1>0, <1>2, <2>3, <2>4, ViewStepKinds
  <1>3. CASE UNCHANGED approvalState
    BY <1>0, <1>3 DEF ViewInv, VersionNamesTheView
  <1> QED
    BY <1>1, <1>2, <1>3

(* A version stands for everything a user sees of the request.             *)
THEOREM VersionNames == ApprovalSpec => []VersionNamesTheView
  <1>1. ApprovalInit => ViewInv
    BY TypeInit DEF ApprovalInit, RequestInit, ViewInv,
                    VersionNamesTheView
  <1>2. ViewInv => VersionNamesTheView
    BY DEF ViewInv
  <1> QED
    BY <1>1, <1>2, ViewStep, PTL DEF ApprovalSpec

(* The mode is that of the process for good.                                *)
LEMMA ModeStays ==
  TypeInv /\ [ApprovalNext]_approvalState => EngineMode' = EngineMode
  <1> SUFFICES ASSUME TypeInv, [ApprovalNext]_approvalState
               PROVE  EngineMode' = EngineMode
    OBVIOUS
  <1>0. engine \in Engines
    BY DEF TypeInv, ApprovalTypeOK
  <1> USE DEF EngineMode, Engines
  <1>1. CASE UNCHANGED engine
    BY <1>1
  <1>2. CASE \E n \in ApprovalNodes : EngineOpens(n)
    BY <1>0, <1>2 DEF EngineOpens
  <1>3. CASE \E e \in outbox : Deliver(e)
    BY <1>0, <1>3 DEF Deliver, EngineActs
  <1> QED
    BY <1>1, <1>2, <1>3
    DEF ApprovalNext, ApprovalSteps, approvalState, approvalVars, engineVars,
        Look, DecideInternally, RequestDecision, HandleApprovalCallback,
        DeliveryFails, Cancel, Reopen, ExecutionMoves

(* Without a task resolver there is nothing to deliver or to call back.     *)
InternalIsQuiet == ~EngineMode => outbox = {} /\ callbacks = {}

LEMMA InternalStep ==
  TypeInv /\ InternalIsQuiet /\ [ApprovalNext]_approvalState => InternalIsQuiet'
  <1> SUFFICES ASSUME TypeInv, InternalIsQuiet, [ApprovalNext]_approvalState
               PROVE  InternalIsQuiet'
    OBVIOUS
  <1>0. EngineMode' = EngineMode
    BY ModeStays
  <1> USE <1>0 DEF InternalIsQuiet
  <1>1. CASE UNCHANGED <<outbox, callbacks>>
    BY <1>1
  <1>2. CASE EngineMode
    BY <1>2
  <1>3. CASE \/ \E u \in Users : Look(u) \/ Cancel(u) \/ Reopen(u)
             \/ \E u \in Users, a \in Actions : DecideInternally(u, a)
             \/ \E m \in callbacks : HandleApprovalCallback(m)
             \/ \E n \in ApprovalNodes : EngineOpens(n)
             \/ ExecutionMoves \/ UNCHANGED approvalState
    BY <1>1, <1>3
    DEF Look, Cancel, Reopen, DecideInternally, HandleApprovalCallback,
        EngineOpens, ExecutionMoves, approvalState, approvalVars, engineVars
  <1>4. CASE \E u \in Users, a \in Actions : RequestDecision(u, a)
    BY <1>2, <1>4 DEF RequestDecision
  <1>5. CASE \E e \in outbox : Deliver(e) \/ DeliveryFails(e)
    BY <1>2, <1>5
  <1> QED
    BY <1>3, <1>4, <1>5 DEF ApprovalNext, ApprovalSteps

(* A decision never cancels.                                               *)
LEMMA DecisionDoesNotCancel ==
  ASSUME TypeInv, req.status = "PENDING_APPROVAL",
         NEW i, NEW result, ApplyDecision(i, result)
  PROVE  req'.status # "CANCELLED"
  <1>0. req \in RequestType /\ statusLog \in LogType
    BY DEF TypeInv, ApprovalTypeOK, RequestTypeOK
  <1>1. \A n \in Nat : /\ [req EXCEPT !.node = n] \in RequestType
                       /\ [req EXCEPT !.node = n].version = req.version
                       /\ [req EXCEPT !.node = n].status = req.status
    BY <1>0 DEF RequestType
  <1>2. ASSUME NEW to \in Statuses, MoveTo([req EXCEPT !.node = 0], to)
        PROVE  req'.status = to
    BY <1>0, <1>1, <1>2, MoveFields
  <1>3. ASSUME NEW m \in ApprovalNodes,
               UpdateRequestVersioned([req EXCEPT !.node = m])
        PROVE  req'.status = "PENDING_APPROVAL"
    <2>1. m \in Nat
      BY ApprovalNodesAreNat
    <2> QED
      BY <1>0, <1>1, <1>3, <2>1, UpdateFields
  <1> QED
    BY <1>2, <1>3 DEF ApplyDecision, Statuses

(* Decisions fall on the node and in the round the user had on the screen, *)
(* and a request is cancelled in a status that a user has seen.            *)
THEOREM SeenBeforeActed == ApprovalSpec => ActsOnWhatWasSeen
  <1> DEFINE Seen ==
        /\ \A l \in approvalLog' \ approvalLog :
              ~EngineMode => /\ screen[l.approver].node = l.node
                             /\ screen[l.approver].round = l.round
        /\ req.status # "CANCELLED" /\ req'.status = "CANCELLED" =>
              \E u \in Users : /\ screen[u].status = req.status
                               /\ screen[u].round = round
  <1>1. ViewInv /\ InternalIsQuiet /\ [ApprovalNext]_approvalState =>
          [Seen]_approvalState
    <2> SUFFICES ASSUME ViewInv, InternalIsQuiet, ApprovalNext PROVE Seen
      OBVIOUS
    <2>0. /\ TypeInv /\ req \in RequestType /\ statusLog \in LogType
          /\ \A u \in Users : screen[u].version = req.version =>
                screen[u].status = req.status /\ screen[u].node = req.node
                /\ screen[u].round = round
      BY DEF ViewInv, VersionNamesTheView, TypeInv, ApprovalTypeOK, RequestTypeOK
    <2>1. CASE \E u \in Users, a \in Actions : DecideInternally(u, a)
      <3>1. PICK u \in Users, a \in Actions : DecideInternally(u, a)
        BY <2>1
      <3>2. MayDecide(u) /\ req'.status # "CANCELLED"
        BY <2>0, <3>1, DecisionDoesNotCancel DEF DecideInternally, MayDecide
      <3>3. \A l \in approvalLog' \ approvalLog :
              l.approver = u /\ l.node = req.node /\ l.round = round
        BY <3>1 DEF DecideInternally
      <3> QED
        BY <2>0, <3>2, <3>3 DEF MayDecide
    <2>2. CASE \E m \in callbacks : HandleApprovalCallback(m)
      <3>1. EngineMode
        BY <2>2 DEF InternalIsQuiet
      <3>2. req'.status # "CANCELLED"
        BY <2>0, <2>2, DecisionDoesNotCancel DEF HandleApprovalCallback
      <3> QED
        BY <3>1, <3>2
    <2>3. CASE \E u \in Users : Cancel(u)
      BY <2>0, <2>3 DEF Cancel
    <2>4. CASE \E u \in Users : Reopen(u)
      <3>1. MoveTo([req EXCEPT !.node = 1], "PENDING_APPROVAL")
            /\ UNCHANGED approvalLog
        BY <2>4 DEF Reopen
      <3>2. /\ [req EXCEPT !.node = 1] \in RequestType
            /\ [req EXCEPT !.node = 1].version = req.version
        BY <2>0 DEF RequestType
      <3>3. req'.status = "PENDING_APPROVAL"
        BY <2>0, <3>1, <3>2, MoveFields DEF Statuses
      <3> QED
        BY <3>1, <3>3
    <2>5. CASE ExecutionMoves
      <3>1. req'.status \in ApprovedStatuses /\ UNCHANGED approvalLog
        BY <2>0, <2>5 DEF ExecutionMoves, RequestType, approvalVars
      <3> QED
        BY <3>1 DEF ApprovedStatuses, Assignable
    <2>6. CASE \/ \E u \in Users : Look(u)
               \/ \E u \in Users, a \in Actions : RequestDecision(u, a)
               \/ \E n \in ApprovalNodes : EngineOpens(n)
               \/ \E e \in outbox : Deliver(e) \/ DeliveryFails(e)
      BY <2>6 DEF Look, RequestDecision, EngineOpens, Deliver, DeliveryFails,
                  requestVars
    <2> QED
      BY <2>1, <2>2, <2>3, <2>4, <2>5, <2>6 DEF ApprovalNext, ApprovalSteps
  <1>2. ApprovalInit => ViewInv /\ InternalIsQuiet
    BY TypeInit DEF ApprovalInit, RequestInit, ViewInv, VersionNamesTheView,
                    InternalIsQuiet
  <1>3. ViewInv => TypeInv
    BY DEF ViewInv
  <1> QED
    BY <1>1, <1>2, <1>3, ViewStep, InternalStep, PTL
    DEF ApprovalSpec, ActsOnWhatWasSeen

-----------------------------------------------------------------------------
(* Decisions of the engine.                                                *)

Requested(task, approver, action, r) ==
    \E e \in outbox : e.task = task /\ e.approver = approver
                    /\ e.action = action /\ e.round = r

(* The decision in flight was requested in the running round.              *)
BindingRequested ==
    inst.pending # NoBinding =>
        Requested(inst.pending.task, inst.pending.approver,
                  inst.pending.action, round)

RequestedInv == TypeInv /\ BindingRequested /\ DecidedAsRequested

(* No step forgets that a decision was requested.                          *)
LEMMA RequestsStay ==
  ASSUME TypeInv, [ApprovalNext]_approvalState,
         NEW t, NEW p, NEW a, NEW r, Requested(t, p, a, r)
  PROVE  Requested(t, p, a, r)'
  <1>0. outbox \subseteq Events
    BY DEF TypeInv, ApprovalTypeOK
  <1>1. ASSUME NEW e \in outbox, NEW s, NEW n, Resolve(e, s, n)
        PROVE  Requested(t, p, a, r)'
    <2> DEFINE f == [e EXCEPT !.status = s, !.tries = n]
    <2>1. /\ f.task = e.task /\ f.approver = e.approver
          /\ f.action = e.action /\ f.round = e.round
      BY <1>0 DEF Events
    <2>2. outbox' = (outbox \ {e}) \cup {f}
      BY <1>1 DEF Resolve
    <2> HIDE DEF f
    <2> QED
      BY <2>1, <2>2 DEF Requested
  <1>2. ASSUME outbox \subseteq outbox' PROVE Requested(t, p, a, r)'
    BY <1>2 DEF Requested
  <1>3. ASSUME NEW e \in outbox, Deliver(e) \/ DeliveryFails(e)
        PROVE  Requested(t, p, a, r)'
    <2>1. outbox' = outbox \/ \E s, n : Resolve(e, s, n)
      BY <1>3 DEF Deliver, DeliveryFails
    <2> QED
      BY <1>1, <1>2, <2>1
  <1>4. ASSUME ~ \E e \in outbox : Deliver(e) \/ DeliveryFails(e)
        PROVE  outbox \subseteq outbox'
    BY <1>4 DEF ApprovalNext, ApprovalSteps, Look, DecideInternally, RequestDecision,
                HandleApprovalCallback, EngineOpens, Cancel, Reopen,
                ExecutionMoves
  <1> QED
    BY <1>2, <1>3, <1>4

LEMMA RequestedStep == RequestedInv /\ [ApprovalNext]_approvalState => RequestedInv'
  <1> SUFFICES ASSUME RequestedInv, [ApprovalNext]_approvalState PROVE RequestedInv'
    OBVIOUS
  <1>0. /\ TypeInv /\ TypeInv' /\ inst \in Instances
        /\ callbacks \subseteq Messages
        /\ EngineMode' = EngineMode
    BY TypeStep, ModeStays DEF RequestedInv, TypeInv, ApprovalTypeOK
  <1>1. ASSUME EngineMode, NEW l \in approvalLog
        PROVE  Requested(l.task, l.approver, l.result, l.round)'
    <2>1. Requested(l.task, l.approver, l.result, l.round)
      BY <1>1 DEF RequestedInv, DecidedAsRequested, Requested
    <2> QED
      BY <1>0, <2>1, RequestsStay
  <1>2. ASSUME inst.pending # NoBinding
        PROVE  Requested(inst.pending.task, inst.pending.approver,
                         inst.pending.action, round)
               /\ \E e \in outbox' : /\ e.task = inst.pending.task
                                    /\ e.approver = inst.pending.approver
                                    /\ e.action = inst.pending.action
                                    /\ e.round = round
    <2> DEFINE t == inst.pending.task   p == inst.pending.approver
               a == inst.pending.action r == round
    <2>1. Requested(t, p, a, r)
      BY <1>2 DEF RequestedInv, BindingRequested
    <2>2. \A x, y, z, w : Requested(x, y, z, w) => Requested(x, y, z, w)'
      BY <1>0, RequestsStay
    <2> HIDE DEF t, p, a, r
    <2>3. \E e \in outbox' : /\ e.task = t /\ e.approver = p
                            /\ e.action = a /\ e.round = r
      BY <2>1, <2>2 DEF Requested
    <2> QED
      BY <2>1, <2>3 DEF t, p, a, r
  <1>3. ASSUME UNCHANGED approvalLog PROVE DecidedAsRequested'
    BY <1>0, <1>1, <1>3 DEF DecidedAsRequested, Requested
  <1>4. ASSUME inst'.pending = inst.pending, round' = round
        PROVE  BindingRequested'
    BY <1>2, <1>4 DEF BindingRequested, Requested
  <1>5. ASSUME NEW u \in Users, NEW a \in Actions, DecideInternally(u, a)
        PROVE  BindingRequested' /\ DecidedAsRequested'
    <2>1. inst'.pending = inst.pending /\ round' = round
      BY <1>0, <1>5 DEF DecideInternally, ApplyDecision, Instances
    <2> QED
      BY <1>0, <1>4, <1>5, <2>1 DEF DecideInternally, DecidedAsRequested
  <1>6. ASSUME NEW u \in Users, NEW a \in Actions, RequestDecision(u, a)
        PROVE  BindingRequested' /\ DecidedAsRequested'
    <2> DEFINE b == [task |-> engine.open, approver |-> u, action |-> a]
               e == [task |-> engine.open, approver |-> u, action |-> a,
                     round |-> round, tries |-> 0, status |-> "PENDING"]
    <2>1. /\ inst' = [inst EXCEPT !.pending = b] /\ e \in outbox'
          /\ round' = round
      BY <1>6 DEF RequestDecision
    <2>2. inst'.pending = b /\ round' = round
      BY <1>0, <2>1 DEF Instances
    <2>3. BindingRequested'
      BY <2>1, <2>2 DEF BindingRequested, Requested
    <2> QED
      BY <1>3, <1>6, <2>3 DEF RequestDecision
  <1>7. ASSUME NEW m \in callbacks, HandleApprovalCallback(m)
        PROVE  BindingRequested' /\ DecidedAsRequested'
    <2>0. m \in Messages
      BY <1>0
    <2>1. inst'.pending = NoBinding
      BY <1>0, <1>7 DEF HandleApprovalCallback, ApplyDecision, Instances
    <2>2. /\ inst.pending # NoBinding
          /\ inst.pending.task = m.task /\ inst.pending.approver = m.approver
          /\ inst.pending.action = m.result
      BY <1>7, <2>0
      DEF HandleApprovalCallback, Bound, NoBinding, NoTask, Messages
    <2>3. \E e \in outbox' : e.task = m.task /\ e.approver = m.approver
                           /\ e.action = m.result /\ e.round = round
      BY <1>2, <2>2
    <2>4. DecidedAsRequested'
      BY <1>0, <1>1, <1>7, <2>3 DEF HandleApprovalCallback, DecidedAsRequested,
                              Requested
    <2> QED
      BY <2>1, <2>4 DEF BindingRequested
  <1>8. ASSUME NEW u \in Users, Reopen(u)
        PROVE  BindingRequested' /\ DecidedAsRequested'
    <2>1. inst'.pending = NoBinding
      BY <1>0, <1>8 DEF Reopen, Instances
    <2> QED
      BY <1>3, <1>8, <2>1 DEF Reopen, BindingRequested
  <1>9. ASSUME UNCHANGED <<inst, round, approvalLog>>
        PROVE  BindingRequested' /\ DecidedAsRequested'
    BY <1>3, <1>4, <1>9
  <1>10. BindingRequested' /\ DecidedAsRequested'
    <2>1. CASE \E u \in Users : Look(u) \/ Cancel(u)
      BY <1>9, <2>1 DEF Look, Cancel
    <2>2. CASE \/ \E n \in ApprovalNodes : EngineOpens(n)
               \/ \E e \in outbox : Deliver(e) \/ DeliveryFails(e)
      BY <1>9, <2>2 DEF EngineOpens, Deliver, DeliveryFails
    <2>3. CASE ExecutionMoves \/ UNCHANGED approvalState
      BY <1>9, <2>3 DEF ExecutionMoves
    <2> QED
      BY <1>5, <1>6, <1>7, <1>8, <2>1, <2>2, <2>3 DEF ApprovalNext, ApprovalSteps
  <1> QED
    BY <1>0, <1>10 DEF RequestedInv

(* Every decision the engine's callbacks log was requested by its approver *)
(* for that task, in that round.                                           *)
THEOREM DecidedByRequest == ApprovalSpec => []DecidedAsRequested
  <1>1. ApprovalInit => RequestedInv
    BY TypeInit DEF ApprovalInit, RequestedInv, BindingRequested,
                    DecidedAsRequested
  <1>2. RequestedInv => DecidedAsRequested
    BY DEF RequestedInv
  <1> QED
    BY <1>1, <1>2, RequestedStep, PTL DEF ApprovalSpec

-----------------------------------------------------------------------------
(* No decision is lost between the request, the outbox and the engine.     *)

(* The engine's counters run ahead of what was done under them.            *)
EngineCounts ==
    /\ engine.open \in {NoTask, engine.last}
    /\ EngineMode => inst.lastSeq <= engine.seq
    /\ \A m \in callbacks : /\ m.task <= engine.last /\ m.task # engine.open
                            /\ m.seq <= engine.seq

(* A task with a logged decision has been performed.                       *)
LoggedIsPerformed ==
    EngineMode => \A l \in approvalLog : \E m \in callbacks : m.task = l.task

(* The worker marks an event sent only after the engine has performed it.  *)
SentIsPerformed == \A e \in outbox : e.status = "SENT" => Performed(e)

InFlight == inst.pending # NoBinding /\ req.status = "PENDING_APPROVAL"

(* While a decision is in flight, its task is undecided, and whatever the  *)
(* engine has announced or will announce of it is of the node the request  *)
(* waits at, and newer than the last callback applied.                     *)
BindingLive ==
    InFlight =>
        /\ inst.pending.task <= engine.last
        /\ \A l \in approvalLog : l.task # inst.pending.task
        /\ engine.open = inst.pending.task => engine.node = req.node
        /\ \A m \in callbacks : m.task = inst.pending.task =>
              m.node = req.node /\ m.seq > inst.lastSeq

CarrierInv ==
    /\ RequestedInv /\ InternalIsQuiet
    /\ EngineCounts /\ LoggedIsPerformed /\ SentIsPerformed /\ BindingLive

(* What HandleApprovalCallback asks of a callback.                         *)
Acceptable(m) ==
    /\ \A l \in approvalLog : l.task # m.task
    /\ req.status = "PENDING_APPROVAL" /\ req.node = m.node
    /\ Bound(m)

(* A decision in flight has an event of this round that carries it, and    *)
(* once the event is marked sent, a callback that the request accepts.     *)
DecisionCarried ==
    InFlight =>
        \E e \in outbox :
            /\ inst.pending = [task |-> e.task, approver |-> e.approver,
                               action |-> e.action]
            /\ e.round = round
            /\ e.status = "SENT" => \E m \in callbacks : Acceptable(m)

(* The types these proofs use.                                             *)
LEMMA CarrierTypes ==
  ASSUME CarrierInv
  PROVE  /\ req \in RequestType /\ inst \in Instances /\ engine \in Engines
         /\ outbox \subseteq Events /\ callbacks \subseteq Messages
         /\ engine.open \in Nat /\ engine.last \in Nat /\ engine.seq \in Nat
         /\ inst.lastSeq \in Nat
         /\ \A m \in callbacks : /\ m.task \in Nat /\ m.task # NoTask
                                 /\ m.seq \in Nat
         /\ InFlight => inst.pending.task \in Nat /\ inst.pending.task # NoTask
  <1>1. /\ req \in RequestType /\ inst \in Instances /\ engine \in Engines
        /\ outbox \subseteq Events /\ callbacks \subseteq Messages
    BY DEF CarrierInv, RequestedInv, TypeInv, ApprovalTypeOK, RequestTypeOK
  <1>2. /\ engine.open \in Nat /\ engine.last \in Nat /\ engine.seq \in Nat
        /\ inst.lastSeq \in Nat
    BY <1>1, ApprovalAssumption DEF Engines, Instances
  <1>3. \A m \in callbacks : m.task \in Nat /\ m.task # NoTask /\ m.seq \in Nat
    BY <1>1, ApprovalAssumption DEF Messages, NoTask
  <1>4. InFlight => inst.pending \in Bindings
    BY <1>1 DEF InFlight, Instances
  <1>5. InFlight => inst.pending.task \in Nat /\ inst.pending.task # NoTask
    BY <1>4, ApprovalAssumption DEF Bindings, NoTask
  <1> QED
    BY <1>1, <1>2, <1>3, <1>5

(* Outside engine mode nothing is in flight.                               *)
LEMMA InFlightIsEngine ==
  ASSUME CarrierInv, InFlight PROVE EngineMode
  BY DEF CarrierInv, RequestedInv, BindingRequested, Requested,
         InternalIsQuiet, InFlight

(* A step that touches neither instance, log, outbox nor engine, and does  *)
(* not bring the request into its approval or to another node of it.       *)
LEMMA ElsewhereCarries ==
  ASSUME CarrierInv, UNCHANGED <<inst, approvalLog, outbox, engine, callbacks>>,
         req' = req \/ req'.status # "PENDING_APPROVAL"
  PROVE  EngineCounts' /\ LoggedIsPerformed' /\ SentIsPerformed' /\ BindingLive'
  BY DEF CarrierInv, EngineCounts, LoggedIsPerformed, SentIsPerformed,
         Performed, BindingLive, InFlight, EngineMode

LEMMA InternalCarries ==
  ASSUME CarrierInv, NEW u \in Users, NEW a \in Actions, DecideInternally(u, a)
  PROVE  EngineCounts' /\ LoggedIsPerformed' /\ SentIsPerformed' /\ BindingLive'
  <1>1. ~EngineMode /\ UNCHANGED <<outbox, engine, callbacks>>
    BY DEF DecideInternally
  <1>2. outbox = {} /\ callbacks = {}
    BY <1>1 DEF CarrierInv, InternalIsQuiet
  <1>3. inst'.pending = inst.pending
    BY CarrierTypes DEF DecideInternally, ApplyDecision, Instances
  <1>4. inst.pending = NoBinding
    BY <1>2 DEF CarrierInv, RequestedInv, BindingRequested, Requested
  <1> QED
    BY <1>1, <1>2, <1>3, <1>4
    DEF CarrierInv, EngineCounts, LoggedIsPerformed, SentIsPerformed,
        BindingLive, InFlight, EngineMode

(* A decision is requested for the task that is open, which nobody has     *)
(* performed.                                                              *)
LEMMA RequestCarries ==
  ASSUME CarrierInv, NEW u \in Users, NEW a \in Actions, RequestDecision(u, a)
  PROVE  EngineCounts' /\ LoggedIsPerformed' /\ SentIsPerformed' /\ BindingLive'
  <1> DEFINE b == [task |-> engine.open, approver |-> u, action |-> a]
             e == [task |-> engine.open, approver |-> u, action |-> a,
                   round |-> round, tries |-> 0, status |-> "PENDING"]
  <1>1. /\ EngineMode /\ engine.open # NoTask /\ engine.node = req.node
        /\ UNCHANGED <<req, approvalLog, engine, callbacks>>
        /\ inst' = [inst EXCEPT !.pending = b] /\ outbox' = outbox \cup {e}
    BY DEF RequestDecision
  <1>2. inst'.pending.task = engine.open /\ inst'.lastSeq = inst.lastSeq
    BY <1>1, CarrierTypes DEF Instances
  <1>3. e.status # "SENT"
    OBVIOUS
  <1> HIDE DEF b, e
  <1>4. engine.open = engine.last
        /\ \A m \in callbacks : m.task # engine.open
    BY <1>1 DEF CarrierInv, EngineCounts
  <1>5. \A l \in approvalLog : l.task # engine.open
    BY <1>1, <1>4 DEF CarrierInv, LoggedIsPerformed
  <1>6. EngineCounts' /\ LoggedIsPerformed'
    BY <1>1, <1>2 DEF CarrierInv, EngineCounts, LoggedIsPerformed, EngineMode
  <1>7. SentIsPerformed'
    BY <1>1, <1>3 DEF CarrierInv, SentIsPerformed, Performed
  <1>8. BindingLive'
    BY <1>1, <1>2, <1>4, <1>5, CarrierTypes DEF BindingLive
  <1> QED
    BY <1>6, <1>7, <1>8

(* A callback that is applied ends what was in flight.                     *)
LEMMA CallbackCarries ==
  ASSUME CarrierInv, NEW m \in callbacks, HandleApprovalCallback(m)
  PROVE  EngineCounts' /\ LoggedIsPerformed' /\ SentIsPerformed' /\ BindingLive'
  <1>1. inst'.pending = NoBinding /\ inst'.lastSeq = m.seq
    BY CarrierTypes DEF HandleApprovalCallback, ApplyDecision, Instances
  <1>2. UNCHANGED <<outbox, engine, callbacks>>
    BY DEF HandleApprovalCallback
  <1>3. \A l \in approvalLog' : l \in approvalLog \/ l.task = m.task
    BY DEF HandleApprovalCallback
  <1> QED
    BY <1>1, <1>2, <1>3
    DEF CarrierInv, EngineCounts, LoggedIsPerformed, SentIsPerformed,
        Performed, BindingLive, InFlight, EngineMode

(* A new task is none that was ever bound.                                 *)
LEMMA OpeningCarries ==
  ASSUME CarrierInv, NEW n \in ApprovalNodes, EngineOpens(n)
  PROVE  EngineCounts' /\ LoggedIsPerformed' /\ SentIsPerformed' /\ BindingLive'
  <1>1. /\ engine'.open = engine.last + 1 /\ engine'.last = engine.last + 1
        /\ engine'.seq = engine.seq /\ engine'.on = engine.on
        /\ UNCHANGED <<req, inst, approvalLog, outbox, callbacks>>
    BY CarrierTypes DEF EngineOpens, Engines
  <1>2. EngineCounts'
    BY <1>1, CarrierTypes DEF CarrierInv, EngineCounts, EngineMode
  <1>3. LoggedIsPerformed' /\ SentIsPerformed'
    BY <1>1 DEF CarrierInv, LoggedIsPerformed, SentIsPerformed, Performed, EngineMode
  <1>4. BindingLive'
    BY <1>1, CarrierTypes DEF CarrierInv, BindingLive, InFlight
  <1> QED
    BY <1>2, <1>3, <1>4

(* What the engine performs on the open task it announces for the node of  *)
(* that task.                                                              *)
LEMMA EngineActCarries ==
  ASSUME CarrierInv, NEW e \in outbox, EngineActs(e),
         UNCHANGED <<req, inst, approvalLog>>
  PROVE  /\ EngineCounts' /\ LoggedIsPerformed' /\ BindingLive'
         /\ \A f \in outbox : f = e \/ Performed(f) => Performed(f)'
  <1> DEFINE m == [task |-> e.task, node |-> engine.node,
                   approver |-> e.approver, result |-> e.action,
                   seq |-> engine.seq + 1, round |-> e.round]
  <1>1. /\ e.task = engine.open /\ callbacks' = callbacks \cup {m}
        /\ engine'.open = NoTask /\ engine'.seq = engine.seq + 1
        /\ engine'.last = engine.last /\ engine'.node = engine.node
        /\ engine'.on = engine.on
    BY CarrierTypes DEF EngineActs, Engines
  <1>2. /\ m.task = engine.open /\ m.node = engine.node
        /\ m.seq = engine.seq + 1
        /\ m.approver = e.approver /\ m.result = e.action /\ m.round = e.round
    BY <1>1
  <1> HIDE DEF m
  <1>3. EngineMode /\ engine.open # NoTask /\ engine.open = engine.last
    <2>1. engine.open # NoTask
      BY <1>1, CarrierTypes DEF Events, NoTask
    <2> QED
      BY <2>1 DEF CarrierInv, InternalIsQuiet, EngineCounts
  <1>4. EngineCounts'
    BY <1>1, <1>2, <1>3, CarrierTypes DEF CarrierInv, EngineCounts, EngineMode
  <1>5. LoggedIsPerformed'
    BY <1>1 DEF CarrierInv, LoggedIsPerformed, EngineMode
  <1>6. BindingLive'
    <2> SUFFICES ASSUME InFlight'
                 PROVE  /\ inst.pending.task <= engine.last
                        /\ \A l \in approvalLog : l.task # inst.pending.task
                        /\ engine'.open # inst.pending.task
                        /\ \A x \in callbacks' : x.task = inst.pending.task =>
                              x.node = req.node /\ x.seq > inst.lastSeq
      BY <1>1 DEF BindingLive
    <2>1. InFlight /\ BindingLive
      BY DEF InFlight, CarrierInv
    <2>2. inst.lastSeq < engine.seq + 1
      BY <1>3, CarrierTypes DEF CarrierInv, EngineCounts
    <2>3. inst.pending.task # NoTask
      BY <2>1, CarrierTypes
    <2> QED
      BY <1>1, <1>2, <2>1, <2>2, <2>3, CarrierTypes DEF BindingLive
  <1>7. \A f \in outbox : f = e \/ Performed(f) => Performed(f)'
    BY <1>1, <1>2 DEF Performed
  <1> QED
    BY <1>4, <1>5, <1>6, <1>7

(* Rewriting an event leaves what it asks for.                             *)
LEMMA ResolvedEvent ==
  ASSUME outbox \subseteq Events, NEW e \in outbox, NEW s, NEW n, Resolve(e, s, n),
         NEW f \in outbox'
  PROVE  \/ f \in outbox
         \/ /\ f.status = s /\ f.task = e.task /\ f.approver = e.approver
            /\ f.action = e.action /\ f.round = e.round
  BY DEF Resolve, Events

(* A delivery marks the event sent after it was performed only.            *)
LEMMA DeliverCarries ==
  ASSUME CarrierInv, NEW e \in outbox, Deliver(e)
  PROVE  EngineCounts' /\ LoggedIsPerformed' /\ SentIsPerformed' /\ BindingLive'
  <1>1. UNCHANGED <<req, inst, approvalLog>>
    BY DEF Deliver
  <1>2. /\ EngineCounts' /\ LoggedIsPerformed' /\ BindingLive'
        /\ \A f \in outbox : f = e \/ Performed(f) => Performed(f)'
    <2>1. CASE EngineActs(e)
      BY <1>1, <2>1, EngineActCarries
    <2>2. CASE Performed(e) /\ UNCHANGED <<engine, callbacks>>
      BY <1>1, <2>2
      DEF CarrierInv, EngineCounts, LoggedIsPerformed, BindingLive, InFlight,
          EngineMode, Performed
    <2> QED
      BY <2>1, <2>2 DEF Deliver
  <1>3. ASSUME NEW f \in outbox', f.status = "SENT" PROVE Performed(f)'
    <2>1. \/ f \in outbox
          \/ /\ f.task = e.task /\ f.approver = e.approver
             /\ f.action = e.action /\ f.round = e.round
      <3>1. CASE UNCHANGED outbox
        BY <3>1
      <3>2. CASE Resolve(e, "SENT", e.tries)
        BY <3>2, ResolvedEvent, CarrierTypes
      <3> QED
        BY <3>1, <3>2 DEF Deliver
    <2>2. CASE f \in outbox
      BY <1>2, <1>3, <2>2 DEF CarrierInv, SentIsPerformed
    <2>3. CASE /\ f.task = e.task /\ f.approver = e.approver
               /\ f.action = e.action /\ f.round = e.round
      <3>1. Performed(e)'
        BY <1>2
      <3> QED
        BY <2>3, <3>1 DEF Performed
    <2> QED
      BY <2>1, <2>2, <2>3
  <1> QED
    BY <1>2, <1>3 DEF SentIsPerformed

LEMMA FailureCarries ==
  ASSUME CarrierInv, NEW e \in outbox, DeliveryFails(e)
  PROVE  EngineCounts' /\ LoggedIsPerformed' /\ SentIsPerformed' /\ BindingLive'
  <1>1. UNCHANGED <<req, inst, approvalLog, engine, callbacks>>
    BY DEF DeliveryFails
  <1>2. EngineCounts' /\ LoggedIsPerformed' /\ BindingLive'
    BY <1>1
    DEF CarrierInv, EngineCounts, LoggedIsPerformed, BindingLive, InFlight,
        EngineMode
  <1>3. PICK s \in {"PENDING", "DEAD_LETTER"} : \E n : Resolve(e, s, n)
    BY DEF DeliveryFails
  <1>4. ASSUME NEW f \in outbox', f.status = "SENT" PROVE Performed(f)'
    <2>1. f \in outbox
      BY <1>3, <1>4, ResolvedEvent, CarrierTypes
    <2> QED
      BY <1>1, <1>4, <2>1 DEF CarrierInv, SentIsPerformed, Performed
  <1> QED
    BY <1>2, <1>4 DEF SentIsPerformed

(* A new round forgets the decision of the old one.                        *)
LEMMA ReopenCarries ==
  ASSUME CarrierInv, NEW u \in Users, Reopen(u)
  PROVE  EngineCounts' /\ LoggedIsPerformed' /\ SentIsPerformed' /\ BindingLive'
  <1>1. inst'.pending = NoBinding /\ inst'.lastSeq = inst.lastSeq
    BY CarrierTypes DEF Reopen, Instances
  <1>2. UNCHANGED <<approvalLog, outbox, engine, callbacks>>
    BY DEF Reopen
  <1> QED
    BY <1>1, <1>2
    DEF CarrierInv, EngineCounts, LoggedIsPerformed, SentIsPerformed,
        Performed, BindingLive, InFlight, EngineMode

LEMMA CarrierStep == CarrierInv /\ [ApprovalNext]_approvalState => CarrierInv'
  <1> SUFFICES ASSUME CarrierInv, [ApprovalNext]_approvalState PROVE CarrierInv'
    OBVIOUS
  <1> DEFINE Kept == EngineCounts /\ LoggedIsPerformed /\ SentIsPerformed
                     /\ BindingLive
  <1>1. RequestedInv' /\ InternalIsQuiet'
    BY RequestedStep, InternalStep DEF CarrierInv, RequestedInv
  <1>2. ASSUME NEW u \in Users, Cancel(u) PROVE Kept'
    <2>1. req'.status = "CANCELLED"
      BY <1>2, CarrierTypes DEF Cancel, MoveTo, UpdateRequestVersioned, Written,
                              RequestType
    <2> QED
      BY <1>2, <2>1, ElsewhereCarries DEF Cancel
  <1>3. CASE ExecutionMoves
    <2>1. req'.status # "PENDING_APPROVAL"
      BY <1>3, CarrierTypes DEF ExecutionMoves, RequestType, ApprovedStatuses,
                                Assignable
    <2> QED
      BY <1>3, <2>1, ElsewhereCarries, <1>1 DEF ExecutionMoves, CarrierInv
  <1>4. CASE UNCHANGED approvalState \/ \E u \in Users : Look(u)
    BY <1>1, <1>4, ElsewhereCarries DEF Look, CarrierInv
  <1>5. CASE \E u \in Users, a \in Actions :
               DecideInternally(u, a) \/ RequestDecision(u, a)
    BY <1>1, <1>5, InternalCarries, RequestCarries DEF CarrierInv
  <1>6. CASE \/ \E m \in callbacks : HandleApprovalCallback(m)
             \/ \E n \in ApprovalNodes : EngineOpens(n)
             \/ \E e \in outbox : Deliver(e) \/ DeliveryFails(e)
             \/ \E u \in Users : Reopen(u)
    BY <1>1, <1>6, CallbackCarries, OpeningCarries, DeliverCarries,
       FailureCarries, ReopenCarries DEF CarrierInv
  <1> QED
    BY <1>1, <1>2, <1>3, <1>4, <1>5, <1>6
    DEF ApprovalNext, ApprovalSteps, CarrierInv

(* A decision in flight always has its carrier: an event of the running    *)
(* round, and once the worker has marked it sent, a callback the request   *)
(* accepts.  Nothing that happens in between, a stop of the worker, an     *)
(* older event of the same task or a reopened request, makes the callback  *)
(* one that would be ignored (presaleworker, HandleApprovalCallback).      *)
(* This is the part of DecisionResolves that is not about fairness.        *)
THEOREM DecisionIsNotLost == ApprovalSpec => []DecisionCarried
  <1>1. ApprovalInit => CarrierInv
    BY TypeInit
    DEF ApprovalInit, CarrierInv, RequestedInv, BindingRequested,
        DecidedAsRequested, InternalIsQuiet, EngineCounts, LoggedIsPerformed,
        SentIsPerformed, BindingLive, InFlight, NoTask
  <1>2. CarrierInv => DecisionCarried
    <2> SUFFICES ASSUME CarrierInv, InFlight
                 PROVE  \E e \in outbox :
                          /\ inst.pending = [task |-> e.task,
                                             approver |-> e.approver,
                                             action |-> e.action]
                          /\ e.round = round
                          /\ e.status = "SENT" =>
                               \E m \in callbacks : Acceptable(m)
      BY DEF DecisionCarried
    <2>1. PICK e \in outbox : /\ e.task = inst.pending.task
                              /\ e.approver = inst.pending.approver
                              /\ e.action = inst.pending.action
                              /\ e.round = round
      BY DEF CarrierInv, RequestedInv, BindingRequested, Requested, InFlight
    <2>2. inst.pending = [task |-> e.task, approver |-> e.approver,
                          action |-> e.action]
      <3>1. inst.pending \in Bindings
        BY CarrierTypes DEF InFlight, Instances
      <3> QED
        BY <2>1, <3>1 DEF Bindings
    <2>3. ASSUME e.status = "SENT" PROVE \E m \in callbacks : Acceptable(m)
      <3>1. PICK m \in callbacks : /\ m.task = e.task /\ m.result = e.action
                                   /\ m.approver = e.approver
        BY <2>3 DEF CarrierInv, SentIsPerformed, Performed
      <3>2. /\ \A l \in approvalLog : l.task # m.task
            /\ m.node = req.node /\ m.seq > inst.lastSeq
        BY <2>1, <3>1 DEF CarrierInv, BindingLive
      <3>3. Bound(m)
        BY <2>2, <3>1, <3>2 DEF Bound
      <3> QED
        BY <3>2, <3>3 DEF Acceptable, InFlight
    <2> QED
      BY <2>1, <2>2, <2>3
  <1> QED
    BY <1>1, <1>2, CarrierStep, PTL DEF ApprovalSpec

=============================================================================
