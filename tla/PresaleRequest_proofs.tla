------------------------ MODULE PresaleRequest_proofs ------------------------
(***************************************************************************)
(* Lemmas about the request row that the proofs of both halves rest on.    *)
(***************************************************************************)
EXTENDS PresaleRequest, TLAPS

(* Approval nodes are numbered from 1.                                     *)
LEMMA ApprovalNodesAreNat == ApprovalNodes \subseteq Nat \ {0}
  BY SnapshotAssumption DEF ApprovalNodes

(* A versioned update keeps the type of the request.                       *)
LEMMA UpdateType ==
  ASSUME req \in RequestType, NEW row \in RequestType,
         row.version = req.version, UpdateRequestVersioned(row)
  PROVE  req' \in RequestType
  <1>1. row.version + 1 \in 1..MaxVersion
    BY BoundAssumption DEF UpdateRequestVersioned, RequestType
  <1> QED
    BY <1>1 DEF UpdateRequestVersioned, Written, RequestType

(* So does a move to another status, which keeps the type of the log too.  *)
LEMMA MoveType ==
  ASSUME req \in RequestType, statusLog \in LogType,
         NEW row \in RequestType, row.version = req.version,
         NEW to \in Statuses, MoveTo(row, to)
  PROVE  req' \in RequestType /\ statusLog' \in LogType
  <1>1. /\ [row EXCEPT !.status = to] \in RequestType
        /\ [row EXCEPT !.status = to].version = req.version
    BY DEF RequestType
  <1>2. req' \in RequestType
    BY <1>1, UpdateType DEF MoveTo
  <1>3. statusLog' \in LogType
    BY DEF MoveTo, Logged, LogType
  <1> QED
    BY <1>2, <1>3

(* Writing a row keeps its type and all fields but the version.            *)
LEMMA WrittenFields ==
  ASSUME NEW row \in RequestType, row.version < MaxVersion
  PROVE  /\ Written(row) \in RequestType
         /\ Written(row).version = row.version + 1
         /\ Written(row).status = row.status
         /\ Written(row).node = row.node
         /\ Written(row).twoLevel = row.twoLevel
         /\ Written(row).lead = row.lead
         /\ Written(row).level = row.level
  <1>1. row.version + 1 \in 1..MaxVersion
    BY BoundAssumption DEF RequestType
  <1> QED
    BY <1>1 DEF Written, RequestType

(* What a versioned update leaves behind.                                  *)
LEMMA UpdateFields ==
  ASSUME req \in RequestType, NEW row \in RequestType,
         row.version = req.version, UpdateRequestVersioned(row)
  PROVE  /\ req' \in RequestType
         /\ req'.version = req.version + 1
         /\ req'.status = row.status
         /\ req'.node = row.node
         /\ req'.twoLevel = row.twoLevel
         /\ req'.lead = row.lead
         /\ req'.level = row.level
  <1>1. row.version < MaxVersion /\ req' = Written(row)
    BY DEF UpdateRequestVersioned
  <1> QED
    BY <1>1, WrittenFields

(* What a move to another status leaves behind.                            *)
LEMMA MoveFields ==
  ASSUME req \in RequestType, statusLog \in LogType,
         NEW row \in RequestType, row.version = req.version,
         NEW to \in Statuses, MoveTo(row, to)
  PROVE  /\ req' \in RequestType /\ statusLog' \in LogType
         /\ req'.version = req.version + 1
         /\ req'.status = to
         /\ req'.node = row.node
         /\ req'.twoLevel = row.twoLevel
         /\ req'.lead = row.lead
         /\ req'.level = row.level
         /\ StatusLogComplete => StatusLogComplete'
  <1> DEFINE moved == [row EXCEPT !.status = to]
  <1>1. /\ moved \in RequestType /\ moved.version = req.version
        /\ moved.status = to /\ moved.node = row.node
        /\ moved.twoLevel = row.twoLevel
        /\ moved.lead = row.lead /\ moved.level = row.level
    BY DEF RequestType
  <1>2. UpdateRequestVersioned(moved)
    BY DEF MoveTo
  <1> HIDE DEF moved
  <1>3. /\ req' \in RequestType
        /\ req'.version = req.version + 1
        /\ req'.status = to /\ req'.node = row.node
        /\ req'.twoLevel = row.twoLevel
        /\ req'.lead = row.lead /\ req'.level = row.level
    BY <1>1, <1>2, UpdateFields
  <1>4. statusLog' = Logged(statusLog, req.status, to)
    BY DEF MoveTo
  <1> QED
    BY <1>3, <1>4 DEF Logged, LogType, StatusLogComplete

=============================================================================
