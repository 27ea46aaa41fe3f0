-------------------------- MODULE Opportunity_proofs --------------------------
(***************************************************************************)
(* Proofs about Opportunity, for every set of contracts, customers,        *)
(* amounts and reports and every number of commands under way.             *)
(***************************************************************************)
EXTENDS Opportunity, TLAPS

USE OpportunityAssumption

(* What a command leaves alone in its copy of the row.                     *)
Untouched(c) ==
    /\ c.model.customer = c.seen.customer
    /\ c.model.link = c.seen.link /\ c.model.sync = c.seen.sync
    /\ c.op # "UPDATE" => c.model.amount = c.seen.amount
    /\ c.op # "LIFECYCLE" => c.model.before = c.seen.before
    /\ c.op \in {"TODO", "UPDATE"} => c.model.status = c.seen.status
    /\ c.op \in {"TODO", "UPDATE", "LIFECYCLE"} =>
           /\ c.model.stage = c.seen.stage /\ c.model.ext = c.seen.ext
           /\ c.model.changed = c.seen.changed
    /\ c.op \in {"UPDATE", "LIFECYCLE"} =>
           /\ c.model.ref = c.seen.ref /\ c.model.reason = c.seen.reason
           /\ c.model.pending = c.seen.pending

Won(r) == r.stage = "SIGNED" /\ r.pending = "NONE"

(* A command that confirms or undoes a win starts from a row without one   *)
(* and brings one ground; the others keep win and ground.                  *)
BringsGround(c) ==
    IF c.op \in {"UPDATE", "LIFECYCLE"} THEN ~c.evidence
    ELSE /\ ~Won(c.seen)
         /\ c.evidence => Won(c.model)
         /\ Won(c.model) => (c.evidence <=> c.model.ref = NoRef)

Transferable(r) == Won(r) /\ r.status = "CLOSED" /\ r.ref # NoRef

(* A stage is not dated ahead, unless by a report.                         *)
Dated(r) == r.changed <= clock \/ r.changed = r.ext

(* A command dates its copy after the row, unless a user overwrites what a *)
(* report has dated.                                                       *)
InOrder(c) ==
    /\ c.model.ext >= c.seen.ext
    /\ \/ c.model.changed >= c.seen.changed
       \/ c.op # "EXTERNAL" /\ c.seen.changed = c.seen.ext

(* What the checks of a command give its copy of the row, for good.        *)
CallSound(c) ==
    /\ Untouched(c)
    /\ c.op = "EXTERNAL" => c.link \in Links
    /\ Consistent(c.model)
    /\ InOrder(c)
    /\ Standing(c.seen) = "CLOSED" =>
           /\ Standing(c.model) = "CLOSED"
           /\ c.model.stage = c.seen.stage /\ c.model.amount = c.seen.amount
    /\ BringsGround(c)
    /\ Transferable(c.seen) =>
           /\ Transferable(c.model)
           /\ c.model.ref = c.seen.ref /\ c.model.amount = c.seen.amount

(* A command has read no later version than the row's, and the row itself  *)
(* if the version is still the row's.                                      *)
CallCurrent(c) ==
    /\ c.seen.version <= opp.version /\ c.seen.version < MaxVersion
    /\ c.seen.version = opp.version => c.seen = opp
    /\ Dated(c.model)

CallsFit == \A c \in calls : CallSound(c) /\ CallCurrent(c)

(* What was accepted after a transfer began was accepted at its version or *)
(* a later one.                                                            *)
TransfersFit ==
    \A t \in transfers :
        /\ t.version <= opp.version
        /\ ~t.accepted => \A e \in outbox : e.version >= t.version

RowFits == Consistent(opp) /\ Dated(opp) /\ WinHasOneGround

OutboxFits == TransferredOnce /\ EventStandsForRow

OppInv ==
    OpportunityTypeOK /\ RowFits /\ OutboxFits /\ CallsFit /\ TransfersFit

-----------------------------------------------------------------------------
LEMMA InitFits == OpportunityInit => OppInv
  <1> SUFFICES ASSUME OpportunityInit PROVE OppInv
    OBVIOUS
  <1>1. PICK a \in Amounts, c \in Customers :
           opp = [stage |-> "INITIAL", status |-> "FOLLOWING", before |-> "NONE",
                 ref |-> NoRef, reason |-> FALSE, pending |-> "NONE",
                 version |-> 1, changed |-> 0, ext |-> 0, amount |-> a,
                 customer |-> c, link |-> "PENDING", sync |-> 0]
    BY DEF OpportunityInit
  <1>2. opp \in Rows
    BY <1>1 DEF Rows, Stages, OpenStages, Statuses, Pendings, Refs
  <1>3. OpportunityTypeOK
    <2>1. /\ evidence \in BOOLEAN /\ presale \in BOOLEAN
          /\ links \in Seq(Links) /\ mode \in Modes
      <3>1. evidence = FALSE /\ presale = FALSE /\ links = <<>> /\ mode \in Modes
        BY DEF OpportunityInit
      <3>2. <<>> \in Seq(Links)
        OBVIOUS
      <3> QED
        BY <3>1, <3>2
    <2>2. clock \in 0..MaxTime
      BY DEF OpportunityInit
    <2>3. outbox = {} /\ calls = {} /\ transfers = {} /\ merges = {}
      BY DEF OpportunityInit
    <2> QED
      BY <1>2, <2>1, <2>2, <2>3 DEF OpportunityTypeOK
  <1>4. RowFits
    BY <1>1 DEF OpportunityInit, RowFits, Consistent, Standing, Lost, Dated,
                WinHasOneGround
  <1>5. OutboxFits /\ CallsFit /\ TransfersFit
    BY DEF OpportunityInit, OutboxFits, TransferredOnce, EventStandsForRow,
           CallsFit, TransfersFit
  <1> QED
    BY <1>3, <1>4, <1>5 DEF OppInv

(* A step that leaves the row and its children alone and begins nothing.   *)
LEMMA QuietKeeps ==
  ASSUME OppInv, UNCHANGED <<opp, evidence, links, outbox>>,
         presale' \in BOOLEAN, mode' \in Modes,
         clock' \in 0..MaxTime, clock <= clock',
         calls' \subseteq calls, transfers' \subseteq transfers,
         merges' \subseteq Merges
  PROVE  OppInv'
  <1> USE DEF OppInv
  <1>1. OpportunityTypeOK'
    BY DEF OpportunityTypeOK
  <1>2. opp.changed \in Nat /\ clock \in Nat /\ clock' \in Nat
    BY DEF OpportunityTypeOK, Rows
  <1>3. RowFits'
    BY <1>2 DEF RowFits, WinHasOneGround, Dated
  <1>4. OutboxFits' /\ TransfersFit'
    BY DEF OutboxFits, TransferredOnce, EventStandsForRow, TransfersFit
  <1>5. CallsFit'
    <2> SUFFICES ASSUME NEW c \in calls'
                 PROVE  CallSound(c) /\ CallCurrent(c)'
      BY DEF CallsFit
    <2>1. CallSound(c) /\ CallCurrent(c) /\ c.model.changed \in Nat
      BY DEF CallsFit, OpportunityTypeOK, Calls, Rows
    <2> QED
      BY <1>2, <2>1 DEF CallCurrent, Dated
  <1> QED
    BY <1>1, <1>3, <1>4, <1>5

(* A command has been begun.                                               *)
LEMMA BeginKeeps ==
  ASSUME OppInv, NEW c \in Calls, calls' = calls \cup {c}, c.seen = opp,
         opp.version < MaxVersion, CallSound(c), Dated(c.model),
         UNCHANGED <<opp, evidence, links, presale, outbox, mode, clock,
                     transfers, merges>>
  PROVE  OppInv'
  <1> USE DEF OppInv
  <1>1. OpportunityTypeOK'
    BY DEF OpportunityTypeOK
  <1>2. RowFits' /\ OutboxFits' /\ TransfersFit'
    BY DEF RowFits, WinHasOneGround, Dated, OutboxFits, TransferredOnce,
           EventStandsForRow, TransfersFit
  <1>3. CallsFit'
    <2> SUFFICES ASSUME NEW d \in calls'
                 PROVE  CallSound(d) /\ CallCurrent(d)'
      BY DEF CallsFit
    <2>1. CASE d \in calls
      BY <2>1 DEF CallsFit, CallCurrent, Dated
    <2>2. CASE d = c
      BY <2>2 DEF CallCurrent, Dated, OpportunityTypeOK, Rows
    <2> QED
      BY <2>1, <2>2
  <1> QED
    BY <1>1, <1>2, <1>3

LEMMA RowFacts ==
  ASSUME OppInv
  PROVE  /\ opp \in Rows /\ Consistent(opp)
         /\ clock \in 0..MaxTime /\ Dated(opp)
         /\ MayChangeStage => Standing(opp) = "FOLLOWING"
  BY DEF OppInv, OpportunityTypeOK, RowFits, MayChangeStage, Standing

(* A copy of the row in which the stage is t since the time at, and the    *)
(* last report of the time x.                                              *)
StageCopy(m, t, k, p, at, x) ==
    /\ m \in Rows /\ Consistent(m)
    /\ m.customer = opp.customer /\ m.link = opp.link
    /\ m.sync = opp.sync /\ m.amount = opp.amount
    /\ m.before = opp.before /\ m.changed = at /\ m.ext = x
    /\ m.stage = t
    /\ t = "SIGNED" => m.ref = k /\ m.pending = p

(* applyStage on a row that may change its stage.                          *)
LEMMA StageApplied ==
  ASSUME OppInv, opp.status = "FOLLOWING", NEW t \in Stages, NEW k \in Refs,
         NEW lost \in BOOLEAN, NEW p \in Pendings, NEW at \in 0..MaxTime,
         p \in {"CONTRACT", "WIN_EVIDENCE"} => t = "SIGNED" /\ k = NoRef,
         p = "LOST_REASON" <=> t = "FAILED" /\ ~lost
  PROVE  StageCopy(ApplyStage(t, k, lost, p, at), t, k, p, at, opp.ext)
  <1> DEFINE m == ApplyStage(t, k, lost, p, at)
  <1>1. opp \in Rows /\ Consistent(opp)
    BY RowFacts
  <1>2. /\ m \in Rows
        /\ m.stage = t /\ m.changed = at /\ m.before = opp.before
        /\ m.ext = opp.ext
        /\ m.status = IF t \in {"SIGNED", "FAILED"} THEN "CLOSED"
                                                    ELSE "FOLLOWING"
        /\ m.ref = IF t = "SIGNED" THEN k ELSE NoRef
        /\ m.reason = (t = "FAILED" /\ lost)
        /\ m.pending = IF t \in {"SIGNED", "FAILED"} THEN p ELSE "NONE"
        /\ m.customer = opp.customer /\ m.link = opp.link
        /\ m.sync = opp.sync /\ m.amount = opp.amount
    <2>1. m = [opp EXCEPT !.stage = t, !.changed = at,
                !.status = IF t \in {"SIGNED", "FAILED"} THEN "CLOSED"
                                                         ELSE "FOLLOWING",
                !.ref = IF t = "SIGNED" THEN k ELSE NoRef,
                !.reason = t = "FAILED" /\ lost,
                !.pending = IF t \in {"SIGNED", "FAILED"} THEN p ELSE "NONE"]
      BY DEF ApplyStage
    <2> HIDE DEF m
    <2>2. m \in Rows
      <3>1. /\ (IF t \in {"SIGNED", "FAILED"} THEN "CLOSED" ELSE "FOLLOWING")
                  \in Statuses
            /\ (IF t = "SIGNED" THEN k ELSE NoRef) \in Refs
            /\ (t = "FAILED" /\ lost) \in BOOLEAN
            /\ (IF t \in {"SIGNED", "FAILED"} THEN p ELSE "NONE") \in Pendings
        BY DEF Statuses, Refs, Pendings
      <3> QED
        BY <1>1, <2>1, <3>1 DEF Rows
    <2> QED
      BY <1>1, <2>1, <2>2 DEF Rows
  <1> HIDE DEF m
  <1>3. opp.before = "NONE"
    BY <1>1 DEF Consistent, Rows
  <1>4. Consistent(m)
    BY <1>2, <1>3 DEF Consistent, Standing, Lost, Pendings
  <1>5. StageCopy(m, t, k, p, at, opp.ext)
    BY <1>2, <1>4 DEF StageCopy
  <1> QED
    BY <1>5 DEF m

(* The same with the time of a report.                                     *)
LEMMA ReportApplied ==
  ASSUME NEW n, NEW t \in Stages, NEW k \in Refs, NEW p \in Pendings,
         NEW at \in 0..MaxTime, NEW x, StageCopy(n, t, k, p, at, x)
  PROVE  StageCopy([n EXCEPT !.ext = at], t, k, p, at, at)
  <1> DEFINE m == [n EXCEPT !.ext = at]
  <1>1. n \in Rows /\ Consistent(n)
    BY DEF StageCopy
  <1>2. m \in Rows
    BY <1>1 DEF Rows
  <1>3. /\ m.stage = n.stage /\ m.status = n.status /\ m.before = n.before
        /\ m.ref = n.ref /\ m.reason = n.reason /\ m.pending = n.pending
        /\ m.changed = n.changed /\ m.customer = n.customer
        /\ m.link = n.link /\ m.sync = n.sync /\ m.amount = n.amount
        /\ m.ext = at
    BY <1>1 DEF Rows
  <1> HIDE DEF m
  <1>4. Consistent(m)
    BY <1>1, <1>3 DEF Consistent, Standing, Lost
  <1>5. StageCopy(m, t, k, p, at, at)
    BY <1>2, <1>3, <1>4 DEF StageCopy
  <1> QED
    BY <1>5 DEF m

(* A command that changes the stage.                                       *)
LEMMA StageCallKeeps ==
  ASSUME OppInv, opp.status = "FOLLOWING", NEW t \in Stages, NEW k \in Refs,
         NEW p \in Pendings, NEW at \in 0..MaxTime, NEW x \in 0..MaxTime,
         NEW op \in {"STAGE", "EXTERNAL"}, NEW m, StageCopy(m, t, k, p, at, x),
         at <= clock \/ at = x, x >= opp.ext,
         \/ at >= opp.changed
         \/ op # "EXTERNAL" /\ opp.changed = opp.ext,
         NEW link \in Links \cup {NoLink}, NEW ev \in BOOLEAN,
         op = "EXTERNAL" => link \in Links,
         ev => t = "SIGNED" /\ p = "NONE",
         t = "SIGNED" /\ p = "NONE" => (ev <=> k = NoRef),
         BeginCall(op, m, link, ev)
  PROVE  OppInv'
  <1> DEFINE c == [op |-> op, seen |-> opp, model |-> m, link |-> link,
                   evidence |-> ev]
  <1>1. opp \in Rows /\ Consistent(opp) /\ clock \in 0..MaxTime
    BY RowFacts
  <1>2. /\ opp.before = "NONE" /\ Standing(opp) = "FOLLOWING"
        /\ opp.stage \notin {"SIGNED", "FAILED"}
    BY <1>1 DEF Consistent, Standing, Rows
  <1>3. /\ m \in Rows /\ Consistent(m)
        /\ m.customer = opp.customer /\ m.link = opp.link
        /\ m.sync = opp.sync /\ m.amount = opp.amount
        /\ m.before = opp.before /\ m.changed = at /\ m.ext = x
        /\ m.stage = t
        /\ t = "SIGNED" => m.ref = k /\ m.pending = p
    BY DEF StageCopy
  <1>4. /\ c \in Calls
        /\ c.op = op /\ c.seen = opp /\ c.model = m /\ c.evidence = ev
        /\ c.link = link
    BY <1>1, <1>3 DEF Calls
  <1>5. CallSound(c)
    <2>1. Untouched(c)
      BY <1>3, <1>4 DEF Untouched
    <2>2. BringsGround(c)
      BY <1>2, <1>3, <1>4 DEF BringsGround, Won
    <2>3. Standing(opp) # "CLOSED" /\ ~Transferable(opp)
      BY <1>2 DEF Transferable, Won
    <2>4. InOrder(c)
      BY <1>3, <1>4 DEF InOrder
    <2> HIDE DEF c
    <2> QED
      BY <1>3, <1>4, <2>1, <2>2, <2>3, <2>4 DEF CallSound
  <1>6. /\ calls' = calls \cup {c} /\ opp.version < MaxVersion
        /\ UNCHANGED <<opp, evidence, links, presale, outbox, mode, clock,
                       transfers, merges>>
    BY DEF BeginCall
  <1>7. Dated(c.model)
    BY <1>3, <1>4 DEF Dated
  <1> HIDE DEF c
  <1> QED
    BY <1>4, <1>5, <1>6, <1>7, BeginKeeps

(* A stage chosen by a user or given by an import, on its ground.          *)
LEMMA ChosenStageKeeps ==
  ASSUME OppInv, opp.status = "FOLLOWING", NEW t \in Stages, NEW k \in Refs,
         NEW lost \in BOOLEAN, NEW ev \in BOOLEAN,
         t = "FAILED" => lost, ev => t = "SIGNED",
         t = "SIGNED" => (ev <=> k = NoRef),
         BeginCall("STAGE", ApplyStage(t, k, lost, "NONE", clock), NoLink, ev)
  PROVE  OppInv'
  <1>1. /\ clock \in 0..MaxTime /\ opp.ext \in 0..MaxTime
        /\ clock <= clock /\ opp.ext >= opp.ext
        /\ clock >= opp.changed \/ opp.changed = opp.ext
    BY RowFacts DEF Dated, Rows
  <1>2. StageCopy(ApplyStage(t, k, lost, "NONE", clock), t, k, "NONE", clock,
                  opp.ext)
    BY <1>1, StageApplied DEF Pendings
  <1> DEFINE m == ApplyStage(t, k, lost, "NONE", clock)
  <1>3. /\ StageCopy(m, t, k, "NONE", clock, opp.ext) /\ "NONE" \in Pendings
        /\ BeginCall("STAGE", m, NoLink, ev)
    BY <1>2 DEF Pendings
  <1> HIDE DEF m
  <1>4. CASE ev = TRUE
    <2>1. BeginCall("STAGE", m, NoLink, TRUE) /\ t = "SIGNED" /\ k = NoRef
      BY <1>3, <1>4
    <2> QED
      BY <1>1, <1>3, <2>1, StageCallKeeps
  <1>5. CASE ev = FALSE
    <2>1. /\ BeginCall("STAGE", m, NoLink, FALSE)
          /\ t = "SIGNED" => k # NoRef
      BY <1>3, <1>5
    <2> QED
      BY <1>1, <1>3, <2>1, StageCallKeeps
  <1> QED
    BY <1>4, <1>5

LEMMA GroundsFit ==
  ASSUME NEW g \in Grounds
  PROVE  \/ g.ref = NoRef /\ g.evidence = TRUE
         \/ g.ref \in Contracts /\ g.ref # NoRef /\ g.evidence = FALSE
  <1>1. CASE mode = "CONTRACT"
    <2>1. PICK k \in Contracts : g = [ref |-> k, evidence |-> FALSE]
      BY <1>1 DEF Grounds
    <2> QED
      BY <2>1
  <1>2. CASE mode # "CONTRACT"
    <2>1. g = [ref |-> NoRef, evidence |-> TRUE]
      BY <1>2 DEF Grounds
    <2> QED
      BY <2>1
  <1> QED
    BY <1>1, <1>2

LEMMA ChangeStageKeeps ==
  ASSUME OppInv, NEW t \in Targets, ChangeStage(t)
  PROVE  OppInv'
  <1>1. opp.status = "FOLLOWING" /\ t \in Stages /\ NoRef \in Refs
    BY DEF ChangeStage, MayChangeStage, Refs
  <1>2. CASE /\ t # "SIGNED"
             /\ BeginCall("STAGE", ApplyStage(t, NoRef, TRUE, "NONE", clock),
                          NoLink, FALSE)
    BY <1>1, <1>2, ChosenStageKeeps
  <1>3. CASE /\ t = "SIGNED"
             /\ \E g \in Grounds :
                   BeginCall("STAGE", ApplyStage(t, g.ref, FALSE, "NONE", clock),
                             NoLink, g.evidence)
    <2>1. PICK g \in Grounds :
             BeginCall("STAGE", ApplyStage(t, g.ref, FALSE, "NONE", clock),
                       NoLink, g.evidence)
      BY <1>3
    <2>2. CASE g.ref = NoRef /\ g.evidence = TRUE
      <3>1. BeginCall("STAGE", ApplyStage(t, NoRef, FALSE, "NONE", clock),
                      NoLink, TRUE)
        BY <2>1, <2>2
      <3> QED
        BY <1>1, <1>3, <3>1, ChosenStageKeeps
    <2>3. CASE g.ref \in Contracts /\ g.ref # NoRef /\ g.evidence = FALSE
      <3>1. BeginCall("STAGE", ApplyStage(t, g.ref, FALSE, "NONE", clock),
                      NoLink, FALSE)
        BY <2>1, <2>3
      <3>2. ASSUME NEW k \in Refs, k # NoRef,
                   BeginCall("STAGE", ApplyStage(t, k, FALSE, "NONE", clock),
                             NoLink, FALSE)
            PROVE  OppInv'
        BY <1>1, <1>3, <3>2, ChosenStageKeeps
      <3> QED
        BY <2>3, <3>1, <3>2 DEF Refs
    <2> QED
      BY <2>2, <2>3, GroundsFit
  <1> QED
    BY <1>2, <1>3 DEF ChangeStage

LEMMA SignProvisionKeeps ==
  ASSUME OppInv, NEW k \in Contracts, SignProvision(k)
  PROVE  OppInv'
  <1>1. opp.status = "FOLLOWING" /\ k \in Refs /\ k # NoRef
    BY DEF SignProvision, MayChangeStage, Refs
  <1>2. BeginCall("STAGE", ApplyStage("SIGNED", k, FALSE, "NONE", clock),
                  NoLink, FALSE)
    BY DEF SignProvision
  <1>3. "SIGNED" \in Stages
    BY DEF Stages
  <1>4. ASSUME NEW t \in Stages, t = "SIGNED",
               BeginCall("STAGE", ApplyStage(t, k, FALSE, "NONE", clock),
                         NoLink, FALSE)
        PROVE  OppInv'
    BY <1>1, <1>4, ChosenStageKeeps
  <1> QED
    BY <1>2, <1>3, <1>4

LEMMA ApplyExternalStatusKeeps ==
  ASSUME OppInv, NEW r \in Reports, NEW at \in 1..MaxTime,
         ApplyExternalStatus(r, at)
  PROVE  OppInv'
  <1> DEFINE link == [report |-> r, at |-> at]
             Begun(t, k, lost, p) ==
                BeginCall("EXTERNAL",
                          [ApplyStage(t, k, lost, p, at) EXCEPT !.ext = at],
                          link, FALSE)
  <1>0. clock \in 0..MaxTime /\ opp \in Rows
    BY RowFacts
  <1>1. /\ opp.status = "FOLLOWING" /\ at >= opp.changed /\ at >= opp.ext
        /\ BeginCall("EXTERNAL", [Mapped(r, at) EXCEPT !.ext = at], link, FALSE)
    <2>1. /\ opp.status = "FOLLOWING" /\ ~Stale(at)
          /\ BeginCall("EXTERNAL", [Mapped(r, at) EXCEPT !.ext = at], link, FALSE)
      BY DEF ApplyExternalStatus
    <2>2. at >= opp.changed /\ at >= opp.ext
      BY <1>0, <2>1 DEF Stale, Rows
    <2> HIDE DEF link
    <2> QED
      BY <2>1, <2>2
  <1>2. link \in Links /\ at \in 0..MaxTime
    BY <1>0 DEF Links
  <1>3. r \in ReportType
    OBVIOUS
  <1>4. /\ r.ref \in Refs /\ r.reason \in BOOLEAN
        /\ r.status \in {"EXPIRED", "QUOTED", "BIDDING", "WON", "LOST"}
    BY <1>3 DEF ReportType
  <1> HIDE DEF link
  <1>5. ASSUME NEW t \in Stages, NEW k \in Refs, NEW lost \in BOOLEAN,
               NEW p \in Pendings, Begun(t, k, lost, p),
               p \in {"CONTRACT", "WIN_EVIDENCE"} => t = "SIGNED" /\ k = NoRef,
               p = "LOST_REASON" <=> t = "FAILED" /\ ~lost,
               t = "SIGNED" /\ p = "NONE" => k # NoRef
        PROVE  OppInv'
    <2> DEFINE n == ApplyStage(t, k, lost, p, at)
               m == [n EXCEPT !.ext = at]
    <2>1. BeginCall("EXTERNAL", m, link, FALSE)
      BY <1>5
    <2>2. StageCopy(n, t, k, p, at, opp.ext)
      BY <1>1, <1>2, <1>5, StageApplied
    <2> HIDE DEF n
    <2>3. StageCopy(m, t, k, p, at, at)
      BY <1>2, <2>2, ReportApplied
    <2> HIDE DEF m
    <2> QED
      BY <1>1, <1>2, <1>5, <2>1, <2>3, StageCallKeeps
  <1>6. CASE r.status \in {"EXPIRED", "QUOTED", "BIDDING"}
    <2>1. PICK t \in OpenStages :
             Mapped(r, at) = ApplyStage(t, NoRef, FALSE, "NONE", at)
      BY <1>6 DEF Mapped, OpenStages
    <2>2. Begun(t, NoRef, FALSE, "NONE")
      BY <1>1, <2>1
    <2>3. t \in Stages /\ t \notin {"SIGNED", "FAILED"} /\ NoRef \in Refs
      BY DEF Stages, OpenStages, Refs
    <2> HIDE DEF Begun
    <2> QED
      BY <1>5, <2>2, <2>3 DEF Pendings
  <1>7. CASE r.status = "WON"
    <2>1. CASE mode = "LOCAL_EVIDENCE"
      <3>1. Begun("SIGNED", NoRef, FALSE, "WIN_EVIDENCE")
        BY <1>1, <1>7, <2>1 DEF Mapped
      <3> HIDE DEF Begun
      <3> QED
        BY <1>5, <3>1 DEF Pendings, Stages, Refs
    <2>2. CASE mode # "LOCAL_EVIDENCE" /\ r.ref = NoRef
      <3>1. Begun("SIGNED", NoRef, FALSE, "CONTRACT")
        BY <1>1, <1>7, <2>2 DEF Mapped
      <3> HIDE DEF Begun
      <3> QED
        BY <1>5, <3>1 DEF Pendings, Stages, Refs
    <2>3. CASE mode # "LOCAL_EVIDENCE" /\ r.ref # NoRef
      <3>1. Begun("SIGNED", r.ref, FALSE, "NONE")
        BY <1>1, <1>7, <2>3 DEF Mapped
      <3> HIDE DEF Begun
      <3> QED
        BY <1>4, <1>5, <2>3, <3>1 DEF Pendings, Stages
    <2> QED
      BY <2>1, <2>2, <2>3
  <1>8. CASE r.status = "LOST"
    <2>1. CASE r.reason = TRUE
      <3>1. Begun("FAILED", NoRef, TRUE, "NONE")
        BY <1>1, <1>8, <2>1 DEF Mapped
      <3> HIDE DEF Begun
      <3> QED
        BY <1>5, <3>1 DEF Pendings, Stages, Refs
    <2>2. CASE r.reason = FALSE
      <3>1. Begun("FAILED", NoRef, FALSE, "LOST_REASON")
        BY <1>1, <1>8, <2>2 DEF Mapped
      <3> HIDE DEF Begun
      <3> QED
        BY <1>5, <3>1 DEF Pendings, Stages, Refs
    <2> QED
      BY <1>4, <2>1, <2>2
  <1> QED
    BY <1>4, <1>6, <1>7, <1>8

(* A command that leaves the stage and its time as they are.               *)
LEMMA OtherCallKeeps ==
  ASSUME OppInv, NEW op \in {"TODO", "UPDATE", "LIFECYCLE"}, NEW m \in Rows,
         NEW ev \in BOOLEAN, BeginCall(op, m, NoLink, ev),
         Consistent(m), m.changed = opp.changed, m.ext = opp.ext,
         LET c == [op |-> op, seen |-> opp, model |-> m, link |-> NoLink,
                   evidence |-> ev]
         IN  Untouched(c) /\ BringsGround(c),
         Standing(opp) = "CLOSED" => Standing(m) = "CLOSED" /\ m.amount = opp.amount,
         Transferable(opp) => Transferable(m) /\ m.ref = opp.ref
  PROVE  OppInv'
  <1> DEFINE c == [op |-> op, seen |-> opp, model |-> m, link |-> NoLink,
                   evidence |-> ev]
  <1>1. opp \in Rows /\ Consistent(opp) /\ Dated(opp)
    BY RowFacts
  <1>2. /\ c \in Calls
        /\ c.op = op /\ c.seen = opp /\ c.model = m /\ c.evidence = ev
    BY <1>1 DEF Calls
  <1>3. Untouched(c) /\ BringsGround(c)
    OBVIOUS
  <1>4. /\ calls' = calls \cup {c} /\ opp.version < MaxVersion
        /\ UNCHANGED <<opp, evidence, links, presale, outbox, mode, clock,
                       transfers, merges>>
    BY DEF BeginCall
  <1> HIDE DEF c
  <1>5. m.stage = opp.stage
    BY <1>2, <1>3 DEF Untouched
  <1>6. Transferable(opp) => Standing(opp) = "CLOSED"
    BY DEF Transferable, Standing
  <1>7. InOrder(c)
    BY <1>1, <1>2 DEF InOrder, Rows
  <1>8. CallSound(c)
    BY <1>2, <1>3, <1>5, <1>6, <1>7 DEF CallSound
  <1>9. Dated(c.model)
    BY <1>1, <1>2 DEF Dated
  <1> QED
    BY <1>2, <1>4, <1>8, <1>9, BeginKeeps

LEMMA CompleteTerminalTodoKeeps ==
  ASSUME OppInv, CompleteTerminalTodo
  PROVE  OppInv'
  <1>1. opp \in Rows /\ Consistent(opp) /\ opp.status # "VOID"
    BY RowFacts DEF CompleteTerminalTodo
  <1>2. ASSUME NEW k \in Refs, NEW ev \in BOOLEAN, ev <=> k = NoRef,
               opp.pending \in {"CONTRACT", "WIN_EVIDENCE"},
               opp.stage = "SIGNED",
               BeginCall("TODO", [opp EXCEPT !.ref = k, !.pending = "NONE"],
                         NoLink, ev)
        PROVE  OppInv'
    <2> DEFINE m == [opp EXCEPT !.ref = k, !.pending = "NONE"]
               c == [op |-> "TODO", seen |-> opp, model |-> m, link |-> NoLink,
                     evidence |-> ev]
    <2>1. /\ m \in Rows
          /\ m.stage = opp.stage /\ m.status = opp.status
          /\ m.before = opp.before /\ m.ref = k /\ m.reason = opp.reason
          /\ m.pending = "NONE" /\ m.changed = opp.changed /\ m.ext = opp.ext
          /\ m.customer = opp.customer /\ m.link = opp.link
          /\ m.sync = opp.sync /\ m.amount = opp.amount
      BY <1>1 DEF Rows, Pendings
    <2>2. Consistent(m)
      BY <1>1, <1>2, <2>1 DEF Consistent, Standing, Lost, Rows, Statuses
    <2> HIDE DEF m
    <2>3. /\ c.op = "TODO" /\ c.seen = opp /\ c.model = m /\ c.evidence = ev
      OBVIOUS
    <2>4. ~Won(opp) /\ Won(m)
      BY <1>2, <2>1 DEF Won
    <2>5. Untouched(c) /\ BringsGround(c)
      BY <1>2, <2>1, <2>3, <2>4 DEF Untouched, BringsGround
    <2>6. Standing(m) = Standing(opp)
      BY <2>1 DEF Standing
    <2>7. BeginCall("TODO", m, NoLink, ev)
      BY <1>2 DEF m
    <2> QED
      BY <2>1, <2>2, <2>4, <2>5, <2>6, <2>7, OtherCallKeeps DEF Transferable
  <1>3. CASE /\ opp.pending = "LOST_REASON" /\ opp.stage = "FAILED"
             /\ BeginCall("TODO", [opp EXCEPT !.reason = TRUE,
                                              !.pending = "NONE"],
                          NoLink, FALSE)
    <2> DEFINE m == [opp EXCEPT !.reason = TRUE, !.pending = "NONE"]
               c == [op |-> "TODO", seen |-> opp, model |-> m, link |-> NoLink,
                     evidence |-> FALSE]
    <2>1. /\ m \in Rows
          /\ m.stage = opp.stage /\ m.status = opp.status
          /\ m.before = opp.before /\ m.ref = opp.ref /\ m.reason = TRUE
          /\ m.pending = "NONE" /\ m.changed = opp.changed /\ m.ext = opp.ext
          /\ m.customer = opp.customer /\ m.link = opp.link
          /\ m.sync = opp.sync /\ m.amount = opp.amount
      BY <1>1 DEF Rows, Pendings
    <2>2. Consistent(m)
      BY <1>1, <1>3, <2>1 DEF Consistent, Standing, Lost
    <2> HIDE DEF m
    <2>3. /\ c.op = "TODO" /\ c.seen = opp /\ c.model = m /\ c.evidence = FALSE
      OBVIOUS
    <2>4. ~Won(opp) /\ ~Won(m)
      BY <1>3, <2>1 DEF Won
    <2>5. Untouched(c) /\ BringsGround(c)
      BY <2>1, <2>3, <2>4 DEF Untouched, BringsGround
    <2>6. Standing(m) = Standing(opp)
      BY <2>1 DEF Standing
    <2>7. BeginCall("TODO", m, NoLink, FALSE)
      BY <1>3 DEF m
    <2> QED
      BY <2>1, <2>2, <2>4, <2>5, <2>6, <2>7, OtherCallKeeps DEF Transferable
  <1>4. CASE /\ opp.pending \in {"CONTRACT", "WIN_EVIDENCE"}
             /\ opp.stage = "SIGNED"
             /\ \E g \in Grounds :
                   BeginCall("TODO", [opp EXCEPT !.ref = g.ref,
                                                 !.pending = "NONE"],
                             NoLink, g.evidence)
    <2>1. PICK g \in Grounds :
             BeginCall("TODO", [opp EXCEPT !.ref = g.ref, !.pending = "NONE"],
                       NoLink, g.evidence)
      BY <1>4
    <2>2. CASE g.ref = NoRef /\ g.evidence = TRUE
      <3>1. BeginCall("TODO", [opp EXCEPT !.ref = NoRef, !.pending = "NONE"],
                      NoLink, TRUE)
        BY <2>1, <2>2
      <3> QED
        BY <1>2, <1>4, <3>1 DEF Refs
    <2>3. CASE g.ref \in Contracts /\ g.ref # NoRef /\ g.evidence = FALSE
      <3>1. BeginCall("TODO", [opp EXCEPT !.ref = g.ref, !.pending = "NONE"],
                      NoLink, FALSE)
        BY <2>1, <2>3
      <3> QED
        BY <1>2, <1>4, <2>3, <3>1 DEF Refs
    <2> QED
      BY <2>2, <2>3, GroundsFit
  <1> QED
    BY <1>3, <1>4 DEF CompleteTerminalTodo

LEMMA UpdateKeeps ==
  ASSUME OppInv, NEW a \in Amounts, Update(a)
  PROVE  OppInv'
  <1> DEFINE m == [opp EXCEPT !.amount = a]
             c == [op |-> "UPDATE", seen |-> opp, model |-> m, link |-> NoLink,
                   evidence |-> FALSE]
  <1>1. opp \in Rows /\ Consistent(opp)
    BY RowFacts
  <1>2. /\ opp.status # "VOID" /\ (opp.status = "CLOSED" => a = opp.amount)
        /\ BeginCall("UPDATE", m, NoLink, FALSE)
    BY DEF Update, MayUpdate
  <1>3. /\ m \in Rows
        /\ m.stage = opp.stage /\ m.status = opp.status
        /\ m.before = opp.before /\ m.ref = opp.ref /\ m.reason = opp.reason
        /\ m.pending = opp.pending /\ m.changed = opp.changed
        /\ m.ext = opp.ext /\ m.customer = opp.customer
        /\ m.link = opp.link /\ m.sync = opp.sync /\ m.amount = a
    BY <1>1 DEF Rows
  <1> HIDE DEF m
  <1>4. Consistent(m) /\ Standing(m) = Standing(opp)
    BY <1>1, <1>3 DEF Consistent, Standing, Lost
  <1>5. /\ c.op = "UPDATE" /\ c.seen = opp /\ c.model = m
        /\ c.evidence = FALSE
    OBVIOUS
  <1>6. Untouched(c) /\ BringsGround(c)
    BY <1>3, <1>5 DEF Untouched, BringsGround
  <1>7. Standing(opp) = "CLOSED" => m.amount = opp.amount
    BY <1>2, <1>3 DEF Standing
  <1> QED
    BY <1>2, <1>3, <1>4, <1>6, <1>7, OtherCallKeeps DEF Transferable, Won

(* Void and Restore: only the status and the one before voiding change.    *)
LEMMA LifecycleCallKeeps ==
  ASSUME OppInv, NEW s \in Statuses, NEW b \in {"NONE", "FOLLOWING", "CLOSED"},
         BeginCall("LIFECYCLE", [opp EXCEPT !.status = s, !.before = b],
                   NoLink, FALSE),
         (IF s = "VOID" THEN b ELSE s) = Standing(opp),
         b # "NONE" <=> s = "VOID",
         opp.ref = NoRef
  PROVE  OppInv'
  <1> DEFINE m == [opp EXCEPT !.status = s, !.before = b]
             c == [op |-> "LIFECYCLE", seen |-> opp, model |-> m,
                   link |-> NoLink, evidence |-> FALSE]
  <1>1. opp \in Rows /\ Consistent(opp)
    BY RowFacts
  <1>2. BeginCall("LIFECYCLE", m, NoLink, FALSE)
    OBVIOUS
  <1>3. /\ m \in Rows
        /\ m.stage = opp.stage /\ m.status = s
        /\ m.before = b /\ m.ref = opp.ref /\ m.reason = opp.reason
        /\ m.pending = opp.pending /\ m.changed = opp.changed
        /\ m.ext = opp.ext /\ m.customer = opp.customer
        /\ m.link = opp.link /\ m.sync = opp.sync /\ m.amount = opp.amount
    BY <1>1 DEF Rows
  <1> HIDE DEF m
  <1>4. Standing(m) = Standing(opp)
    BY <1>3 DEF Standing
  <1>5. Consistent(m)
    BY <1>1, <1>3, <1>4 DEF Consistent, Lost
  <1>6. /\ c.op = "LIFECYCLE" /\ c.seen = opp /\ c.model = m
        /\ c.evidence = FALSE
    OBVIOUS
  <1>7. Untouched(c) /\ BringsGround(c)
    BY <1>3, <1>6 DEF Untouched, BringsGround
  <1> QED
    BY <1>2, <1>3, <1>4, <1>5, <1>7, OtherCallKeeps DEF Transferable

LEMMA VoidKeeps ==
  ASSUME OppInv, Void
  PROVE  OppInv'
  <1>1. opp \in Rows
    BY RowFacts
  <1>2. /\ opp.status \in {"FOLLOWING", "CLOSED"} /\ opp.ref = NoRef
        /\ BeginCall("LIFECYCLE", [opp EXCEPT !.status = "VOID",
                                              !.before = opp.status],
                     NoLink, FALSE)
    BY <1>1 DEF Void, VoidBlocked, Rows, Statuses
  <1>3. Standing(opp) = opp.status
    BY <1>2 DEF Standing
  <1> QED
    BY <1>2, <1>3, LifecycleCallKeeps DEF Statuses

LEMMA RestoreKeeps ==
  ASSUME OppInv, Restore
  PROVE  OppInv'
  <1>1. opp \in Rows /\ Consistent(opp)
    BY RowFacts
  <1>2. /\ opp.status = "VOID"
        /\ BeginCall("LIFECYCLE", [opp EXCEPT !.status = opp.before,
                                              !.before = "NONE"],
                     NoLink, FALSE)
    BY DEF Restore
  <1>3. opp.before \in {"FOLLOWING", "CLOSED"} /\ opp.ref = NoRef
    BY <1>1, <1>2 DEF Consistent, Rows
  <1>4. Standing(opp) = opp.before
    BY <1>2 DEF Standing
  <1> QED
    BY <1>2, <1>3, <1>4, LifecycleCallKeeps DEF Statuses

-----------------------------------------------------------------------------
(* A transaction that writes the row: what was read before it is outdated. *)
LEMMA RewriteKeeps ==
  ASSUME OppInv, opp' \in Rows, opp'.version = opp.version + 1,
         Consistent(opp'), Dated(opp'), WinHasOneGround',
         evidence' \in BOOLEAN, links' \in Seq(Links),
         UNCHANGED <<presale, outbox, mode, clock, transfers>>,
         calls' \subseteq calls, merges' \subseteq Merges,
         Transferable(opp) => /\ Transferable(opp')
                              /\ opp'.ref = opp.ref /\ opp'.amount = opp.amount
  PROVE  OppInv'
  <1> USE DEF OppInv
  <1>1. OpportunityTypeOK'
    BY DEF OpportunityTypeOK
  <1>2. RowFits'
    BY DEF RowFits, Dated
  <1>3. opp.version \in Nat /\ opp \in Rows
    BY DEF OpportunityTypeOK, Rows
  <1>4. OutboxFits'
    <2> SUFFICES ASSUME NEW e \in outbox
                 PROVE  /\ opp'.status = "CLOSED" /\ opp'.stage = "SIGNED"
                        /\ opp'.pending = "NONE" /\ opp'.ref = e.ref
                        /\ opp'.amount = e.amount /\ opp'.version >= e.version
      BY DEF OutboxFits, TransferredOnce, EventStandsForRow
    <2>1. e.ref \in Contracts /\ e.version \in Nat
      BY DEF OpportunityTypeOK, Events
    <2>2. /\ opp.status = "CLOSED" /\ opp.stage = "SIGNED"
          /\ opp.pending = "NONE" /\ opp.ref = e.ref
          /\ opp.amount = e.amount /\ opp.version >= e.version
      BY DEF OutboxFits, EventStandsForRow
    <2>3. Transferable(opp)
      BY <2>1, <2>2 DEF Transferable, Won
    <2>4. /\ Transferable(opp')
          /\ opp'.ref = opp.ref /\ opp'.amount = opp.amount
      BY <2>3
    <2> QED
      BY <1>3, <2>1, <2>2, <2>4 DEF Transferable, Won
  <1>5. CallsFit'
    <2> SUFFICES ASSUME NEW c \in calls
                 PROVE  CallSound(c) /\ CallCurrent(c)'
      BY DEF CallsFit
    <2>1. CallSound(c) /\ CallCurrent(c)
      BY DEF CallsFit
    <2>2. c.seen \in Rows
      BY DEF OpportunityTypeOK, Calls
    <2>3. c.seen.version \in Nat
      BY <2>2 DEF Rows
    <2> QED
      BY <1>3, <2>1, <2>3 DEF CallCurrent, Dated
  <1>6. TransfersFit'
    <2> SUFFICES ASSUME NEW t \in transfers
                 PROVE  t.version <= opp'.version
      BY DEF TransfersFit
    <2>1. t.version \in Nat /\ t.version <= opp.version
      BY DEF TransfersFit, OpportunityTypeOK, Transfers
    <2> QED
      BY <1>3, <2>1
  <1> QED
    BY <1>1, <1>2, <1>4, <1>5, <1>6

(* The columns that a transaction takes over from the copy of its command. *)
CopiedFrom(m) ==
    /\ opp'.stage = m.stage /\ opp'.status = m.status
    /\ opp'.before = m.before /\ opp'.ref = m.ref /\ opp'.reason = m.reason
    /\ opp'.pending = m.pending /\ opp'.changed = m.changed
    /\ opp'.ext = m.ext /\ opp'.amount = m.amount

(* The version makes sure that the row is still the one that was read, so  *)
(* that the transaction writes all of the copy.                            *)
LEMMA CommitWrites ==
  ASSUME OppInv, NEW c \in calls, Commit(c)
  PROVE  /\ c.seen = opp /\ c \in Calls /\ CallSound(c)
         /\ Dated(c.model)
         /\ opp' \in Rows /\ opp'.version = opp.version + 1
         /\ CopiedFrom(c.model)
         /\ c.evidence => ~evidence
         /\ evidence' = (evidence \/ c.evidence)
         /\ links' \in Seq(Links) /\ (c.op # "EXTERNAL" => UNCHANGED links)
         /\ calls' = calls \ {c}
         /\ UNCHANGED <<presale, outbox, mode, clock, transfers, merges>>
  <1>1. /\ c \in Calls /\ CallSound(c) /\ CallCurrent(c)
        /\ opp \in Rows /\ links \in Seq(Links)
    BY DEF OppInv, OpportunityTypeOK, CallsFit
  <1>2. SameVersion(c)
    BY DEF Commit, CommitStage, CommitTodo, CommitUpdate, CommitLifecycle
  <1>3. c.seen = opp /\ opp.version < MaxVersion /\ Dated(c.model)
    BY <1>1, <1>2 DEF SameVersion, CallCurrent
  <1>4. c.model \in Rows
    BY <1>1 DEF Calls
  <1>5. /\ calls' = calls \ {c}
        /\ UNCHANGED <<presale, outbox, mode, clock, transfers, merges>>
    BY DEF Commit, Drop, CommitStage, CommitTodo, CommitUpdate, CommitLifecycle
  <1>6. opp.version \in Nat /\ opp.version + 1 \in 1..MaxVersion
    BY <1>1, <1>3 DEF Rows
  <1>7. Untouched(c)
    BY <1>1 DEF CallSound
  <1>8. CASE CommitStage(c)
    <2>1. /\ opp' = [opp EXCEPT !.stage = c.model.stage,
                  !.status = c.model.status,
                  !.ref = c.model.ref, !.reason = c.model.reason,
                  !.pending = c.model.pending, !.changed = c.model.changed,
                  !.ext = c.model.ext, !.version = @ + 1]
          /\ SaveEvidence(c)
          /\ links' = IF c.op = "EXTERNAL" THEN Append(links, c.link) ELSE links
          /\ c.op \in {"STAGE", "EXTERNAL"}
      BY <1>8 DEF CommitStage
    <2>2. opp' \in Rows /\ opp'.version = opp.version + 1
      BY <1>1, <1>4, <1>6, <2>1 DEF Rows
    <2>3. CopiedFrom(c.model)
      BY <1>1, <1>3, <1>7, <2>1 DEF CopiedFrom, Untouched, Rows
    <2>4. links' \in Seq(Links)
      BY <1>1, <2>1 DEF CallSound
    <2> QED
      BY <1>1, <1>3, <1>5, <2>1, <2>2, <2>3, <2>4 DEF SaveEvidence
  <1>9. CASE CommitTodo(c)
    <2>1. /\ opp' = [opp EXCEPT !.ref = c.model.ref, !.reason = c.model.reason,
                  !.pending = c.model.pending, !.version = @ + 1]
          /\ SaveEvidence(c) /\ links' = links /\ c.op = "TODO"
      BY <1>9 DEF CommitTodo
    <2>2. opp' \in Rows /\ opp'.version = opp.version + 1
      BY <1>1, <1>4, <1>6, <2>1 DEF Rows
    <2>3. CopiedFrom(c.model)
      BY <1>1, <1>3, <1>7, <2>1 DEF CopiedFrom, Untouched, Rows
    <2> QED
      BY <1>1, <1>3, <1>5, <2>1, <2>2, <2>3 DEF SaveEvidence
  <1>10. CASE CommitUpdate(c)
    <2>1. /\ opp' = [opp EXCEPT !.amount = c.model.amount, !.version = @ + 1]
          /\ UNCHANGED <<evidence, links>> /\ c.op = "UPDATE"
      BY <1>10 DEF CommitUpdate
    <2>2. opp' \in Rows /\ opp'.version = opp.version + 1
      BY <1>1, <1>4, <1>6, <2>1 DEF Rows
    <2>3. CopiedFrom(c.model)
      BY <1>1, <1>3, <1>7, <2>1 DEF CopiedFrom, Untouched, Rows
    <2>4. c.evidence = FALSE
      BY <1>1, <2>1 DEF CallSound, BringsGround, Calls
    <2>5. evidence \in BOOLEAN
      BY DEF OppInv, OpportunityTypeOK
    <2> QED
      BY <1>1, <1>3, <1>5, <2>1, <2>2, <2>3, <2>4, <2>5
  <1>11. CASE CommitLifecycle(c)
    <2>1. /\ opp' = [opp EXCEPT !.status = c.model.status,
                  !.before = c.model.before, !.version = @ + 1]
          /\ UNCHANGED <<evidence, links>> /\ c.op = "LIFECYCLE"
      BY <1>11 DEF CommitLifecycle
    <2>2. opp' \in Rows /\ opp'.version = opp.version + 1
      BY <1>1, <1>4, <1>6, <2>1 DEF Rows
    <2>3. CopiedFrom(c.model)
      BY <1>1, <1>3, <1>7, <2>1 DEF CopiedFrom, Untouched, Rows
    <2>4. c.evidence = FALSE
      BY <1>1, <2>1 DEF CallSound, BringsGround, Calls
    <2>5. evidence \in BOOLEAN
      BY DEF OppInv, OpportunityTypeOK
    <2> QED
      BY <1>1, <1>3, <1>5, <2>1, <2>2, <2>3, <2>4, <2>5
  <1> QED
    BY <1>8, <1>9, <1>10, <1>11 DEF Commit

LEMMA CommitKeeps ==
  ASSUME OppInv, NEW c \in calls, Commit(c)
  PROVE  OppInv'
  <1>1. /\ c.seen = opp /\ c \in Calls /\ CallSound(c)
        /\ Dated(c.model)
        /\ opp' \in Rows /\ opp'.version = opp.version + 1
        /\ CopiedFrom(c.model)
        /\ c.evidence => ~evidence
        /\ evidence' = (evidence \/ c.evidence)
        /\ links' \in Seq(Links)
        /\ calls' = calls \ {c}
        /\ UNCHANGED <<presale, outbox, mode, clock, transfers, merges>>
    BY CommitWrites
  <1>2. /\ evidence \in BOOLEAN /\ c.evidence \in BOOLEAN
        /\ WinHasOneGround /\ merges \subseteq Merges
    BY <1>1 DEF OppInv, OpportunityTypeOK, RowFits, Calls
  <1>3. evidence' \in BOOLEAN
    BY <1>1, <1>2
  <1>4. Consistent(opp')
    BY <1>1 DEF CallSound, CopiedFrom, Consistent, Standing, Lost
  <1>5. Won(opp') <=> Won(c.model)
    BY <1>1 DEF CopiedFrom, Won
  <1>6. WinHasOneGround'
    <2>1. CASE c.op \in {"UPDATE", "LIFECYCLE"}
      <3>1. /\ c.model.stage = opp.stage /\ c.model.ref = opp.ref
            /\ c.model.pending = opp.pending /\ ~c.evidence
        BY <1>1, <2>1 DEF CallSound, Untouched, BringsGround
      <3>2. /\ opp'.stage = opp.stage /\ opp'.ref = opp.ref
            /\ opp'.pending = opp.pending
        BY <1>1, <3>1 DEF CopiedFrom
      <3>3. evidence' = evidence
        BY <1>1, <1>2, <3>1
      <3> QED
        BY <1>2, <3>2, <3>3 DEF WinHasOneGround
    <2>2. CASE c.op \notin {"UPDATE", "LIFECYCLE"}
      <3>1. /\ ~Won(opp)
            /\ c.evidence => Won(c.model)
            /\ Won(c.model) => (c.evidence <=> c.model.ref = NoRef)
        BY <1>1, <2>2 DEF CallSound, BringsGround
      <3>2. evidence = FALSE
        BY <1>2, <3>1 DEF WinHasOneGround, Won
      <3>3. evidence' = c.evidence
        BY <1>1, <1>2, <3>2
      <3>4. opp'.ref = c.model.ref
        BY <1>1 DEF CopiedFrom
      <3> QED
        BY <1>5, <3>1, <3>3, <3>4 DEF WinHasOneGround, Won
    <2> QED
      BY <2>1, <2>2
  <1>7. Transferable(opp) => /\ Transferable(opp')
                             /\ opp'.ref = opp.ref /\ opp'.amount = opp.amount
    BY <1>1 DEF CallSound, CopiedFrom, Transferable, Won
  <1>8. Dated(opp')
    BY <1>1 DEF CopiedFrom, Dated
  <1> QED
    BY <1>1, <1>2, <1>3, <1>4, <1>6, <1>7, <1>8, RewriteKeeps

LEMMA ContractLinkCallbackKeeps ==
  ASSUME OppInv, NEW e \in outbox, NEW s \in {"CONFIRMED", "EXCEPTION"},
         NEW n \in 1..MaxSync, ContractLinkCallback(e, s, n)
  PROVE  OppInv'
  <1>1. /\ opp \in Rows /\ Consistent(opp) /\ Dated(opp)
        /\ opp.version < MaxVersion
        /\ opp' = [opp EXCEPT !.link = s, !.sync = n, !.version = @ + 1]
        /\ UNCHANGED <<evidence, links, presale, outbox, mode, clock,
                       calls, transfers, merges>>
    BY RowFacts DEF ContractLinkCallback
  <1>2. opp.version + 1 \in 1..MaxVersion /\ n \in 0..MaxSync
    BY <1>1 DEF Rows
  <1>3. /\ opp' \in Rows /\ opp'.version = opp.version + 1
        /\ opp'.stage = opp.stage /\ opp'.status = opp.status
        /\ opp'.before = opp.before /\ opp'.ref = opp.ref
        /\ opp'.reason = opp.reason /\ opp'.pending = opp.pending
        /\ opp'.changed = opp.changed /\ opp'.amount = opp.amount
        /\ opp'.ext = opp.ext
    BY <1>1, <1>2 DEF Rows
  <1>4. Consistent(opp')
    BY <1>1, <1>3 DEF Consistent, Standing, Lost
  <1>5. /\ WinHasOneGround /\ evidence \in BOOLEAN /\ links \in Seq(Links)
        /\ merges \subseteq Merges
    BY DEF OppInv, RowFits, OpportunityTypeOK
  <1>6. WinHasOneGround'
    BY <1>1, <1>3, <1>5 DEF WinHasOneGround
  <1>7. Dated(opp')
    BY <1>1, <1>3 DEF Dated
  <1> QED
    BY <1>1, <1>3, <1>4, <1>5, <1>6, <1>7, RewriteKeeps DEF Transferable, Won

LEMMA MergeKeeps ==
  ASSUME OppInv, NEW m \in merges, Merge(m)
  PROVE  OppInv'
  <1>1. /\ merges' = merges \ {m}
        /\ UNCHANGED <<evidence, links, presale, outbox, mode, clock,
                       calls, transfers>>
    BY DEF Merge
  <1>2. /\ WinHasOneGround /\ evidence \in BOOLEAN /\ links \in Seq(Links)
        /\ merges \subseteq Merges /\ presale \in BOOLEAN /\ mode \in Modes
        /\ clock \in 0..MaxTime
    BY DEF OppInv, RowFits, OpportunityTypeOK
  <1>3. CASE UNCHANGED opp
    BY <1>1, <1>2, <1>3, QuietKeeps
  <1>4. CASE /\ opp.version < MaxVersion
             /\ opp' = [opp EXCEPT !.customer = Survivor, !.version = @ + 1]
    <2>1. opp \in Rows /\ Consistent(opp) /\ Dated(opp)
      BY RowFacts
    <2>2. opp.version + 1 \in 1..MaxVersion
      BY <1>4, <2>1 DEF Rows
    <2>3. /\ opp' \in Rows /\ opp'.version = opp.version + 1
          /\ opp'.stage = opp.stage /\ opp'.status = opp.status
          /\ opp'.before = opp.before /\ opp'.ref = opp.ref
          /\ opp'.reason = opp.reason /\ opp'.pending = opp.pending
          /\ opp'.changed = opp.changed /\ opp'.amount = opp.amount
          /\ opp'.ext = opp.ext
      BY <1>4, <2>1, <2>2 DEF Rows
    <2>4. Consistent(opp')
      BY <2>1, <2>3 DEF Consistent, Standing, Lost
    <2>5. WinHasOneGround'
      BY <1>1, <1>2, <2>3 DEF WinHasOneGround
    <2>6. Dated(opp')
      BY <2>1, <2>3 DEF Dated
    <2> QED
      BY <1>1, <1>2, <2>3, <2>4, <2>5, <2>6, RewriteKeeps
      DEF Transferable, Won
  <1> QED
    BY <1>3, <1>4 DEF Merge

LEMMA BeginTransferKeeps ==
  ASSUME OppInv, BeginTransfer
  PROVE  OppInv'
  <1> DEFINE t == [version |-> opp.version, accepted |-> outbox # {}]
  <1>1. /\ transfers' = transfers \cup {t}
        /\ UNCHANGED <<opp, evidence, links, presale, outbox, mode, clock,
                       calls, merges>>
    BY DEF BeginTransfer
  <1>2. OpportunityTypeOK /\ opp.version \in 1..MaxVersion
    BY DEF OppInv, OpportunityTypeOK, Rows
  <1>3. t \in Transfers /\ t.version = opp.version
    BY <1>2 DEF Transfers
  <1>4. ~t.accepted => outbox = {}
    OBVIOUS
  <1> HIDE DEF t
  <1>5. OpportunityTypeOK'
    BY <1>1, <1>2, <1>3 DEF OpportunityTypeOK
  <1>6. RowFits' /\ OutboxFits'
    BY <1>1 DEF OppInv, RowFits, Dated, WinHasOneGround, OutboxFits,
                TransferredOnce, EventStandsForRow
  <1>7. CallsFit'
    BY <1>1 DEF OppInv, CallsFit, CallCurrent, Dated
  <1>8. TransfersFit'
    BY <1>1, <1>2, <1>3, <1>4 DEF OppInv, TransfersFit
  <1> QED
    BY <1>5, <1>6, <1>7, <1>8 DEF OppInv

(* An acceptance that passes its checks finds no earlier one: one before   *)
(* the snapshot is in it, one after it has the version of the transfer or  *)
(* a later one, and the row has no later version.                          *)
LEMMA ContractTransferKeeps ==
  ASSUME OppInv, NEW t \in transfers, ContractTransfer(t)
  PROVE  OppInv'
  <1>1. /\ transfers' = transfers \ {t}
        /\ UNCHANGED <<opp, evidence, links, presale, mode, clock,
                       calls, merges>>
    BY DEF ContractTransfer
  <1>2. OpportunityTypeOK /\ opp \in Rows
    BY DEF OppInv, OpportunityTypeOK
  <1>3. CASE UNCHANGED outbox
    BY <1>1, <1>2, <1>3, QuietKeeps DEF OpportunityTypeOK
  <1>4. CASE /\ NotAccepted(t) /\ opp.version = t.version
             /\ opp.status = "CLOSED" /\ opp.stage = "SIGNED"
             /\ opp.ref # NoRef /\ opp.pending = "NONE"
             /\ outbox' = outbox \cup {[version |-> opp.version,
                                        ref |-> opp.ref, amount |-> opp.amount]}
    <2> DEFINE n == [version |-> opp.version, ref |-> opp.ref,
                     amount |-> opp.amount]
    <2>1. outbox = {}
      <3> SUFFICES ASSUME NEW e \in outbox PROVE FALSE
        OBVIOUS
      <3>1. e.version \in Nat /\ opp.version \in Nat
        BY <1>2 DEF OpportunityTypeOK, Events, Rows
      <3>2. e.version >= t.version
        BY <1>4 DEF OppInv, TransfersFit, NotAccepted
      <3>3. opp.version >= e.version
        BY DEF OppInv, OutboxFits, EventStandsForRow
      <3>4. e.version # t.version
        BY <1>4 DEF NotAccepted
      <3> QED
        BY <1>4, <3>1, <3>2, <3>3, <3>4
    <2>2. outbox' = {n}
      BY <1>4, <2>1
    <2>3. /\ n \in Events /\ n.version = opp.version /\ n.ref = opp.ref
          /\ n.amount = opp.amount
      BY <1>2, <1>4 DEF Rows, Refs, Events
    <2> HIDE DEF n
    <2>4. OpportunityTypeOK'
      BY <1>1, <1>2, <2>2, <2>3 DEF OpportunityTypeOK
    <2>5. opp.version \in Nat
      BY <1>2 DEF Rows
    <2>6. OutboxFits'
      BY <1>1, <1>4, <2>2, <2>3, <2>5
      DEF OutboxFits, TransferredOnce, EventStandsForRow
    <2>7. RowFits' /\ CallsFit'
      BY <1>1 DEF OppInv, RowFits, Dated, WinHasOneGround, CallsFit, CallCurrent
    <2>8. TransfersFit'
      BY <1>1, <2>2, <2>3 DEF OppInv, TransfersFit
    <2> QED
      BY <2>4, <2>6, <2>7, <2>8 DEF OppInv
  <1> QED
    BY <1>3, <1>4 DEF ContractTransfer

-----------------------------------------------------------------------------
LEMMA StepKeeps ==
  ASSUME OppInv, [OpportunityNext]_vars
  PROVE  OppInv'
  <1>1. /\ presale \in BOOLEAN /\ mode \in Modes /\ clock \in 0..MaxTime
        /\ merges \subseteq Merges /\ clock \in Nat /\ opp.ref \in Refs
    BY DEF OppInv, OpportunityTypeOK, Rows
  <1>2. CASE \E t \in Targets : ChangeStage(t)
    BY <1>2, ChangeStageKeeps
  <1>3. CASE \E k \in Contracts : SignProvision(k)
    BY <1>3, SignProvisionKeeps
  <1>4. CASE \E r \in Reports, at \in 1..MaxTime : ApplyExternalStatus(r, at)
    BY <1>4, ApplyExternalStatusKeeps
  <1>5. CASE CompleteTerminalTodo
    BY <1>5, CompleteTerminalTodoKeeps
  <1>6. CASE \E a \in Amounts : Update(a)
    BY <1>6, UpdateKeeps
  <1>7. CASE Void \/ Restore
    BY <1>7, VoidKeeps, RestoreKeeps
  <1>8. CASE \E c \in calls : Commit(c)
    BY <1>8, CommitKeeps
  <1>9. CASE \E c \in calls : Abort(c)
    BY <1>1, <1>9, QuietKeeps DEF Abort, Drop
  <1>10. CASE BeginTransfer
    BY <1>10, BeginTransferKeeps
  <1>11. CASE \E t \in transfers : ContractTransfer(t)
    BY <1>11, ContractTransferKeeps
  <1>12. CASE \E e \in outbox, s \in {"CONFIRMED", "EXCEPTION"}, n \in 1..MaxSync :
                 ContractLinkCallback(e, s, n)
    BY <1>12, ContractLinkCallbackKeeps
  <1>13. CASE BeginMerge
    <2>1. [contracted |-> opp.ref # NoRef] \in Merges
      BY DEF Merges
    <2>2. merges' \subseteq Merges
      BY <1>1, <1>13, <2>1 DEF BeginMerge
    <2> QED
      BY <1>1, <1>13, <2>2, QuietKeeps DEF BeginMerge
  <1>14. CASE \E m \in merges : Merge(m)
    BY <1>14, MergeKeeps
  <1>15. CASE CreatePresale \/ EndPresale
    <2>1. /\ presale' \in BOOLEAN
          /\ UNCHANGED <<opp, evidence, links, outbox, mode, clock,
                         calls, transfers, merges>>
      BY <1>15 DEF CreatePresale, EndPresale
    <2> QED
      BY <1>1, <2>1, QuietKeeps
  <1>16. CASE SwitchMode
    BY <1>1, <1>16, QuietKeeps DEF SwitchMode
  <1>17. CASE Tick
    <2>1. clock' \in 0..MaxTime /\ clock <= clock'
      BY <1>1, <1>17 DEF Tick
    <2> QED
      BY <1>1, <1>17, <2>1, QuietKeeps DEF Tick
  <1>18. CASE UNCHANGED vars
    BY <1>1, <1>18, QuietKeeps DEF vars
  <1> QED
    BY <1>2, <1>3, <1>4, <1>5, <1>6, <1>7, <1>8, <1>9, <1>10, <1>11, <1>12,
       <1>13, <1>14, <1>15, <1>16, <1>17, <1>18
    DEF OpportunityNext

(* The inductive invariant: what the row, its evidence and its event say   *)
(* of each other, and what a command under way may do to them.             *)
THEOREM OppInvariant == OpportunitySpec => []OppInv
  BY InitFits, StepKeeps, PTL DEF OpportunitySpec

(* Every value stays of its type: the version and the times within their   *)
(* bounds, and commands, transfers and merges made of values the row had.  *)
THEOREM OpportunityTyped == OpportunitySpec => []OpportunityTypeOK
  <1>1. OppInv => OpportunityTypeOK
    BY DEF OppInv
  <1> QED
    BY <1>1, OppInvariant, PTL

(* The stage, status, reference, reason and pending item of the row agree, *)
(* whatever commands, reports and mode switches interleave (applyStage,    *)
(* CompleteTerminalTodo, Void, Restore).                                   *)
THEOREM RowStaysConsistent == OpportunitySpec => []TerminalConsistent
  <1>1. OppInv => TerminalConsistent
    BY DEF OppInv, RowFits, TerminalConsistent
  <1> QED
    BY <1>1, OppInvariant, PTL

(* A win has exactly one ground (prepareWinConfirmation,                   *)
(* saveWinConfirmation).                                                   *)
THEOREM WinIsGrounded == OpportunitySpec => []WinHasOneGround
  <1>1. OppInv => WinHasOneGround
    BY DEF OppInv, RowFits
  <1> QED
    BY <1>1, OppInvariant, PTL

(* One acceptance for the transfer (ContractTransferAccepted, the event    *)
(* id), however many were asked for at once.                               *)
THEOREM AcceptedOnce == OpportunitySpec => []TransferredOnce
  <1>1. OppInv => TransferredOnce
    BY DEF OppInv, OutboxFits
  <1> QED
    BY <1>1, OppInvariant, PTL

(* What was accepted keeps standing for the row: no legal sequence of      *)
(* commands makes a dead letter of it (authoritativeCommand).              *)
THEOREM AcceptedStaysDeliverable == OpportunitySpec => []EventStandsForRow
  <1>1. OppInv => EventStandsForRow
    BY DEF OppInv, OutboxFits
  <1> QED
    BY <1>1, OppInvariant, PTL

(* What one step does to the row.                                          *)
RowMoves ==
    /\ opp'.ext >= opp.ext
    /\ opp'.changed < opp.changed => opp.changed = opp.ext /\ UNCHANGED links
    /\ Standing(opp) = "CLOSED" =>
           /\ Standing(opp') = "CLOSED"
           /\ opp'.stage = opp.stage /\ opp'.amount = opp.amount

LEMMA StepMovesRow ==
  ASSUME OppInv, [OpportunityNext]_vars
  PROVE  RowMoves
  <1>1. opp \in Rows
    BY RowFacts
  <1>2. opp.changed \in Nat /\ opp.ext \in Nat
    BY <1>1 DEF Rows
  <1>3. CASE opp' = opp
    BY <1>2, <1>3 DEF RowMoves
  <1>4. CASE \E c \in calls : Commit(c)
    <2>1. PICK c \in calls : Commit(c)
      BY <1>4
    <2>2. /\ c.seen = opp /\ CallSound(c) /\ CopiedFrom(c.model)
          /\ c.op # "EXTERNAL" => UNCHANGED links
          /\ opp' \in Rows
      BY <2>1, CommitWrites
    <2>3. opp'.changed \in Nat
      BY <2>2 DEF Rows
    <2>4. /\ opp'.ext >= opp.ext
          /\ opp'.changed < opp.changed =>
                opp.changed = opp.ext /\ UNCHANGED links
      BY <1>2, <2>2, <2>3 DEF CallSound, CopiedFrom, InOrder
    <2> QED
      BY <2>2, <2>4 DEF CallSound, CopiedFrom, Standing, RowMoves
  <1>5. ASSUME /\ opp'.changed = opp.changed /\ opp'.amount = opp.amount
               /\ opp'.stage = opp.stage /\ opp'.status = opp.status
               /\ opp'.before = opp.before /\ opp'.ext = opp.ext
        PROVE  RowMoves
    BY <1>2, <1>5 DEF RowMoves, Standing
  <1>6. CASE \E e \in outbox, s \in {"CONFIRMED", "EXCEPTION"}, n \in 1..MaxSync :
                 ContractLinkCallback(e, s, n)
    <2>1. PICK s, n :
             opp' = [opp EXCEPT !.link = s, !.sync = n, !.version = @ + 1]
      BY <1>6 DEF ContractLinkCallback
    <2> QED
      BY <1>1, <1>5, <2>1 DEF Rows
  <1>7. CASE opp' = [opp EXCEPT !.customer = Survivor, !.version = @ + 1]
    BY <1>1, <1>5, <1>7 DEF Rows
  <1>8. \/ opp' = opp
        \/ \E c \in calls : Commit(c)
        \/ \E e \in outbox, s \in {"CONFIRMED", "EXCEPTION"}, n \in 1..MaxSync :
              ContractLinkCallback(e, s, n)
        \/ opp' = [opp EXCEPT !.customer = Survivor, !.version = @ + 1]
    BY DEF OpportunityNext, vars, ChangeStage, BeginCall, SignProvision,
           ApplyExternalStatus, CompleteTerminalTodo, Update, Void, Restore,
           Abort, BeginTransfer, ContractTransfer, BeginMerge, Merge,
           CreatePresale, EndPresale, SwitchMode, Tick
  <1> QED
    BY <1>3, <1>4, <1>6, <1>7, <1>8

(* Reports take effect in the order of their times, whatever they are      *)
(* dated; only a user's change of a stage that a report has dated ahead    *)
(* sets the time of the stage back (the stale check of                     *)
(* ApplyExternalStatus and the version of UpdateStage).                    *)
THEOREM ReportsTakeEffectInOrder == OpportunitySpec => ReportsStayInOrder
  <1>1. OppInv /\ [OpportunityNext]_vars =>
           [/\ opp'.ext >= opp.ext
            /\ opp'.changed < opp.changed =>
                  opp.changed = opp.ext /\ UNCHANGED links]_vars
    BY StepMovesRow DEF RowMoves
  <1> QED
    BY <1>1, OppInvariant, PTL DEF OpportunitySpec, ReportsStayInOrder

(* A closed opportunity stays closed in its stage and with its amount      *)
(* (validateStageChange, closedMasterDataChanged).                         *)
THEOREM ClosedStaysFrozen == OpportunitySpec => ClosedIsFrozen
  <1>1. OppInv /\ [OpportunityNext]_vars =>
           [Standing(opp) = "CLOSED" =>
               /\ Standing(opp') = "CLOSED"
               /\ opp'.stage = opp.stage /\ opp'.amount = opp.amount]_vars
    BY StepMovesRow DEF RowMoves
  <1> QED
    BY <1>1, OppInvariant, PTL DEF OpportunitySpec, ClosedIsFrozen

=============================================================================
