----------------------- MODULE ContractTransfer_proofs -----------------------
(***************************************************************************)
(* Proofs about ContractTransfer, for every set of events, workers and     *)
(* tokens and every number of retries and faults.                          *)
(***************************************************************************)
EXTENDS ContractTransfer, TLAPS

USE TransferAssumption

(* A row has a token while it is PROCESSING, and it has not yet used up    *)
(* its tries unless it has ended.                                          *)
RowsAgree ==
    \A e \in Events :
        /\ rows[e].status = "PROCESSING" <=> rows[e].token # NoToken
        /\ rows[e].status \notin Settled => rows[e].retries <= MaxRetries

(* No two claims of an event have the same token, and the copy of the      *)
(* worker that holds the row is the row.                                   *)
ClaimsAgree ==
    /\ \A w, x \in Workers :
          procs[w].event \in Events /\ procs[x].event = procs[w].event
              /\ procs[x].token = procs[w].token => x = w
    /\ \A w \in Workers :
          /\ Fenced(w) =>
                 procs[w].attempt = rows[procs[w].event].retries + 1
          /\ procs[w].pc = "ANSWERED" => procs[w].result \in Results
          /\ procs[w].result = "SENT" => procs[w].event \in accepted

TransferInv == TransferTypeOK /\ RowsAgree /\ ClaimsAgree

-----------------------------------------------------------------------------
LEMMA ProcsTyped ==
  ASSUME TransferTypeOK, NEW w \in Workers
  PROVE  /\ procs[w].event \in Events <=> procs[w].pc \notin {"IDLE", "DOWN"}
         /\ procs[w].event \in Events <=> procs[w] \in Busy
         /\ procs[w].event \in Events <=> procs[w].event # NoEvent
         /\ procs[w].event \in Events \/ procs[w].event = NoEvent
  <1>1. procs[w] \in Procs
    BY DEF TransferTypeOK
  <1> QED
    BY <1>1 DEF Procs, Off, Busy

LEMMA InvInit == TransferInit => TransferInv
  <1> SUFFICES ASSUME TransferInit PROVE TransferInv
    OBVIOUS
  <1>1. TransferTypeOK
    BY DEF TransferInit, TransferTypeOK, Rows, Statuses, Attempts, Procs
  <1>2. \A w \in Workers : procs[w] = Off("IDLE")
    BY DEF TransferInit
  <1>3. RowsAgree
    <2>1. \A e \in Events : /\ rows[e].status = "PENDING"
                            /\ rows[e].retries = 0
                            /\ rows[e].token = NoToken
      BY DEF TransferInit
    <2> QED
      BY <2>1, 0 <= MaxRetries DEF RowsAgree
  <1>4. ClaimsAgree
    BY <1>2 DEF TransferInit, ClaimsAgree, Off, Fenced
  <1> QED
    BY <1>1, <1>3, <1>4 DEF TransferInv

(* A step that only moves process w, within its claim or out of it.        *)
LEMMA ProcStep ==
  ASSUME TransferInv, NEW w \in Workers, NEW q \in Procs,
         procs' = [procs EXCEPT ![w] = q], rows' = rows, attempts' = attempts,
         accepted \subseteq accepted', accepted' \subseteq Events,
         requested' \subseteq Events, sound' = sound, faults' \in 0..MaxFaults,
         \/ q \in {Off("IDLE"), Off("DOWN")}
         \/ /\ q.event = procs[w].event /\ q.token = procs[w].token
            /\ q.attempt = procs[w].attempt
            /\ q.pc = "ANSWERED" => q.result \in Results
            /\ q.result = "SENT" => q.event \in accepted'
  PROVE  TransferInv'
  <1> USE DEF TransferInv
  <1>1. TransferTypeOK'
    BY DEF TransferTypeOK
  <1>2. RowsAgree'
    BY DEF RowsAgree
  <1>3. \A x \in Workers : x # w => procs'[x] = procs[x]
    BY DEF TransferTypeOK
  <1>4. procs'[w] = q
    BY DEF TransferTypeOK
  <1>5. \A x \in Workers : x # w => (Fenced(x)' <=> Fenced(x))
    BY <1>3 DEF Fenced
  <1>6. ClaimsAgree'
    <2>1. CASE q \in {Off("IDLE"), Off("DOWN")}
      <3>1. /\ q.event = NoEvent /\ q.pc # "ANSWERED" /\ q.result = "NONE"
            /\ ~Fenced(w)'
        BY <1>4, <2>1 DEF Off, Fenced
      <3>2. \A x, y \in Workers :
               procs'[x].event \in Events /\ procs'[y].event = procs'[x].event
                 /\ procs'[y].token = procs'[x].token => y = x
        BY <1>3, <1>4, <3>1 DEF ClaimsAgree
      <3>3. \A x \in Workers :
               Fenced(x)' => procs'[x].attempt
                                = rows'[procs'[x].event].retries + 1
        BY <1>3, <1>5, <3>1 DEF ClaimsAgree
      <3>4. \A x \in Workers :
               /\ procs'[x].pc = "ANSWERED" => procs'[x].result \in Results
               /\ procs'[x].result = "SENT" => procs'[x].event \in accepted'
        BY <1>3, <1>4, <3>1, "NONE" # "SENT" DEF ClaimsAgree
      <3> QED
        BY <3>2, <3>3, <3>4 DEF ClaimsAgree
    <2>2. CASE q \notin {Off("IDLE"), Off("DOWN")}
      <3>1. /\ q.event = procs[w].event /\ q.token = procs[w].token
            /\ q.attempt = procs[w].attempt
            /\ q.pc = "ANSWERED" => q.result \in Results
            /\ q.result = "SENT" => q.event \in accepted'
        BY <2>2
      <3>2. \A x \in Workers : /\ procs'[x].event = procs[x].event
                               /\ procs'[x].token = procs[x].token
                               /\ procs'[x].attempt = procs[x].attempt
                               /\ Fenced(x)' <=> Fenced(x)
        BY <1>3, <1>4, <3>1 DEF Fenced
      <3>3. \A x \in Workers :
               /\ procs'[x].pc = "ANSWERED" => procs'[x].result \in Results
               /\ procs'[x].result = "SENT" => procs'[x].event \in accepted'
        BY <1>3, <1>4, <3>1 DEF ClaimsAgree
      <3> QED
        BY <3>2, <3>3 DEF ClaimsAgree
    <2> QED
      BY <2>1, <2>2
  <1> QED
    BY <1>1, <1>2, <1>6

LEMMA OffIsProc == \A pc \in {"IDLE", "DOWN"} : Off(pc) \in Procs
  BY DEF Procs

LEMMA SwitchKeeps ==
  ASSUME TransferInv, NEW w \in Workers, NEW pc \in {"IDLE", "DOWN"},
         Switch(w, pc), faults' \in 0..MaxFaults,
         UNCHANGED <<rows, attempts, requested, accepted, sound>>
  PROVE  TransferInv'
  <1>1. Off(pc) \in Procs
    BY OffIsProc
  <1>2. requested' \subseteq Events /\ accepted' \subseteq Events
    BY DEF TransferInv, TransferTypeOK
  <1>3. procs' = [procs EXCEPT ![w] = Off(pc)]
    BY DEF Switch
  <1> QED
    BY <1>1, <1>2, <1>3, ProcStep

LEMMA AdvanceKeeps ==
  ASSUME TransferInv, NEW w \in Workers, procs[w].event \in Events,
         NEW pc \in {"READY", "WAITING", "ANSWERED"},
         NEW r \in Results \cup {"NONE"}, Advance(w, pc, r),
         pc = "ANSWERED" => r \in Results,
         r = "SENT" => procs[w].event \in accepted,
         requested' \subseteq Events,
         UNCHANGED <<rows, attempts, accepted, sound, faults>>
  PROVE  TransferInv'
  <1> DEFINE q == [procs[w] EXCEPT !.pc = pc, !.result = r]
  <1>1. procs[w] \in Busy
    BY ProcsTyped DEF TransferInv
  <1>2. procs' = [procs EXCEPT ![w] = q]
    BY <1>1 DEF Advance, TransferInv, TransferTypeOK
  <1>3. /\ q \in Procs /\ q.event = procs[w].event /\ q.token = procs[w].token
        /\ q.attempt = procs[w].attempt /\ q.pc = pc /\ q.result = r
    BY <1>1 DEF Busy, Procs
  <1>4. accepted' \subseteq Events /\ faults' \in 0..MaxFaults
    BY DEF TransferInv, TransferTypeOK
  <1> HIDE DEF q
  <1> QED
    BY <1>2, <1>3, <1>4, ProcStep

(* A step that changes one row and no process.                             *)
KeepsClaim(r, s) ==
    /\ s.token = r.token
    /\ \/ s.status = r.status /\ s.retries = r.retries
       \/ s.status = "PENDING" /\ s.retries = 0 /\ r.status = "DEAD_LETTER"

LEMMA RowStep ==
  ASSUME TransferInv, NEW e \in Events, NEW r \in Rows,
         rows' = [rows EXCEPT ![e] = r], attempts' = attempts, procs' = procs,
         requested' = requested, accepted' = accepted, sound' = sound,
         faults' \in 0..MaxFaults, KeepsClaim(rows[e], r)
  PROVE  TransferInv'
  <1> USE DEF TransferInv, KeepsClaim
  <1>1. TransferTypeOK'
    BY DEF TransferTypeOK
  <1>2. rows'[e] = r /\ \A d \in Events : d # e => rows'[d] = rows[d]
    BY DEF TransferTypeOK
  <1>3. RowsAgree'
    BY <1>2 DEF RowsAgree, Settled
  <1>4. \A w \in Workers : Fenced(w)' => Fenced(w)
                              /\ rows'[procs[w].event].retries
                                   = rows[procs[w].event].retries
    BY <1>2 DEF Fenced
  <1>5. ClaimsAgree'
    BY <1>4 DEF ClaimsAgree
  <1> QED
    BY <1>1, <1>3, <1>5

LEMMA ClaimKeeps ==
  ASSUME TransferInv, NEW w \in Workers, Claim(w)
  PROVE  TransferInv'
  <1> USE DEF TransferInv
  <1>1. PICK e \in Events :
            /\ Claimable(rows[e])
            /\ UnusedTokens(e) # {}
            /\ \A d \in Events : d < e /\ Claimable(rows[d]) => Skipped(d)
            /\ LET t == CHOOSE t \in Tokens : t \in UnusedTokens(e) IN
               /\ rows' = [rows EXCEPT ![e].status = "PROCESSING",
                                       ![e].token = t,
                                       ![e].over = FALSE]
               /\ procs' = [procs EXCEPT ![w] =
                      [pc |-> "CLAIMED", event |-> e, token |-> t,
                       attempt |-> rows[e].retries + 1, result |-> "NONE"]]
    BY DEF Claim
  <1> DEFINE t == CHOOSE t \in Tokens : t \in UnusedTokens(e)
             q == [pc |-> "CLAIMED", event |-> e, token |-> t,
                   attempt |-> rows[e].retries + 1, result |-> "NONE"]
             r == [rows[e] EXCEPT !.status = "PROCESSING", !.token = t,
                                  !.over = FALSE]
  <1>2. t \in Tokens /\ t \in UnusedTokens(e)
    <2>1. \E u \in Tokens : u \in UnusedTokens(e)
      BY <1>1 DEF UnusedTokens
    <2> QED
      BY <2>1
  <1>3. /\ rows[e] \in Rows /\ rows[e].status \notin Settled
        /\ rows[e].retries \in 0..MaxRetries
    <2>1. rows[e] \in Rows
      BY DEF TransferTypeOK
    <2>2. rows[e].status \notin Settled
      BY <1>1 DEF Claimable, Settled
    <2>3. rows[e].retries <= MaxRetries
      BY <2>2 DEF RowsAgree
    <2>4. rows[e].retries \in Nat
      BY <2>1 DEF Rows, Attempts
    <2> QED
      BY <2>1, <2>2, <2>3, <2>4
  <1>4. rows' = [rows EXCEPT ![e] = r] /\ procs' = [procs EXCEPT ![w] = q]
    <2>1. /\ rows' = [rows EXCEPT ![e].status = "PROCESSING",
                                  ![e].token = t, ![e].over = FALSE]
          /\ procs' = [procs EXCEPT ![w] = q]
      BY <1>1
    <2> HIDE DEF t, q
    <2> QED
      BY <1>3, <2>1 DEF TransferTypeOK, Rows
  <1>5. /\ r \in Rows /\ r.token = t /\ r.retries = rows[e].retries
        /\ r.status = "PROCESSING"
    BY <1>2, <1>3 DEF Rows, Statuses
  <1>6. /\ q \in Procs /\ q.event = e /\ q.token = t
        /\ q.attempt = rows[e].retries + 1 /\ q.pc = "CLAIMED"
        /\ q.result = "NONE"
    BY <1>2, <1>3 DEF Procs, Busy, Attempts
  <1> HIDE DEF t, q, r
  <1>7. rows'[e] = r /\ \A d \in Events : d # e => rows'[d] = rows[d]
    BY <1>4 DEF TransferTypeOK
  <1>8. procs'[w] = q /\ \A x \in Workers : x # w => procs'[x] = procs[x]
    BY <1>4 DEF TransferTypeOK
  <1>9. TransferTypeOK'
    BY <1>4, <1>5, <1>6 DEF TransferTypeOK, Claim
  <1>10. RowsAgree'
    BY <1>2, <1>3, <1>5, <1>7 DEF RowsAgree
  <1>11. \A x \in Workers : procs[x].event = e => procs[x].token # t
    BY <1>2 DEF UnusedTokens
  <1>12. \A x, y \in Workers :
            procs'[x].event \in Events /\ procs'[y].event = procs'[x].event
              /\ procs'[y].token = procs'[x].token => y = x
    BY <1>6, <1>8, <1>11 DEF ClaimsAgree
  <1>13. \A x \in Workers : x # w /\ Fenced(x)' =>
            Fenced(x) /\ procs[x].event # e
    BY <1>5, <1>7, <1>8, <1>11 DEF Fenced
  <1>14. \A x \in Workers :
            Fenced(x)' => procs'[x].attempt
                             = rows'[procs'[x].event].retries + 1
    <2> SUFFICES ASSUME NEW x \in Workers, Fenced(x)'
                 PROVE  procs'[x].attempt = rows'[procs'[x].event].retries + 1
      OBVIOUS
    <2>1. CASE x = w
      BY <1>5, <1>6, <1>7, <1>8, <2>1
    <2>2. CASE x # w
      <3>1. procs'[x] = procs[x] /\ Fenced(x) /\ procs[x].event # e
        BY <1>8, <1>13, <2>2
      <3>2. rows'[procs[x].event] = rows[procs[x].event]
        BY <1>7, <3>1 DEF Fenced
      <3> QED
        BY <3>1, <3>2 DEF ClaimsAgree
    <2> QED
      BY <2>1, <2>2
  <1>15. \A x \in Workers :
            /\ procs'[x].pc = "ANSWERED" => procs'[x].result \in Results
            /\ procs'[x].result = "SENT" => procs'[x].event \in accepted'
    BY <1>6, <1>8 DEF ClaimsAgree, Claim
  <1> QED
    BY <1>9, <1>10, <1>12, <1>14, <1>15 DEF ClaimsAgree

(* The row that a Mark writes, and the attempt beside it.                  *)
LEMMA MarkWrites ==
  ASSUME TransferInv, NEW w \in Workers, procs[w].pc = "ANSWERED", Fenced(w)
  PROVE  LET p == procs[w] IN
         /\ p \in Busy /\ p.event \in Events
         /\ Outcome(p) \in Settled \cup {"RETRY_WAIT"}
         /\ Outcome(p) = "RETRY_WAIT" => p.attempt <= MaxRetries
         /\ Outcome(p) = "SENT" => p.event \in accepted
         /\ MarkedRow(p) \in Rows
         /\ p.attempt = rows[p.event].retries + 1
         /\ rows[p.event].status = "PROCESSING"
  <1> DEFINE p == procs[w]
  <1>1. p \in Busy /\ p.event \in Events
    BY ProcsTyped DEF TransferInv, Fenced
  <1>2. /\ p.attempt \in Attempts /\ p.result \in Results
        /\ p.result = "SENT" => p.event \in accepted
        /\ p.attempt = rows[p.event].retries + 1
        /\ rows[p.event].status = "PROCESSING"
    BY <1>1 DEF TransferInv, ClaimsAgree, Fenced, Busy
  <1>3. /\ Outcome(p) \in Settled \cup {"RETRY_WAIT"}
        /\ Outcome(p) = "RETRY_WAIT" => p.attempt <= MaxRetries
        /\ Outcome(p) = "SENT" => p.event \in accepted
    BY <1>2 DEF Outcome, Exhausted, Results, Settled, Attempts
  <1>4. MarkedRow(p) \in Rows
    BY <1>2, <1>3 DEF MarkedRow, Rows, Statuses, Settled
  <1> QED
    BY <1>1, <1>2, <1>3, <1>4

LEMMA MarkKeeps ==
  ASSUME TransferInv, NEW w \in Workers, Mark(w)
  PROVE  TransferInv'
  <1> USE DEF TransferInv
  <1> DEFINE p == procs[w]
             e == p.event
             r == MarkedRow(p)
             a == [no |-> p.attempt, result |-> Outcome(p)]
  <1>1. procs[w].pc = "ANSWERED" /\ Fenced(w)
    BY DEF Mark, MayMark
  <1>2. /\ p \in Busy /\ e \in Events
        /\ Outcome(p) \in Settled \cup {"RETRY_WAIT"}
        /\ Outcome(p) = "RETRY_WAIT" => p.attempt <= MaxRetries
        /\ r \in Rows
    BY <1>1, MarkWrites
  <1>3. /\ rows' = [rows EXCEPT ![e] = r]
        /\ attempts' = [attempts EXCEPT ![e] = @ \cup {a}]
        /\ procs' = [procs EXCEPT ![w] = Off("IDLE")]
        /\ UNCHANGED <<requested, accepted, sound, faults>>
    BY DEF Mark, Switch
  <1>4. /\ r.status = Outcome(p) /\ r.retries = p.attempt
        /\ r.token = NoToken
    BY DEF MarkedRow
  <1>5. a \in [no : Attempts, result : Settled \cup {"RETRY_WAIT"}]
    BY <1>2 DEF Busy
  <1> HIDE DEF r, a
  <1>6. TransferTypeOK'
    BY <1>2, <1>3, <1>5, OffIsProc DEF TransferTypeOK
  <1>7. rows'[e] = r /\ \A d \in Events : d # e => rows'[d] = rows[d]
    BY <1>2, <1>3 DEF TransferTypeOK
  <1>8. /\ procs'[w].event = NoEvent /\ procs'[w].pc = "IDLE"
        /\ procs'[w].result = "NONE"
        /\ \A x \in Workers : x # w => procs'[x] = procs[x]
    BY <1>3 DEF TransferTypeOK, Off
  <1>9. RowsAgree'
    BY <1>2, <1>4, <1>7 DEF RowsAgree, Settled
  <1>10. ~Fenced(w)' /\ \A x \in Workers : x # w /\ Fenced(x)' =>
            Fenced(x) /\ procs[x].event # e
    BY <1>2, <1>4, <1>7, <1>8 DEF Fenced, Settled
  <1>11. \A x, y \in Workers :
            procs'[x].event \in Events /\ procs'[y].event = procs'[x].event
              /\ procs'[y].token = procs'[x].token => y = x
    BY <1>8 DEF ClaimsAgree
  <1>12. \A x \in Workers :
            Fenced(x)' => procs'[x].attempt
                             = rows'[procs'[x].event].retries + 1
    BY <1>7, <1>8, <1>10 DEF ClaimsAgree, Fenced
  <1>13. \A x \in Workers :
            /\ procs'[x].pc = "ANSWERED" => procs'[x].result \in Results
            /\ procs'[x].result = "SENT" => procs'[x].event \in accepted'
    BY <1>3, <1>8 DEF ClaimsAgree
  <1> QED
    BY <1>6, <1>9, <1>11, <1>12, <1>13 DEF ClaimsAgree

LEMMA InvStep == TransferInv /\ [TransferNext]_vars => TransferInv'
  <1> SUFFICES ASSUME TransferInv, [TransferNext]_vars PROVE TransferInv'
    OBVIOUS
  <1> USE DEF TransferInv
  <1>1. /\ requested \subseteq Events /\ accepted \subseteq Events
        /\ faults \in 0..MaxFaults
    BY DEF TransferTypeOK
  <1>2. CASE UNCHANGED vars
    BY <1>2 DEF vars, TransferTypeOK, RowsAgree, ClaimsAgree, Fenced
  <1>3. ASSUME NEW w \in Workers, Claim(w) PROVE TransferInv'
    BY <1>3, ClaimKeeps
  <1>4. ASSUME NEW w \in Workers, AuthoritativeCommand(w) PROVE TransferInv'
    <2>1. procs[w].event \in Events
      BY <1>4, ProcsTyped DEF AuthoritativeCommand
    <2>2. UNCHANGED <<rows, attempts, requested, accepted, sound, faults>>
      BY <1>4 DEF AuthoritativeCommand
    <2>3. CASE Switch(w, "DOWN")
      BY <1>1, <2>2, <2>3, SwitchKeeps
    <2>4. CASE \E pc \in {"READY", "ANSWERED"}, r \in Results \cup {"NONE"} :
                  /\ Advance(w, pc, r) /\ r # "SENT"
                  /\ pc = "ANSWERED" => r \in Results
      BY <1>1, <2>1, <2>2, <2>4, AdvanceKeeps
    <2> QED
      BY <1>4, <2>3, <2>4 DEF AuthoritativeCommand, Results
  <1>5. ASSUME NEW w \in Workers, Send(w) PROVE TransferInv'
    <2>1. procs[w].event \in Events
      BY <1>5, ProcsTyped DEF Send
    <2>2. requested' \subseteq Events
      BY <1>1, <1>5, <2>1 DEF Send
    <2> QED
      BY <1>5, <2>1, <2>2, AdvanceKeeps DEF Send
  <1>6. ASSUME NEW w \in Workers, Answer(w) PROVE TransferInv'
    <2>1. procs[w].event \in Events
      BY <1>6, ProcsTyped DEF Answer
    <2>2. PICK r \in Results : /\ Advance(w, "ANSWERED", r)
                               /\ r = "SENT" => procs[w].event \in accepted
      BY <1>6 DEF Answer, Results, Confirmed
    <2> QED
      BY <1>1, <1>6, <2>1, <2>2, AdvanceKeeps DEF Answer
  <1>7. ASSUME NEW w \in Workers, Mark(w) PROVE TransferInv'
    BY <1>7, MarkKeeps
  <1>8. ASSUME NEW w \in Workers,
               FailToMark(w) \/ Postpone(w) \/ Crash(w) \/ Restart(w)
        PROVE  TransferInv'
    <2>1. \E pc \in {"IDLE", "DOWN"} : Switch(w, pc)
      BY <1>8 DEF FailToMark, Postpone, Crash, Restart
    <2>2. UNCHANGED <<rows, attempts, requested, accepted, sound>>
      BY <1>8 DEF FailToMark, Postpone, Crash, Restart
    <2>3. faults' \in 0..MaxFaults
      BY <1>1, <1>8 DEF FailToMark, Postpone, Crash, Restart, Fault
    <2> QED
      BY <2>1, <2>2, <2>3, SwitchKeeps
  <1>9. ASSUME NEW e \in Events, Accept(e) PROVE TransferInv'
    <2>1. accepted' \subseteq Events /\ accepted \subseteq accepted'
      BY <1>1, <1>9 DEF Accept
    <2>2. UNCHANGED <<rows, attempts, procs, requested, sound, faults>>
      BY <1>9 DEF Accept
    <2>3. TransferTypeOK' /\ RowsAgree'
      BY <2>1, <2>2 DEF TransferTypeOK, RowsAgree
    <2>4. \A w \in Workers : Fenced(w)' <=> Fenced(w)
      BY <2>2 DEF Fenced
    <2>5. ClaimsAgree'
      BY <2>1, <2>2, <2>4 DEF ClaimsAgree
    <2> QED
      BY <2>3, <2>5
  <1>10. ASSUME NEW e \in Events,
                \/ Expire(e) \/ Overrun(e) \/ BecomeDue(e)
                \/ RetryFailedContractTransfer(e)
         PROVE  TransferInv'
    <2>1. rows[e] \in Rows
      BY DEF TransferTypeOK
    <2>2. PICK r \in Rows :
             rows' = [rows EXCEPT ![e] = r] /\ KeepsClaim(rows[e], r)
      <3>1. CASE Expire(e) \/ Overrun(e)
        <4> DEFINE q == [rows[e] EXCEPT !.over = TRUE]
        <4>1. q \in Rows /\ rows' = [rows EXCEPT ![e] = q]
          BY <2>1, <3>1 DEF Expire, Overrun, Rows
        <4>2. /\ q.token = rows[e].token /\ q.status = rows[e].status
              /\ q.retries = rows[e].retries
          BY <2>1 DEF Rows
        <4> QED
          BY <4>1, <4>2 DEF KeepsClaim
      <3>2. CASE BecomeDue(e)
        <4> DEFINE q == [rows[e] EXCEPT !.due = TRUE]
        <4>1. q \in Rows /\ rows' = [rows EXCEPT ![e] = q]
          BY <2>1, <3>2 DEF BecomeDue, Rows
        <4>2. /\ q.token = rows[e].token /\ q.status = rows[e].status
              /\ q.retries = rows[e].retries
          BY <2>1 DEF Rows
        <4> QED
          BY <4>1, <4>2 DEF KeepsClaim
      <3>3. CASE RetryFailedContractTransfer(e)
        <4> DEFINE q == [rows[e] EXCEPT !.status = "PENDING", !.retries = 0]
        <4>1. /\ q \in Rows /\ q.token = rows[e].token
              /\ q.status = "PENDING" /\ q.retries = 0
          BY <2>1 DEF Rows, Statuses
        <4>2. /\ rows' = [rows EXCEPT ![e] = q]
              /\ rows[e].status = "DEAD_LETTER"
          BY <2>1, <3>3 DEF RetryFailedContractTransfer, TransferTypeOK, Rows
        <4> HIDE DEF q
        <4> QED
          BY <4>1, <4>2 DEF KeepsClaim
      <3> QED
        BY <1>10, <3>1, <3>2, <3>3
    <2>3. /\ UNCHANGED <<attempts, procs, requested, accepted, sound>>
          /\ faults' \in 0..MaxFaults
      BY <1>1, <1>10
         DEF Expire, Overrun, BecomeDue, RetryFailedContractTransfer, Fault
    <2> HIDE DEF TransferInv
    <2> QED
      BY <2>2, <2>3, RowStep
  <1> QED
    BY <1>2, <1>3, <1>4, <1>5, <1>6, <1>7, <1>8, <1>9, <1>10
       DEF TransferNext, Work

LEMMA Invariance == TransferSpec => []TransferInv
  BY InvInit, InvStep, PTL DEF TransferSpec

(* The tables, the processes and the messages keep their types; no event   *)
(* is tried more often than the delays allow.                              *)
THEOREM TransferTyped == TransferSpec => []TransferTypeOK
  <1>1. TransferInv => TransferTypeOK
    BY DEF TransferInv
  <1> QED
    BY <1>1, Invariance, PTL

-----------------------------------------------------------------------------
LEMMA RecordedInit == TransferInit => OutcomeRecorded
  <1> SUFFICES ASSUME TransferInit, NEW e \in Events
               PROVE  rows[e].status \notin Settled /\ attempts[e] = {}
    BY DEF OutcomeRecorded
  <1> QED
    BY DEF TransferInit, Settled

LEMMA RecordedStep ==
  TransferInv /\ OutcomeRecorded /\ [TransferNext]_vars => OutcomeRecorded'
  <1> SUFFICES ASSUME TransferInv, OutcomeRecorded, [TransferNext]_vars
               PROVE  OutcomeRecorded'
    OBVIOUS
  <1>1. rows \in [Events -> Rows]
    BY DEF TransferInv, TransferTypeOK
  (* Steps that end no row and leave the log alone.                        *)
  <1>2. ASSUME attempts' = attempts,
               \A e \in Events :
                  \/ rows'[e].status \notin Settled /\ rows[e].status # "SENT"
                  \/ /\ rows'[e].status = rows[e].status
                     /\ rows'[e].retries = rows[e].retries
        PROVE  OutcomeRecorded'
    BY <1>2 DEF OutcomeRecorded
  <1>3. ASSUME UNCHANGED <<rows, attempts>> PROVE OutcomeRecorded'
    BY <1>2, <1>3
  <1>4. ASSUME NEW w \in Workers, Claim(w) PROVE OutcomeRecorded'
    <2>1. PICK e \in Events :
              /\ Claimable(rows[e])
              /\ \E t : rows' = [rows EXCEPT ![e].status = "PROCESSING",
                                             ![e].token = t, ![e].over = FALSE]
      BY <1>4 DEF Claim
    <2>2. rows[e].status # "SENT"
      BY <2>1 DEF Claimable
    <2>3. rows'[e].status = "PROCESSING"
      BY <1>1, <2>1 DEF Rows
    <2>4. \A d \in Events : d # e => rows'[d] = rows[d]
      BY <1>1, <2>1
    <2>5. attempts' = attempts
      BY <1>4 DEF Claim
    <2> QED
      BY <1>2, <2>2, <2>3, <2>4, <2>5 DEF Settled
  <1>5. ASSUME NEW w \in Workers, Mark(w) PROVE OutcomeRecorded'
    <2> DEFINE p == procs[w]
               e == p.event
               a == [no |-> p.attempt, result |-> Outcome(p)]
    <2>1. /\ p.pc = "ANSWERED" /\ Fenced(w)
          /\ rows' = [rows EXCEPT ![e] = MarkedRow(p)]
          /\ attempts' = [attempts EXCEPT ![e] = @ \cup {a}]
      BY <1>5 DEF Mark, MayMark
    <2>2. e \in Events /\ rows[e].status = "PROCESSING"
      BY <2>1, MarkWrites
    <2>3. /\ rows'[e].status = Outcome(p) /\ rows'[e].retries = p.attempt
          /\ \A d \in Events : d # e => rows'[d] = rows[d]
      BY <1>1, <2>1, <2>2 DEF MarkedRow
    <2>4. /\ attempts'[e] = attempts[e] \cup {a}
          /\ \A d \in Events : d # e => attempts'[d] = attempts[d]
      BY <2>1, <2>2 DEF TransferInv, TransferTypeOK
    <2>5. \A b \in attempts[e] : b.result # "SENT"
      BY <2>2 DEF OutcomeRecorded
    <2> QED
      BY <2>2, <2>3, <2>4, <2>5 DEF OutcomeRecorded
  <1>6. ASSUME NEW e \in Events, Expire(e) \/ Overrun(e) \/ BecomeDue(e)
        PROVE  OutcomeRecorded'
    <2>1. \A d \in Events : /\ rows'[d].status = rows[d].status
                            /\ rows'[d].retries = rows[d].retries
      BY <1>1, <1>6 DEF Expire, Overrun, BecomeDue, Rows
    <2>2. attempts' = attempts
      BY <1>6 DEF Expire, Overrun, BecomeDue
    <2> QED
      BY <1>2, <2>1, <2>2
  <1>7. ASSUME NEW e \in Events, RetryFailedContractTransfer(e)
        PROVE  OutcomeRecorded'
    <2>1. rows[e].status = "DEAD_LETTER" /\ rows'[e].status = "PENDING"
      BY <1>1, <1>7 DEF RetryFailedContractTransfer, Rows
    <2>2. \A d \in Events : d # e => rows'[d] = rows[d]
      BY <1>1, <1>7 DEF RetryFailedContractTransfer
    <2>3. attempts' = attempts
      BY <1>7 DEF RetryFailedContractTransfer
    <2> QED
      BY <1>2, <2>1, <2>2, <2>3 DEF Settled
  <1> QED
    BY <1>3, <1>4, <1>5, <1>6, <1>7
       DEF TransferNext, Work, vars, AuthoritativeCommand, Send, Answer,
           FailToMark, Postpone, Crash, Restart, Accept

(* The row of an event and the log of its attempts end together, whatever  *)
(* late workers do: finish and retry write both or none.                   *)
THEOREM OutcomesRecorded == TransferSpec => []OutcomeRecorded
  BY RecordedInit, RecordedStep, Invariance, PTL DEF TransferSpec

-----------------------------------------------------------------------------
(* What Holder means.                                                      *)
HolderFacts ==
    \A e \in Events :
        /\ \A w \in Workers : procs[w].event = e /\ Fenced(w) => Holder(e) = w
        /\ ~Skipped(e) => Holder(e) = Nobody
        /\ \A w \in Workers : Holder(e) = w => procs[w].event = e /\ Fenced(w)
        /\ Holder(e) \in Workers \cup {Nobody}

LEMMA HolderOfRow == TransferInv => HolderFacts
  <1> SUFFICES ASSUME TransferInv, NEW e \in Events
      PROVE
        /\ \A w \in Workers : procs[w].event = e /\ Fenced(w) => Holder(e) = w
        /\ ~Skipped(e) => Holder(e) = Nobody
        /\ \A w \in Workers : Holder(e) = w => procs[w].event = e /\ Fenced(w)
        /\ Holder(e) \in Workers \cup {Nobody}
    BY DEF HolderFacts
  <1>1. \A w, x \in Workers :
           procs[w].event = e /\ Fenced(w) /\ procs[x].event = e /\ Fenced(x)
             => x = w
    BY DEF TransferInv, ClaimsAgree, Fenced
  <1>2. ~Skipped(e) => Holder(e) = Nobody
    BY DEF Holder
  <1>3. Skipped(e) => /\ Holder(e) \in Workers
                      /\ procs[Holder(e)].event = e /\ Fenced(Holder(e))
    <2>1. HAVE Skipped(e)
    <2>2. \E w \in Workers : procs[w].event = e /\ Fenced(w)
      BY <2>1 DEF Skipped
    <2>3. Holder(e) = CHOOSE w \in Workers : procs[w].event = e /\ Fenced(w)
      BY <2>1 DEF Holder
    <2> QED
      BY <2>2, <2>3
  <1> QED
    BY <1>1, <1>2, <1>3 DEF Skipped

Mapped == TransferInv /\ TransferInv' /\ HolderFacts /\ HolderFacts'

LEMMA HolderStays ==
  ASSUME Mapped,
         \A w \in Workers : /\ procs'[w].event = procs[w].event
                            /\ Fenced(w)' <=> Fenced(w)
  PROVE  HolderView' = HolderView
  <1>1. \A e \in Events : Holder(e)' = Holder(e)
    <2> SUFFICES ASSUME NEW e \in Events PROVE Holder(e)' = Holder(e)
      OBVIOUS
    <2>1. CASE Holder(e) \in Workers
      BY <2>1 DEF Mapped, HolderFacts
    <2>2. CASE Holder(e) = Nobody
      BY <2>2 DEF Mapped, HolderFacts
    <2> QED
      BY <2>1, <2>2 DEF Mapped, HolderFacts
  <1> QED
    BY <1>1 DEF HolderView

(* Steps the promise does not see.                                         *)
LEMMA Stutters ==
  ASSUME Mapped, accepted' = accepted,
         \A e \in Events : /\ rows'[e].status = rows[e].status
                           /\ rows'[e].retries = rows[e].retries
                           /\ rows'[e].token = rows[e].token,
         \A w \in Workers : /\ procs'[w].event = procs[w].event
                            /\ procs'[w].token = procs[w].token
  PROVE  UNCHANGED Promise!vars
  <1>1. ASSUME NEW w \in Workers PROVE Fenced(w)' <=> Fenced(w)
    <2>1. /\ procs'[w].event = procs[w].event
          /\ procs'[w].token = procs[w].token
      OBVIOUS
    <2>2. procs[w].event \in Events =>
             /\ rows'[procs[w].event].status = rows[procs[w].event].status
             /\ rows'[procs[w].event].token = rows[procs[w].event].token
      OBVIOUS
    <2> QED
      BY <2>1, <2>2 DEF Fenced
  <1>2. HolderView' = HolderView
    BY <1>1, HolderStays
  <1>3. StateView' = StateView /\ TriesView' = TriesView
    BY DEF StateView, TriesView, StateOf
  <1>4. WorksView' = WorksView
    BY DEF WorksView
  <1> QED
    BY <1>2, <1>3, <1>4 DEF Promise!vars

LEMMA Leaves ==
  ASSUME Mapped, NEW w \in Workers, NEW pc \in {"IDLE", "DOWN"},
         procs[w].event \in Events, Switch(w, pc), rows' = rows,
         accepted' = accepted
  PROVE  Promise!Leave(w, procs[w].event)
  <1> DEFINE e == procs[w].event
  <1>1. /\ procs'[w].event = NoEvent
        /\ \A x \in Workers : x # w => procs'[x] = procs[x]
    BY DEF Mapped, TransferInv, TransferTypeOK, Switch, Off
  <1>2. ~Fenced(w)' /\ \A x \in Workers : x # w => (Fenced(x)' <=> Fenced(x))
    BY <1>1 DEF Fenced
  <1>3. \A d \in Events :
           Holder(d)' = IF d = e /\ Holder(d) = w THEN Nobody ELSE Holder(d)
    <2> SUFFICES ASSUME NEW d \in Events
                 PROVE  Holder(d)' = IF d = e /\ Holder(d) = w
                                     THEN Nobody ELSE Holder(d)
      OBVIOUS
    <2>1. CASE Holder(d) = w
      <3>1. d = e /\ \A x \in Workers : procs[x].event = d /\ Fenced(x) => x = w
        BY <2>1 DEF Mapped, HolderFacts
      <3>2. \A x \in Workers : ~(procs'[x].event = d /\ Fenced(x)')
        BY <1>1, <1>2, <3>1
      <3> QED
        BY <2>1, <3>1, <3>2 DEF Mapped, HolderFacts
    <2>2. CASE Holder(d) \in Workers \ {w}
      <3>1. PICK x \in Workers : x = Holder(d) /\ x # w
        BY <2>2
      <3>2. procs[x].event = d /\ Fenced(x)
        BY <3>1 DEF Mapped, HolderFacts
      <3>3. procs'[x].event = d /\ Fenced(x)'
        BY <1>1, <1>2, <3>1, <3>2
      <3>4. Holder(d)' = x
        BY <3>3 DEF Mapped, HolderFacts
      <3> QED
        BY <2>2, <3>1, <3>4
    <2>3. CASE Holder(d) = Nobody
      <3>1. \A x \in Workers : ~(procs[x].event = d /\ Fenced(x))
        BY <2>3 DEF Mapped, HolderFacts
      <3>2. \A x \in Workers : ~(procs'[x].event = d /\ Fenced(x)')
        BY <1>1, <1>2, <3>1
      <3> QED
        BY <2>3, <3>2 DEF Mapped, HolderFacts
    <2> QED
      BY <2>1, <2>2, <2>3 DEF Mapped, HolderFacts
  <1>4. HolderView' = [HolderView EXCEPT ![e] = IF @ = w THEN Nobody ELSE @]
    BY <1>3 DEF HolderView
  <1>5. WorksView' = [WorksView EXCEPT ![w] = NoEvent]
    BY <1>1 DEF WorksView
  <1>6. StateView' = StateView /\ TriesView' = TriesView
    BY DEF StateView, TriesView
  <1> QED
    BY <1>4, <1>5, <1>6 DEF Promise!Leave, WorksView

LEMMA Takes ==
  ASSUME Mapped, NEW w \in Workers, Claim(w)
  PROVE  \E e \in Events : Promise!Take(w, e)
  <1>1. PICK e \in Events :
            /\ Claimable(rows[e])
            /\ \E t : /\ rows' = [rows EXCEPT ![e].status = "PROCESSING",
                                              ![e].token = t, ![e].over = FALSE]
                      /\ procs' = [procs EXCEPT ![w] =
                             [pc |-> "CLAIMED", event |-> e, token |-> t,
                              attempt |-> rows[e].retries + 1,
                              result |-> "NONE"]]
                      /\ \A x \in Workers :
                            procs[x].event = e => procs[x].token # t
    <2>1. PICK e \in Events :
            /\ Claimable(rows[e])
            /\ UnusedTokens(e) # {}
            /\ LET t == CHOOSE t \in Tokens : t \in UnusedTokens(e) IN
               /\ rows' = [rows EXCEPT ![e].status = "PROCESSING",
                                       ![e].token = t,
                                       ![e].over = FALSE]
               /\ procs' = [procs EXCEPT ![w] =
                      [pc |-> "CLAIMED", event |-> e, token |-> t,
                       attempt |-> rows[e].retries + 1, result |-> "NONE"]]
      BY DEF Claim
    <2> DEFINE t == CHOOSE t \in Tokens : t \in UnusedTokens(e)
    <2>2. t \in UnusedTokens(e)
      <3>1. \E u \in Tokens : u \in UnusedTokens(e)
        BY <2>1 DEF UnusedTokens
      <3> QED
        BY <3>1
    <2>3. \A x \in Workers : procs[x].event = e => procs[x].token # t
      BY <2>2 DEF UnusedTokens
    <2>4. /\ rows' = [rows EXCEPT ![e].status = "PROCESSING",
                                  ![e].token = t, ![e].over = FALSE]
          /\ procs' = [procs EXCEPT ![w] =
                 [pc |-> "CLAIMED", event |-> e, token |-> t,
                  attempt |-> rows[e].retries + 1, result |-> "NONE"]]
      BY <2>1
    <2> HIDE DEF t
    <2>5. \E u : /\ rows' = [rows EXCEPT ![e].status = "PROCESSING",
                                         ![e].token = u, ![e].over = FALSE]
                 /\ procs' = [procs EXCEPT ![w] =
                        [pc |-> "CLAIMED", event |-> e, token |-> u,
                         attempt |-> rows[e].retries + 1, result |-> "NONE"]]
                 /\ \A x \in Workers :
                       procs[x].event = e => procs[x].token # u
      BY <2>3, <2>4
    <2> QED
      BY <2>1, <2>5
  <1>2. rows \in [Events -> Rows] /\ procs \in [Workers -> Procs]
    BY DEF Mapped, TransferInv, TransferTypeOK
  <1>3. PICK t :
            /\ rows' = [rows EXCEPT ![e].status = "PROCESSING",
                                    ![e].token = t, ![e].over = FALSE]
            /\ procs' = [procs EXCEPT ![w] =
                   [pc |-> "CLAIMED", event |-> e, token |-> t,
                    attempt |-> rows[e].retries + 1, result |-> "NONE"]]
            /\ \A x \in Workers : procs[x].event = e => procs[x].token # t
    BY <1>1
  <1>4. /\ rows'[e].status = "PROCESSING" /\ rows'[e].token = t
        /\ rows'[e].retries = rows[e].retries
        /\ \A d \in Events : d # e => rows'[d] = rows[d]
    BY <1>2, <1>3 DEF Rows
  <1>5. /\ procs'[w].event = e /\ procs'[w].token = t
        /\ \A x \in Workers : x # w => procs'[x] = procs[x]
    BY <1>2, <1>3
  <1>6. procs[w].event = NoEvent /\ NoEvent \notin Events
    BY ProcsTyped DEF Mapped, TransferInv, Claim
  <1>7. Fenced(w)' /\ Holder(e)' = w
    BY <1>4, <1>5 DEF Fenced, Mapped, HolderFacts
  <1>8. \A x \in Workers, d \in Events : d # e =>
           (procs'[x].event = d /\ Fenced(x)' <=> procs[x].event = d /\ Fenced(x))
    BY <1>4, <1>5, <1>6 DEF Fenced
  <1>9. \A d \in Events : d # e => Holder(d)' = Holder(d)
    <2> SUFFICES ASSUME NEW d \in Events, d # e PROVE Holder(d)' = Holder(d)
      OBVIOUS
    <2>1. CASE Holder(d) \in Workers
      BY <1>8, <2>1 DEF Mapped, HolderFacts
    <2>2. CASE Holder(d) = Nobody
      BY <1>8, <2>2 DEF Mapped, HolderFacts
    <2> QED
      BY <2>1, <2>2 DEF Mapped, HolderFacts
  <1>10. HolderView' = [HolderView EXCEPT ![e] = w]
    BY <1>7, <1>9 DEF HolderView
  <1>11. WorksView' = [WorksView EXCEPT ![w] = e] /\ WorksView[w] = NoEvent
    BY <1>5, <1>6 DEF WorksView
  <1>12. StateView' = [StateView EXCEPT ![e] = "TAKEN"]
    BY <1>4 DEF StateView, StateOf
  <1>13. StateView[e] \in {"WAITING", "TAKEN"}
    BY <1>1 DEF StateView, StateOf, Claimable
  <1>14. TriesView' = TriesView /\ accepted' = accepted
    BY <1>4 DEF TriesView, Claim
  <1>15. Promise!Take(w, e)
    BY <1>10, <1>11, <1>12, <1>13, <1>14 DEF Promise!Take
  <1> QED
    BY <1>15

LEMMA Settles ==
  ASSUME Mapped, NEW w \in Workers, Mark(w)
  PROVE  \E e \in Events, s \in {"WAITING", "SENT", "DEAD_LETTER"} :
             Promise!Settle(w, e, s)
  <1>1. procs[w].event \in Events /\ procs[w] \in Busy
    BY MarkWrites DEF Mapped, Mark, MayMark
  <1>2. PICK e \in Events, p \in Busy : p = procs[w] /\ e = p.event
    BY <1>1
  <1> DEFINE s == StateOf(MarkedRow(p))
  <1>3. /\ p.pc = "ANSWERED" /\ Fenced(w)
        /\ rows' = [rows EXCEPT ![e] = MarkedRow(p)]
        /\ procs' = [procs EXCEPT ![w] = Off("IDLE")]
        /\ accepted' = accepted
    BY <1>2 DEF Mark, MayMark, Switch
  <1>4. /\ p \in Busy /\ e \in Events
        /\ Outcome(p) \in Settled \cup {"RETRY_WAIT"}
        /\ Outcome(p) = "RETRY_WAIT" => p.attempt <= MaxRetries
        /\ Outcome(p) = "SENT" => e \in accepted
        /\ p.attempt = rows[e].retries + 1
    BY <1>3, <1>2, MarkWrites DEF Mapped
  <1>5. rows \in [Events -> Rows] /\ procs \in [Workers -> Procs]
    BY DEF Mapped, TransferInv, TransferTypeOK
  <1>6. /\ rows'[e] = MarkedRow(p)
        /\ rows'[e].status = Outcome(p) /\ rows'[e].retries = p.attempt
        /\ rows'[e].token = NoToken
        /\ \A d \in Events : d # e => rows'[d] = rows[d]
    BY <1>3, <1>4, <1>5 DEF MarkedRow
  <1>7. /\ procs'[w].event = NoEvent
        /\ \A x \in Workers : x # w => procs'[x] = procs[x]
    BY <1>3, <1>5 DEF Off
  <1>8. /\ s \in {"WAITING", "SENT", "DEAD_LETTER"}
        /\ s = "WAITING" => p.attempt <= MaxRetries
        /\ s = "SENT" => e \in accepted
    BY <1>4 DEF StateOf, MarkedRow, Settled
  <1>9. rows[e].retries \in 0..MaxRetries
    <2>1. p.attempt \in Attempts
      BY <1>4 DEF Busy
    <2>2. rows[e] \in Rows
      BY <1>4, <1>5
    <2>3. rows[e].retries \in Nat
      BY <2>2 DEF Rows, Attempts
    <2> QED
      BY <1>4, <2>1, <2>3 DEF Attempts
  <1>10. \A x \in Workers : ~(procs'[x].event = e /\ Fenced(x)')
    BY <1>4, <1>6, <1>7, <1>2 DEF Fenced, Settled
  <1>11. Holder(e)' = Nobody
    BY <1>4, <1>10 DEF Mapped, HolderFacts, Skipped
  <1>12. Holder(e) = w
    BY <1>3, <1>2 DEF Mapped, HolderFacts
  <1>13. \A x \in Workers, d \in Events : d # e =>
           (procs'[x].event = d /\ Fenced(x)' <=> procs[x].event = d /\ Fenced(x))
    BY <1>6, <1>7, <1>2 DEF Fenced
  <1>14. \A d \in Events : d # e => Holder(d)' = Holder(d)
    <2> SUFFICES ASSUME NEW d \in Events, d # e PROVE Holder(d)' = Holder(d)
      OBVIOUS
    <2>1. CASE Holder(d) \in Workers
      BY <1>13, <2>1 DEF Mapped, HolderFacts
    <2>2. CASE Holder(d) = Nobody
      BY <1>13, <2>2 DEF Mapped, HolderFacts
    <2> QED
      BY <2>1, <2>2 DEF Mapped, HolderFacts
  <1>15. HolderView' = [HolderView EXCEPT ![e] = Nobody] /\ HolderView[e] = w
    <2>1. \A d \in Events : Holder(d)' = IF d = e THEN Nobody ELSE Holder(d)
      BY <1>11, <1>14
    <2>2. HolderView' = [HolderView EXCEPT ![e] = Nobody]
      BY <2>1 DEF HolderView
    <2>3. HolderView[e] = w
      BY <1>4, <1>12 DEF HolderView
    <2> QED
      BY <2>2, <2>3
  <1>16. WorksView' = [WorksView EXCEPT ![w] = NoEvent] /\ WorksView[w] = e
    BY <1>7, <1>2 DEF WorksView
  <1>17. StateView' = [StateView EXCEPT ![e] = s]
    BY <1>4, <1>6 DEF StateView
  <1>18. /\ TriesView' = [TriesView EXCEPT ![e] = @ + 1]
         /\ TriesView[e] = rows[e].retries
    BY <1>4, <1>6 DEF TriesView
  <1> HIDE DEF s
  <1>19. Promise!Settle(w, e, s)
    BY <1>3, <1>4, <1>8, <1>9, <1>15, <1>16, <1>17, <1>18
       DEF Promise!Settle
  <1> QED
    BY <1>4, <1>8, <1>19

LEMMA Revives ==
  ASSUME Mapped, NEW e \in Events, RetryFailedContractTransfer(e)
  PROVE  Promise!Revive(e)
  <1>1. rows \in [Events -> Rows]
    BY DEF Mapped, TransferInv, TransferTypeOK
  <1>2. /\ rows[e].status = "DEAD_LETTER" /\ rows'[e].status = "PENDING"
        /\ rows'[e].retries = 0 /\ rows'[e].token = rows[e].token
        /\ \A d \in Events : d # e => rows'[d] = rows[d]
    BY <1>1 DEF RetryFailedContractTransfer, Rows
  <1>3. procs' = procs /\ accepted' = accepted
    BY DEF RetryFailedContractTransfer
  <1>4. \A w \in Workers : Fenced(w)' <=> Fenced(w)
    BY <1>2, <1>3 DEF Fenced
  <1>5. HolderView' = HolderView
    BY <1>3, <1>4, HolderStays
  <1>6. StateView' = [StateView EXCEPT ![e] = "WAITING"]
    BY <1>2 DEF StateView, StateOf
  <1>7. StateView[e] = "DEAD_LETTER"
    BY <1>2 DEF StateView, StateOf
  <1>8. TriesView' = [TriesView EXCEPT ![e] = 0]
    BY <1>2 DEF TriesView
  <1>9. WorksView' = WorksView
    BY <1>3 DEF WorksView
  <1> QED
    BY <1>3, <1>5, <1>6, <1>7, <1>8, <1>9 DEF Promise!Revive

LEMMA DeliveryInit == TransferInit => Promise!Init
  <1> SUFFICES ASSUME TransferInit PROVE Promise!Init
    OBVIOUS
  <1>1. StateView = [e \in Events |-> "WAITING"]
    BY DEF TransferInit, StateView, StateOf
  <1>2. \A w \in Workers : procs[w].event = NoEvent
    BY DEF TransferInit, Off
  <1>3. HolderView = [e \in Events |-> Nobody]
    <2>1. \A e \in Events : ~Skipped(e)
      BY <1>2 DEF Skipped, Fenced
    <2> QED
      BY <2>1 DEF HolderView, Holder
  <1>4. WorksView = [w \in Workers |-> NoEvent]
    BY <1>2 DEF WorksView
  <1>5. TriesView = [e \in Events |-> 0]
    BY DEF TransferInit, TriesView
  <1> QED
    BY <1>1, <1>3, <1>4, <1>5 DEF Promise!Init, TransferInit

LEMMA DeliveryStep ==
  Mapped /\ [TransferNext]_vars => [Promise!Next]_(Promise!vars)
  <1> SUFFICES ASSUME Mapped, [TransferNext]_vars
               PROVE  Promise!Next \/ UNCHANGED Promise!vars
    OBVIOUS
  <1>1. /\ rows \in [Events -> Rows] /\ procs \in [Workers -> Procs]
        /\ TransferTypeOK
    BY DEF Mapped, TransferInv, TransferTypeOK
  (* A process that stops or gives up.                                     *)
  <1>2. ASSUME NEW w \in Workers, NEW pc \in {"IDLE", "DOWN"}, Switch(w, pc),
               rows' = rows, accepted' = accepted
        PROVE  Promise!Next \/ UNCHANGED Promise!vars
    <2>1. CASE procs[w].event \in Events
      <3>1. Promise!Leave(w, procs[w].event)
        BY <1>2, <2>1, Leaves
      <3> QED
        BY <2>1, <3>1 DEF Promise!Next
    <2>2. CASE procs[w].event \notin Events
      <3>1. procs[w].event = NoEvent /\ procs[w].token = NoToken
        BY <1>1, <2>2 DEF Procs, Busy, Off
      <3>2. \A x \in Workers : /\ procs'[x].event = procs[x].event
                               /\ procs'[x].token = procs[x].token
        BY <1>1, <1>2, <3>1 DEF Switch, Off
      <3> QED
        BY <1>2, <3>2, Stutters
    <2> QED
      BY <2>1, <2>2
  <1>3. ASSUME NEW w \in Workers, NEW pc, NEW r, Advance(w, pc, r),
               procs[w].event \in Events, rows' = rows, accepted' = accepted
        PROVE  UNCHANGED Promise!vars
    <2>1. procs[w] \in Busy
      BY <1>1, <1>3, ProcsTyped
    <2>2. \A x \in Workers : /\ procs'[x].event = procs[x].event
                             /\ procs'[x].token = procs[x].token
      BY <1>1, <1>3, <2>1 DEF Advance, Busy
    <2> QED
      BY <1>3, <2>2, Stutters
  <1>4. CASE UNCHANGED vars
    BY <1>4, Stutters DEF vars
  <1>5. ASSUME NEW w \in Workers, Claim(w) PROVE Promise!Next
    BY <1>5, Takes DEF Promise!Next
  <1>6. ASSUME NEW w \in Workers, Mark(w) PROVE Promise!Next
    BY <1>6, Settles DEF Promise!Next
  <1>7. ASSUME NEW w \in Workers,
               \/ AuthoritativeCommand(w) \/ FailToMark(w) \/ Postpone(w)
               \/ Crash(w) \/ Restart(w)
        PROVE  Promise!Next \/ UNCHANGED Promise!vars
    <2>1. rows' = rows /\ accepted' = accepted
      BY <1>7 DEF AuthoritativeCommand, FailToMark, Postpone, Crash, Restart
    <2>2. CASE \E pc \in {"IDLE", "DOWN"} : Switch(w, pc)
      BY <1>2, <2>1, <2>2
    <2>3. CASE AuthoritativeCommand(w) /\ \E pc, r : Advance(w, pc, r)
      <3>1. procs[w].event \in Events
        BY <1>1, <2>3, ProcsTyped DEF AuthoritativeCommand
      <3> QED
        BY <1>3, <2>1, <2>3, <3>1
    <2> QED
      BY <1>7, <2>2, <2>3
         DEF AuthoritativeCommand, FailToMark, Postpone, Crash, Restart
  <1>8. ASSUME NEW w \in Workers, Send(w) \/ Answer(w)
        PROVE  UNCHANGED Promise!vars
    <2>1. procs[w].event \in Events
      BY <1>1, <1>8, ProcsTyped DEF Send, Answer
    <2>2. rows' = rows /\ accepted' = accepted /\ \E pc, r : Advance(w, pc, r)
      BY <1>8 DEF Send, Answer
    <2> QED
      BY <1>3, <2>1, <2>2
  <1>9. ASSUME NEW e \in Events, Accept(e) PROVE Promise!Next
    <2>1. rows' = rows /\ procs' = procs /\ accepted' = accepted \cup {e}
      BY <1>9 DEF Accept
    <2>2. \A w \in Workers : Fenced(w)' <=> Fenced(w)
      BY <2>1 DEF Fenced
    <2>3. HolderView' = HolderView
      BY <2>1, <2>2, HolderStays
    <2>4. UNCHANGED <<StateView, WorksView, TriesView>>
      BY <2>1 DEF StateView, WorksView, TriesView
    <2>5. Promise!Accept(e)
      BY <2>1, <2>3, <2>4 DEF Promise!Accept
    <2> QED
      BY <2>5 DEF Promise!Next
  <1>10. ASSUME NEW e \in Events, Expire(e) \/ Overrun(e) \/ BecomeDue(e)
         PROVE  UNCHANGED Promise!vars
    <2>1. \A d \in Events : /\ rows'[d].status = rows[d].status
                            /\ rows'[d].retries = rows[d].retries
                            /\ rows'[d].token = rows[d].token
      BY <1>1, <1>10 DEF Expire, Overrun, BecomeDue, Rows
    <2>2. procs' = procs /\ accepted' = accepted
      BY <1>10 DEF Expire, Overrun, BecomeDue
    <2> QED
      BY <2>1, <2>2, Stutters
  <1>11. ASSUME NEW e \in Events, RetryFailedContractTransfer(e)
         PROVE  Promise!Next
    BY <1>11, Revives DEF Promise!Next
  <1> QED
    BY <1>4, <1>5, <1>6, <1>7, <1>8, <1>9, <1>10, <1>11 DEF TransferNext, Work

(* Claims, tokens and transactions implement TransferDelivery: whatever    *)
(* overruns, crashes and comes late, only the worker of the last claim     *)
(* settles an event, after MaxRetries + 1 tries at most, and an event that *)
(* has been SENT was accepted and is left alone.                           *)
THEOREM DeliveryIsKept == TransferSpec => DeliveryKept
  <1>1. TransferInv /\ TransferInv' /\ HolderFacts /\ HolderFacts' => Mapped
    BY DEF Mapped
  <1> QED
    BY <1>1, DeliveryInit, DeliveryStep, HolderOfRow, Invariance, PTL
       DEF TransferSpec, DeliveryKept, Promise!Spec

-----------------------------------------------------------------------------
(* What a retry by hand takes away: without one, the transaction that      *)
(* records an outcome never finds the number of its attempt taken.         *)

PutBack == \E e \in Events : RetryFailedContractTransfer(e)

UntouchedSpec == TransferInit /\ [][TransferNext /\ ~PutBack]_vars

(* An event has one attempt for each try it has used, and no other.        *)
TriesLogged ==
    \A e \in Events :
        /\ \A n \in Attempts : n <= rows[e].retries
                                 <=> \E a \in attempts[e] : a.no = n
        /\ \A a, b \in attempts[e] : a.no = b.no => a = b

(* Whoever holds an event may mark it.                                     *)
MarksAreFree == \A w \in Workers : Fenced(w) => MayMark(w)

(* The steps that record nothing and leave the tries alone.                *)
LEMMA TriesStay ==
  ASSUME TriesLogged, UNCHANGED attempts,
         \A e \in Events : rows'[e].retries = rows[e].retries
  PROVE  TriesLogged'
  BY DEF TriesLogged

(* A mark records the next try with the next number.                       *)
LEMMA MarkLogs ==
  ASSUME TransferInv, TriesLogged, NEW w \in Workers, Mark(w)
  PROVE  TriesLogged'
  <1> DEFINE e == procs[w].event
             k == procs[w].attempt
             r == MarkedRow(procs[w])
             b == [no |-> k, result |-> Outcome(procs[w])]
  <1>1. procs[w].pc = "ANSWERED" /\ Fenced(w)
    BY DEF Mark, MayMark
  <1>2. /\ e \in Events /\ k \in Attempts /\ k = rows[e].retries + 1
        /\ rows[e].retries \in Nat
    <2>1. rows[e].retries \in {0} \cup Attempts /\ procs[w] \in Busy
          /\ e \in Events /\ k = rows[e].retries + 1
      BY <1>1, MarkWrites DEF TransferInv, TransferTypeOK, Rows
    <2> QED
      BY <2>1 DEF Busy, Attempts
  <1>3. rows' = [rows EXCEPT ![e] = r]
        /\ attempts' = [attempts EXCEPT ![e] = @ \cup {b}]
    BY DEF Mark
  <1>4. r.retries = k /\ b.no = k
    BY DEF MarkedRow
  <1> HIDE DEF r, b, e, k
  <1>5. /\ rows'[e] = r /\ attempts'[e] = attempts[e] \cup {b}
        /\ \A d \in Events : d # e => rows'[d] = rows[d] /\ attempts'[d] = attempts[d]
    BY <1>2, <1>3 DEF TransferInv, TransferTypeOK
  <1>6. /\ \A n \in Attempts : n <= rows[e].retries
                                 <=> \E a \in attempts[e] : a.no = n
        /\ \A a, c \in attempts[e] : a.no = c.no => a = c
    BY <1>2 DEF TriesLogged
  <1>7. \A n \in Attempts : n <= k <=> n <= rows[e].retries \/ n = k
    BY <1>2 DEF Attempts
  <1>8. \A a \in attempts[e] : a.no # k
    <2>1. ~ (k <= rows[e].retries)
      BY <1>2
    <2> QED
      BY <1>2, <1>6, <2>1
  <1>9. \A n \in Attempts : n <= rows'[e].retries
                              <=> \E a \in attempts'[e] : a.no = n
    BY <1>4, <1>5, <1>6, <1>7
  <1>10. \A a, c \in attempts'[e] : a.no = c.no => a = c
    BY <1>4, <1>5, <1>6, <1>8
  <1>11. ASSUME NEW d \in Events, d # e
         PROVE  /\ \A n \in Attempts : n <= rows'[d].retries
                                         <=> \E a \in attempts'[d] : a.no = n
                /\ \A a, c \in attempts'[d] : a.no = c.no => a = c
    BY <1>5, <1>11 DEF TriesLogged
  <1> QED
    BY <1>9, <1>10, <1>11 DEF TriesLogged

LEMMA LoggedStep ==
  TransferInv /\ TriesLogged /\ [TransferNext /\ ~PutBack]_vars => TriesLogged'
  <1> SUFFICES ASSUME TransferInv, TriesLogged, [TransferNext /\ ~PutBack]_vars
               PROVE  TriesLogged'
    OBVIOUS
  <1>1. rows \in [Events -> Rows]
    BY DEF TransferInv, TransferTypeOK
  <1>2. CASE UNCHANGED <<rows, attempts>>
    BY <1>2, TriesStay
  <1>3. ASSUME NEW w \in Workers, Claim(w) PROVE TriesLogged'
    <2>1. PICK e \in Events : \E t :
            rows' = [rows EXCEPT ![e].status = "PROCESSING", ![e].token = t,
                                 ![e].over = FALSE]
      BY <1>3 DEF Claim
    <2>2. \A d \in Events : rows'[d].retries = rows[d].retries
      BY <1>1, <2>1 DEF Rows
    <2> QED
      BY <1>3, <2>2, TriesStay DEF Claim
  <1>4. ASSUME NEW w \in Workers, Mark(w) PROVE TriesLogged'
    BY <1>4, MarkLogs
  <1>5. ASSUME NEW e \in Events, Expire(e) \/ Overrun(e) \/ BecomeDue(e)
        PROVE  TriesLogged'
    <2>1. \A d \in Events : rows'[d].retries = rows[d].retries
      BY <1>1, <1>5 DEF Expire, Overrun, BecomeDue, Rows
    <2> QED
      BY <1>5, <2>1, TriesStay DEF Expire, Overrun, BecomeDue
  <1>6. CASE \/ \E w \in Workers : \/ AuthoritativeCommand(w) \/ Send(w) \/ Answer(w)
                                   \/ FailToMark(w) \/ Restart(w) \/ Postpone(w)
                                   \/ Crash(w)
             \/ \E e \in Events : Accept(e)
             \/ UNCHANGED vars
    BY <1>2, <1>6 DEF AuthoritativeCommand, Send, Answer, FailToMark, Restart,
                      Postpone, Crash, Accept, vars
  <1> QED
    BY <1>3, <1>4, <1>5, <1>6 DEF TransferNext, Work, PutBack

(* As long as no operator puts an event back, the log has one attempt for  *)
(* each try, and the transaction of a worker that still holds its event is *)
(* never refused for the number of its attempt (worker.go, finish, retry). *)
(* This is the part of EventsSettle that is not about fairness.            *)
THEOREM UntouchedMarks == UntouchedSpec => [](TriesLogged /\ MarksAreFree)
  <1>1. TransferInit => TriesLogged
    <2> SUFFICES ASSUME TransferInit PROVE TriesLogged
      OBVIOUS
    <2>1. \A e \in Events : rows[e].retries = 0 /\ attempts[e] = {}
      BY DEF TransferInit
    <2>2. \A n \in Attempts : ~(n <= 0)
      BY DEF Attempts
    <2> QED
      BY <2>1, <2>2 DEF TriesLogged
  <1>2. TransferInv /\ TriesLogged => MarksAreFree
    <2> SUFFICES ASSUME TransferInv, TriesLogged, NEW w \in Workers, Fenced(w),
                        NEW a \in attempts[procs[w].event], a.no = procs[w].attempt
                 PROVE  FALSE
      BY DEF MarksAreFree, MayMark
    <2>1. /\ procs[w].event \in Events /\ procs[w] \in Busy
          /\ procs[w].attempt = rows[procs[w].event].retries + 1
          /\ rows[procs[w].event].retries \in {0} \cup Attempts
      BY ProcsTyped
      DEF TransferInv, ClaimsAgree, Fenced, TransferTypeOK, Rows
    <2>2. procs[w].attempt \in Attempts
      BY <2>1 DEF Busy
    <2>3. procs[w].attempt <= rows[procs[w].event].retries
      BY <2>1, <2>2 DEF TriesLogged
    <2> QED
      BY <2>1, <2>3 DEF Attempts
  <1>3. UntouchedSpec => []TransferInv
    <2>1. [TransferNext /\ ~PutBack]_vars => [TransferNext]_vars
      OBVIOUS
    <2> QED
      BY <2>1, InvInit, InvStep, PTL DEF UntouchedSpec
  <1> QED
    BY <1>1, <1>2, <1>3, LoggedStep, PTL DEF UntouchedSpec

=============================================================================
