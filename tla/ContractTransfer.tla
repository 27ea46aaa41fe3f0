-------------------------- MODULE ContractTransfer --------------------------
(***************************************************************************)
(* The delivery of accepted opportunities to the contract system           *)
(* (src/internal/contracttransferworker).  A worker claims one event for   *)
(* the time of a lease under a fresh token, reads the opportunity, sends   *)
(* the command, and marks the event in a transaction that asks for its     *)
(* token.  Between these steps it holds no lock: the lease may run out and *)
(* another worker claim the event, the answer may be lost, and the worker  *)
(* may stop.  An error of a transaction ends the process.                  *)
(*                                                                         *)
(* Time is abstracted to what it decides: the lease of a row is over or    *)
(* not, a retry is due or not.  A worker compares the lease with a time it *)
(* read before its transaction, so that a lease that has just run out may  *)
(* still pass.                                                             *)
(***************************************************************************)
EXTENDS Naturals

CONSTANTS
    Events,      \* rows of type OPPORTUNITY_SIGNED, in the order of created_at, id
    Workers,     \* worker processes
    Tokens,      \* claim tokens
    NoToken,     \* locked_by is empty
    NoEvent,
    Nobody,      \* no worker holds the event
    MaxRetries,  \* the length of retryDelays
    MaxFaults    \* bound on crashes, denied licences and overrun leases

ASSUME TransferAssumption ==
    /\ Events \subseteq Nat
    /\ MaxRetries \in Nat /\ MaxFaults \in Nat
    /\ NoToken \notin Tokens /\ NoEvent \notin Events /\ Nobody \notin Workers

VARIABLES
    rows,       \* rows[e]: the outbox row
    attempts,   \* attempts[e]: crm_contract_transfer_attempts
    procs,      \* procs[w]: what the process works on
    requested,  \* events sent to the contract system, which may come late
    accepted,   \* events the contract system has taken in
    sound,      \* events whose opportunity is still signed as they say
    faults      \* crashes, denied licences and overrun leases so far

vars == <<rows, attempts, procs, requested, accepted, sound, faults>>

Settled == {"SENT", "DEAD_LETTER"}
Statuses == {"PENDING", "RETRY_WAIT", "PROCESSING"} \cup Settled
Attempts == 1..(MaxRetries + 1)

(* over: locked_until has passed; due: next_retry_at is empty or passed.   *)
Rows == [status : Statuses, retries : {0} \cup Attempts,
         token : Tokens \cup {NoToken}, over : BOOLEAN, due : BOOLEAN]

Results == {"SENT", "RETRY", "DEAD_LETTER"}

(* A process at work has its copy of the claimed event and the number of   *)
(* the attempt; CLAIMED, then READY to send, WAITING for the answer, and   *)
(* ANSWERED with a result to mark.                                         *)
Busy == [pc : {"CLAIMED", "READY", "WAITING", "ANSWERED"}, event : Events,
         token : Tokens, attempt : Attempts, result : Results \cup {"NONE"}]

Off(pc) == [pc |-> pc, event |-> NoEvent, token |-> NoToken, attempt |-> 0,
            result |-> "NONE"]

Procs == Busy \cup {Off("IDLE"), Off("DOWN")}

TransferTypeOK ==
    /\ rows \in [Events -> Rows]
    /\ attempts \in [Events -> SUBSET [no : Attempts,
                                       result : Settled \cup {"RETRY_WAIT"}]]
    /\ procs \in [Workers -> Procs]
    /\ requested \subseteq Events
    /\ accepted \subseteq Events
    /\ sound \subseteq Events
    /\ faults \in 0..MaxFaults

TransferInit ==
    /\ rows = [e \in Events |-> [status |-> "PENDING", retries |-> 0,
                                 token |-> NoToken, over |-> FALSE,
                                 due |-> TRUE]]
    /\ attempts = [e \in Events |-> {}]
    /\ procs = [w \in Workers |-> Off("IDLE")]
    /\ requested = {} /\ accepted = {}
    /\ sound \in SUBSET Events
    /\ faults = 0

-----------------------------------------------------------------------------
FencedByStatus(w) ==
    /\ procs[w].event \in Events
    /\ rows[procs[w].event].status = "PROCESSING"

(* The transactions of a worker look for the row under its token.          *)
Fenced(w) ==
    LET p == procs[w] IN
    /\ p.event \in Events
    /\ rows[p.event].status = "PROCESSING"
    /\ rows[p.event].token = p.token

(* The row that claimSQL selects and its holder has locked is skipped.     *)
Skipped(e) == \E w \in Workers : procs[w].event = e /\ Fenced(w)

ClaimableWhileDue(r) == r.status \in {"PENDING", "RETRY_WAIT"} /\ r.due

(* claimSQL                                                                *)
Claimable(r) ==
    \/ r.status \in {"PENDING", "RETRY_WAIT"} /\ r.due
    \/ r.status = "PROCESSING" /\ r.over

(* A fresh random token: none of a claim of the event that is remembered.  *)
UnusedTokens(e) ==
    {t \in Tokens :
        /\ t # rows[e].token
        /\ \A w \in Workers : procs[w].event = e => procs[w].token # t}

(* claimOne: the oldest row that can be claimed.                           *)
Claim(w) ==
    /\ procs[w].pc = "IDLE"
    /\ \E e \in Events :
          /\ Claimable(rows[e])
          /\ UnusedTokens(e) # {}
          /\ \A d \in Events : d < e /\ Claimable(rows[d]) => Skipped(d)
          /\ LET t == CHOOSE t \in Tokens : t \in UnusedTokens(e) IN
             /\ rows' = [rows EXCEPT ![e].status = "PROCESSING",
                                     ![e].token = t,
                                     ![e].over = FALSE]
             /\ procs' = [procs EXCEPT ![w] =
                    [pc |-> "CLAIMED", event |-> e, token |-> t,
                     attempt |-> rows[e].retries + 1, result |-> "NONE"]]
    /\ UNCHANGED <<attempts, requested, accepted, sound, faults>>

(* Step to pc, with the result that is to be marked.                       *)
Advance(w, pc, result) ==
    procs' = [procs EXCEPT ![w].pc = pc, ![w].result = result]

Switch(w, pc) == procs' = [procs EXCEPT ![w] = Off(pc)]

(* authoritativeCommand: a lost lease ends the process, an opportunity     *)
(* that is not signed any more ends the event, a failed read is retried.   *)
AuthoritativeCommand(w) ==
    /\ procs[w].pc = "CLAIMED"
    /\ \/ ~Fenced(w) /\ Switch(w, "DOWN")
       \/ Fenced(w) /\ rows[procs[w].event].over /\ Switch(w, "DOWN")
       \/ Fenced(w) /\ Advance(w, "ANSWERED", "RETRY")
       \/ /\ Fenced(w) /\ procs[w].event \notin sound
          /\ Advance(w, "ANSWERED", "DEAD_LETTER")
       \/ /\ Fenced(w) /\ procs[w].event \in sound
          /\ Advance(w, "READY", "NONE")
    /\ UNCHANGED <<rows, attempts, requested, accepted, sound, faults>>

(* deliver, the request.                                                   *)
Send(w) ==
    /\ procs[w].pc = "READY"
    /\ requested' = requested \cup {procs[w].event}
    /\ Advance(w, "WAITING", "NONE")
    /\ UNCHANGED <<rows, attempts, accepted, sound, faults>>

(* The contract system takes an event in, once, whenever a request for it  *)
(* arrives; the event id is the idempotency key.                           *)
Accept(e) ==
    /\ e \in requested
    /\ accepted' = accepted \cup {e}
    /\ UNCHANGED <<rows, attempts, procs, requested, sound, faults>>

(* The envelope of a 202 names the event and its intake.                   *)
Confirmed(e) == e \in accepted

(* deliver, the answer: an acceptance; a 4xx or an invalid acceptance; a   *)
(* 5xx, a 429, or none in time.                                            *)
Answer(w) ==
    /\ procs[w].pc = "WAITING"
    /\ \/ Confirmed(procs[w].event) /\ Advance(w, "ANSWERED", "SENT")
       \/ Advance(w, "ANSWERED", "DEAD_LETTER")
       \/ Advance(w, "ANSWERED", "RETRY")
    /\ UNCHANGED <<rows, attempts, requested, accepted, sound, faults>>

LaterExhausted(attempt) == attempt > MaxRetries + 1

Exhausted(attempt) == attempt > MaxRetries

(* The status retry and finish write.                                      *)
Outcome(p) ==
    IF p.result # "RETRY" THEN p.result
    ELSE IF Exhausted(p.attempt) THEN "DEAD_LETTER" ELSE "RETRY_WAIT"

(* finish and retry write the row and its attempt in one transaction; the  *)
(* number of an attempt is unique.                                         *)
MayMark(w) ==
    /\ Fenced(w)
    /\ \A a \in attempts[procs[w].event] : a.no # procs[w].attempt

MarkedOnRetryOnly(p) ==
    [status |-> Outcome(p), token |-> NoToken, over |-> FALSE,
     retries |-> IF p.result = "RETRY" THEN p.attempt ELSE p.attempt - 1,
     due |-> Outcome(p) # "RETRY_WAIT"]

MarkedRow(p) ==
    [status |-> Outcome(p), retries |-> p.attempt, token |-> NoToken,
     over |-> FALSE, due |-> Outcome(p) # "RETRY_WAIT"]

Mark(w) ==
    LET p == procs[w] IN
    /\ p.pc = "ANSWERED"
    /\ MayMark(w)
    /\ rows' = [rows EXCEPT ![p.event] = MarkedRow(p)]
    /\ attempts' = [attempts EXCEPT ![p.event] =
                       @ \cup {[no |-> p.attempt, result |-> Outcome(p)]}]
    /\ Switch(w, "IDLE")
    /\ UNCHANGED <<requested, accepted, sound, faults>>

(* The transaction fails, and the process ends with its error.             *)
FailToMark(w) ==
    /\ procs[w].pc = "ANSWERED"
    /\ ~MayMark(w) \/ rows[procs[w].event].over
    /\ Switch(w, "DOWN")
    /\ UNCHANGED <<rows, attempts, requested, accepted, sound, faults>>

-----------------------------------------------------------------------------
Fault == faults < MaxFaults /\ faults' = faults + 1

(* The licence is denied before the read or before the request: the event  *)
(* keeps its lease.                                                        *)
Postpone(w) ==
    /\ procs[w].pc \in {"CLAIMED", "READY"}
    /\ Switch(w, "IDLE")
    /\ Fault
    /\ UNCHANGED <<rows, attempts, requested, accepted, sound>>

Crash(w) ==
    /\ procs[w].pc # "DOWN"
    /\ Switch(w, "DOWN")
    /\ Fault
    /\ UNCHANGED <<rows, attempts, requested, accepted, sound>>

Restart(w) ==
    /\ procs[w].pc = "DOWN"
    /\ Switch(w, "IDLE")
    /\ UNCHANGED <<rows, attempts, requested, accepted, sound, faults>>

LeaseRuns(e) == rows[e].status = "PROCESSING" /\ ~rows[e].over

(* The lease of an event that nobody works on any more runs out.           *)
Expire(e) ==
    /\ LeaseRuns(e) /\ ~Skipped(e)
    /\ rows' = [rows EXCEPT ![e].over = TRUE]
    /\ UNCHANGED <<attempts, procs, requested, accepted, sound, faults>>

(* The lease runs out under its holder.                                    *)
Overrun(e) ==
    /\ LeaseRuns(e) /\ Skipped(e)
    /\ rows' = [rows EXCEPT ![e].over = TRUE]
    /\ Fault
    /\ UNCHANGED <<attempts, procs, requested, accepted, sound>>

BecomeDue(e) ==
    /\ rows[e].status = "RETRY_WAIT" /\ ~rows[e].due
    /\ rows' = [rows EXCEPT ![e].due = TRUE]
    /\ UNCHANGED <<attempts, procs, requested, accepted, sound, faults>>

(* An operator resets a dead letter; its attempts stay.                    *)
RetryFailedContractTransfer(e) ==
    /\ rows[e].status = "DEAD_LETTER"
    /\ rows' = [rows EXCEPT ![e].status = "PENDING", ![e].retries = 0]
    /\ UNCHANGED <<attempts, procs, requested, accepted, sound, faults>>

Work(w) ==
    \/ Claim(w)
    \/ AuthoritativeCommand(w)
    \/ Send(w)
    \/ Answer(w)
    \/ Mark(w)
    \/ FailToMark(w)
    \/ Restart(w)

TransferNext ==
    \/ \E w \in Workers : Work(w) \/ Postpone(w) \/ Crash(w)
    \/ \E e \in Events :
          \/ Accept(e)
          \/ Expire(e)
          \/ Overrun(e)
          \/ BecomeDue(e)
          \/ RetryFailedContractTransfer(e)

TransferSpec == TransferInit /\ [][TransferNext]_vars

(* The workers are run and restarted, and time passes.                     *)
TransferFairness ==
    /\ \A w \in Workers : WF_vars(Work(w))
    /\ \A e \in Events : WF_vars(Expire(e)) /\ WF_vars(BecomeDue(e))

FairTransferSpec == TransferSpec /\ TransferFairness

-----------------------------------------------------------------------------
(* A row that has ended says so in its last attempt, and an event whose    *)
(* log holds a SENT attempt is SENT: finish writes both or none, whoever   *)
(* comes late.                                                             *)
OutcomeRecorded ==
    \A e \in Events :
        /\ rows[e].status \in Settled =>
               [no |-> rows[e].retries, result |-> rows[e].status]
                  \in attempts[e]
        /\ \A a \in attempts[e] : a.result = "SENT" => rows[e].status = "SENT"

(* The worker that may still mark the event.                               *)
Holder(e) ==
    IF Skipped(e)
    THEN CHOOSE w \in Workers : procs[w].event = e /\ Fenced(w)
    ELSE Nobody

(* How the tables and processes show what TransferDelivery speaks of.      *)
StateOf(r) ==
    CASE r.status \in {"PENDING", "RETRY_WAIT"} -> "WAITING"
      [] r.status = "PROCESSING" -> "TAKEN"
      [] OTHER -> r.status

StateView == [e \in Events |-> StateOf(rows[e])]
HolderView == [e \in Events |-> Holder(e)]
WorksView == [w \in Workers |-> procs[w].event]
TriesView == [e \in Events |-> rows[e].retries]

Promise == INSTANCE TransferDelivery WITH
    Nothing <- NoEvent, Tries <- MaxRetries + 1, state <- StateView,
    holder <- HolderView, works <- WorksView, tries <- TriesView

(* Tokens and leases keep the promise of TransferDelivery: a worker whose  *)
(* event has been claimed again settles nothing, tries are counted to the  *)
(* end of the delays, SENT stands and is never written without acceptance. *)
DeliveryKept == Promise!Spec

(* Every event ends, whatever is lost on the way, unless an operator has   *)
(* put one back by hand: retries are limited, and a lease that a stopped   *)
(* worker has left behind is taken over.                                   *)
EventsSettle ==
    \A e \in Events :
        <>(\/ rows[e].status \in Settled
           \/ \E d \in Events : rows[d].status = "PENDING" /\ attempts[d] # {})

(* A dead letter that an operator has put back ends again.                 *)
RetriedSettles ==
    \A e \in Events :
        rows[e].status = "PENDING" /\ attempts[e] # {}
            ~> rows[e].status \in Settled

=============================================================================
