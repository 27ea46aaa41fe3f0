--------------------------- MODULE PresaleHandover ---------------------------
(***************************************************************************)
(* The handover of the execution tasks of a leaving person (modules/       *)
(* handover: Service.Transfer and transferPresaleAssignment), composed     *)
(* with the execution of a presale request.                                *)
(*                                                                         *)
(* The platform that runs the handover sends a transfer for each task,     *)
(* with an idempotency key, and repeats it until it has a receipt.  The    *)
(* transfer checks the freezes, then opens a transaction on the assignment *)
(* rows: neither the lock nor the version of the request is part of it.    *)
(* The first read of that transaction is a plain one, so everything it     *)
(* reads without a lock is as old as that read, while its update and the   *)
(* freeze of the successor are of the moment: three actions.               *)
(***************************************************************************)
EXTENDS PresaleExecution

CONSTANT Keys    \* idempotency keys of the transfers of one handover

VARIABLES
    transfers,   \* transfers that have passed the checks on the freezes
    receipts     \* receipts[k]: the receipt written under the key

handoverVars == <<transfers, receipts>>

(* What the transaction has read: nothing yet, a task it may hand over, or *)
(* none.                                                                   *)
Reads == {"NOT_YET", "TRANSFERABLE", "REFUSED"}

Transfers == [key : Keys, from : Persons, to : Persons, read : Reads]

HandoverTypeOK ==
    /\ ExecutionTypeOK
    /\ transfers \in SUBSET Transfers
    /\ receipts \in [Keys -> {"NONE", "APPLIED", "REJECTED"}]

HandoverInit ==
    /\ ExecutionInit
    /\ transfers = {}
    /\ receipts = [k \in Keys |-> "NONE"]

(* Service.Transfer: a key that has a receipt is answered with it.         *)
BeginTransfer(k, from, to) ==
    /\ from # to
    /\ receipts[k] = "NONE"
    /\ from \in frozen /\ to \notin frozen
    /\ \A t \in transfers : t.key = k => t.from = from /\ t.to = to
    /\ transfers' = transfers \cup
         {[key |-> k, from |-> from, to |-> to, read |-> "NOT_YET"]}
    /\ UNCHANGED <<executionState, receipts>>

(* A current team lead is not handed over: a director selects the next.    *)
(* The version of the assignment in the transfer does not tell: current    *)
(* rows all have version 1.                                                *)
Transferable(p) == leadRows[p] = 0 /\ executors[p] > 0

(* The transaction starts: no receipt yet, and its view of the rows.       *)
OpenTransfer(t) ==
    /\ t.read = "NOT_YET"
    /\ receipts[t.key] = "NONE"
    /\ transfers' = (transfers \ {t}) \cup
         {[t EXCEPT !.read = IF Transferable(t.from) THEN "TRANSFERABLE"
                             ELSE "REFUSED"]}
    /\ UNCHANGED <<executionState, receipts>>

GuardAnySuccessor(t) == TRUE

GuardSuccessor(t) == t.to \notin frozen

WriteReceiptAgain(k, status) == receipts' = [receipts EXCEPT ![k] = status]

WriteReceipt(k, status) ==
    /\ receipts[k] = "NONE"
    /\ receipts' = [receipts EXCEPT ![k] = status]

(* The rest of transferPresaleAssignment.  The update ends every current   *)
(* EXECUTOR row of the person; only when it was exactly one does the       *)
(* successor get a row, but the rows stay ended in either case.  A         *)
(* transaction that finds the key taken when it writes its receipt looks   *)
(* the receipt up in its own older snapshot, does not find it and rolls    *)
(* back.                                                                   *)
CommitTransfer(t) ==
    /\ t.read # "NOT_YET"
    /\ GuardSuccessor(t)
    /\ \/ /\ t.read = "REFUSED" \/ executors[t.from] = 0
          /\ WriteReceipt(t.key, "REJECTED")
          /\ UNCHANGED executors
       \/ /\ t.read = "TRANSFERABLE" /\ executors[t.from] = 1
          /\ executors[t.to] < MaxRows
          /\ executors' = [executors EXCEPT ![t.from] = 0, ![t.to] = @ + 1]
          /\ WriteReceipt(t.key, "APPLIED")
       \/ /\ t.read = "TRANSFERABLE" /\ executors[t.from] > 1
          /\ executors' = [executors EXCEPT ![t.from] = 0]
          /\ WriteReceipt(t.key, "REJECTED")
    /\ transfers' = transfers \ {t}
    /\ UNCHANGED <<requestVars, leadRows, evidence, worked, peopleVars, calls,
                   invalidations>>

(* Refused in the transaction, answered with the receipt that a repetition *)
(* has written meanwhile, or lost.                                         *)
AbandonTransfer(t) ==
    /\ transfers' = transfers \ {t}
    /\ UNCHANGED <<executionState, receipts>>

HandoverSteps ==
    \/ \E k \in Keys, from, to \in Persons : BeginTransfer(k, from, to)
    \/ \E t \in transfers : OpenTransfer(t) \/ CommitTransfer(t) \/ AbandonTransfer(t)

handoverState == <<executionState, handoverVars>>

HandoverNext == HandoverSteps \/ (ExecutionNext /\ UNCHANGED handoverVars)
HandoverSpec == HandoverInit /\ [][HandoverNext]_handoverState

-----------------------------------------------------------------------------
(* Properties.                                                             *)

(* A receipt stands for what was done under its key, once: a repeated      *)
(* delivery neither changes the receipt nor moves anything more, whatever  *)
(* happened to the rows in between (existingReceipt, writeReceipt).        *)
ReceiptStands ==
    [][/\ \A k \in Keys : receipts[k] # "NONE" => receipts'[k] = receipts[k]
       /\ executors' # executors /\ UNCHANGED req =>
            \E k \in Keys : receipts[k] = "NONE" /\ receipts'[k] # "NONE"
      ]_handoverState

-----------------------------------------------------------------------------
(* What a comment says of the handover, and what it does not do: this has  *)
(* a counterexample, as has RowsChangeWithVersion, which holds without     *)
(* transfers.                                                              *)

(* repository.go: a REJECTED receipt never comes with a change of data.    *)
RejectedChangesNothing ==
    [][\A k \in Keys : receipts[k] = "NONE" /\ receipts'[k] = "REJECTED" =>
          UNCHANGED executors]_handoverState

=============================================================================
