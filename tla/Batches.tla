------------------------------ MODULE Batches ------------------------------
(***************************************************************************)
(* BatchBook of src/batch: a manifest of ledger calls is drafted, sealed,  *)
(* and then executed by somebody else, who records the transactions of the *)
(* ledger one by one.  An instruction stands for its whole content.        *)
(***************************************************************************)
EXTENDS EpochClock, SequencesExt

CONSTANTS
    BatchIds, Instructions,
    SealEpochs,               \* epochs that a caller seals a batch with
    MaxInstructions, MaxTxs   \* bounds of a run

ASSUME BatchAssumption ==
    SealEpochs \subseteq Nat /\ MaxInstructions \in Nat /\ MaxTxs \in Nat

VARIABLES
    batches,    \* BatchBook::batches
    sealedAs    \* history: a batch as it was sealed

batchVars == <<batches, sealedAs>>

BatchStatus == {"Draft", "Sealed", "Executing", "Completed", "Cancelled"}
Terminal == {"Completed", "Cancelled"}
NeverSealed == -1

\* BatchManifest.  An id that is not in the book has the status "Unknown".
\* Transactions are only counted: nothing reads their ids.
Manifest == [status : BatchStatus \cup {"Unknown"}, instructions : Seq(Instructions),
             executed_txs : Nat, sealed_epoch : Nat \cup {NeverSealed}]
NewManifest(status) ==
    [status |-> status, instructions |-> << >>, executed_txs |-> 0,
     sealed_epoch |-> NeverSealed]

BatchInit ==
    /\ batches = [b \in BatchIds |-> NewManifest("Unknown")]
    /\ sealedAs = [b \in BatchIds |-> NewManifest("Unknown")]

InsertBatch(b) ==
    /\ batches[b].status = "Unknown"
    /\ batches' = [batches EXCEPT ![b] = NewManifest("Draft")]
    /\ UNCHANGED sealedAs

\* Mutant: a sealed batch can still be edited.
PushInstruction_sealed(b, instruction) ==
    /\ batches[b].status \in {"Draft", "Sealed"}
    /\ Len(batches[b].instructions) < MaxInstructions
    /\ batches' = [batches EXCEPT ![b].instructions = Append(@, instruction)]
    /\ UNCHANGED sealedAs

PushInstruction(b, instruction) ==
    /\ batches[b].status = "Draft"
    /\ Len(batches[b].instructions) < MaxInstructions
    /\ batches' = [batches EXCEPT ![b].instructions = Append(@, instruction)]
    /\ UNCHANGED sealedAs

\* seal believes the caller about the epoch.
Seal(b, e) ==
    /\ batches[b].status = "Draft" /\ batches[b].instructions # << >>
    /\ batches' = [batches EXCEPT ![b].status = "Sealed", ![b].sealed_epoch = e]
    /\ sealedAs' = [sealedAs EXCEPT ![b] = batches'[b]]

BeginExecution(b) ==
    /\ batches[b].status = "Sealed"
    /\ batches' = [batches EXCEPT ![b].status = "Executing"]
    /\ UNCHANGED sealedAs

\* record_tx takes more transactions than there are instructions.
RecordTx(b) ==
    /\ batches[b].status = "Executing" /\ batches[b].executed_txs < MaxTxs
    /\ batches' = [batches EXCEPT ![b].executed_txs = @ + 1]
    /\ UNCHANGED sealedAs

Complete(b) ==
    /\ batches[b].status = "Executing"
    /\ batches[b].executed_txs <= Len(batches[b].instructions)
    /\ batches' = [batches EXCEPT ![b].status = "Completed"]
    /\ UNCHANGED sealedAs

CancelBatch(b) ==
    /\ batches[b].status \notin Terminal \cup {"Unknown"}
    /\ batches' = [batches EXCEPT ![b].status = "Cancelled"]
    /\ UNCHANGED sealedAs

BatchNext ==
    /\ Idle
    /\ \E b \in BatchIds :
         \/ InsertBatch(b)
         \/ \E instruction \in Instructions : PushInstruction(b, instruction)
         \/ \E e \in SealEpochs : Seal(b, e)
         \/ BeginExecution(b) \/ RecordTx(b) \/ Complete(b) \/ CancelBatch(b)

---------------------------------------------------------------------------
\* Properties

\* What has been executed is what was sealed: from the first transaction on a
\* batch has exactly the instructions and the epoch of its seal, at least one
\* instruction; a completed batch has no transaction too many; and a batch that
\* recorded too many never completes, it can only be cancelled.
ExecutedAsSealed ==
    \A b \in BatchIds :
        LET batch == batches[b]
        IN  /\ batch.executed_txs > 0 \/ batch.status = "Completed" =>
                 /\ batch.instructions = sealedAs[b].instructions
                 /\ batch.sealed_epoch = sealedAs[b].sealed_epoch
                 /\ sealedAs[b].instructions # << >>
            /\ batch.status = "Completed" =>
                 batch.executed_txs <= Len(sealedAs[b].instructions)
            /\ batch.executed_txs > Len(batch.instructions) =>
                 batch.status \in {"Executing", "Cancelled"}
=============================================================================
