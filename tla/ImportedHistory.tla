--------------------------- MODULE ImportedHistory ---------------------------
(***************************************************************************)
(* MaterialTransactions in a project into which a portable package is      *)
(* imported (src/src/portable-package/runtime.ts).  The package of a       *)
(* workflow holds the trees the workflow names and the receipts of the     *)
(* operations that began and completed it; importPackage writes them into  *)
(* the same tree-revisions/ and receipts/ recovery reads, without a lock.  *)
(* The first of those trees is the root of the source project's history.   *)
(***************************************************************************)
EXTENDS MaterialTransactions

VARIABLE foreign    \* operations of another project, whose records are here

importedVars == <<vars, foreign>>

ImportedInit == Init /\ foreign = {}

\* A receipt payload: the operation of the source project that created its
\* first tree.  readProject fails unless the target is initialized.
ImportReceipt ==
    /\ initialized /\ ~TornProject
    /\ issued < MaxOps
    /\ issued' = issued + 1
    /\ foreign' = foreign \cup {issued'}
    /\ receipts' = [receipts EXCEPT ![issued'] =
                       [status |-> "committed", previous_head |-> Null, new_head |-> issued']]
    /\ UNCHANGED <<lock, head, initialized, projectHead, trees, intents, dirty, locals>>

\* Its tree follows: payloads come in path order.
ImportTree ==
    /\ \E o \in foreign :
        /\ ~TreeExists(o)
        /\ trees' = [trees EXCEPT ![o] = [parent |-> Null, sequence |-> 1]]
    /\ UNCHANGED <<lock, head, initialized, projectHead, receipts, intents, issued, dirty, locals, foreign>>

ImportedNext ==
    \/ Next /\ UNCHANGED foreign
    \/ ImportReceipt
    \/ ImportTree

ImportedSpec == ImportedInit /\ [][ImportedNext]_importedVars

-----------------------------------------------------------------------------
\* STORAGE_AND_RECOVERY: "Recovery reconciles committed material-success
\* receipts whose tree exists but whose head/project metadata advance was
\* interrupted": after it, HEAD has the project's own committed operations.
InterruptedIsReconciled == Settled => Committed \ foreign \subseteq Lineage[head]

=============================================================================
