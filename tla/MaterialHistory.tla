-------------------------- MODULE MaterialHistory --------------------------
(***************************************************************************)
(* MaterialTransactions implements CommittedHistory: the receipts, read in *)
(* the order of the sequence numbers of their trees, are the log, and the  *)
(* two head pointers are the sequence numbers of the trees they name.      *)
(***************************************************************************)
EXTENDS MaterialTransactions

SequenceOf(h) == IF h = Null THEN 0 ELSE trees[h].sequence

CommittedLog ==
    [k \in 1..Cardinality(Committed) |-> CHOOSE o \in Committed : trees[o].sequence = k]

History == INSTANCE CommittedHistory WITH
               Operations <- Ids,
               log        <- CommittedLog,
               published  <- SequenceOf(head),
               recorded   <- SequenceOf(projectHead)

\* Every step of the store is a step of the abstract history or changes nothing
\* of it, and what was committed is published in the end: with processes that
\* crash anywhere, as long as clients recover before they go on, and unless a
\* crash leaves project.json empty.
ImplementsHistory ==
    /\ History!HistorySpec
    /\ []~ProjectLeftTorn => History!Publishing
=============================================================================
