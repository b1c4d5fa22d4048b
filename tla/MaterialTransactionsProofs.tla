-------------------- MODULE MaterialTransactionsProofs ---------------------
(***************************************************************************)
(* Proofs about MaterialTransactions, for every set of processes and every *)
(* number of operations.  First what holds under every set of faults:      *)
(* crashes and throws anywhere, recovery that overlaps with operations,    *)
(* racing inits; then what holds of the committed history when processes   *)
(* may crash anywhere and nothing else goes wrong.                         *)
(***************************************************************************)
EXTENDS MaterialHistory, FiniteSetTheorems, SequenceTheorems, WellFoundedInduction, TLAPS

(***************************************************************************)
(* The inductive invariant.  Between the choice of its operation id and    *)
(* the write of its receipt a process owns that id (Owning), and from the  *)
(* receipt on the id is committed (Publishing).                            *)
(***************************************************************************)
Owning(p) == pc[p] \in {"intent", "records", "receipt"}

Publishing(p) ==
    pc[p] \in {"project", "fill", "head", "clear", "r_init_project", "r_init_fill", "r_init_head",
               "r_restore_head", "r_restore_project", "r_clear", "r_fix_head", "r_fix_project"}

\* Operation ids above issued have left no receipt.
IdsFresh == \A o \in Ids : o > issued => receipts[o].status = "none"

\* An owned id is in use by one process, is not committed, and follows either
\* nothing or a committed tree.
OwningInv ==
    \A p \in Procs : Owning(p) =>
        /\ op[p] \in 1..issued
        /\ op[p] \notin Committed
        /\ prev[p] \in Committed \cup {Null}
        /\ \A q \in Procs : Owning(q) /\ op[q] = op[p] => q = p

\* Once the records are written the tree follows prev[p].
ReceiptInv ==
    \A p \in Procs : pc[p] = "receipt" =>
        /\ trees[op[p]].parent = prev[p]
        /\ trees[op[p]].sequence =
               (IF prev[p] = Null THEN 1 ELSE trees[prev[p]].sequence + 1)

PublishingInv == \A p \in Procs : Publishing(p) => op[p] \in Committed

HeadInv == {head, projectHead} \subseteq Committed \cup {Null}

StoreInv ==
    /\ TypeOK
    /\ IdsFresh
    /\ OwningInv
    /\ ReceiptInv
    /\ PublishingInv
    /\ HeadInv
    /\ AncestryCommitted

-----------------------------------------------------------------------------
(* Type correctness. *)

\* What the steps that leave an operation do to the locals.
LEMMA LeaveType ==
    ASSUME TypeOK, NEW p \in Procs, Leave(p)
    PROVE  /\ pc' \in [Procs -> Steps]
           /\ job' \in [Procs -> Jobs]
           /\ op' \in [Procs -> Heads]
           /\ prev' \in [Procs -> Heads]
           /\ todo' \in [Procs -> SUBSET Ids]
  BY DEF TypeOK, Leave, Goto, Steps, Jobs, Heads

\* Starting an operation or a recovery keeps the types.
LEMMA StartType ==
    ASSUME TypeOK, NEW p \in Procs, Start(p)
    PROVE  TypeOK'
  BY DEF TypeOK, Start, StartInit, StartSync, StartRestore, StartRecover, Enter, Goto,
         durable, Steps, OpSteps, RecoverySteps, Jobs

\* So does every step of an operation,
LEMMA OperationType ==
    ASSUME TypeOK, NEW p \in Procs, OperationStep(p)
    PROVE  TypeOK'
  <1>1. CASE CreateLock(p)
    <2>1. CASE Leave(p) /\ UNCHANGED lock
      BY <1>1, <2>1, LeaveType DEF TypeOK, CreateLock
    <2>2. CASE /\ lock' = [owner |-> p, written |-> FALSE]
               /\ Goto(p, "stamp")
               /\ UNCHANGED <<job, op, prev, todo>>
      BY <1>1, <2>2 DEF TypeOK, CreateLock, Goto, LockRecord, Steps, OpSteps
    <2>3. QED BY <1>1, <2>1, <2>2 DEF CreateLock
  <1>2. CASE StampLock(p)
    BY <1>2 DEF TypeOK, StampLock, Goto, LockRecord, Steps, OpSteps
  <1>3. CASE Begin(p)
    <2>1. head \in Heads /\ issued + 1 \in Ids /\ issued + 1 \in 0..MaxOps
      BY <1>3, MaxOpsAssumption DEF TypeOK, Begin, Ids
    <2>2. PICK previousHead \in Heads :
             /\ op' = [op EXCEPT ![p] = issued + 1]
             /\ prev' = [prev EXCEPT ![p] = previousHead]
             /\ \/ UNCHANGED receipts
                \/ receipts' = [receipts EXCEPT ![issued + 1] =
                      [status |-> "no_change", previous_head |-> previousHead,
                       new_head |-> previousHead]]
      BY <1>3, <2>1 DEF Begin, Heads
    <2>3. receipts' \in [Ids -> ReceiptRecord]
      BY <2>2 DEF TypeOK, ReceiptRecord
    <2>4. pc' \in [Procs -> Steps]
      BY <1>3 DEF TypeOK, Begin, Goto, Steps, OpSteps
    <2>5. /\ op' \in [Procs -> Heads]
          /\ prev' \in [Procs -> Heads]
      BY <2>1, <2>2 DEF TypeOK, Heads
    <2>6. issued' \in 0..MaxOps
      BY <1>3, <2>1 DEF Begin
    <2>7. UNCHANGED <<lock, head, initialized, projectHead, trees, intents, dirty, job, todo>>
      BY <1>3 DEF Begin
    <2>8. QED BY <2>3, <2>4, <2>5, <2>6, <2>7 DEF TypeOK
  <1>4. CASE Refuse(p)
    BY <1>4 DEF TypeOK, Refuse, Goto, durable, Steps, OpSteps
  <1>5. CASE WriteIntent(p)
    BY <1>5 DEF TypeOK, WriteIntent, Goto, Steps, OpSteps
  <1>6. CASE WriteRecords(p)
    <2>1. prev[p] \in Heads /\ (prev[p] # Null => trees[prev[p]].sequence \in Nat)
      BY DEF TypeOK, Heads, TreeRecord
    <2>2. [parent |-> prev[p],
           sequence |-> IF prev[p] = Null THEN 1 ELSE trees[prev[p]].sequence + 1]
            \in TreeRecord
      BY <2>1 DEF TreeRecord
    <2>3. trees' \in [Ids -> TreeRecord]
      BY <1>6, <2>2 DEF WriteRecords, TypeOK
    <2>4. QED BY <1>6, <2>3 DEF TypeOK, WriteRecords, Goto, Steps, OpSteps
  <1>7. CASE WriteReceipt(p)
    <2>1. [status |-> "committed", previous_head |-> prev[p], new_head |-> op[p]]
            \in ReceiptRecord
      BY DEF TypeOK, ReceiptRecord
    <2>2. receipts' \in [Ids -> ReceiptRecord]
      BY <1>7, <2>1 DEF TypeOK, WriteReceipt
    <2>3. QED BY <1>7, <2>2 DEF TypeOK, WriteReceipt, Goto, Steps, OpSteps
  <1>8. CASE PublishProject(p)
    <2>1. pc' \in [Procs -> Steps]
      BY <1>8 DEF TypeOK, PublishProject, Goto, Steps, OpSteps
    <2>2. dirty' \in BOOLEAN /\ initialized' \in BOOLEAN
      <3>1. dirty \in BOOLEAN /\ initialized \in BOOLEAN
        BY DEF TypeOK
      <3>2. dirty' \in {dirty, TRUE} /\ initialized' \in {initialized, TRUE}
        BY <1>8, Zenon DEF PublishProject
      <3>3. QED BY <3>1, <3>2, Zenon
    <2>3. projectHead' \in Heads
      BY <1>8 DEF TypeOK, PublishProject
    <2>4. QED BY <1>8, <2>1, <2>2, <2>3, Zenon DEF TypeOK, PublishProject
  <1>9. CASE WriteHead(p)
    BY <1>9 DEF TypeOK, WriteHead, Goto, Steps, OpSteps
  <1>10. CASE ClearIntent(p)
    BY <1>10 DEF TypeOK, ClearIntent, Goto, Steps, OpSteps
  <1>11. CASE Release(p)
    <2>1. lock' \in LockRecord
      BY <1>11 DEF Release, NoLock, LockRecord
    <2>2. QED BY <1>11, <2>1, LeaveType DEF TypeOK, Release
  <1>12. CASE FillProject(p)
    BY <1>12 DEF TypeOK, FillProject, Goto, Steps, OpSteps
  <1>13. QED
    BY <1>1, <1>2, <1>3, <1>4, <1>5, <1>6, <1>7, <1>8, <1>9, <1>10, <1>11, <1>12 DEF OperationStep

\* of a recovery,
LEMMA RecoveryType ==
    ASSUME TypeOK, NEW p \in Procs, RecoveryStep(p)
    PROVE  TypeOK'
  <1>1. CASE RecoverReadLock(p)
    <2>1. CASE Leave(p)
      BY <1>1, <2>1, LeaveType DEF TypeOK, RecoverReadLock, durable
    <2>2. CASE /\ Goto(p, "r_list") \/ Goto(p, "r_unlock")
               /\ UNCHANGED <<job, op, prev, todo>>
      BY <1>1, <2>2 DEF TypeOK, RecoverReadLock, durable, Goto, Steps, RecoverySteps
    <2>3. QED BY <1>1, <2>1, <2>2 DEF RecoverReadLock
  <1>2. CASE RecoverRemoveLock(p)
    BY <1>2 DEF TypeOK, RecoverRemoveLock, NoLock, LockRecord, Goto, Steps, RecoverySteps
  <1>3. CASE RecoverListIntents(p)
    BY <1>3 DEF TypeOK, RecoverListIntents, durable, Goto, Steps, RecoverySteps
  <1>4. CASE RecoverIntent(p)
    <2>1. PICK o \in todo[p] :
            \/ Leave(p) /\ UNCHANGED intents
            \/ /\ intents' = [intents EXCEPT ![o] = "none"]
               /\ todo' = [todo EXCEPT ![p] = @ \ {o}]
               /\ UNCHANGED <<pc, job, op, prev>>
            \/ /\ op' = [op EXCEPT ![p] = o]
               /\ Goto(p, IF intents[o] = "init_project" THEN "r_init_project"
                                                         ELSE "r_restore_head")
               /\ UNCHANGED <<intents, job, prev, todo>>
      BY <1>4 DEF RecoverIntent
    <2>2. o \in Heads /\ o \in Ids
      BY DEF TypeOK, Heads
    <2>3. CASE Leave(p) /\ UNCHANGED intents
      BY <1>4, <2>3, LeaveType DEF TypeOK, RecoverIntent
    <2>4. CASE /\ intents' = [intents EXCEPT ![o] = "none"]
               /\ todo' = [todo EXCEPT ![p] = @ \ {o}]
               /\ UNCHANGED <<pc, job, op, prev>>
      BY <1>4, <2>4 DEF TypeOK, RecoverIntent
    <2>5. CASE /\ op' = [op EXCEPT ![p] = o]
               /\ Goto(p, IF intents[o] = "init_project" THEN "r_init_project"
                                                         ELSE "r_restore_head")
               /\ UNCHANGED <<intents, job, prev, todo>>
      BY <1>4, <2>2, <2>5 DEF TypeOK, RecoverIntent, Goto, Steps, RecoverySteps
    <2>6. QED BY <2>1, <2>3, <2>4, <2>5
  <1>5. CASE RecoverInitProject(p)
    <2>1. CASE Leave(p) /\ UNCHANGED <<initialized, projectHead>>
      BY <1>5, <2>1, LeaveType DEF TypeOK, RecoverInitProject
    <2>2. CASE /\ initialized' \in {initialized, TRUE} /\ projectHead' \in {projectHead, op[p]}
               /\ Goto(p, "r_init_fill") \/ Goto(p, "r_init_head")
               /\ UNCHANGED <<job, op, prev, todo>>
      <3>1. pc' \in [Procs -> Steps]
        BY <2>2 DEF TypeOK, Goto, Steps, RecoverySteps
      <3>2. projectHead' \in Heads
        BY <2>2 DEF TypeOK
      <3>3. initialized' \in BOOLEAN
        BY <2>2, Zenon DEF TypeOK
      <3>4. QED BY <1>5, <2>2, <3>1, <3>2, <3>3, Zenon DEF TypeOK, RecoverInitProject
    <2>3. QED BY <1>5, <2>1, <2>2 DEF RecoverInitProject
  <1>6. CASE RecoverIntentHead(p)
    BY <1>6 DEF TypeOK, RecoverIntentHead, Goto, Steps, RecoverySteps
  <1>7. CASE RecoverRestoreProject(p)
    BY <1>7 DEF TypeOK, RecoverRestoreProject, Goto, Steps, RecoverySteps
  <1>8. CASE RecoverClearIntent(p)
    BY <1>8 DEF TypeOK, RecoverClearIntent, Goto, Steps, RecoverySteps, Heads
  <1>9. CASE RecoverIntentsDone(p)
    BY <1>9 DEF TypeOK, RecoverIntentsDone, durable, Goto, Steps, RecoverySteps
  <1>10. CASE RecoverDecide(p)
    <2>1. LatestCausalCandidate \in Heads
      BY DEF LatestCausalCandidate, Heads
    <2>2. CASE Leave(p) /\ dirty' \in {dirty, FALSE}
      BY <1>10, <2>2, LeaveType DEF TypeOK, RecoverDecide, durable
    <2>3. CASE /\ op' = [op EXCEPT ![p] = LatestCausalCandidate]
               /\ Goto(p, "r_fix_head")
               /\ UNCHANGED <<dirty, job, prev, todo>>
      BY <1>10, <2>1, <2>3 DEF TypeOK, RecoverDecide, durable, Goto, Steps, RecoverySteps
    <2>4. QED BY <1>10, <2>2, <2>3 DEF RecoverDecide
  <1>11. CASE RecoverFixHead(p)
    BY <1>11 DEF TypeOK, RecoverFixHead, Goto, Steps, RecoverySteps
  <1>12. CASE RecoverFixProject(p)
    <2>1. projectHead' \in {projectHead, op[p]} /\ dirty' \in {dirty, FALSE} /\ Leave(p)
      BY <1>12 DEF RecoverFixProject
    <2>2. QED BY <1>12, <2>1, LeaveType DEF TypeOK, RecoverFixProject
  <1>13. CASE RecoverFillProject(p)
    BY <1>13 DEF TypeOK, RecoverFillProject, Goto, Steps, RecoverySteps
  <1>14. QED
    BY <1>1, <1>2, <1>3, <1>4, <1>5, <1>6, <1>7, <1>8, <1>9, <1>10, <1>11, <1>12, <1>13
       DEF RecoveryStep

\* and every crash or throw.
LEMMA FailType ==
    ASSUME TypeOK, NEW p \in Procs, Fail(p)
    PROVE  TypeOK'
  <1>1. CASE ThrowEarly(p) \/ ThrowLate(p)
    BY <1>1 DEF TypeOK, ThrowEarly, ThrowLate, Goto, durable, Steps, OpSteps
  <1>2. CASE ThrowInLock(p)
    BY <1>2, LeaveType DEF TypeOK, ThrowInLock, durable
  <1>3. CASE Crash(p)
    BY <1>3 DEF TypeOK, Crash, Goto, durable, Steps, Jobs, Heads
  <1>4. QED BY <1>1, <1>2, <1>3 DEF Fail

\* The types at first.
LEMMA InitType == Init => TypeOK
  <1> SUFFICES ASSUME Init PROVE TypeOK
    OBVIOUS
  <1>1. lock \in LockRecord
    BY DEF Init, NoLock, LockRecord
  <1>2. trees \in [Ids -> TreeRecord] /\ receipts \in [Ids -> ReceiptRecord]
    BY DEF Init, NoTree, NoReceipt, TreeRecord, ReceiptRecord, Heads
  <1>3. pc \in [Procs -> Steps] /\ job \in [Procs -> Jobs]
    BY DEF Init, Steps, Jobs
  <1>4. issued \in 0..MaxOps
    BY MaxOpsAssumption DEF Init
  <1>5. initialized \in BOOLEAN /\ dirty \in BOOLEAN
    BY DEF Init
  <1>6. /\ head \in Heads /\ projectHead \in Heads
        /\ intents \in [Ids -> {"none", "init_project", "restore_working_tree"}]
        /\ op \in [Procs -> Heads] /\ prev \in [Procs -> Heads]
        /\ todo \in [Procs -> SUBSET Ids]
    BY DEF Init, Heads
  <1>7. QED BY <1>1, <1>2, <1>3, <1>4, <1>5, <1>6 DEF TypeOK

\* The types after any step.
LEMMA NextType == TypeOK /\ [Next]_vars => TypeOK'
  <1> SUFFICES ASSUME TypeOK, [Next]_vars PROVE TypeOK'
    OBVIOUS
  <1>1. ASSUME NEW p \in Procs,
               Start(p) \/ OperationStep(p) \/ RecoveryStep(p) \/ Fail(p)
        PROVE  TypeOK'
    BY <1>1, StartType, OperationType, RecoveryType, FailType
  <1>2. CASE UNCHANGED vars
    BY <1>2 DEF TypeOK, vars, durable, locals
  <1>3. QED BY <1>1, <1>2 DEF Next

\* Type correctness of every reachable state of the store and its processes.
THEOREM TypeCorrect == Spec => []TypeOK
  BY InitType, NextType, PTL DEF Spec

-----------------------------------------------------------------------------
(* The store invariant. *)

\* A step of p that writes no record and hands out no id keeps the invariant,
\* provided p does not come to own an id, and publishes only what is committed.
LEMMA QuietStep ==
    ASSUME StoreInv, TypeOK', NEW p \in Procs,
           UNCHANGED <<trees, receipts, issued>>,
           \A q \in Procs \ {p} :
               pc'[q] = pc[q] /\ op'[q] = op[q] /\ prev'[q] = prev[q],
           Owning(p)' => Owning(p) /\ op'[p] = op[p] /\ prev'[p] = prev[p],
           pc'[p] = "receipt" => pc[p] = "receipt",
           Publishing(p)' => op'[p] \in Committed,
           {head', projectHead'} \subseteq Committed \cup {Null}
    PROVE  StoreInv'
  <1>1. Committed' = Committed
    BY DEF Committed, IsMaterialSuccessReceipt
  <1>2. IdsFresh'
    BY DEF StoreInv, IdsFresh
  <1>3. OwningInv'
    BY <1>1 DEF StoreInv, OwningInv, Owning
  <1>4. ReceiptInv'
    BY DEF StoreInv, ReceiptInv, Owning
  <1>5. PublishingInv'
    BY <1>1 DEF StoreInv, PublishingInv, Publishing
  <1>6. HeadInv'
    BY <1>1 DEF HeadInv
  <1>7. AncestryCommitted'
    BY <1>1 DEF StoreInv, AncestryCommitted, TreeExists
  <1>8. QED BY <1>2, <1>3, <1>4, <1>5, <1>6, <1>7 DEF StoreInv

\* Recovery only finds receipts that are on disk.
LEMMA LatestIsCommitted == LatestCausalCandidate \in Committed \cup {Null}
  <1>1. ChainValid \subseteq Committed
    BY DEF ChainValid, VerifiedCandidates
  <1>2. ASSUME NEW o \in Ids, HighestCandidates = {o} PROVE o \in Committed
    BY <1>1, <1>2 DEF HighestCandidates
  <1>3. QED BY <1>2 DEF LatestCausalCandidate

\* An operation that starts holds nothing yet.
LEMMA StartKeeps ==
    ASSUME StoreInv, TypeOK', NEW p \in Procs, Start(p)
    PROVE  StoreInv'
  <1>1. /\ UNCHANGED <<trees, receipts, issued, op, prev, head, projectHead>>
        /\ pc' = [pc EXCEPT ![p] = "lock"] \/ pc' = [pc EXCEPT ![p] = "r_lock"]
    BY DEF Start, StartInit, StartSync, StartRestore, StartRecover, Enter, Goto, durable
  <1>2. pc'[p] \in {"lock", "r_lock"} /\ \A q \in Procs \ {p} : pc'[q] = pc[q]
    BY <1>1 DEF StoreInv, TypeOK
  <1>3. {head', projectHead'} \subseteq Committed \cup {Null}
    BY <1>1 DEF StoreInv, HeadInv
  <1>4. QED BY <1>1, <1>2, <1>3, QuietStep DEF Owning, Publishing

\* Allocating an id, and the no_change receipt of a sync without changes.
LEMMA BeginKeeps ==
    ASSUME StoreInv, TypeOK', NEW p \in Procs, Begin(p)
    PROVE  StoreInv'
  <1> DEFINE new == issued + 1
  <1>1. /\ issued' = new /\ new \in Ids /\ issued \in Nat
        /\ op' = [op EXCEPT ![p] = new]
        /\ UNCHANGED <<trees, head, projectHead>>
    BY MaxOpsAssumption DEF Begin, StoreInv, TypeOK, Ids
  <1>2. PICK previousHead \in Committed \cup {Null} : prev' = [prev EXCEPT ![p] = previousHead]
    BY DEF Begin, StoreInv, HeadInv
  <1>3. /\ pc'[p] \in {"intent", "records", "release"}
        /\ \A q \in Procs \ {p} :
               pc'[q] = pc[q] /\ op'[q] = op[q] /\ prev'[q] = prev[q]
        /\ op'[p] = new /\ prev'[p] = previousHead
    BY <1>1, <1>2 DEF Begin, Goto, StoreInv, TypeOK
  <1>4. receipts[new].status = "none"
    BY <1>1 DEF StoreInv, IdsFresh
  <1>5. /\ \A o \in Ids \ {new} : receipts'[o] = receipts[o]
        /\ receipts'[new].status # "committed"
        /\ receipts' \in [Ids -> ReceiptRecord]
    <2>1. CASE UNCHANGED receipts
      BY <2>1, <1>4 DEF TypeOK
    <2>2. CASE \E r \in ReceiptRecord :
                  r.status = "no_change" /\ receipts' = [receipts EXCEPT ![new] = r]
      BY <2>2, <1>1 DEF StoreInv, TypeOK
    <2>3. receipts' = [receipts EXCEPT ![new] =
              [status |-> "no_change", previous_head |-> head, new_head |-> head]]
          => \E r \in ReceiptRecord :
                  r.status = "no_change" /\ receipts' = [receipts EXCEPT ![new] = r]
      <3>1. [status |-> "no_change", previous_head |-> head, new_head |-> head]
              \in ReceiptRecord
        BY DEF StoreInv, TypeOK, ReceiptRecord
      <3>2. QED BY <3>1
    <2>4. QED BY <2>1, <2>2, <2>3 DEF Begin
  <1>6. Committed' = Committed
    BY <1>1, <1>4, <1>5 DEF Committed, IsMaterialSuccessReceipt
  <1>7. new \notin Committed
    BY <1>4 DEF Committed, IsMaterialSuccessReceipt
  <1>8. IdsFresh'
    <2> SUFFICES ASSUME NEW o \in Ids, o > new PROVE receipts'[o].status = "none"
      BY <1>1 DEF IdsFresh
    <2>1. o \in Int /\ o > issued /\ o # new
      BY <1>1, MaxOpsAssumption DEF Ids
    <2>2. QED BY <2>1, <1>5 DEF StoreInv, IdsFresh
  <1>9. OwningInv'
    <2>1. \A q \in Procs \ {p} : Owning(q)' => Owning(q) /\ op[q] \in 1..issued
      BY <1>3 DEF Owning, StoreInv, OwningInv
    <2>2. \A q \in Procs \ {p} : Owning(q)' => op'[q] \in 1..new /\ op'[q] # new
      BY <2>1, <1>1, <1>3
    <2>3. new \in 1..new
      BY <1>1
    <2>4. QED BY <1>1, <1>3, <1>6, <1>7, <2>1, <2>2, <2>3
             DEF StoreInv, OwningInv, Owning
  <1>10. ReceiptInv'
    BY <1>1, <1>3 DEF StoreInv, ReceiptInv
  <1>11. PublishingInv'
    BY <1>3, <1>6 DEF StoreInv, PublishingInv, Publishing
  <1>12. HeadInv'
    BY <1>1, <1>6 DEF StoreInv, HeadInv
  <1>13. AncestryCommitted'
    <2>1. \A o \in Committed : receipts'[o] = receipts[o]
      BY <1>5, <1>7 DEF Committed
    <2>2. QED BY <1>1, <1>6, <2>1 DEF StoreInv, AncestryCommitted, TreeExists
  <1>14. QED BY <1>8, <1>9, <1>10, <1>11, <1>12, <1>13 DEF StoreInv

\* The tree of an owned id is not part of any committed history, so writing it
\* disturbs none; the tree it follows is.
LEMMA RecordsKeep ==
    ASSUME StoreInv, TypeOK', NEW p \in Procs, WriteRecords(p)
    PROVE  StoreInv'
  <1> DEFINE tree == [parent |-> prev[p],
                      sequence |-> IF prev[p] = Null THEN 1
                                                     ELSE trees[prev[p]].sequence + 1]
  <1>1. /\ trees' = [trees EXCEPT ![op[p]] = tree]
        /\ UNCHANGED <<receipts, issued, op, prev, head, projectHead>>
    BY DEF WriteRecords
  <1>2. /\ pc[p] = "records" /\ pc'[p] = "receipt"
        /\ \A q \in Procs \ {p} : pc'[q] = pc[q]
    BY DEF WriteRecords, Goto, StoreInv, TypeOK
  <1>3. /\ op[p] \in 1..issued /\ op[p] \in Ids /\ op[p] \notin Committed
        /\ prev[p] \in Committed \cup {Null}
        /\ \A q \in Procs \ {p} : Owning(q) => op[q] # op[p]
    BY <1>2, MaxOpsAssumption DEF StoreInv, OwningInv, Owning, TypeOK, Ids
  <1>4. /\ trees'[op[p]] = tree
        /\ \A o \in Ids \ {op[p]} : trees'[o] = trees[o]
    BY <1>1, <1>3 DEF StoreInv, TypeOK
  <1>5. Committed' = Committed /\ Committed \subseteq Ids
    BY <1>1 DEF Committed, IsMaterialSuccessReceipt
  <1>6. IdsFresh'
    BY <1>1 DEF StoreInv, IdsFresh
  <1>7. OwningInv'
    BY <1>1, <1>2, <1>5 DEF StoreInv, OwningInv, Owning
  <1>8. ReceiptInv'
    <2> SUFFICES ASSUME NEW q \in Procs, pc'[q] = "receipt"
                 PROVE  /\ trees'[op[q]].parent = prev[q]
                        /\ trees'[op[q]].sequence =
                              (IF prev[q] = Null THEN 1 ELSE trees'[prev[q]].sequence + 1)
      BY <1>1 DEF ReceiptInv
    <2>1. prev[q] \in Committed \cup {Null}
      BY <1>2 DEF StoreInv, OwningInv, Owning
    <2>2. prev[q] # Null => trees'[prev[q]] = trees[prev[q]]
      BY <2>1, <1>3, <1>4, <1>5
    <2>3. CASE q = p
      BY <2>2, <2>3, <1>4
    <2>4. CASE q # p
      <3>1. pc[q] = "receipt" /\ op[q] \in Ids /\ op[q] # op[p]
        BY <2>4, <1>2, <1>3, MaxOpsAssumption DEF StoreInv, OwningInv, Owning, TypeOK, Ids
      <3>2. QED BY <3>1, <2>2, <1>4 DEF StoreInv, ReceiptInv
    <2>5. QED BY <2>3, <2>4
  <1>9. PublishingInv'
    BY <1>1, <1>2, <1>5 DEF StoreInv, PublishingInv, Publishing
  <1>10. HeadInv'
    BY <1>1, <1>5 DEF StoreInv, HeadInv
  <1>11. AncestryCommitted'
    BY <1>1, <1>3, <1>4, <1>5 DEF StoreInv, AncestryCommitted, TreeExists
  <1>12. QED BY <1>6, <1>7, <1>8, <1>9, <1>10, <1>11 DEF StoreInv

\* The commit point: the new receipt extends a committed history by one.
LEMMA ReceiptKeeps ==
    ASSUME StoreInv, TypeOK', NEW p \in Procs, WriteReceipt(p)
    PROVE  StoreInv'
  <1> DEFINE receipt == [status |-> "committed", previous_head |-> prev[p],
                         new_head |-> op[p]]
  <1>1. /\ receipts' = [receipts EXCEPT ![op[p]] = receipt]
        /\ UNCHANGED <<trees, issued, op, prev, head, projectHead>>
    BY DEF WriteReceipt
  <1>2. /\ pc[p] = "receipt" /\ pc'[p] \in {"project", "head"}
        /\ \A q \in Procs \ {p} : pc'[q] = pc[q]
    BY DEF WriteReceipt, Goto, StoreInv, TypeOK
  <1>3. /\ op[p] \in 1..issued /\ op[p] \in Ids /\ op[p] \notin Committed
        /\ prev[p] \in Committed \cup {Null}
        /\ \A q \in Procs \ {p} : Owning(q) => op[q] # op[p]
    BY <1>2, MaxOpsAssumption DEF StoreInv, OwningInv, Owning, TypeOK, Ids
  <1>4. /\ receipts'[op[p]] = receipt
        /\ \A o \in Ids \ {op[p]} : receipts'[o] = receipts[o]
    BY <1>1, <1>3 DEF StoreInv, TypeOK
  <1>5. Committed' = Committed \cup {op[p]} /\ Committed \subseteq Ids
    BY <1>3, <1>4 DEF Committed, IsMaterialSuccessReceipt
  <1>6. IdsFresh'
    <2> SUFFICES ASSUME NEW o \in Ids, o > issued PROVE receipts'[o].status = "none"
      BY <1>1 DEF IdsFresh
    <2>1. o # op[p]
      BY <1>3 DEF StoreInv, TypeOK
    <2>2. QED BY <2>1, <1>4 DEF StoreInv, IdsFresh
  <1>7. OwningInv'
    BY <1>1, <1>2, <1>3, <1>5 DEF StoreInv, OwningInv, Owning
  <1>8. ReceiptInv'
    BY <1>1, <1>2 DEF StoreInv, ReceiptInv
  <1>9. PublishingInv'
    BY <1>1, <1>2, <1>5 DEF StoreInv, PublishingInv, Publishing
  <1>10. HeadInv'
    BY <1>1, <1>5 DEF StoreInv, HeadInv
  <1>11. AncestryCommitted'
    <2>1. ASSUME NEW o \in Committed
          PROVE  /\ TreeExists(o)
                 /\ trees[o].parent = receipts'[o].previous_head
                 /\ IF trees[o].parent = Null
                    THEN trees[o].sequence = 1
                    ELSE /\ trees[o].parent \in Committed
                         /\ trees[o].sequence = trees[trees[o].parent].sequence + 1
      BY <1>3, <1>4, <1>5 DEF StoreInv, AncestryCommitted
    <2>2. /\ trees[op[p]].parent = prev[p]
          /\ trees[op[p]].sequence =
                (IF prev[p] = Null THEN 1 ELSE trees[prev[p]].sequence + 1)
      BY <1>2 DEF StoreInv, ReceiptInv
    <2>3. trees[op[p]].sequence > 0
      <3>1. prev[p] # Null => trees[prev[p]].sequence \in Nat
        BY <1>3, <1>5 DEF StoreInv, TypeOK, TreeRecord
      <3>2. QED BY <2>2, <3>1
    <2>4. QED BY <1>1, <1>3, <1>4, <1>5, <2>1, <2>2, <2>3
             DEF AncestryCommitted, TreeExists
  <1>12. QED BY <1>6, <1>7, <1>8, <1>9, <1>10, <1>11 DEF StoreInv

\* The steps of an operation.
LEMMA OperationKeeps ==
    ASSUME StoreInv, TypeOK', NEW p \in Procs, OperationStep(p)
    PROVE  StoreInv'
  <1>1. CASE CreateLock(p) \/ StampLock(p) \/ Refuse(p) \/ Release(p)
    <2>1. /\ UNCHANGED <<trees, receipts, issued, head, projectHead>>
          /\ pc'[p] \in {"idle", "stamp", "begin", "release"}
          /\ \A q \in Procs \ {p} :
                 pc'[q] = pc[q] /\ op'[q] = op[q] /\ prev'[q] = prev[q]
      BY <1>1 DEF StoreInv, TypeOK, CreateLock, StampLock, Refuse, Release, Leave, Goto,
                  durable
    <2>2. {head', projectHead'} \subseteq Committed \cup {Null}
      BY <2>1 DEF StoreInv, HeadInv
    <2>3. QED BY <2>1, <2>2, QuietStep DEF Owning, Publishing
  <1>2. CASE WriteIntent(p)
    <2>1. /\ UNCHANGED <<trees, receipts, issued, head, projectHead, op, prev>>
          /\ pc[p] = "intent" /\ pc'[p] = "records"
          /\ \A q \in Procs \ {p} : pc'[q] = pc[q]
      BY <1>2 DEF StoreInv, TypeOK, WriteIntent, Goto
    <2>2. {head', projectHead'} \subseteq Committed \cup {Null}
      BY <2>1 DEF StoreInv, HeadInv
    <2>3. QED BY <2>1, <2>2, QuietStep DEF Owning, Publishing
  <1>3. CASE PublishProject(p) \/ FillProject(p) \/ WriteHead(p) \/ ClearIntent(p)
    <2>1. /\ UNCHANGED <<trees, receipts, issued, op, prev>>
          /\ pc[p] \in {"project", "fill", "head", "clear"}
          /\ head' \in {head, op[p]} /\ projectHead' \in {projectHead, op[p]}
          /\ pc'[p] \in {"project", "fill", "head", "clear", "release"}
          /\ \A q \in Procs \ {p} : pc'[q] = pc[q]
      BY <1>3 DEF StoreInv, TypeOK, PublishProject, FillProject, WriteHead, ClearIntent, Goto
    <2>2. op[p] \in Committed
      BY <2>1 DEF StoreInv, PublishingInv, Publishing
    <2>3. {head', projectHead'} \subseteq Committed \cup {Null}
      BY <2>1, <2>2 DEF StoreInv, HeadInv
    <2>4. QED BY <2>1, <2>2, <2>3, QuietStep DEF Owning, Publishing
  <1>4. QED BY <1>1, <1>2, <1>3, BeginKeeps, RecordsKeep, ReceiptKeeps DEF OperationStep

\* A recovery publishes what is committed.
LEMMA RecoveryKeeps ==
    ASSUME StoreInv, TypeOK', NEW p \in Procs, RecoveryStep(p)
    PROVE  StoreInv'
  <1>1. UNCHANGED <<trees, receipts, issued>>
    BY DEF RecoveryStep, RecoverReadLock, RecoverRemoveLock, RecoverListIntents,
           RecoverIntent, RecoverInitProject, RecoverFillProject, RecoverIntentHead,
           RecoverRestoreProject, RecoverClearIntent, RecoverIntentsDone, RecoverDecide,
           RecoverFixHead, RecoverFixProject, durable
  <1>2. CASE \/ RecoverReadLock(p) \/ RecoverRemoveLock(p) \/ RecoverListIntents(p)
             \/ RecoverClearIntent(p) \/ RecoverIntentsDone(p)
    <2>1. /\ UNCHANGED <<head, projectHead>>
          /\ pc'[p] \in {"idle", "r_unlock", "r_list", "r_intent", "r_latest"}
          /\ \A q \in Procs \ {p} :
                 pc'[q] = pc[q] /\ op'[q] = op[q] /\ prev'[q] = prev[q]
      BY <1>2 DEF StoreInv, TypeOK, RecoverReadLock, RecoverRemoveLock, RecoverListIntents,
                  RecoverClearIntent, RecoverIntentsDone, Leave, Goto, durable
    <2>2. {head', projectHead'} \subseteq Committed \cup {Null}
      BY <2>1 DEF StoreInv, HeadInv
    <2>3. QED BY <1>1, <2>1, <2>2, QuietStep DEF Owning, Publishing
  <1>3. CASE RecoverIntent(p)
    <2>1. PICK o \in todo[p] :
            \/ Leave(p)
            \/ UNCHANGED <<pc, op, prev>>
            \/ /\ IsMaterialSuccessReceipt(o)
               /\ op' = [op EXCEPT ![p] = o]
               /\ Goto(p, "r_init_project") \/ Goto(p, "r_restore_head")
               /\ UNCHANGED prev
      BY <1>3 DEF RecoverIntent
    <2>2. UNCHANGED <<head, projectHead>> /\ pc[p] = "r_intent" /\ o \in Ids
      BY <1>3 DEF RecoverIntent, StoreInv, TypeOK
    <2>3. /\ \/ pc'[p] \in {"idle", "r_intent"}
             \/ Publishing(p)' /\ ~Owning(p)' /\ pc'[p] # "receipt" /\ op'[p] \in Committed
          /\ \A q \in Procs \ {p} :
                 pc'[q] = pc[q] /\ op'[q] = op[q] /\ prev'[q] = prev[q]
      BY <2>1, <2>2 DEF StoreInv, TypeOK, Leave, Goto, Committed, Publishing, Owning
    <2>4. {head', projectHead'} \subseteq Committed \cup {Null}
      BY <2>2 DEF StoreInv, HeadInv
    <2>5. QED BY <1>1, <2>3, <2>4, QuietStep DEF Owning, Publishing
  <1>4. CASE \/ RecoverInitProject(p) \/ RecoverFillProject(p) \/ RecoverIntentHead(p)
             \/ RecoverRestoreProject(p) \/ RecoverFixHead(p) \/ RecoverFixProject(p)
    <2>1. /\ Publishing(p)
          /\ head' \in {head, op[p]} /\ projectHead' \in {projectHead, op[p]}
          /\ \/ pc'[p] = "idle"
             \/ /\ pc'[p] \in {"r_init_fill", "r_init_head", "r_restore_project", "r_clear",
                                "r_fix_project"}
                /\ op'[p] = op[p]
          /\ \A q \in Procs \ {p} :
                 pc'[q] = pc[q] /\ op'[q] = op[q] /\ prev'[q] = prev[q]
      <3>1. CASE RecoverInitProject(p)
        BY <3>1 DEF StoreInv, TypeOK, RecoverInitProject, Leave, Goto, Publishing
      <3>2. CASE RecoverFixProject(p)
        BY <3>2 DEF StoreInv, TypeOK, RecoverFixProject, Leave, Goto, Publishing
      <3>3. CASE \/ RecoverFillProject(p) \/ RecoverIntentHead(p) \/ RecoverRestoreProject(p)
                 \/ RecoverFixHead(p)
        BY <3>3 DEF StoreInv, TypeOK, RecoverFillProject, RecoverIntentHead,
                    RecoverRestoreProject, RecoverFixHead, Goto, Publishing
      <3> QED BY <1>4, <3>1, <3>2, <3>3
    <2>2. op[p] \in Committed
      BY <2>1 DEF StoreInv, PublishingInv
    <2>3. {head', projectHead'} \subseteq Committed \cup {Null}
      BY <2>1, <2>2 DEF StoreInv, HeadInv
    <2>4. QED BY <1>1, <2>1, <2>2, <2>3, QuietStep DEF Owning, Publishing
  <1>5. CASE RecoverDecide(p)
    <2>1. /\ UNCHANGED <<head, projectHead>>
          /\ \/ pc'[p] = "idle"
             \/ pc'[p] = "r_fix_head" /\ op'[p] \in Committed
          /\ \A q \in Procs \ {p} :
                 pc'[q] = pc[q] /\ op'[q] = op[q] /\ prev'[q] = prev[q]
      BY <1>5, LatestIsCommitted DEF StoreInv, TypeOK, RecoverDecide, Leave, Goto, durable
    <2>2. {head', projectHead'} \subseteq Committed \cup {Null}
      BY <2>1 DEF StoreInv, HeadInv
    <2>3. QED BY <1>1, <2>1, <2>2, QuietStep DEF Owning, Publishing
  <1>6. QED BY <1>2, <1>3, <1>4, <1>5 DEF RecoveryStep

\* A crash or throw leaves the store as it is.
LEMMA FailKeeps ==
    ASSUME StoreInv, TypeOK', NEW p \in Procs, Fail(p)
    PROVE  StoreInv'
  <1>1. /\ UNCHANGED <<trees, receipts, issued, head, projectHead>>
        /\ pc'[p] \in {"idle", "dead", "release"}
        /\ \A q \in Procs \ {p} :
               pc'[q] = pc[q] /\ op'[q] = op[q] /\ prev'[q] = prev[q]
    BY DEF StoreInv, TypeOK, Fail, ThrowEarly, ThrowLate, ThrowInLock, Crash, Leave, Goto,
           durable
  <1>2. {head', projectHead'} \subseteq Committed \cup {Null}
    BY <1>1 DEF StoreInv, HeadInv
  <1>3. QED BY <1>1, <1>2, QuietStep DEF Owning, Publishing

\* The store at first is empty.
LEMMA InitStore == Init => StoreInv
  <1> SUFFICES ASSUME Init PROVE StoreInv
    OBVIOUS
  <1>1. \A o \in Ids : receipts[o].status = "none"
    BY DEF Init, NoReceipt
  <1>2. Committed = {}
    BY <1>1 DEF Committed, IsMaterialSuccessReceipt
  <1>3. IdsFresh
    BY <1>1 DEF IdsFresh
  <1>4. OwningInv /\ ReceiptInv /\ PublishingInv
    BY DEF Init, OwningInv, ReceiptInv, PublishingInv, Owning, Publishing
  <1>5. HeadInv /\ AncestryCommitted
    BY <1>2 DEF Init, HeadInv, AncestryCommitted
  <1>6. QED BY <1>3, <1>4, <1>5, InitType DEF StoreInv

\* No step breaks the store.
LEMMA NextStore == StoreInv /\ [Next]_vars => StoreInv'
  <1> SUFFICES ASSUME StoreInv, [Next]_vars PROVE StoreInv'
    OBVIOUS
  <1>1. TypeOK'
    BY NextType DEF StoreInv
  <1>2. ASSUME NEW p \in Procs,
               Start(p) \/ OperationStep(p) \/ RecoveryStep(p) \/ Fail(p)
        PROVE  StoreInv'
    BY <1>1, <1>2, StartKeeps, OperationKeeps, RecoveryKeeps, FailKeeps
  <1>3. CASE UNCHANGED vars
    BY <1>1, <1>3 DEF StoreInv, IdsFresh, OwningInv, ReceiptInv, PublishingInv, HeadInv,
         AncestryCommitted, Owning, Publishing, Committed, IsMaterialSuccessReceipt,
         TreeExists, vars, durable, locals
  <1>4. QED BY <1>2, <1>3 DEF Next

\* The inductive invariant of the store.
THEOREM StoreInvariant == Spec => []StoreInv
  BY InitStore, NextStore, PTL DEF Spec

\* HEAD and project.json name committed trees only, whatever fails or overlaps.
THEOREM HeadsAreCommitted == Spec => []HeadCommitted
  <1>1. StoreInv => HeadCommitted
    BY DEF StoreInv, HeadInv, AncestryCommitted, HeadCommitted, Committed
  <1>2. QED BY <1>1, StoreInvariant, PTL

\* The ancestry of a committed tree is committed, with consecutive sequence
\* numbers, whatever fails or overlaps.
THEOREM AncestryIsCommitted == Spec => []AncestryCommitted
  <1>1. StoreInv => AncestryCommitted
    BY DEF StoreInv
  <1>2. QED BY <1>1, StoreInvariant, PTL

-----------------------------------------------------------------------------
(***************************************************************************)
(* Mutual exclusion.  The lock file alone does not give it, because        *)
(* recovery and the finally block remove the file by its path; it follows  *)
(* when no recovery overlaps with an operation.                            *)
(***************************************************************************)

\* Whoever is past the exclusive create owns the lock file on disk.
HoldsLock == \A p \in Procs : pc[p] = "stamp" \/ InTransaction(p) => lock.owner = p

\* The steps of recovery are those of processes whose job it is.
RecoveryJob == \A p \in Procs : pc[p] \in RecoverySteps <=> Recovering(p)

RecoversAlone == \A p \in Procs : Recovering(p) => OthersQuiet(p)

ExclusionInv == TypeOK /\ HoldsLock /\ RecoveryJob /\ RecoversAlone

\* A process takes a step only while it is busy, and does not turn an operation
\* into a recovery.
LEMMA BusySteps ==
    ASSUME TypeOK, TypeOK', RecoveryJob, NEW p \in Procs,
           OperationStep(p) \/ RecoveryStep(p) \/ Fail(p)
    PROVE  /\ Busy(p)
           /\ \A q \in Procs \ {p} : pc'[q] = pc[q] /\ job'[q] = job[q]
           /\ pc'[p] \in RecoverySteps <=> Recovering(p)'
           /\ Recovering(p)' => Recovering(p)
  <1>1. CASE OperationStep(p)
    <2>1. /\ pc[p] \in OpSteps
          /\ (pc'[p] \in OpSteps /\ job'[p] = job[p]) \/ pc'[p] = "idle"
          /\ \A q \in Procs \ {p} : pc'[q] = pc[q] /\ job'[q] = job[q]
      BY <1>1 DEF TypeOK, OperationStep, CreateLock, StampLock, Begin, Refuse, WriteIntent,
                  WriteRecords, WriteReceipt, PublishProject, FillProject, WriteHead,
                  ClearIntent, Release, Leave, Goto, durable, OpSteps
    <2>2. job[p] # "recover"
      BY <2>1 DEF RecoveryJob, Recovering, Busy, OpSteps, RecoverySteps
    <2>3. QED BY <2>1, <2>2 DEF Recovering, Busy, OpSteps, RecoverySteps
  <1>2. CASE RecoveryStep(p)
    <2>1. /\ pc[p] \in RecoverySteps
          /\ (pc'[p] \in RecoverySteps /\ job'[p] = job[p]) \/ pc'[p] = "idle"
          /\ \A q \in Procs \ {p} : pc'[q] = pc[q] /\ job'[q] = job[q]
      <3>1. CASE RecoverIntent(p)
        BY <3>1 DEF TypeOK, RecoverIntent, Leave, Goto, RecoverySteps
      <3>2. CASE RecoverReadLock(p) \/ RecoverDecide(p)
        BY <3>2 DEF TypeOK, RecoverReadLock, RecoverDecide, Leave, Goto, RecoverySteps
      <3>3. CASE \/ RecoverRemoveLock(p) \/ RecoverListIntents(p) \/ RecoverInitProject(p)
                 \/ RecoverFillProject(p) \/ RecoverIntentHead(p) \/ RecoverRestoreProject(p)
                 \/ RecoverClearIntent(p) \/ RecoverIntentsDone(p) \/ RecoverFixHead(p)
                 \/ RecoverFixProject(p)
        BY <3>3 DEF TypeOK, RecoverRemoveLock, RecoverListIntents, RecoverInitProject,
                    RecoverFillProject, RecoverIntentHead, RecoverRestoreProject,
                    RecoverClearIntent, RecoverIntentsDone, RecoverFixHead, RecoverFixProject,
                    Leave, Goto, durable, RecoverySteps
      <3>4. QED BY <1>2, <3>1, <3>2, <3>3 DEF RecoveryStep
    <2>2. job[p] = "recover"
      BY <2>1 DEF RecoveryJob, Recovering
    <2>3. QED BY <2>1, <2>2 DEF Recovering, Busy, RecoverySteps
  <1>3. CASE Fail(p)
    <2>1. /\ Busy(p)
          /\ \/ pc'[p] \in {"idle", "dead"}
             \/ pc[p] \in OpSteps /\ pc'[p] = "release" /\ job'[p] = job[p]
          /\ \A q \in Procs \ {p} : pc'[q] = pc[q] /\ job'[q] = job[q]
      BY <1>3 DEF TypeOK, Fail, ThrowEarly, ThrowLate, ThrowInLock, Crash, Leave, Goto,
                  durable, Busy, OpSteps
    <2>2. pc[p] \in OpSteps => job[p] # "recover"
      BY DEF RecoveryJob, Recovering, Busy, OpSteps, RecoverySteps
    <2>3. QED BY <2>1, <2>2 DEF Recovering, Busy, RecoverySteps
  <1>4. QED BY <1>1, <1>2, <1>3

\* The lock file changes hands only when its owner is done with it.
LEMMA LockSteps ==
    ASSUME ExclusionInv, TypeOK', NEW p \in Procs,
           Start(p) \/ OperationStep(p) \/ RecoveryStep(p) \/ Fail(p)
    PROVE  HoldsLock'
  <1> DEFINE Holds(q) == pc[q] = "stamp" \/ InTransaction(q)
  <1>1. CASE CreateLock(p)
    <2>1. CASE lock = NoLock
      <3>1. \A q \in Procs : ~Holds(q)
        BY <2>1, ProcsAssumption DEF ExclusionInv, HoldsLock, NoLock
      <3>2. \A q \in Procs \ {p} : ~Holds(q)'
        BY <3>1, <1>1 DEF CreateLock, Leave, Goto, ExclusionInv, TypeOK, InTransaction
      <3>3. lock'.owner = p
        BY <1>1, <2>1 DEF CreateLock
      <3>4. QED BY <3>2, <3>3 DEF HoldsLock, InTransaction
    <2>2. CASE lock # NoLock
      <3>1. lock' = lock /\ pc' = [pc EXCEPT ![p] = "idle"]
        BY <1>1, <2>2 DEF CreateLock, Leave, Goto
      <3>2. \A q \in Procs : Holds(q)' => Holds(q)
        BY <3>1 DEF ExclusionInv, TypeOK, InTransaction, OpSteps
      <3>3. QED BY <3>1, <3>2 DEF ExclusionInv, HoldsLock, InTransaction
    <2>3. QED BY <2>1, <2>2
  <1>2. CASE Release(p)
    <2>1. \A q \in Procs \ {p} : ~Holds(q)
      BY <1>2 DEF Release, ExclusionInv, HoldsLock, InTransaction, OpSteps
    <2>2. \A q \in Procs : ~Holds(q)'
      BY <1>2, <2>1 DEF Release, Leave, Goto, ExclusionInv, TypeOK, InTransaction, OpSteps
    <2>3. QED BY <2>2 DEF HoldsLock, InTransaction
  <1>3. CASE RecoverRemoveLock(p)
    <2>1. Recovering(p)
      BY <1>3 DEF RecoverRemoveLock, ExclusionInv, RecoveryJob, RecoverySteps
    <2>2. \A q \in Procs \ {p} : pc[q] \in {"idle", "dead"}
      BY <2>1 DEF ExclusionInv, RecoversAlone, OthersQuiet, Busy
    <2>3. \A q \in Procs : ~Holds(q)'
      BY <1>3, <2>2 DEF RecoverRemoveLock, Goto, ExclusionInv, TypeOK, InTransaction, OpSteps
    <2>4. QED BY <2>3 DEF HoldsLock, InTransaction
  <1>4. CASE lock'.owner = lock.owner /\ (Holds(p)' => Holds(p))
             /\ \A q \in Procs \ {p} : pc'[q] = pc[q]
    BY <1>4 DEF ExclusionInv, HoldsLock, InTransaction
  <1>5. CASE Start(p)
    BY <1>5, <1>4 DEF Start, StartInit, StartSync, StartRestore, StartRecover, Enter, Goto,
         durable, ExclusionInv, TypeOK, InTransaction, OpSteps
  <1>6. CASE StampLock(p)
    BY <1>6, <1>4 DEF StampLock, Goto, ExclusionInv, TypeOK, LockRecord
  <1>7. CASE \/ Begin(p) \/ Refuse(p) \/ WriteIntent(p) \/ WriteRecords(p) \/ WriteReceipt(p)
             \/ PublishProject(p) \/ FillProject(p) \/ WriteHead(p) \/ ClearIntent(p)
    <2>1. Holds(p) /\ lock' = lock /\ \A q \in Procs \ {p} : pc'[q] = pc[q]
      BY <1>7 DEF Begin, Refuse, WriteIntent, WriteRecords, WriteReceipt, PublishProject,
           FillProject, WriteHead, ClearIntent, Goto, durable, ExclusionInv, TypeOK, InTransaction, OpSteps
    <2>2. QED BY <2>1, <1>4
  <1>8. CASE RecoveryStep(p) /\ ~RecoverRemoveLock(p)
    <2>1. lock' = lock
      BY <1>8 DEF RecoveryStep, RecoverReadLock, RecoverListIntents, RecoverIntent,
           RecoverInitProject, RecoverFillProject, RecoverIntentHead, RecoverRestoreProject, RecoverClearIntent,
           RecoverIntentsDone, RecoverDecide, RecoverFixHead, RecoverFixProject, durable
    <2>2. /\ \A q \in Procs \ {p} : pc'[q] = pc[q]
          /\ pc'[p] \in RecoverySteps \cup {"idle"}
      <3>1. CASE RecoverIntent(p)
        BY <3>1 DEF ExclusionInv, TypeOK, RecoverIntent, Leave, Goto, RecoverySteps
      <3>2. CASE RecoverReadLock(p) \/ RecoverDecide(p)
        BY <3>2 DEF ExclusionInv, TypeOK, RecoverReadLock, RecoverDecide, Leave, Goto,
             RecoverySteps
      <3>3. CASE \/ RecoverListIntents(p) \/ RecoverInitProject(p) \/ RecoverFillProject(p)
                 \/ RecoverIntentHead(p) \/ RecoverRestoreProject(p) \/ RecoverClearIntent(p)
                 \/ RecoverIntentsDone(p) \/ RecoverFixHead(p) \/ RecoverFixProject(p)
        BY <3>3 DEF ExclusionInv, TypeOK, RecoverListIntents, RecoverInitProject,
             RecoverFillProject, RecoverIntentHead, RecoverRestoreProject, RecoverClearIntent,
             RecoverIntentsDone, RecoverFixHead, RecoverFixProject, Leave, Goto,
             durable, RecoverySteps
      <3>4. QED BY <1>8, <3>1, <3>2, <3>3 DEF RecoveryStep
    <2>3. QED BY <2>1, <2>2, <1>4 DEF InTransaction, OpSteps, RecoverySteps
  <1>9. CASE Fail(p)
    BY <1>9, <1>4 DEF Fail, ThrowEarly, ThrowLate, ThrowInLock, Crash, Leave, Goto, durable,
         ExclusionInv, TypeOK, InTransaction, OpSteps
  <1>10. QED
    BY <1>1, <1>2, <1>3, <1>5, <1>6, <1>7, <1>8, <1>9 DEF OperationStep

\* The lock file names the one process past the exclusive create.
LEMMA ExclusionStep ==
    ASSUME "overlap" \notin Faults, ExclusionInv, [Next]_vars
    PROVE  ExclusionInv'
  <1>1. TypeOK'
    BY NextType DEF ExclusionInv
  <1>2. CASE UNCHANGED vars
    BY <1>1, <1>2 DEF ExclusionInv, HoldsLock, RecoveryJob, RecoversAlone, Recovering, Busy,
         OthersQuiet, InTransaction, vars, durable, locals
  <1>3. ASSUME NEW p \in Procs, OperationStep(p) \/ RecoveryStep(p) \/ Fail(p)
        PROVE  ExclusionInv'
    <2>1. HoldsLock'
      BY <1>1, <1>3, LockSteps
    <2>2. /\ Busy(p)
          /\ \A q \in Procs \ {p} : pc'[q] = pc[q] /\ job'[q] = job[q]
          /\ pc'[p] \in RecoverySteps <=> Recovering(p)'
          /\ Recovering(p)' => Recovering(p)
      BY <1>1, <1>3, BusySteps DEF ExclusionInv
    <2>3. RecoveryJob'
      BY <2>2 DEF ExclusionInv, RecoveryJob, Recovering, Busy
    <2>4. RecoversAlone'
      BY <2>2 DEF ExclusionInv, RecoversAlone, Recovering, Busy, OthersQuiet
    <2>5. QED BY <1>1, <2>1, <2>3, <2>4 DEF ExclusionInv
  <1>4. ASSUME NEW p \in Procs, Start(p)
        PROVE  ExclusionInv'
    <2>1. HoldsLock'
      BY <1>1, <1>4, LockSteps
    <2>2. /\ pc[p] = "idle"
          /\ \A q \in Procs \ {p} : pc'[q] = pc[q] /\ job'[q] = job[q]
      BY <1>4 DEF Start, StartInit, StartSync, StartRestore, StartRecover, MayStart, Enter,
           Goto, ExclusionInv, TypeOK
    <2>3. \/ /\ pc'[p] = "lock" /\ job'[p] # "recover"
             /\ \A q \in Procs : ~Recovering(q)
          \/ pc'[p] = "r_lock" /\ job'[p] = "recover" /\ OthersQuiet(p)
      BY <1>4 DEF Start, StartInit, StartSync, StartRestore, StartRecover, MayStart, Enter,
           Goto, ExclusionInv, TypeOK
    <2>4. RecoveryJob'
      BY <2>2, <2>3 DEF ExclusionInv, RecoveryJob, Recovering, Busy, RecoverySteps
    <2>5. RecoversAlone'
      BY <2>2, <2>3 DEF ExclusionInv, RecoversAlone, Recovering, Busy, OthersQuiet
    <2>6. QED BY <1>1, <2>1, <2>4, <2>5 DEF ExclusionInv
  <1>5. QED BY <1>2, <1>3, <1>4 DEF Next

\* One material transaction at a time, if recovery is run only while no process
\* is in an operation and no operation is begun during a recovery.
THEOREM TransactionsExclude ==
    ASSUME "overlap" \notin Faults
    PROVE  Spec => []MutualExclusion
  <1>1. Init => ExclusionInv
    BY InitType DEF Init, ExclusionInv, HoldsLock, RecoveryJob, RecoversAlone, Recovering,
         Busy, InTransaction, OpSteps, RecoverySteps
  <1>2. ExclusionInv /\ [Next]_vars => ExclusionInv'
    BY ExclusionStep
  <1>3. ExclusionInv => MutualExclusion
    BY DEF ExclusionInv, HoldsLock, MutualExclusion
  <1>4. QED BY <1>1, <1>2, <1>3, PTL DEF Spec

-----------------------------------------------------------------------------
(***************************************************************************)
(* The committed history, when processes may crash anywhere and nothing    *)
(* else goes wrong (a throw after the receipt, an overlapping recovery or  *)
(* unrepaired new work fork the history): the trees are numbered along one *)
(* chain, whatever rests is complete, and the store is the log of          *)
(* CommittedHistory.                                                       *)
(***************************************************************************)
\* The committed trees are numbered 1 to their count.
Numbered ==
    /\ \A o \in Committed : trees[o].sequence \in 1..Cardinality(Committed)
    /\ \A o1, o2 \in Committed : trees[o1].sequence = trees[o2].sequence => o1 = o2
    /\ \A k \in 1..Cardinality(Committed) : \E o \in Committed : trees[o].sequence = k

\* h is the end of the committed history.
AtEnd(h) == SequenceOf(h) = Cardinality(Committed)

\* Of the committed operations at most o has an intent left.
Cleared(o) == \A q \in Committed \ {o} : intents[q] = "none"

\* The last operation left nothing to do.
Complete == AtEnd(head) /\ projectHead = head /\ Cleared(Null)

Preparing(p) == pc[p] \in {"stamp", "begin", "intent", "records", "receipt", "release"}
Committing(p) == pc[p] \in {"project", "fill", "head", "clear"}

\* What an operation relies on, and what it has published so far.
OperationInv(p) ==
    /\ pc[p] = "lock" => lock # NoLock \/ Complete
    /\ Preparing(p) => Complete
    /\ Owning(p) => prev[p] = head
    /\ Committing(p) =>
           /\ AtEnd(op[p]) /\ Cleared(op[p])
           /\ pc[p] = "head" /\ job[p] = "init" => projectHead = op[p]
           /\ pc[p] = "project" /\ job[p] # "init" => head = op[p]
           /\ pc[p] = "clear" => head = op[p] /\ projectHead = op[p]

\* Only init runs in a project that is not initialized, and it runs alone; its
\* intent is written before its receipt, and a sync has none.
JobInv(p) ==
    /\ pc[p] \in OpSteps => job[p] = "init" \/ (job[p] \in {"sync", "restore"} /\ initialized)
    /\ job[p] = "init" /\ pc[p] \in {"lock", "stamp", "begin", "intent", "records", "receipt", "project"} =>
           ~initialized /\ OthersQuiet(p) /\ (pc[p] # "project" => Committed = {})
    /\ pc[p] = "fill" => job[p] = "init"
    /\ pc[p] \in {"fill", "head", "clear"} => initialized
    /\ job[p] = "init" /\ pc[p] = "release" => initialized \/ Committed = {}
    /\ job[p] = "init" /\ pc[p] \in {"records", "receipt", "project"} => intents[op[p]] = "init_project"
    /\ job[p] = "sync" => pc[p] # "intent"
    /\ job[p] = "sync" /\ pc[p] \in {"records", "receipt", "head", "project"} => intents[op[p]] = "none"

Replaying(p) ==
    pc[p] \in {"r_init_project", "r_init_fill", "r_init_head", "r_restore_head", "r_restore_project",
               "r_clear"}
Fixing(p) == pc[p] \in {"r_fix_head", "r_fix_project"}

\* Recovery misses no intent of a committed operation, and moves the heads to
\* the end of the history only.
RecoveryInv(p) ==
    /\ pc[p] \in RecoverySteps \ {"r_lock", "r_unlock"} => lock = NoLock
    /\ pc[p] = "r_intent" \/ Replaying(p) => {o \in Committed : intents[o] # "none"} \subseteq todo[p]
    /\ Replaying(p) => initialized \/ pc[p] = "r_init_project"
    /\ pc[p] = "r_latest" \/ Fixing(p) => Cleared(Null)
    /\ Replaying(p) \/ Fixing(p) => AtEnd(op[p])
    /\ pc[p] = "r_fix_project" => head = op[p]

\* Of what is on disk: intents are of the last committed operation or of none.
IntentsInv ==
    /\ \A o \in Ids : o > issued => intents[o] = "none"
    /\ ~initialized => \A o \in Committed : intents[o] = "init_project"
    /\ \A o \in Committed : intents[o] # "none" => AtEnd(o)
    /\ \A o \in Ids : trees[o].parent \in Committed \cup {Null}
    /\ \A o \in Committed : receipts[o].new_head = o

\* Between a recovery that ran to its end and the next failure.
CleanInv == ~dirty =>
    /\ lock # NoLock => \E p \in Procs : pc[p] = "stamp" \/ InTransaction(p)
    /\ Complete \/ \E p \in Procs : Committing(p)
    /\ initialized \/ Committed = {} \/ \E p \in Procs : job[p] = "init" /\ pc[p] = "project"

HistoryInv ==
    /\ Numbered
    /\ \A p \in Procs : OperationInv(p) /\ JobInv(p) /\ RecoveryInv(p)
    /\ IntentsInv
    /\ CleanInv

ChainInv == StoreInv /\ ExclusionInv /\ HistoryInv

-----------------------------------------------------------------------------
(* Who is where. *)

\* There are finitely many receipts.
LEMMA FiniteCommitted ==
    /\ IsFiniteSet(Committed)
    /\ Cardinality(Committed) \in Nat
    /\ Committed \subseteq Ids /\ Null \notin Committed
<1>1. IsFiniteSet(Ids)
  BY MaxOpsAssumption, FS_Interval DEF Ids
<1>2. Committed \subseteq Ids /\ Null \notin Ids
  BY MaxOpsAssumption DEF Committed, Ids, Null
<1> QED
  BY <1>1, <1>2, FS_Subset, FS_CardinalityType

\* The holder of the lock is alone, but for processes that ask for it.
LEMMA HolderAlone ==
    ASSUME ChainInv, NEW p \in Procs, pc[p] = "stamp" \/ InTransaction(p)
    PROVE  /\ lock # NoLock /\ lock.owner = p
           /\ \A q \in Procs \ {p} : pc[q] \in {"idle", "dead", "lock"}
           /\ \A q \in Procs \ {p} : pc[q] = "lock" => initialized /\ job[q] \in {"sync", "restore"}
<1>1. lock # NoLock /\ lock.owner = p
  BY ProcsAssumption DEF ChainInv, ExclusionInv, HoldsLock, NoLock
<1>2. Busy(p)
  BY DEF Busy, InTransaction, OpSteps
<1>3. ASSUME NEW q \in Procs \ {p} PROVE pc[q] \in {"idle", "dead", "lock"}
  <2>1. pc[q] \notin RecoverySteps
    BY <1>2, <1>3 DEF ChainInv, ExclusionInv, RecoveryJob, RecoversAlone, OthersQuiet
  <2>2. pc[q] # "stamp" /\ ~InTransaction(q)
    BY <1>1, <1>3 DEF ChainInv, ExclusionInv, HoldsLock
  <2>3. pc[q] \in Steps
    BY DEF ChainInv, StoreInv, TypeOK
  <2> QED
    BY <2>1, <2>2, <2>3 DEF Steps, InTransaction, OpSteps
<1>4. ASSUME NEW q \in Procs \ {p}, pc[q] = "lock" PROVE initialized /\ job[q] \in {"sync", "restore"}
  <2>1. JobInv(q)
    BY DEF ChainInv, HistoryInv
  <2>2. ~OthersQuiet(q)
    BY <1>2, <1>4 DEF OthersQuiet
  <2> QED
    BY <1>4, <2>1, <2>2 DEF JobInv, OpSteps
<1> QED
  BY <1>1, <1>3, <1>4

\* A recovery is alone.
LEMMA RecoveryAlone ==
    ASSUME ChainInv, NEW p \in Procs, pc[p] \in RecoverySteps
    PROVE  \A q \in Procs \ {p} : pc[q] \in {"idle", "dead"}
BY DEF ChainInv, ExclusionInv, RecoveryJob, RecoversAlone, OthersQuiet, Busy

\* Processes outside every operation rely on nothing.
LEMMA OutsideInv ==
    ASSUME NEW q, pc[q] \in {"idle", "dead"}
    PROVE  OperationInv(q) /\ JobInv(q) /\ RecoveryInv(q)
BY DEF OperationInv, JobInv, RecoveryInv, Preparing, Owning, Committing, Replaying, Fixing, OpSteps,
       RecoverySteps

\* The history is in the records.
LEMMA SameRecords ==
    ASSUME UNCHANGED <<trees, receipts>>
    PROVE  /\ Committed' = Committed
           /\ \A h : SequenceOf(h)' = SequenceOf(h)
           /\ \A h : AtEnd(h)' = AtEnd(h)
           /\ Numbered' = Numbered
<1>1. Committed' = Committed
  BY DEF Committed, IsMaterialSuccessReceipt
<1> QED
  BY <1>1 DEF SequenceOf, AtEnd, Numbered

-----------------------------------------------------------------------------
(* A step of the holder of the lock disturbs nobody else. *)

\* A step of the holder of the lock leaves the others what they rely on.
LEMMA BystandersKeep ==
    ASSUME ChainInv, NEW p \in Procs, pc[p] = "stamp" \/ InTransaction(p),
           \A q \in Procs \ {p} : pc'[q] = pc[q] /\ job'[q] = job[q],
           lock' # NoLock \/ Complete', initialized => initialized',
           NEW q \in Procs \ {p}
    PROVE  OperationInv(q)' /\ JobInv(q)' /\ RecoveryInv(q)'
<1>1. CASE pc[q] \in {"idle", "dead"}
  <2>1. pc'[q] \in {"idle", "dead"}
    BY <1>1
  <2> QED
    BY <2>1 DEF OperationInv, JobInv, RecoveryInv, Preparing, Owning, Committing, Replaying, Fixing,
        OpSteps, RecoverySteps
<1>2. CASE pc[q] = "lock"
  <2>1. pc'[q] = "lock" /\ job'[q] \in {"sync", "restore"} /\ initialized'
    BY <1>2, HolderAlone
  <2> QED
    BY <2>1 DEF OperationInv, JobInv, RecoveryInv, Preparing, Owning, Committing, Replaying, Fixing,
        RecoverySteps
<1> QED
  BY <1>1, <1>2, HolderAlone

\* The holder goes on to a step with what it relies on.
LEMMA HolderGoesOn ==
    ASSUME ChainInv, NEW p \in Procs, pc[p] = "stamp" \/ InTransaction(p),
           \A q \in Procs \ {p} : pc'[q] = pc[q] /\ job'[q] = job[q],
           pc'[p] \in OpSteps \ {"lock"}, lock' # NoLock, initialized => initialized',
           Numbered', IntentsInv', OperationInv(p)', JobInv(p)',
           initialized' \/ Committed' = {} \/ (job'[p] = "init" /\ pc'[p] = "project")
    PROVE  HistoryInv'
<1>1. pc'[p] \notin RecoverySteps /\ (pc'[p] = "stamp" \/ InTransaction(p)')
  BY DEF OpSteps, RecoverySteps, InTransaction
<1>2. RecoveryInv(p)'
  BY <1>1 DEF RecoveryInv, Replaying, Fixing, RecoverySteps
<1>3. \A q \in Procs : OperationInv(q)' /\ JobInv(q)' /\ RecoveryInv(q)'
  BY <1>2, BystandersKeep
<1>4. Preparing(p)' \/ Committing(p)'
  BY DEF Preparing, Committing, OpSteps
<1>5. Complete' \/ Committing(p)'
  BY <1>4 DEF OperationInv
<1>6. CleanInv'
  BY <1>1, <1>5 DEF CleanInv
<1> QED
  BY <1>3, <1>6 DEF HistoryInv

\* What a step that writes no record leaves as it is.
LEMMA SameStore ==
    ASSUME IntentsInv, Numbered, UNCHANGED <<trees, receipts, intents, issued>>, initialized => initialized'
    PROVE  Numbered' /\ IntentsInv'
<1>1. /\ Committed' = Committed /\ Numbered'
      /\ \A h : AtEnd(h)' = AtEnd(h)
  BY SameRecords
<1> QED
  BY <1>1 DEF IntentsInv

\* The invariant, by its parts.
LEMMA Parts ==
    ASSUME ChainInv, NEW p \in Procs
    PROVE  /\ Numbered /\ IntentsInv /\ OperationInv(p) /\ JobInv(p) /\ RecoveryInv(p)
           /\ TypeOK
BY DEF ChainInv, HistoryInv, StoreInv

\* The holder of the lock writes its name into it.
LEMMA StampHistory ==
    ASSUME ChainInv, NEW p \in Procs, StampLock(p)
    PROVE  HistoryInv'
<1>1. /\ pc[p] = "stamp" /\ pc' = [pc EXCEPT ![p] = "begin"]
      /\ lock.owner = p
      /\ UNCHANGED <<head, initialized, projectHead, trees, receipts, intents, issued, job, op, prev>>
  BY HolderAlone DEF StampLock, Goto
<1>2. pc'[p] = "begin" /\ \A q \in Procs \ {p} : pc'[q] = pc[q]
  BY <1>1, Parts DEF TypeOK
<1>3. lock' # NoLock
  BY <1>1, ProcsAssumption, Parts DEF StampLock, TypeOK, LockRecord, NoLock
<1>4. Numbered' /\ IntentsInv' /\ Committed' = Committed /\ \A h : AtEnd(h)' = AtEnd(h)
  BY <1>1, Parts, SameStore, SameRecords
<1>5. Complete'
  BY <1>1, <1>4, Parts DEF OperationInv, Preparing, Complete, Cleared
<1>6. OperationInv(p)'
  BY <1>2, <1>5 DEF OperationInv, Preparing, Owning, Committing
<1>7. JobInv(p)'
  <2>1. OthersQuiet(p)' = OthersQuiet(p)
    BY <1>2 DEF OthersQuiet, Busy
  <2> QED
    BY <1>1, <1>2, <1>4, <2>1, Parts DEF JobInv, OpSteps
<1>8. initialized' \/ Committed' = {}
  BY <1>1, <1>4, Parts DEF JobInv, OpSteps
<1> QED
  BY <1>1, <1>2, <1>3, <1>4, <1>6, <1>7, <1>8, HolderGoesOn DEF OpSteps

\* A refused or failed operation goes to the finally block.
LEMMA GivenUpHistory ==
    ASSUME ChainInv, NEW p \in Procs, Refuse(p) \/ ThrowEarly(p)
    PROVE  HistoryInv'
<1>1. /\ pc[p] \in {"begin", "intent", "records", "receipt"} /\ pc' = [pc EXCEPT ![p] = "release"]
      /\ UNCHANGED <<lock, head, initialized, projectHead, trees, receipts, intents, issued, job, op, prev>>
  BY DEF Refuse, ThrowEarly, Goto, durable
<1>2. pc'[p] = "release" /\ \A q \in Procs \ {p} : pc'[q] = pc[q]
  BY <1>1, Parts DEF TypeOK
<1>3. InTransaction(p) /\ lock' # NoLock
  BY <1>1, HolderAlone DEF InTransaction, OpSteps
<1>4. Numbered' /\ IntentsInv' /\ Committed' = Committed /\ \A h : AtEnd(h)' = AtEnd(h)
  BY <1>1, Parts, SameStore, SameRecords
<1>5. Complete'
  BY <1>1, <1>4, Parts DEF OperationInv, Preparing, Complete, Cleared
<1>6. OperationInv(p)'
  BY <1>2, <1>5 DEF OperationInv, Preparing, Owning, Committing
<1>7. JobInv(p)'
  BY <1>1, <1>2, <1>4, Parts DEF JobInv, OpSteps
<1>8. initialized' \/ Committed' = {}
  BY <1>1, <1>4, Parts DEF JobInv, OpSteps
<1> QED
  BY <1>1, <1>2, <1>3, <1>4, <1>6, <1>7, <1>8, HolderGoesOn DEF OpSteps

\* The operation id is chosen, and its parent is the end of the history.
LEMMA BeginHistory ==
    ASSUME ChainInv, StoreInv', NEW p \in Procs, Begin(p)
    PROVE  HistoryInv'
<1> DEFINE new == issued + 1
           previousHead == IF job[p] = "init" THEN Null ELSE head
<1>1. /\ pc[p] = "begin" /\ issued' = new /\ new \in Ids /\ issued \in Nat
      /\ op' = [op EXCEPT ![p] = new] /\ prev' = [prev EXCEPT ![p] = previousHead]
      /\ UNCHANGED <<lock, head, initialized, projectHead, trees, intents, job>>
  BY MaxOpsAssumption, Parts DEF Begin, TypeOK, Ids
<1>2. /\ \A q \in Procs \ {p} : pc'[q] = pc[q]
      /\ op'[p] = new /\ prev'[p] = previousHead
      /\ pc'[p] \in {"intent", "records", "release"}
      /\ pc'[p] = "records" => job[p] = "sync"
      /\ pc'[p] = "intent" => job[p] # "sync"
  BY <1>1, Parts DEF Begin, Goto, TypeOK
<1>3. Committed' = Committed /\ \A o \in Committed : receipts'[o] = receipts[o]
  <2>1. receipts[new].status = "none"
    BY <1>1 DEF ChainInv, StoreInv, IdsFresh
  <2>2. \A o \in Ids \ {new} : receipts'[o] = receipts[o]
    BY Parts DEF Begin, TypeOK
  <2>3. receipts'[new].status # "committed"
    BY <1>1, <2>1, Parts DEF Begin, TypeOK
  <2> QED
    BY <2>1, <2>2, <2>3 DEF Committed, IsMaterialSuccessReceipt
<1>4. (\A h : AtEnd(h)' = AtEnd(h)) /\ Numbered'
  BY <1>1, <1>3, Parts DEF AtEnd, SequenceOf, Numbered
<1>5. IntentsInv'
  <2>1. \A o \in Ids : o > new => o > issued
    BY <1>1, MaxOpsAssumption DEF Ids
  <2> QED
    BY <1>1, <1>3, <1>4, <2>1, Parts DEF IntentsInv
<1>6. Complete'
  BY <1>1, <1>3, <1>4, Parts DEF OperationInv, Preparing, Complete, Cleared
<1>7. previousHead = head
  <2>1. CASE job[p] = "init"
    <3>1. Committed = {}
      BY <1>1, <2>1, Parts DEF JobInv
    <3> QED
      BY <2>1, <3>1 DEF ChainInv, StoreInv, HeadInv
  <2> QED
    BY <2>1
<1>8. OperationInv(p)'
  BY <1>1, <1>2, <1>6, <1>7 DEF OperationInv, Preparing, Owning, Committing
<1>9. intents[new] = "none"
  BY <1>1, Parts DEF IntentsInv
<1>10. JobInv(p)'
  <2>1. OthersQuiet(p)' = OthersQuiet(p)
    BY <1>2 DEF OthersQuiet, Busy
  <2> QED
    BY <1>1, <1>2, <1>3, <1>9, <2>1, Parts DEF JobInv, OpSteps
<1>11. InTransaction(p) /\ lock' # NoLock
  BY <1>1, HolderAlone DEF InTransaction, OpSteps
<1>12. initialized' \/ Committed' = {}
  BY <1>1, <1>3, Parts DEF JobInv, OpSteps
<1> QED
  BY <1>1, <1>2, <1>4, <1>5, <1>8, <1>10, <1>11, <1>12, HolderGoesOn DEF OpSteps

\* The intent is written.
LEMMA IntentHistory ==
    ASSUME ChainInv, NEW p \in Procs, WriteIntent(p)
    PROVE  HistoryInv'
<1> DEFINE intent == IF job[p] = "init" THEN "init_project" ELSE "restore_working_tree"
<1>1. /\ pc[p] = "intent" /\ pc' = [pc EXCEPT ![p] = "records"]
      /\ intents' = [intents EXCEPT ![op[p]] = intent]
      /\ UNCHANGED <<lock, head, initialized, projectHead, trees, receipts, issued, job, op, prev>>
  BY DEF WriteIntent, Goto
<1>2. pc'[p] = "records" /\ \A q \in Procs \ {p} : pc'[q] = pc[q]
  BY <1>1, Parts DEF TypeOK
<1>3. InTransaction(p) /\ lock' # NoLock /\ Owning(p)
  BY <1>1, HolderAlone DEF InTransaction, OpSteps, Owning
<1>4. /\ op[p] \in 1..issued /\ op[p] \in Ids /\ op[p] \notin Committed
  BY <1>3, MaxOpsAssumption, Parts DEF ChainInv, StoreInv, OwningInv, TypeOK, Ids
<1>5. Numbered' /\ Committed' = Committed /\ \A h : AtEnd(h)' = AtEnd(h)
  BY <1>1, Parts, SameRecords
<1>6. /\ intents'[op[p]] = intent
      /\ \A o \in Ids \ {op[p]} : intents'[o] = intents[o]
  BY <1>1, <1>4, Parts DEF TypeOK
<1>7. Committed \subseteq Ids \ {op[p]}
  BY <1>4 DEF Committed
<1>8. IntentsInv'
  <2>1. \A o \in Ids : o > issued => o # op[p]
    BY <1>4, Parts DEF TypeOK
  <2> QED
    BY <1>1, <1>5, <1>6, <1>7, <2>1, Parts DEF IntentsInv
<1>9. Complete'
  BY <1>1, <1>5, <1>6, <1>7, Parts DEF OperationInv, Preparing, Complete, Cleared
<1>10. OperationInv(p)'
  BY <1>1, <1>2, <1>3, <1>9, Parts DEF OperationInv, Preparing, Owning, Committing
<1>11. JobInv(p)'
  <2>1. OthersQuiet(p)' = OthersQuiet(p)
    BY <1>2 DEF OthersQuiet, Busy
  <2> QED
    BY <1>1, <1>2, <1>5, <1>6, <2>1, Parts DEF JobInv, OpSteps
<1>12. initialized' \/ Committed' = {}
  BY <1>1, <1>5, Parts DEF JobInv, OpSteps
<1> QED
  BY <1>1, <1>2, <1>3, <1>5, <1>8, <1>10, <1>11, <1>12, HolderGoesOn DEF OpSteps

\* The tree is written, and its number follows its parent's.
LEMMA RecordsHistory ==
    ASSUME ChainInv, NEW p \in Procs, WriteRecords(p)
    PROVE  HistoryInv'
<1> DEFINE tree == [parent |-> prev[p],
                    sequence |-> IF prev[p] = Null THEN 1 ELSE trees[prev[p]].sequence + 1]
<1>1. /\ pc[p] = "records" /\ pc' = [pc EXCEPT ![p] = "receipt"]
      /\ trees' = [trees EXCEPT ![op[p]] = tree]
      /\ UNCHANGED <<lock, head, initialized, projectHead, receipts, intents, issued, job, op, prev>>
  BY DEF WriteRecords, Goto
<1>2. pc'[p] = "receipt" /\ \A q \in Procs \ {p} : pc'[q] = pc[q]
  BY <1>1, Parts DEF TypeOK
<1>3. InTransaction(p) /\ lock' # NoLock /\ Owning(p)
  BY <1>1, HolderAlone DEF InTransaction, OpSteps, Owning
<1>4. /\ op[p] \in Ids /\ op[p] \notin Committed
      /\ prev[p] \in Committed \cup {Null} /\ head \in Committed \cup {Null}
  BY <1>3, MaxOpsAssumption, Parts DEF ChainInv, StoreInv, OwningInv, HeadInv, TypeOK, Ids
<1>5. Committed' = Committed /\ Committed \subseteq Ids \ {op[p]}
  BY <1>1, <1>4 DEF Committed, IsMaterialSuccessReceipt
<1>6. /\ trees'[op[p]] = tree
      /\ \A o \in Ids \ {op[p]} : trees'[o] = trees[o]
  BY <1>1, <1>4, Parts DEF TypeOK
<1>7. \A h \in Committed \cup {Null} : AtEnd(h)' = AtEnd(h)
  BY <1>5, <1>6 DEF AtEnd, SequenceOf
<1>8. Numbered'
  BY <1>5, <1>6, Parts DEF Numbered
<1>9. IntentsInv'
  BY <1>1, <1>4, <1>5, <1>6, <1>7, Parts DEF IntentsInv
<1>10. Complete'
  BY <1>1, <1>4, <1>5, <1>7, Parts DEF OperationInv, Preparing, Complete, Cleared
<1>11. OperationInv(p)'
  BY <1>1, <1>2, <1>3, <1>10, Parts DEF OperationInv, Preparing, Owning, Committing
<1>12. JobInv(p)'
  <2>1. OthersQuiet(p)' = OthersQuiet(p)
    BY <1>2 DEF OthersQuiet, Busy
  <2> QED
    BY <1>1, <1>2, <1>5, <2>1, Parts DEF JobInv, OpSteps
<1>13. initialized' \/ Committed' = {}
  BY <1>1, <1>5, Parts DEF JobInv, OpSteps
<1> QED
  BY <1>1, <1>2, <1>3, <1>8, <1>9, <1>11, <1>12, <1>13, HolderGoesOn DEF OpSteps

\* The commit point: the history grows at its end.
LEMMA ReceiptHistory ==
    ASSUME ChainInv, NEW p \in Procs, WriteReceipt(p)
    PROVE  /\ HistoryInv'
           /\ Committed' = Committed \cup {op[p]} /\ op[p] \notin Committed
           /\ Cardinality(Committed') = Cardinality(Committed) + 1
           /\ trees[op[p]].sequence = Cardinality(Committed) + 1
           /\ Complete
<1> DEFINE receipt == [status |-> "committed", previous_head |-> prev[p], new_head |-> op[p]]
           n == Cardinality(Committed)
<1>1. /\ pc[p] = "receipt" /\ pc' = [pc EXCEPT ![p] = IF job[p] = "init" THEN "project" ELSE "head"]
      /\ receipts' = [receipts EXCEPT ![op[p]] = receipt]
      /\ UNCHANGED <<lock, head, initialized, projectHead, trees, intents, issued, job, op, prev>>
  BY DEF WriteReceipt, Goto
<1>2. /\ pc'[p] = IF job[p] = "init" THEN "project" ELSE "head"
      /\ \A q \in Procs \ {p} : pc'[q] = pc[q]
  BY <1>1, Parts DEF TypeOK
<1>3. InTransaction(p) /\ lock' # NoLock /\ Owning(p)
  BY <1>1, HolderAlone DEF InTransaction, OpSteps, Owning
<1>4. /\ op[p] \in Ids /\ op[p] \notin Committed /\ op[p] # Null
      /\ prev[p] \in Committed \cup {Null}
  BY <1>3, MaxOpsAssumption, Parts DEF ChainInv, StoreInv, OwningInv, TypeOK, Ids, Null
<1>5. /\ receipts'[op[p]] = receipt
      /\ \A o \in Ids \ {op[p]} : receipts'[o] = receipts[o]
  BY <1>1, <1>4, Parts DEF TypeOK
<1>6. Committed' = Committed \cup {op[p]}
  BY <1>4, <1>5 DEF Committed, IsMaterialSuccessReceipt
<1>7. n \in Nat /\ Cardinality(Committed') = n + 1
  BY <1>4, <1>6, FiniteCommitted, FS_AddElement
<1>8. Complete /\ prev[p] = head
  BY <1>1, <1>3, Parts DEF OperationInv, Preparing
<1>9. trees[op[p]].sequence = n + 1
  <2>1. trees[op[p]].sequence = (IF prev[p] = Null THEN 1 ELSE trees[prev[p]].sequence + 1)
    BY <1>1 DEF ChainInv, StoreInv, ReceiptInv
  <2> QED
    BY <1>7, <1>8, <2>1 DEF Complete, AtEnd, SequenceOf
<1>10. Numbered'
  <2>1. \A o \in Committed : trees[o].sequence \in 1..n
    BY Parts DEF Numbered
  <2>2. \A o \in Committed' : trees'[o].sequence \in 1..(n + 1)
    BY <1>1, <1>6, <1>7, <1>9, <2>1
  <2>3. \A o1, o2 \in Committed' : trees'[o1].sequence = trees'[o2].sequence => o1 = o2
    BY <1>1, <1>6, <1>7, <1>9, <2>1, Parts DEF Numbered
  <2>4. \A k \in 1..(n + 1) : \E o \in Committed' : trees'[o].sequence = k
    <3> TAKE k \in 1..(n + 1)
    <3>1. CASE k = n + 1
      BY <1>1, <1>6, <1>9, <3>1
    <3>2. CASE k # n + 1
      <4>1. k \in 1..n
        BY <1>7, <3>2
      <4> QED
        BY <1>1, <1>6, <4>1, Parts DEF Numbered
    <3> QED
      BY <3>1, <3>2
  <2> QED
    BY <1>7, <2>2, <2>3, <2>4 DEF Numbered
<1>11. AtEnd(op[p])'
  BY <1>1, <1>4, <1>7, <1>9 DEF AtEnd, SequenceOf
<1>12. \A o \in Committed : intents[o] = "none"
  BY <1>8, FiniteCommitted DEF Complete, Cleared
<1>13. IntentsInv'
  <2>1. ~initialized => intents[op[p]] = "init_project" /\ Committed = {}
    BY <1>1, Parts DEF JobInv, OpSteps
  <2>2. \A o \in Committed' : intents'[o] # "none" => o = op[p]
    BY <1>1, <1>6, <1>12
  <2>3. \A o \in Committed' : intents'[o] # "none" => AtEnd(o)'
    BY <1>1, <1>11, <2>2 DEF AtEnd, SequenceOf
  <2> QED
    BY <1>1, <1>4, <1>5, <1>6, <2>1, <2>3, Parts, FiniteCommitted DEF IntentsInv
<1>14. OperationInv(p)'
  BY <1>1, <1>2, <1>6, <1>11, <1>12 DEF OperationInv, Preparing, Owning, Committing, Cleared, AtEnd, SequenceOf
<1>15. JobInv(p)'
  <2>1. OthersQuiet(p)' = OthersQuiet(p)
    BY <1>2 DEF OthersQuiet, Busy
  <2> QED
    BY <1>1, <1>2, <2>1, Parts DEF JobInv, OpSteps
<1>16. initialized' \/ (job'[p] = "init" /\ pc'[p] = "project")
  BY <1>1, <1>2, Parts DEF JobInv, OpSteps
<1>17. HistoryInv'
  BY <1>1, <1>2, <1>3, <1>10, <1>13, <1>14, <1>15, <1>16, HolderGoesOn DEF OpSteps
<1> QED
  BY <1>4, <1>6, <1>7, <1>8, <1>9, <1>17

\* project.json is created by an init, or replaced by the others after HEAD.
LEMMA ProjectHistory ==
    ASSUME ChainInv, Faults \subseteq {"crash"}, NEW p \in Procs, PublishProject(p)
    PROVE  HistoryInv'
<1>1. /\ pc[p] = "project" /\ Committing(p) /\ InTransaction(p)
      /\ job[p] = "init" => ~initialized
      /\ UNCHANGED <<lock, head, trees, receipts, intents, issued, job, op, prev>>
  BY Parts DEF PublishProject, JobInv, Committing, InTransaction, OpSteps
<1>2. /\ \A q \in Procs \ {p} : pc'[q] = pc[q]
      /\ projectHead' = IF job[p] = "init" THEN projectHead ELSE op[p]
      /\ pc'[p] = IF job[p] = "init" THEN "fill" ELSE IF job[p] = "restore" THEN "clear" ELSE "release"
      /\ initialized'
  <2>1. initialized \/ job[p] = "init"
    BY <1>1, Parts DEF JobInv, OpSteps
  <2> QED
    BY <1>1, <2>1, Parts DEF PublishProject, Goto, TypeOK
<1>3. Numbered' /\ IntentsInv' /\ Committed' = Committed /\ \A h : AtEnd(h)' = AtEnd(h)
  BY <1>1, <1>2, Parts, SameStore, SameRecords
<1>4. AtEnd(op[p])' /\ Cleared(op[p])'
  BY <1>1, <1>3, Parts DEF OperationInv, Cleared
<1>5. job[p] # "init" => head = op[p]
  BY <1>1, Parts DEF OperationInv
<1>6. OperationInv(p)'
  <2>1. CASE pc'[p] = "release"
    <3>1. job[p] = "sync" /\ head' = op[p] /\ projectHead' = op[p]
      BY <1>1, <1>2, <1>5, <2>1, Parts DEF JobInv, OpSteps
    <3>2. intents'[op[p]] = "none"
      BY <1>1, <3>1, Parts DEF JobInv
    <3>3. Complete'
      BY <1>1, <1>2, <1>3, <1>4, <3>1, <3>2 DEF Complete, Cleared
    <3> QED
      BY <2>1, <3>3 DEF OperationInv, Preparing, Owning, Committing
  <2>2. CASE pc'[p] = "clear"
    <3>1. head' = op'[p] /\ projectHead' = op'[p]
      BY <1>1, <1>2, <1>5, <2>2
    <3> QED
      BY <1>1, <1>4, <2>2, <3>1 DEF OperationInv, Preparing, Owning, Committing, Cleared, AtEnd, SequenceOf
  <2>3. CASE pc'[p] = "fill"
    BY <1>1, <1>3, <1>4, <2>3 DEF OperationInv, Preparing, Owning, Committing, Cleared
  <2> QED
    BY <1>2, <2>1, <2>2, <2>3
<1>7. JobInv(p)'
  BY <1>1, <1>2, Parts DEF JobInv, OpSteps
<1>8. lock' # NoLock /\ pc'[p] \in OpSteps \ {"lock"}
  BY <1>1, <1>2, HolderAlone DEF OpSteps
<1> QED
  BY <1>1, <1>2, <1>3, <1>6, <1>7, <1>8, HolderGoesOn

\* The project.json an init has created gets its content.
LEMMA FillHistory ==
    ASSUME ChainInv, NEW p \in Procs, FillProject(p)
    PROVE  HistoryInv'
<1>1. /\ pc[p] = "fill" /\ Committing(p) /\ InTransaction(p) /\ initialized /\ job[p] = "init"
      /\ projectHead' = op[p]
      /\ UNCHANGED <<lock, head, initialized, trees, receipts, intents, issued, job, op, prev>>
  BY Parts DEF FillProject, JobInv, Committing, InTransaction, OpSteps
<1>2. /\ \A q \in Procs \ {p} : pc'[q] = pc[q]
      /\ pc'[p] = "head"
  BY Parts DEF FillProject, Goto, TypeOK
<1>3. Numbered' /\ IntentsInv' /\ Committed' = Committed /\ \A h : AtEnd(h)' = AtEnd(h)
  BY <1>1, Parts, SameStore, SameRecords
<1>4. AtEnd(op[p])' /\ Cleared(op[p])'
  BY <1>1, <1>3, Parts DEF OperationInv, Cleared
<1>5. OperationInv(p)'
  BY <1>1, <1>2, <1>3, <1>4 DEF OperationInv, Preparing, Owning, Committing, Cleared
<1>6. JobInv(p)'
  BY <1>1, <1>2, Parts DEF JobInv, OpSteps
<1>7. lock' # NoLock /\ pc'[p] \in OpSteps \ {"lock"}
  BY <1>1, <1>2, HolderAlone DEF OpSteps
<1> QED
  BY <1>1, <1>2, <1>3, <1>5, <1>6, <1>7, HolderGoesOn

\* HEAD is written: after project.json by an init, before it by the others.
LEMMA HeadHistory ==
    ASSUME ChainInv, NEW p \in Procs, WriteHead(p)
    PROVE  HistoryInv'
<1>1. /\ pc[p] = "head" /\ Committing(p) /\ InTransaction(p) /\ initialized
      /\ head' = op[p]
      /\ UNCHANGED <<lock, initialized, projectHead, trees, receipts, intents, issued, job, op, prev>>
  BY Parts DEF WriteHead, JobInv, Committing, InTransaction, OpSteps
<1>2. /\ \A q \in Procs \ {p} : pc'[q] = pc[q]
      /\ pc'[p] = IF job[p] = "init" THEN "clear" ELSE "project"
  BY Parts DEF WriteHead, Goto, TypeOK
<1>3. Numbered' /\ IntentsInv' /\ Committed' = Committed /\ \A h : AtEnd(h)' = AtEnd(h)
  BY <1>1, <1>2, Parts, SameStore, SameRecords
<1>4. AtEnd(op[p])' /\ Cleared(op[p])'
  BY <1>1, <1>3, Parts DEF OperationInv, Cleared
<1>5. OperationInv(p)'
  BY <1>1, <1>2, <1>3, <1>4, Parts DEF OperationInv, Preparing, Owning, Committing, Cleared
<1>6. JobInv(p)'
  BY <1>1, <1>2, Parts DEF JobInv, OpSteps
<1>7. lock' # NoLock /\ pc'[p] \in OpSteps \ {"lock"}
  BY <1>1, <1>2, HolderAlone DEF OpSteps
<1> QED
  BY <1>1, <1>2, <1>3, <1>5, <1>6, <1>7, HolderGoesOn

\* The intent is cleared after both heads are written.
LEMMA ClearHistory ==
    ASSUME ChainInv, NEW p \in Procs, ClearIntent(p)
    PROVE  HistoryInv'
<1>1. /\ pc[p] = "clear" /\ Committing(p) /\ InTransaction(p) /\ initialized
      /\ op[p] \in Committed
      /\ intents' = [intents EXCEPT ![op[p]] = "none"]
      /\ UNCHANGED <<lock, head, initialized, projectHead, trees, receipts, issued, job, op, prev>>
  BY Parts DEF ClearIntent, JobInv, Committing, InTransaction, OpSteps, ChainInv, StoreInv, PublishingInv,
     Publishing
<1>2. pc'[p] = "release" /\ \A q \in Procs \ {p} : pc'[q] = pc[q]
  BY Parts DEF ClearIntent, Goto, TypeOK
<1>3. Numbered' /\ Committed' = Committed /\ \A h : AtEnd(h)' = AtEnd(h)
  BY <1>1, Parts, SameRecords
<1>4. /\ intents'[op[p]] = "none"
      /\ \A o \in Ids \ {op[p]} : intents'[o] = intents[o]
  BY <1>1, Parts, FiniteCommitted DEF TypeOK
<1>5. IntentsInv'
  BY <1>1, <1>3, <1>4, Parts, FiniteCommitted DEF IntentsInv
<1>6. Complete'
  <2>1. AtEnd(op[p]) /\ Cleared(op[p]) /\ head = op[p] /\ projectHead = op[p]
    BY <1>1, Parts DEF OperationInv
  <2>2. Cleared(Null)'
    BY <1>3, <1>4, <2>1, FiniteCommitted DEF Cleared
  <2> QED
    BY <1>1, <1>3, <2>1, <2>2 DEF Complete
<1>7. OperationInv(p)'
  BY <1>2, <1>6 DEF OperationInv, Preparing, Owning, Committing
<1>8. JobInv(p)'
  BY <1>1, <1>2, Parts DEF JobInv, OpSteps
<1>9. lock' # NoLock
  BY <1>1, HolderAlone
<1> QED
  BY <1>1, <1>2, <1>3, <1>5, <1>7, <1>8, <1>9, HolderGoesOn DEF OpSteps

\* The lock is released with nothing left to do.
LEMMA ReleaseHistory ==
    ASSUME ChainInv, NEW p \in Procs, Release(p)
    PROVE  HistoryInv'
<1>1. /\ pc[p] = "release" /\ InTransaction(p) /\ lock' = NoLock
      /\ UNCHANGED <<head, initialized, projectHead, trees, receipts, intents, issued>>
  BY DEF Release, InTransaction, OpSteps
<1>2. /\ pc'[p] = "idle"
      /\ \A q \in Procs \ {p} : pc'[q] = pc[q] /\ job'[q] = job[q]
  BY Parts DEF Release, Leave, Goto, TypeOK
<1>3. Numbered' /\ IntentsInv' /\ Committed' = Committed /\ \A h : AtEnd(h)' = AtEnd(h)
  BY <1>1, Parts, SameStore, SameRecords
<1>4. Complete'
  BY <1>1, <1>3, Parts DEF OperationInv, Preparing, Complete, Cleared
<1>5. ASSUME NEW q \in Procs PROVE OperationInv(q)' /\ JobInv(q)' /\ RecoveryInv(q)'
  <2>1. CASE q # p
    BY <1>1, <1>2, <1>4, <2>1, BystandersKeep
  <2>2. CASE q = p
    BY <1>2, <2>2 DEF OperationInv, JobInv, RecoveryInv, Preparing, Owning, Committing, Replaying,
       Fixing, OpSteps, RecoverySteps
  <2> QED
    BY <2>1, <2>2
<1>6. CleanInv'
  <2>1. initialized \/ Committed = {}
    BY <1>1, Parts DEF JobInv, OpSteps
  <2> QED
    BY <1>1, <1>3, <1>4, <2>1 DEF CleanInv
<1> QED
  BY <1>3, <1>5, <1>6 DEF HistoryInv

-----------------------------------------------------------------------------
(* The steps before the lock is held, and those that leave an operation. *)

\* The lock is created: whoever left work behind has been repaired.
LEMMA CreateHistory ==
    ASSUME ChainInv, NEW p \in Procs, CreateLock(p), lock = NoLock
    PROVE  HistoryInv'
<1>1. /\ pc[p] = "lock" /\ Busy(p) /\ lock' # NoLock
      /\ UNCHANGED <<head, initialized, projectHead, trees, receipts, intents, issued, job, op, prev, todo>>
  BY ProcsAssumption DEF CreateLock, Busy, NoLock
<1>2. pc'[p] = "stamp" /\ \A q \in Procs \ {p} : pc'[q] = pc[q]
  BY Parts DEF CreateLock, Goto, TypeOK
<1>3. Numbered' /\ IntentsInv' /\ Committed' = Committed /\ \A h : AtEnd(h)' = AtEnd(h)
  BY <1>1, Parts, SameStore, SameRecords
<1>4. Complete'
  BY <1>1, <1>3, Parts DEF OperationInv, Complete, Cleared
<1>5. OperationInv(p)'
  BY <1>2, <1>4 DEF OperationInv, Preparing, Owning, Committing
<1>6. JobInv(p)'
  <2>1. OthersQuiet(p)' = OthersQuiet(p)
    BY <1>2 DEF OthersQuiet, Busy
  <2> QED
    BY <1>1, <1>2, <1>3, <2>1, Parts DEF JobInv, OpSteps
<1>7. RecoveryInv(p)'
  BY <1>2 DEF RecoveryInv, Replaying, Fixing, RecoverySteps
<1>8. ASSUME NEW q \in Procs \ {p} PROVE OperationInv(q)' /\ JobInv(q)' /\ RecoveryInv(q)'
  <2>1. pc[q] # "stamp" /\ ~InTransaction(q) /\ pc[q] \notin RecoverySteps
    BY <1>1, HolderAlone, RecoveryAlone DEF Busy
  <2>2. pc'[q] \in {"idle", "dead", "lock"}
    BY <1>2, <2>1, Parts DEF TypeOK, Steps, InTransaction, OpSteps
  <2>3. CASE pc'[q] = "lock"
    <3>1. ~OthersQuiet(q)
      BY <1>1 DEF OthersQuiet
    <3>2. job'[q] \in {"sync", "restore"} /\ initialized'
      BY <1>1, <1>2, <2>3, <3>1, Parts DEF JobInv, OpSteps
    <3> QED
      BY <1>1, <2>3, <3>2 DEF OperationInv, JobInv, RecoveryInv, Preparing, Owning, Committing, Replaying,
         Fixing, RecoverySteps
  <2>4. CASE pc'[q] \in {"idle", "dead"}
    BY <2>4 DEF OperationInv, JobInv, RecoveryInv, Preparing, Owning, Committing, Replaying, Fixing,
       OpSteps, RecoverySteps
  <2> QED
    BY <2>2, <2>3, <2>4
<1>9. CleanInv'
  <2>1. initialized' \/ Committed' = {}
    BY <1>1, <1>3, Parts DEF JobInv, OpSteps
  <2> QED
    BY <1>2, <1>4, <2>1 DEF CleanInv
<1> QED
  BY <1>3, <1>5, <1>6, <1>7, <1>8, <1>9 DEF HistoryInv

\* A process that leaves, or dies, without touching the disk.
LEMMA LeaverKeeps ==
    ASSUME ChainInv, NEW p \in Procs, pc'[p] \in {"idle", "dead"},
           \A q \in Procs \ {p} : /\ pc'[q] = pc[q] /\ job'[q] = job[q] /\ op'[q] = op[q]
                                  /\ prev'[q] = prev[q] /\ todo'[q] = todo[q],
           UNCHANGED <<lock, head, initialized, projectHead, trees, receipts, intents, issued>>
    PROVE  /\ Numbered' /\ IntentsInv'
           /\ \A q \in Procs : OperationInv(q)' /\ JobInv(q)' /\ RecoveryInv(q)'
<1>1. Numbered' /\ IntentsInv' /\ Committed' = Committed /\ \A h : AtEnd(h)' = AtEnd(h)
  BY Parts, SameStore, SameRecords
<1>2. OperationInv(p)' /\ JobInv(p)' /\ RecoveryInv(p)'
  BY DEF OperationInv, JobInv, RecoveryInv, Preparing, Owning, Committing, Replaying, Fixing,
     OpSteps, RecoverySteps
<1>3. ASSUME NEW q \in Procs \ {p} PROVE OperationInv(q)' /\ JobInv(q)' /\ RecoveryInv(q)'
  <2>1. OthersQuiet(q) => OthersQuiet(q)'
    BY DEF OthersQuiet, Busy
  <2>2. OperationInv(q)'
    BY <1>1, Parts DEF OperationInv, Preparing, Owning, Committing, Complete, Cleared
  <2>3. JobInv(q)'
    BY <1>1, <2>1, Parts DEF JobInv
  <2>4. RecoveryInv(q)'
    BY <1>1, Parts DEF RecoveryInv, Replaying, Fixing, Cleared
  <2> QED
    BY <2>2, <2>3, <2>4
<1> QED
  BY <1>1, <1>2, <1>3

\* ... and relied on nothing of CleanInv, or marked the failure.
LEMMA LeaverHistory ==
    ASSUME ChainInv, NEW p \in Procs, pc'[p] \in {"idle", "dead"},
           \A q \in Procs \ {p} : /\ pc'[q] = pc[q] /\ job'[q] = job[q] /\ op'[q] = op[q]
                                  /\ prev'[q] = prev[q] /\ todo'[q] = todo[q],
           UNCHANGED <<lock, head, initialized, projectHead, trees, receipts, intents, issued>>,
           dirty' \/ (dirty' = dirty /\ pc[p] \in RecoverySteps \cup {"lock"})
    PROVE  HistoryInv'
<1>1. CleanInv'
  <2>1. CASE dirty'
    BY <2>1 DEF CleanInv
  <2>2. CASE dirty' = dirty /\ ~dirty /\ pc[p] \in RecoverySteps \cup {"lock"}
    <3>1. pc[p] # "stamp" /\ ~InTransaction(p) /\ ~Committing(p) /\ pc[p] # "project"
      BY <2>2 DEF InTransaction, Committing, OpSteps, RecoverySteps
    <3>2. /\ Committed' = Committed /\ \A h : AtEnd(h)' = AtEnd(h)
          /\ CleanInv
      BY SameRecords DEF ChainInv, HistoryInv
    <3>3. \A q \in Procs \ {p} : InTransaction(q)' = InTransaction(q) /\ Committing(q)' = Committing(q)
      BY DEF InTransaction, Committing
    <3>4. Complete' = Complete
      BY <3>2 DEF Complete, Cleared
    <3> QED
      BY <2>2, <3>1, <3>2, <3>3, <3>4 DEF CleanInv
  <2> QED
    BY <2>1, <2>2
<1> QED
  BY <1>1, LeaverKeeps DEF HistoryInv

\* A crash leaves the store to recovery.
LEMMA CrashHistory ==
    ASSUME ChainInv, NEW p \in Procs, Crash(p)
    PROVE  HistoryInv'
<1>1. /\ pc'[p] = "dead" /\ dirty'
      /\ \A q \in Procs \ {p} : /\ pc'[q] = pc[q] /\ job'[q] = job[q] /\ op'[q] = op[q]
                                /\ prev'[q] = prev[q] /\ todo'[q] = todo[q]
      /\ UNCHANGED <<lock, head, initialized, projectHead, trees, receipts, intents, issued>>
  BY Parts DEF Crash, Goto, durable, TypeOK
<1> QED
  BY <1>1, LeaverHistory

\* A create that finds the lock ends its operation.
LEMMA RefusedHistory ==
    ASSUME ChainInv, NEW p \in Procs, CreateLock(p), lock # NoLock
    PROVE  HistoryInv'
<1>1. /\ pc[p] = "lock" /\ pc'[p] = "idle" /\ dirty' = dirty
      /\ \A q \in Procs \ {p} : /\ pc'[q] = pc[q] /\ job'[q] = job[q] /\ op'[q] = op[q]
                                /\ prev'[q] = prev[q] /\ todo'[q] = todo[q]
      /\ UNCHANGED <<lock, head, initialized, projectHead, trees, receipts, intents, issued>>
  BY Parts DEF CreateLock, Leave, Goto, TypeOK
<1> QED
  BY <1>1, LeaverHistory

\* Operations and recoveries start where the rules of the store allow it.
LEMMA StartHistory ==
    ASSUME ChainInv, Faults \subseteq {"crash"}, NEW p \in Procs, Start(p)
    PROVE  HistoryInv'
<1>1. /\ pc[p] = "idle" /\ ~Busy(p)
      /\ UNCHANGED <<lock, head, initialized, projectHead, trees, receipts, intents, issued, dirty,
                     op, prev, todo>>
      /\ \A q \in Procs \ {p} : pc'[q] = pc[q] /\ job'[q] = job[q]
  BY Parts DEF Start, StartInit, StartSync, StartRestore, StartRecover, MayStart, Enter, Goto, durable,
     TypeOK, Busy
<1>2. Numbered' /\ IntentsInv' /\ Committed' = Committed /\ \A h : AtEnd(h)' = AtEnd(h)
  BY <1>1, Parts, SameStore, SameRecords
<1>3. CleanInv /\ Complete' = Complete
  BY <1>1, <1>2 DEF ChainInv, HistoryInv, Complete, Cleared
<1>4. \A q \in Procs : (pc[q] = "stamp" \/ InTransaction(q) => lock # NoLock) /\ (Committing(q) => InTransaction(q))
  BY HolderAlone DEF InTransaction, Committing, OpSteps
<1>5. \/ pc'[p] = "r_lock" /\ OthersQuiet(p)
      \/ /\ pc'[p] = "lock" /\ ~dirty /\ \A q \in Procs : ~Recovering(q)
         /\ \/ job'[p] = "init" /\ ~initialized /\ OthersQuiet(p)
            \/ job'[p] \in {"sync", "restore"} /\ initialized
  BY Parts DEF Start, StartInit, StartSync, StartRestore, StartRecover, MayStart, Enter, Goto, TypeOK
<1>6. OthersQuiet(p)' = OthersQuiet(p)
  BY <1>1 DEF OthersQuiet, Busy
<1>7. OperationInv(p)'
  BY <1>1, <1>2, <1>3, <1>4, <1>5 DEF OperationInv, Preparing, Owning, Committing, CleanInv
<1>8. JobInv(p)'
  <2>1. CASE job'[p] = "init" /\ pc'[p] = "lock" /\ ~initialized /\ OthersQuiet(p) /\ ~dirty
    <3>1. \A q \in Procs : pc[q] # "project"
      BY <1>1, <2>1 DEF OthersQuiet, Busy
    <3>2. Committed = {}
      BY <1>3, <2>1, <3>1 DEF CleanInv
    <3> QED
      BY <1>1, <1>2, <1>6, <2>1, <3>2 DEF JobInv, OpSteps
  <2>2. CASE pc'[p] = "r_lock" \/ (job'[p] \in {"sync", "restore"} /\ initialized /\ pc'[p] = "lock")
    BY <1>1, <2>2 DEF JobInv, OpSteps
  <2> QED
    BY <1>5, <2>1, <2>2
<1>9. RecoveryInv(p)'
  BY <1>5 DEF RecoveryInv, Replaying, Fixing, RecoverySteps
<1>10. ASSUME NEW q \in Procs \ {p} PROVE OperationInv(q)' /\ JobInv(q)' /\ RecoveryInv(q)'
  <2>1. CASE OthersQuiet(p)
    <3>1. pc'[q] \in {"idle", "dead"}
      BY <1>1, <2>1 DEF OthersQuiet, Busy
    <3> QED
      BY <3>1 DEF OperationInv, JobInv, RecoveryInv, Preparing, Owning, Committing, Replaying, Fixing,
         OpSteps, RecoverySteps
  <2>2. CASE initialized /\ \A r \in Procs : ~Recovering(r)
    <3>1. pc[q] \notin RecoverySteps
      BY <2>2 DEF ChainInv, ExclusionInv, RecoveryJob
    <3>2. OperationInv(q)'
      BY <1>1, <1>2, <1>3, Parts DEF OperationInv, Preparing, Owning, Committing, Cleared
    <3>3. JobInv(q)'
      BY <1>1, <1>2, <2>2, Parts DEF JobInv
    <3>4. RecoveryInv(q)'
      BY <1>1, <3>1 DEF RecoveryInv, Replaying, Fixing, RecoverySteps
    <3> QED
      BY <3>2, <3>3, <3>4
  <2> QED
    BY <1>5, <2>1, <2>2
<1>11. CleanInv'
  <2>1. \A q \in Procs : /\ (pc[q] = "stamp" \/ InTransaction(q)) => q # p /\ InTransaction(q)' = InTransaction(q)
                         /\ Committing(q) => Committing(q)'
    BY <1>1, <1>4 DEF InTransaction, Committing, OpSteps
  <2> QED
    BY <1>1, <1>2, <1>3, <2>1 DEF CleanInv
<1> QED
  BY <1>2, <1>7, <1>8, <1>9, <1>10, <1>11 DEF HistoryInv

-----------------------------------------------------------------------------
(* Recovery. *)

\* The end of the history is one tree.
LEMMA OneEnd ==
    ASSUME ChainInv, NEW o \in Committed, AtEnd(o),
           NEW h \in Committed \cup {Null}, AtEnd(h)
    PROVE  h = o
<1>1. Cardinality(Committed) # 0
  BY FiniteCommitted, FS_EmptySet
<1>2. h # Null
  BY <1>1 DEF AtEnd, SequenceOf
<1>3. trees[o].sequence = trees[h].sequence
  BY <1>2, FiniteCommitted DEF AtEnd, SequenceOf
<1> QED
  BY <1>2, <1>3 DEF ChainInv, HistoryInv, Numbered

\* A step of a recovery that goes on or ends well; it is alone.
LEMMA RecoveryGoesOn ==
    ASSUME ChainInv, NEW p \in Procs, pc[p] \in RecoverySteps,
           \A q \in Procs \ {p} : pc'[q] = pc[q],
           pc'[p] \in RecoverySteps \cup {"idle"}, Numbered', IntentsInv', RecoveryInv(p)', CleanInv'
    PROVE  HistoryInv'
<1>1. ASSUME NEW q \in Procs \ {p} PROVE OperationInv(q)' /\ JobInv(q)' /\ RecoveryInv(q)'
  <2>1. pc'[q] \in {"idle", "dead"}
    BY RecoveryAlone
  <2> QED
    BY <2>1 DEF OperationInv, JobInv, RecoveryInv, Preparing, Owning, Committing, Replaying, Fixing,
       OpSteps, RecoverySteps
<1>2. OperationInv(p)' /\ JobInv(p)'
  BY DEF OperationInv, JobInv, Preparing, Owning, Committing, OpSteps, RecoverySteps
<1> QED
  BY <1>1, <1>2 DEF HistoryInv

\* What CleanInv says while a recovery is at work.
LEMMA CleanRecovery ==
    ASSUME ChainInv, NEW p \in Procs, pc[p] \in RecoverySteps, ~dirty
    PROVE  lock = NoLock /\ Complete /\ (initialized \/ Committed = {})
<1>1. \A q \in Procs : pc[q] # "stamp" /\ ~InTransaction(q) /\ ~Committing(q) /\ pc[q] # "project"
  BY RecoveryAlone DEF InTransaction, Committing, OpSteps, RecoverySteps
<1> QED
  BY <1>1 DEF ChainInv, HistoryInv, CleanInv

\* A recovery step that moves the heads to the end of the history.
LEMMA HeadsToEnd ==
    ASSUME ChainInv, NEW p \in Procs, pc[p] \in RecoverySteps, Publishing(p), AtEnd(op[p]),
           head' \in {head, op[p]}, projectHead' \in {projectHead, op[p]}, initialized => initialized',
           dirty' = dirty, UNCHANGED <<lock, trees, receipts, intents>>
    PROVE  CleanInv'
<1> SUFFICES ASSUME ~dirty PROVE CleanInv'
  BY DEF CleanInv
<1>1. lock = NoLock /\ Complete /\ (initialized \/ Committed = {})
  BY CleanRecovery
<1>2. op[p] \in Committed /\ head \in Committed \cup {Null}
  BY DEF ChainInv, StoreInv, PublishingInv, HeadInv
<1>3. head = op[p] /\ projectHead = op[p]
  BY <1>1, <1>2, OneEnd DEF Complete
<1>4. Committed' = Committed /\ \A h : AtEnd(h)' = AtEnd(h)
  BY SameRecords
<1> QED
  BY <1>1, <1>3, <1>4 DEF CleanInv, Complete, Cleared

\* Recovery reads the lock of a dead process.
LEMMA RecoverReadLockHistory ==
    ASSUME ChainInv, NEW p \in Procs, RecoverReadLock(p)
    PROVE  HistoryInv'
<1>1. /\ pc[p] = "r_lock" /\ pc[p] \in RecoverySteps /\ dirty' = dirty
      /\ UNCHANGED <<lock, head, initialized, projectHead, trees, receipts, intents, issued>>
  BY DEF RecoverReadLock, durable, RecoverySteps
<1>2. /\ \A q \in Procs \ {p} : /\ pc'[q] = pc[q] /\ job'[q] = job[q] /\ op'[q] = op[q]
                                /\ prev'[q] = prev[q] /\ todo'[q] = todo[q]
      /\ pc'[p] = "idle" \/ pc'[p] = "r_unlock" \/ (pc'[p] = "r_list" /\ lock = NoLock)
  BY Parts DEF RecoverReadLock, Leave, Goto, TypeOK
<1>3. CASE pc'[p] = "idle"
  BY <1>1, <1>2, <1>3, LeaverHistory
<1>4. CASE pc'[p] = "r_unlock" \/ (pc'[p] = "r_list" /\ lock = NoLock)
  <2>1. /\ Numbered' /\ IntentsInv' /\ Committed' = Committed /\ \A h : AtEnd(h)' = AtEnd(h)
    BY <1>1, Parts, SameStore, SameRecords
  <2>2. RecoveryInv(p)'
    BY <1>1, <1>4 DEF RecoveryInv, Replaying, Fixing, RecoverySteps
  <2>3. CleanInv'
    BY <1>1, <2>1, CleanRecovery DEF CleanInv, Complete, Cleared
  <2>4. pc'[p] \in RecoverySteps
    BY <1>4 DEF RecoverySteps
  <2> QED
    BY <1>1, <1>2, <2>1, <2>2, <2>3, <2>4, RecoveryGoesOn
<1> QED
  BY <1>2, <1>3, <1>4

\* Recovery removes it.
LEMMA RecoverRemoveLockHistory ==
    ASSUME ChainInv, NEW p \in Procs, RecoverRemoveLock(p)
    PROVE  HistoryInv'
<1>1. /\ pc[p] = "r_unlock" /\ pc[p] \in RecoverySteps /\ lock' = NoLock
      /\ UNCHANGED <<head, initialized, projectHead, trees, receipts, intents, issued, dirty>>
  BY DEF RecoverRemoveLock, RecoverySteps
<1>2. /\ \A q \in Procs \ {p} : pc'[q] = pc[q]
      /\ pc'[p] = "r_list" /\ pc'[p] \in RecoverySteps
  BY Parts DEF RecoverRemoveLock, Goto, TypeOK, RecoverySteps
<1>3. /\ Numbered' /\ IntentsInv' /\ Committed' = Committed /\ \A h : AtEnd(h)' = AtEnd(h)
  BY <1>1, Parts, SameStore, SameRecords
<1>4. RecoveryInv(p)'
  BY <1>1, <1>2 DEF RecoveryInv, Replaying, Fixing
<1>5. CleanInv'
  BY <1>1, <1>3, CleanRecovery DEF CleanInv, Complete, Cleared
<1> QED
  BY <1>1, <1>2, <1>3, <1>4, <1>5, RecoveryGoesOn

\* Recovery lists the intents.
LEMMA RecoverListHistory ==
    ASSUME ChainInv, NEW p \in Procs, RecoverListIntents(p)
    PROVE  HistoryInv'
<1>1. /\ pc[p] = "r_list" /\ pc[p] \in RecoverySteps /\ lock = NoLock
      /\ UNCHANGED <<lock, head, initialized, projectHead, trees, receipts, intents, issued, dirty>>
  BY Parts DEF RecoverListIntents, durable, RecoveryInv, RecoverySteps
<1>2. /\ \A q \in Procs \ {p} : pc'[q] = pc[q]
      /\ pc'[p] = "r_intent" /\ pc'[p] \in RecoverySteps
      /\ todo'[p] = {o \in Ids : intents[o] # "none"}
  BY Parts DEF RecoverListIntents, Goto, TypeOK, RecoverySteps
<1>3. /\ Numbered' /\ IntentsInv' /\ Committed' = Committed /\ \A h : AtEnd(h)' = AtEnd(h)
  BY <1>1, Parts, SameStore, SameRecords
<1>4. RecoveryInv(p)'
  BY <1>1, <1>2, <1>3, FiniteCommitted DEF RecoveryInv, Replaying, Fixing
<1>5. CleanInv'
  BY <1>1, <1>3, CleanRecovery DEF CleanInv, Complete, Cleared
<1> QED
  BY <1>1, <1>2, <1>3, <1>4, <1>5, RecoveryGoesOn

\* Recovery takes up an intent: of a committed operation it replays the heads.
LEMMA RecoverIntentHistory ==
    ASSUME ChainInv, NEW p \in Procs, RecoverIntent(p)
    PROVE  HistoryInv'
<1>1. /\ pc[p] = "r_intent" /\ pc[p] \in RecoverySteps /\ lock = NoLock
      /\ {o \in Committed : intents[o] # "none"} \subseteq todo[p] /\ todo[p] \subseteq Ids
      /\ UNCHANGED <<lock, head, initialized, projectHead, trees, receipts, issued, dirty>>
  BY Parts DEF RecoverIntent, RecoveryInv, RecoverySteps, TypeOK
<1>2. \A q \in Procs \ {p} : /\ pc'[q] = pc[q] /\ job'[q] = job[q] /\ op'[q] = op[q]
                             /\ prev'[q] = prev[q] /\ todo'[q] = todo[q]
  BY Parts DEF RecoverIntent, Leave, Goto, TypeOK
<1>3. /\ Numbered' /\ Committed' = Committed /\ \A h : AtEnd(h)' = AtEnd(h)
  BY <1>1, Parts, SameRecords
<1>4. PICK o \in todo[p] :
        \/ intents[o] = "none" /\ Leave(p) /\ UNCHANGED intents
        \/ /\ ~IsMaterialSuccessReceipt(o)
           /\ intents' = [intents EXCEPT ![o] = "none"]
           /\ todo' = [todo EXCEPT ![p] = @ \ {o}]
           /\ UNCHANGED <<pc, job, op, prev>>
        \/ /\ intents[o] # "none"
           /\ IsMaterialSuccessReceipt(o)
           /\ op' = [op EXCEPT ![p] = o]
           /\ Goto(p, IF intents[o] = "init_project" THEN "r_init_project" ELSE "r_restore_head")
           /\ UNCHANGED <<intents, job, prev, todo>>
  BY DEF RecoverIntent
<1>5. CASE Leave(p) /\ UNCHANGED intents
  <2>1. pc'[p] = "idle"
    BY <1>5, Parts DEF Leave, Goto, TypeOK
  <2> QED
    BY <1>1, <1>2, <1>5, <2>1, LeaverHistory
<1>6. CASE /\ ~IsMaterialSuccessReceipt(o)
           /\ intents' = [intents EXCEPT ![o] = "none"]
           /\ todo' = [todo EXCEPT ![p] = @ \ {o}]
           /\ UNCHANGED <<pc, job, op, prev>>
  <2>1. /\ o \notin Committed
        /\ \A q \in Ids : intents'[q] = IF q = o THEN "none" ELSE intents[q]
        /\ todo'[p] = todo[p] \ {o} /\ pc'[p] = "r_intent"
    BY <1>1, <1>6, Parts DEF TypeOK, Committed
  <2>2. \A q \in Committed : intents'[q] = intents[q]
    BY <2>1, FiniteCommitted
  <2>3. IntentsInv'
    BY <1>1, <1>3, <2>1, <2>2, Parts DEF IntentsInv
  <2>4. RecoveryInv(p)'
    BY <1>1, <1>3, <2>1, <2>2 DEF RecoveryInv, Replaying, Fixing
  <2>5. CleanInv'
    BY <1>1, <1>3, <2>2, CleanRecovery DEF CleanInv, Complete, Cleared
  <2> QED
    BY <1>1, <1>2, <1>3, <2>1, <2>3, <2>4, <2>5, RecoveryGoesOn
<1>7. CASE /\ intents[o] # "none"
           /\ IsMaterialSuccessReceipt(o)
           /\ op' = [op EXCEPT ![p] = o]
           /\ Goto(p, IF intents[o] = "init_project" THEN "r_init_project" ELSE "r_restore_head")
           /\ UNCHANGED <<intents, job, prev, todo>>
  <2>1. /\ o \in Committed /\ AtEnd(o)
        /\ initialized \/ intents[o] = "init_project"
    BY <1>1, <1>7, Parts DEF Committed, IntentsInv
  <2>2. /\ op'[p] = o /\ pc'[p] = IF intents[o] = "init_project" THEN "r_init_project" ELSE "r_restore_head"
        /\ pc'[p] \in RecoverySteps
    BY <1>7, <2>1, Parts DEF Goto, TypeOK, RecoverySteps
  <2>3. IntentsInv'
    BY <1>1, <1>3, <1>7, Parts DEF IntentsInv
  <2>4. RecoveryInv(p)'
    BY <1>1, <1>3, <1>7, <2>1, <2>2 DEF RecoveryInv, Replaying, Fixing
  <2>5. CleanInv'
    BY <1>1, <1>3, <1>7, CleanRecovery DEF CleanInv, Complete, Cleared
  <2> QED
    BY <1>1, <1>2, <1>3, <2>2, <2>3, <2>4, <2>5, RecoveryGoesOn
<1> QED
  BY <1>4, <1>5, <1>6, <1>7

\* The steps that complete an interrupted operation.
LEMMA ReplayHistory ==
    ASSUME ChainInv, NEW p \in Procs,
           \/ RecoverInitProject(p) /\ ~TornProject
           \/ RecoverFillProject(p) \/ RecoverIntentHead(p) \/ RecoverRestoreProject(p)
    PROVE  HistoryInv'
<1>1. /\ Replaying(p) /\ pc[p] # "r_clear" /\ Publishing(p) /\ pc[p] \in RecoverySteps
      /\ initialized' = (initialized \/ pc[p] = "r_init_project")
      /\ head' \in {head, op[p]} /\ projectHead' \in {projectHead, op[p]}
      /\ UNCHANGED <<lock, trees, receipts, intents, issued, dirty, op, todo>>
  <2>1. initialized \in BOOLEAN
    BY Parts DEF TypeOK
  <2>2. CASE RecoverInitProject(p) /\ ~TornProject
    BY <2>1, <2>2 DEF RecoverInitProject, TornProject, Replaying, Publishing, RecoverySteps
  <2>3. CASE RecoverFillProject(p) \/ RecoverIntentHead(p) \/ RecoverRestoreProject(p)
    BY <2>1, <2>3 DEF RecoverFillProject, RecoverIntentHead, RecoverRestoreProject, Replaying, Publishing,
       RecoverySteps
  <2> QED
    BY <2>2, <2>3
<1>2. /\ \A q \in Procs \ {p} : pc'[q] = pc[q]
      /\ pc'[p] \in {"r_init_fill", "r_init_head", "r_restore_project", "r_clear"}
      /\ pc'[p] \in RecoverySteps
  BY Parts DEF RecoverInitProject, TornProject, RecoverFillProject, RecoverIntentHead,
     RecoverRestoreProject, Goto, TypeOK, RecoverySteps
<1>3. AtEnd(op[p]) /\ initialized'
  BY <1>1, Parts DEF RecoveryInv
<1>4. /\ Numbered' /\ IntentsInv' /\ Committed' = Committed /\ \A h : AtEnd(h)' = AtEnd(h)
  BY <1>1, <1>3, Parts, SameStore, SameRecords
<1>5. RecoveryInv(p)'
  <2>1. lock = NoLock /\ {o \in Committed : intents[o] # "none"} \subseteq todo[p]
    BY <1>1, Parts DEF RecoveryInv, Replaying
  <2> QED
    BY <1>1, <1>2, <1>3, <1>4, <2>1 DEF RecoveryInv, Replaying, Fixing
<1>6. CleanInv'
  BY <1>1, <1>3, HeadsToEnd
<1> QED
  BY <1>1, <1>2, <1>4, <1>5, <1>6, RecoveryGoesOn

\* An empty project.json ends the recovery, which repairs nothing.
LEMMA TornHistory ==
    ASSUME ChainInv, NEW p \in Procs, TornProject,
           RecoverInitProject(p) \/ RecoverDecide(p)
    PROVE  HistoryInv'
<1>1. /\ pc[p] \in RecoverySteps /\ pc'[p] = "idle" /\ dirty' = dirty
      /\ \A q \in Procs \ {p} : /\ pc'[q] = pc[q] /\ job'[q] = job[q] /\ op'[q] = op[q]
                                /\ prev'[q] = prev[q] /\ todo'[q] = todo[q]
      /\ UNCHANGED <<lock, head, initialized, projectHead, trees, receipts, intents, issued>>
  BY Parts DEF RecoverInitProject, RecoverDecide, TornProject, Leave, Goto, durable, TypeOK, RecoverySteps
<1> QED
  BY <1>1, LeaverHistory

\* An intent that is replayed is cleared.
LEMMA RecoverClearHistory ==
    ASSUME ChainInv, NEW p \in Procs, RecoverClearIntent(p)
    PROVE  HistoryInv'
<1>1. /\ pc[p] = "r_clear" /\ pc[p] \in RecoverySteps /\ op[p] \in Committed /\ op[p] \in Ids
      /\ lock = NoLock /\ initialized /\ {o \in Committed : intents[o] # "none"} \subseteq todo[p]
      /\ UNCHANGED <<lock, head, initialized, projectHead, trees, receipts, issued, dirty>>
  BY Parts, FiniteCommitted DEF RecoverClearIntent, RecoveryInv, RecoverySteps, Replaying, ChainInv, StoreInv,
     PublishingInv, Publishing
<1>2. /\ \A q \in Procs \ {p} : pc'[q] = pc[q]
      /\ pc'[p] = "r_intent" /\ pc'[p] \in RecoverySteps
      /\ todo'[p] = todo[p] \ {op[p]}
      /\ \A o \in Ids : intents'[o] = IF o = op[p] THEN "none" ELSE intents[o]
  BY <1>1, Parts DEF RecoverClearIntent, Goto, TypeOK, RecoverySteps
<1>3. /\ Numbered' /\ Committed' = Committed /\ \A h : AtEnd(h)' = AtEnd(h)
  BY <1>1, Parts, SameRecords
<1>4. IntentsInv'
  BY <1>1, <1>2, <1>3, Parts, FiniteCommitted DEF IntentsInv
<1>5. RecoveryInv(p)'
  BY <1>1, <1>2, <1>3, FiniteCommitted DEF RecoveryInv, Replaying, Fixing
<1>6. CleanInv'
  BY <1>1, <1>2, <1>3, CleanRecovery, FiniteCommitted DEF CleanInv, Complete, Cleared
<1> QED
  BY <1>1, <1>2, <1>3, <1>4, <1>5, <1>6, RecoveryGoesOn

\* No intent is left.
LEMMA RecoverIntentsDoneHistory ==
    ASSUME ChainInv, NEW p \in Procs, RecoverIntentsDone(p)
    PROVE  HistoryInv'
<1>1. /\ pc[p] = "r_intent" /\ pc[p] \in RecoverySteps
      /\ lock = NoLock /\ {o \in Committed : intents[o] # "none"} = {}
      /\ UNCHANGED <<lock, head, initialized, projectHead, trees, receipts, intents, issued, dirty>>
  BY Parts DEF RecoverIntentsDone, RecoveryInv, RecoverySteps, durable
<1>2. /\ \A q \in Procs \ {p} : pc'[q] = pc[q]
      /\ pc'[p] = "r_latest" /\ pc'[p] \in RecoverySteps
  BY Parts DEF RecoverIntentsDone, Goto, TypeOK, RecoverySteps
<1>3. /\ Numbered' /\ IntentsInv' /\ Committed' = Committed /\ \A h : AtEnd(h)' = AtEnd(h)
  BY <1>1, Parts, SameStore, SameRecords
<1>4. Cleared(Null)'
  BY <1>1, <1>3 DEF Cleared
<1>5. RecoveryInv(p)'
  BY <1>1, <1>2, <1>4 DEF RecoveryInv, Replaying, Fixing
<1>6. CleanInv'
  BY <1>1, <1>3, CleanRecovery DEF CleanInv, Complete, Cleared
<1> QED
  BY <1>1, <1>2, <1>3, <1>5, <1>6, RecoveryGoesOn

\* reconcileMutableHeads finds the end of the history.
LEMMA LatestIsEnd ==
    ASSUME ChainInv
    PROVE  IF Committed = {}
           THEN LatestCausalCandidate = Null
           ELSE LatestCausalCandidate \in Committed /\ AtEnd(LatestCausalCandidate)
<1> DEFINE n == Cardinality(Committed)
<1>1. /\ Numbered /\ AncestryCommitted
      /\ \A o \in Committed : receipts[o].new_head = o
  BY DEF ChainInv, HistoryInv, StoreInv, IntentsInv
<1>2. VerifiedCandidates = Committed
  BY <1>1 DEF VerifiedCandidates, AncestryCommitted
<1>3. \A o \in Committed : FollowsParent(o, Committed)
  BY <1>1 DEF AncestryCommitted, FollowsParent
<1>4. ChainValid = Committed
  BY <1>2, <1>3 DEF ChainValid
<1>5. ~Forked
  <2> SUFFICES ASSUME NEW o1 \in Committed, NEW o2 \in Committed, trees[o1].parent = trees[o2].parent
               PROVE  o1 = o2
    BY <1>4 DEF Forked
  <2>1. trees[o1].sequence = trees[o2].sequence
    BY <1>1 DEF AncestryCommitted
  <2> QED
    BY <1>1, <2>1 DEF Numbered
<1>6. CASE Committed = {}
  <2>1. HighestCandidates = {}
    BY <1>4, <1>6 DEF HighestCandidates
  <2>2. LatestCausalCandidate = Null
    BY <2>1 DEF LatestCausalCandidate
  <2> QED
    BY <1>6, <2>2
<1>7. CASE Committed # {}
  <2>1. n \in Nat /\ n # 0
    BY <1>7, FiniteCommitted, FS_EmptySet
  <2>2. PICK top \in Committed : trees[top].sequence = n
    BY <1>1, <2>1 DEF Numbered
  <2>3. \A o \in Committed : trees[o].sequence \in 1..n
    BY <1>1 DEF Numbered
  <2>4. HighestCandidates = {top}
    <3>1. top \in HighestCandidates
      BY <1>4, <2>1, <2>2, <2>3 DEF HighestCandidates
    <3>2. ASSUME NEW o \in HighestCandidates PROVE o = top
      <4>1. o \in Committed /\ n <= trees[o].sequence
        BY <1>4, <2>2 DEF HighestCandidates
      <4>2. trees[o].sequence = n
        BY <2>1, <2>3, <4>1
      <4> QED
        BY <1>1, <2>2, <4>1, <4>2 DEF Numbered
    <3> QED
      BY <3>1, <3>2
  <2>5. top \in Ids /\ top # Null
    BY FiniteCommitted
  <2>6. LatestCausalCandidate = top
    <3>1. \A o \in Ids : HighestCandidates = {o} <=> o = top
      BY <2>4
    <3>2. (CHOOSE o \in Ids : HighestCandidates = {o}) = top
      BY <2>5, <3>1
    <3> QED
      BY <1>5, <2>5, <3>1, <3>2 DEF LatestCausalCandidate
  <2>7. AtEnd(top)
    BY <2>2, <2>5 DEF AtEnd, SequenceOf
  <2> QED
    BY <1>7, <2>6, <2>7
<1> QED
  BY <1>6, <1>7

\* The latest receipt without a successor is the end of the history.
LEMMA RecoverDecideHistory ==
    ASSUME ChainInv, NEW p \in Procs, RecoverDecide(p), ~TornProject
    PROVE  HistoryInv'
<1> DEFINE latest == LatestCausalCandidate
<1>1. /\ pc[p] = "r_latest" /\ pc[p] \in RecoverySteps /\ lock = NoLock /\ Cleared(Null)
      /\ UNCHANGED <<lock, head, initialized, projectHead, trees, receipts, intents, issued>>
  BY Parts DEF RecoverDecide, RecoveryInv, RecoverySteps, durable
<1>2. /\ Numbered' /\ IntentsInv' /\ Committed' = Committed /\ \A h : AtEnd(h)' = AtEnd(h)
  BY <1>1, Parts, SameStore, SameRecords
<1>3. CASE latest # Null /\ op' = [op EXCEPT ![p] = latest] /\ Goto(p, "r_fix_head") /\ dirty' = dirty
  <2>1. latest \in Committed /\ AtEnd(latest)
    BY <1>3, LatestIsEnd
  <2>2. /\ op'[p] = latest /\ pc'[p] = "r_fix_head" /\ pc'[p] \in RecoverySteps
        /\ \A q \in Procs \ {p} : pc'[q] = pc[q]
    BY <1>3, Parts DEF Goto, TypeOK, RecoverySteps
  <2>3. RecoveryInv(p)'
    BY <1>1, <1>2, <2>1, <2>2 DEF RecoveryInv, Replaying, Fixing, Cleared
  <2>4. CleanInv'
    BY <1>1, <1>2, <1>3, CleanRecovery DEF CleanInv, Complete, Cleared
  <2> QED
    BY <1>1, <1>2, <2>2, <2>3, <2>4, RecoveryGoesOn
<1>4. CASE latest = Null \/ (head = latest /\ projectHead = latest)
  <2>1. CASE Leave(p)
    <3>1. pc'[p] = "idle" /\ \A q \in Procs \ {p} : pc'[q] = pc[q]
      BY <2>1, Parts DEF Leave, Goto, TypeOK
    <3>2. RecoveryInv(p)'
      BY <3>1 DEF RecoveryInv, Replaying, Fixing, RecoverySteps
    <3>3. Complete
      <4>1. CASE Committed = {}
        <5>1. head = Null /\ projectHead = Null
          BY <4>1 DEF ChainInv, StoreInv, HeadInv
        <5>2. Cardinality(Committed) = 0
          BY <4>1, FS_EmptySet
        <5> QED
          BY <1>1, <5>1, <5>2 DEF Complete, AtEnd, SequenceOf
      <4>2. CASE Committed # {}
        BY <1>1, <1>4, <4>2, LatestIsEnd, FiniteCommitted DEF Complete
      <4> QED
        BY <4>1, <4>2
    <3>4. initialized \/ Committed = {}
      BY <1>1, Parts, FiniteCommitted DEF IntentsInv, Cleared
    <3>5. CleanInv'
      BY <1>1, <1>2, <3>3, <3>4 DEF CleanInv, Complete, Cleared
    <3> QED
      BY <1>1, <1>2, <3>1, <3>2, <3>5, RecoveryGoesOn
  <2> QED
    BY <1>3, <1>4, <2>1 DEF RecoverDecide
<1> QED
  BY <1>3, <1>4 DEF RecoverDecide

\* HEAD is brought to the end,
LEMMA RecoverFixHeadHistory ==
    ASSUME ChainInv, NEW p \in Procs, RecoverFixHead(p)
    PROVE  HistoryInv'
<1>1. /\ pc[p] = "r_fix_head" /\ pc[p] \in RecoverySteps /\ lock = NoLock /\ Cleared(Null)
      /\ AtEnd(op[p]) /\ Publishing(p) /\ head' = op[p]
      /\ UNCHANGED <<lock, initialized, projectHead, trees, receipts, intents, issued, dirty, op>>
  BY Parts DEF RecoverFixHead, RecoveryInv, RecoverySteps, Fixing, Publishing
<1>2. /\ pc'[p] = "r_fix_project" /\ pc'[p] \in RecoverySteps
      /\ \A q \in Procs \ {p} : pc'[q] = pc[q]
  BY Parts DEF RecoverFixHead, Goto, TypeOK, RecoverySteps
<1>3. /\ Numbered' /\ IntentsInv' /\ Committed' = Committed /\ \A h : AtEnd(h)' = AtEnd(h)
  BY <1>1, Parts, SameStore, SameRecords
<1>4. RecoveryInv(p)'
  BY <1>1, <1>2, <1>3 DEF RecoveryInv, Replaying, Fixing, Cleared
<1>5. CleanInv'
  BY <1>1, HeadsToEnd
<1> QED
  BY <1>1, <1>2, <1>3, <1>4, <1>5, RecoveryGoesOn

\* and then project.json.
LEMMA RecoverFixProjectHistory ==
    ASSUME ChainInv, NEW p \in Procs, RecoverFixProject(p)
    PROVE  HistoryInv'
<1>1. /\ pc[p] = "r_fix_project" /\ pc[p] \in RecoverySteps /\ lock = NoLock /\ Cleared(Null)
      /\ AtEnd(op[p]) /\ op[p] \in Committed /\ head = op[p]
      /\ Publishing(p)
      /\ UNCHANGED <<lock, head, initialized, trees, receipts, intents, issued>>
  BY Parts DEF RecoverFixProject, RecoveryInv, RecoverySteps, Fixing, Publishing, ChainInv, StoreInv,
     PublishingInv
<1>2. pc'[p] = "idle" /\ \A q \in Procs \ {p} : pc'[q] = pc[q]
  BY Parts DEF RecoverFixProject, Leave, Goto, TypeOK
<1>3. /\ Numbered' /\ IntentsInv' /\ Committed' = Committed /\ \A h : AtEnd(h)' = AtEnd(h)
  BY <1>1, Parts, SameStore, SameRecords
<1>4. RecoveryInv(p)'
  BY <1>2 DEF RecoveryInv, Replaying, Fixing, RecoverySteps
<1>5. initialized
  BY <1>1, Parts, FiniteCommitted DEF IntentsInv, Cleared
<1>6. CleanInv'
  <2>1. CASE TornProject
    <3>1. projectHead' = projectHead /\ dirty' = dirty
      BY <2>1 DEF RecoverFixProject
    <3> QED
      BY <1>1, <3>1, HeadsToEnd
  <2>2. CASE ~TornProject
    <3>1. projectHead' = op[p]
      BY <1>5, <2>2 DEF RecoverFixProject
    <3> QED
      BY <1>1, <1>2, <1>3, <1>5, <3>1 DEF CleanInv, Complete, Cleared
  <2> QED
    BY <2>1, <2>2
<1> QED
  BY <1>1, <1>2, <1>3, <1>4, <1>6, RecoveryGoesOn

-----------------------------------------------------------------------------
(* The history invariant. *)

\* The steps of an operation.
LEMMA OperationHistory ==
    ASSUME ChainInv, StoreInv', Faults \subseteq {"crash"}, NEW p \in Procs, OperationStep(p)
    PROVE  HistoryInv'
<1>1. CASE CreateLock(p)
  BY <1>1, CreateHistory, RefusedHistory
<1>2. CASE WriteReceipt(p)
  BY <1>2, ReceiptHistory
<1> QED
  BY <1>1, <1>2, StampHistory, GivenUpHistory, BeginHistory, IntentHistory, RecordsHistory, ProjectHistory,
     FillHistory, HeadHistory, ClearHistory, ReleaseHistory DEF OperationStep

\* The steps of a recovery.
LEMMA RecoveryHistory ==
    ASSUME ChainInv, NEW p \in Procs, RecoveryStep(p)
    PROVE  HistoryInv'
BY RecoverReadLockHistory, RecoverRemoveLockHistory, RecoverListHistory, RecoverIntentHistory, ReplayHistory,
   TornHistory, RecoverClearHistory, RecoverIntentsDoneHistory, RecoverDecideHistory, RecoverFixHeadHistory,
   RecoverFixProjectHistory DEF RecoveryStep

\* Without throws, all that fails is a process.
LEMMA FailHistory ==
    ASSUME ChainInv, Faults \subseteq {"crash"}, NEW p \in Procs, Fail(p)
    PROVE  HistoryInv'
<1>1. ~ThrowLate(p) /\ ~ThrowInLock(p)
  BY DEF ThrowLate, ThrowInLock
<1> QED
  BY <1>1, GivenUpHistory, CrashHistory DEF Fail

\* The history at first is empty and complete.
LEMMA InitHistory == Init => ChainInv
<1> SUFFICES ASSUME Init PROVE ChainInv
  OBVIOUS
<1>1. StoreInv
  BY InitStore
<1>2. ExclusionInv
  BY InitType DEF Init, ExclusionInv, HoldsLock, RecoveryJob, RecoversAlone, Recovering, Busy,
     InTransaction, OpSteps, RecoverySteps
<1>3. Committed = {}
  BY DEF Init, Committed, IsMaterialSuccessReceipt, NoReceipt
<1>4. Cardinality(Committed) = 0
  BY <1>3, FS_EmptySet
<1>5. Numbered
  BY <1>3, <1>4 DEF Numbered
<1>6. Complete
  BY <1>3, <1>4 DEF Init, Complete, AtEnd, SequenceOf, Cleared
<1>7. \A p \in Procs : OperationInv(p) /\ JobInv(p) /\ RecoveryInv(p)
  BY OutsideInv DEF Init
<1>8. IntentsInv
  BY <1>3 DEF Init, IntentsInv, NoTree
<1>9. CleanInv
  BY <1>3, <1>6 DEF Init, CleanInv
<1> QED
  BY <1>1, <1>2, <1>5, <1>7, <1>8, <1>9 DEF ChainInv, HistoryInv

\* No step breaks the chain.
LEMMA NextHistory ==
    ASSUME Faults \subseteq {"crash"}, ChainInv, [Next]_vars
    PROVE  ChainInv'
<1>1. StoreInv'
  BY NextStore DEF ChainInv
<1>2. ExclusionInv'
  BY ExclusionStep DEF ChainInv
<1>3. ASSUME NEW p \in Procs, Start(p) \/ OperationStep(p) \/ RecoveryStep(p) \/ Fail(p)
      PROVE  HistoryInv'
  BY <1>1, <1>3, StartHistory, OperationHistory, RecoveryHistory, FailHistory
<1>4. ASSUME UNCHANGED vars PROVE HistoryInv'
  <2>1. /\ Numbered' /\ IntentsInv' /\ Committed' = Committed /\ \A h : AtEnd(h)' = AtEnd(h)
    BY <1>4, SameStore, SameRecords DEF vars, durable, ChainInv, HistoryInv
  <2>2. CleanInv'
    BY <1>4, <2>1 DEF ChainInv, HistoryInv, CleanInv, vars, durable, locals, InTransaction, Committing, Complete, Cleared
  <2>3. ASSUME NEW q \in Procs PROVE OperationInv(q)' /\ JobInv(q)' /\ RecoveryInv(q)'
    <3>1. OthersQuiet(q)' = OthersQuiet(q)
      BY <1>4 DEF OthersQuiet, Busy, vars, locals
    <3>2. OperationInv(q)'
      BY <1>4, <2>1, Parts DEF OperationInv, Preparing, Owning, Committing, Complete, Cleared, vars, durable, locals
    <3>3. JobInv(q)'
      BY <1>4, <2>1, <3>1, Parts DEF JobInv, vars, durable, locals
    <3>4. RecoveryInv(q)'
      BY <1>4, <2>1, Parts DEF RecoveryInv, Replaying, Fixing, Cleared, vars, durable, locals
    <3> QED
      BY <3>2, <3>3, <3>4
  <2> QED
    BY <2>1, <2>2, <2>3 DEF HistoryInv
<1>5. HistoryInv'
  BY <1>3, <1>4 DEF Next
<1> QED
  BY <1>1, <1>2, <1>5 DEF ChainInv

\* The inductive invariant of the committed history, through every durable write of
\* init, sync and restore, every crash and every step of recovery.
THEOREM HistoryInvariant ==
    ASSUME Faults \subseteq {"crash"}
    PROVE  Spec => []ChainInv
<1>1. ChainInv /\ [Next]_vars => ChainInv'
  BY NextHistory
<1> QED
  BY <1>1, InitHistory, PTL DEF Spec

\* With processes that crash anywhere, no two committed operations follow the
\* same head: the committed history does not fork.
THEOREM CommittedIsChain ==
    ASSUME Faults \subseteq {"crash"}
    PROVE  Spec => []CommittedChain
<1>1. ChainInv => CommittedChain
  <2> SUFFICES ASSUME ChainInv, NEW o1 \in Committed, NEW o2 \in Committed,
                      receipts[o1].previous_head = receipts[o2].previous_head
               PROVE  o1 = o2
    BY DEF CommittedChain
  <2>1. trees[o1].sequence = trees[o2].sequence
    BY DEF ChainInv, StoreInv, AncestryCommitted
  <2> QED
    BY <2>1 DEF ChainInv, HistoryInv, Numbered
<1> QED
  BY <1>1, HistoryInvariant, PTL

-----------------------------------------------------------------------------
(* The lineage of a committed tree. *)

\* A non-empty set of naturals has a least element.
LEMMA NatLeast ==
    ASSUME NEW T, T \subseteq Nat, T # {}
    PROVE  \E x \in T : \A y \in T : x <= y
<1> DEFINE R == {ss \in Nat \X Nat : ss[1] < ss[2]}
<1>1. IsWellFoundedOn(R, Nat)
  BY NatLessThanWellFounded, Zenon DEF OpToRel
<1>2. PICK x \in T : \A y \in T : ~ (<<y, x>> \in R)
  <2> HIDE DEF R
  <2> QED
    BY <1>1, WFMin
<1>3. ASSUME NEW y \in T PROVE x <= y
  <2>1. ~ (y < x)
    <3>1. x \in Nat /\ y \in Nat /\ <<y, x>> \notin R
      BY <1>2
    <3> QED
      BY <3>1
  <2> QED
    BY <2>1
<1> QED
  BY <1>3

\* The committed trees numbered up to h.
UpTo(h) == {o \in Committed : trees[o].sequence <= SequenceOf(h)}

\* The history of a tree is its parent's and the tree.
LEMMA UpToParent ==
    ASSUME ChainInv, NEW o \in Committed
    PROVE  /\ trees[o].parent \in Committed \cup {Null}
           /\ trees[o].sequence \in Nat /\ trees[o].sequence >= 1
           /\ trees[o].sequence = SequenceOf(trees[o].parent) + 1
           /\ UpTo(o) = {o} \cup UpTo(trees[o].parent)
<1> DEFINE h == trees[o].parent
<1>1. /\ AncestryCommitted /\ Numbered
      /\ o # Null /\ Null \notin Committed /\ Cardinality(Committed) \in Nat
  BY FiniteCommitted DEF ChainInv, StoreInv, HistoryInv
<1>2. h \in Committed \cup {Null} /\ trees[o].sequence = SequenceOf(h) + 1
  BY <1>1 DEF AncestryCommitted, SequenceOf
<1>3. \A q \in Committed : trees[q].sequence \in Nat /\ trees[q].sequence >= 1
  BY <1>1 DEF Numbered
<1>4. SequenceOf(h) \in Nat /\ SequenceOf(o) = SequenceOf(h) + 1
  BY <1>1, <1>2, <1>3 DEF SequenceOf
<1>5. ASSUME NEW q \in Committed
      PROVE  trees[q].sequence <= SequenceOf(o) <=> q = o \/ trees[q].sequence <= SequenceOf(h)
  <2>1. trees[q].sequence = SequenceOf(o) => q = o
    BY <1>1 DEF Numbered, SequenceOf
  <2>2. trees[o].sequence = SequenceOf(o)
    BY <1>1 DEF SequenceOf
  <2> QED
    BY <1>3, <1>4, <2>1, <2>2
<1> QED
  BY <1>2, <1>3, <1>5 DEF UpTo

\* The lineage of a tree is the committed trees up to its number.
LEMMA LineageIs ==
    ASSUME ChainInv, NEW h \in Committed \cup {Null}
    PROVE  Lineage[h] = UpTo(h)
<1> DEFINE Step(f) == [o \in Heads |-> IF o = Null THEN {} ELSE {o} \cup f[trees[o].parent]]
           F == [o \in Heads |-> IF o = Null THEN {} ELSE {o} \cup UpTo(trees[o].parent)]
<1>1. UpTo(Null) = {}
  BY FiniteCommitted DEF ChainInv, HistoryInv, Numbered, UpTo, SequenceOf
<1>2. Committed \subseteq Heads \ {Null} /\ Null \in Heads
  BY FiniteCommitted DEF Heads
<1>3. \A o \in Ids : trees[o].parent \in Committed \cup {Null}
  BY DEF ChainInv, HistoryInv, IntentsInv
<1>4. \A o \in Committed \cup {Null} : F[o] = UpTo(o)
  BY <1>1, <1>2, UpToParent
<1>5. F = Step(F)
  <2>1. ASSUME NEW o \in Heads, o # Null PROVE F[o] = {o} \cup F[trees[o].parent]
    BY <1>3, <1>4, <2>1 DEF Heads
  <2>2. ASSUME NEW o \in Heads PROVE F[o] = Step(F)[o]
    BY <2>1, <2>2
  <2> QED
    BY <2>2
<1>6. Lineage = Step(Lineage)
  <2>1. \E f : f = Step(f)
    BY <1>5
  <2>2. Lineage = CHOOSE f : f = Step(f)
    BY Zenon DEF Lineage
  <2> HIDE DEF Step
  <2> QED
    BY <2>1, <2>2, Zenon
<1>7. /\ Lineage[Null] = {}
      /\ \A o \in Committed : Lineage[o] = {o} \cup Lineage[trees[o].parent]
  BY <1>2, <1>6
<1>8. \A o \in Committed : Lineage[o] = UpTo(o)
  <2> DEFINE T == {k \in Nat : \E o \in Committed : trees[o].sequence = k /\ Lineage[o] # UpTo(o)}
  <2>1. CASE T = {}
    BY <2>1, UpToParent
  <2>2. CASE T # {}
    <3>1. PICK k \in T : \A j \in T : k <= j
      <4>1. T \subseteq Nat
        OBVIOUS
      <4> HIDE DEF T
      <4> QED
        BY <2>2, <4>1, NatLeast
    <3>2. PICK o \in Committed : trees[o].sequence = k /\ Lineage[o] # UpTo(o)
      BY <3>1
    <3>3. Lineage[trees[o].parent] # UpTo(trees[o].parent)
      BY <1>7, <3>2, UpToParent
    <3>4. trees[o].parent \in Committed
      BY <1>1, <1>7, <3>3, UpToParent
    <3>5. trees[trees[o].parent].sequence \in T /\ ~ (k <= trees[trees[o].parent].sequence)
      <4>1. SequenceOf(trees[o].parent) = trees[trees[o].parent].sequence
        BY <3>4, FiniteCommitted DEF SequenceOf
      <4>2. trees[trees[o].parent].sequence \in Nat
        BY <3>4, UpToParent
      <4> QED
        BY <3>2, <3>3, <3>4, <4>1, <4>2, UpToParent
    <3> QED
      BY <3>1, <3>5
  <2> QED
    BY <2>1, <2>2
<1> QED
  BY <1>1, <1>7, <1>8

\* With processes that crash anywhere: once everything is at rest and every
\* failure was followed by a recovery that ran to its end, the lock is free, both
\* heads agree, every committed operation is in the history of HEAD, and none of
\* them has an intent left.
THEOREM SettledAlwaysComplete ==
    ASSUME Faults \subseteq {"crash"}
    PROVE  Spec => []SettledIsComplete
<1>1. ChainInv => SettledIsComplete
  <2> SUFFICES ASSUME ChainInv, Settled
               PROVE  /\ lock = NoLock
                      /\ projectHead = head
                      /\ Committed = Lineage[head]
                      /\ \A o \in Committed : intents[o] = "none"
    BY DEF SettledIsComplete
  <2>1. \A p \in Procs : pc[p] \in {"idle", "dead"}
    BY DEF Settled, Busy
  <2>2. lock = NoLock /\ Complete
    BY <2>1 DEF ChainInv, HistoryInv, CleanInv, Settled, InTransaction, Committing, OpSteps
  <2>3. \A o \in Committed : trees[o].sequence <= SequenceOf(head)
    BY <2>2, FiniteCommitted DEF ChainInv, HistoryInv, Numbered, Complete, AtEnd
  <2>4. Committed = UpTo(head)
    BY <2>3 DEF UpTo
  <2>5. Lineage[head] = UpTo(head)
    BY LineageIs DEF ChainInv, StoreInv, HeadInv
  <2> QED
    BY <2>2, <2>4, <2>5, FiniteCommitted DEF Complete, Cleared
<1> QED
  BY <1>1, HistoryInvariant, PTL

-----------------------------------------------------------------------------
(* The store implements CommittedHistory: safety. *)

LogInOrder ==
    /\ CommittedLog \in Seq(Committed)
    /\ Len(CommittedLog) = Cardinality(Committed)
    /\ \A k \in 1..Cardinality(Committed) : trees[CommittedLog[k]].sequence = k

\* The log lists each receipt at its number.
LEMMA LogIs ==
    ASSUME ChainInv
    PROVE  LogInOrder
<1> DEFINE n == Cardinality(Committed)
<1>1. Numbered /\ n \in Nat
  BY FiniteCommitted DEF ChainInv, HistoryInv
<1>2. ASSUME NEW k \in 1..n
      PROVE  CommittedLog[k] \in Committed /\ trees[CommittedLog[k]].sequence = k
  <2>1. \E o \in Committed : trees[o].sequence = k
    BY <1>1 DEF Numbered
  <2>2. CommittedLog[k] = CHOOSE o \in Committed : trees[o].sequence = k
    BY DEF CommittedLog
  <2> QED
    BY <2>1, <2>2
<1>3. CommittedLog \in [1..n -> Committed]
  <2>1. DOMAIN CommittedLog = 1..n /\ CommittedLog = [k \in 1..n |-> CommittedLog[k]]
    BY DEF CommittedLog
  <2> QED
    BY <1>2, <2>1
<1>4. CommittedLog \in Seq(Committed)
  BY <1>1, <1>3, SeqDef
<1>5. Len(CommittedLog) = n
  BY <1>1, <1>3, <1>4, LenProperties
<1> QED
  BY <1>2, <1>4, <1>5 DEF LogInOrder

\* Steps that commit nothing leave the log as it is.
LEMMA SameLog ==
    ASSUME Committed' = Committed, \A o \in Committed : trees'[o] = trees[o]
    PROVE  CommittedLog' = CommittedLog
<1>1. \A k : (CHOOSE o \in Committed : trees'[o].sequence = k) = (CHOOSE o \in Committed : trees[o].sequence = k)
  OBVIOUS
<1> QED
  BY <1>1 DEF CommittedLog

\* The same, after a step.
LEMMA LogLater == ChainInv' => LogInOrder'
<1>1. ChainInv => LogInOrder
  BY LogIs
<1> QED
  BY <1>1, PTL

\* The receipt of an operation appends it to the log.
LEMMA CommitsToLog ==
    ASSUME ChainInv, ChainInv', NEW p \in Procs, WriteReceipt(p)
    PROVE  History!Commit(op[p])
<1> DEFINE n == Cardinality(Committed)
           new == op[p]
           longer == Append(CommittedLog, new)
<1>1. /\ Committed' = Committed \cup {new} /\ new \notin Committed
      /\ Cardinality(Committed') = n + 1 /\ n \in Nat
      /\ trees[new].sequence = n + 1
      /\ Complete
      /\ UNCHANGED <<head, projectHead, trees>>
  BY ReceiptHistory, FiniteCommitted DEF WriteReceipt
<1>2. /\ CommittedLog \in Seq(Committed) /\ CommittedLog \in Seq(Committed')
      /\ Len(CommittedLog) = n /\ DOMAIN CommittedLog = 1..n
      /\ CommittedLog \in [1..n -> Committed]
      /\ \A k \in 1..n : trees[CommittedLog[k]].sequence = k
  <2>1. CommittedLog \in Seq(Committed) /\ Len(CommittedLog) = n
        /\ \A k \in 1..n : trees[CommittedLog[k]].sequence = k
    BY LogIs DEF LogInOrder
  <2>2. CommittedLog \in [1..n -> Committed] /\ DOMAIN CommittedLog = 1..n
    BY <2>1, LenProperties
  <2>3. CommittedLog \in [1..n -> Committed']
    BY <1>1, <2>2
  <2>4. CommittedLog \in Seq(Committed')
    BY <1>1, <2>3, SeqDef
  <2> QED
    BY <2>1, <2>2, <2>4
<1>3. /\ CommittedLog' \in [1..(n + 1) -> Committed']
      /\ \A k \in 1..(n + 1) : trees[CommittedLog'[k]].sequence = k
  <2>1. CommittedLog' \in Seq(Committed') /\ Len(CommittedLog') = n + 1
        /\ \A k \in 1..(n + 1) : trees[CommittedLog'[k]].sequence = k
    BY <1>1, LogLater DEF LogInOrder
  <2> QED
    BY <2>1, LenProperties
<1>4. /\ longer \in [1..(n + 1) -> Committed']
      /\ \A k \in 1..n : longer[k] = CommittedLog[k]
      /\ longer[n + 1] = new
  <2>1. new \in Committed'
    BY <1>1
  <2>2. /\ longer \in Seq(Committed') /\ Len(longer) = n + 1
        /\ \A k \in 1..n : longer[k] = CommittedLog[k]
        /\ longer[n + 1] = new
    BY <1>2, <2>1, AppendProperties
  <2> QED
    BY <2>2, LenProperties
<1>5. ASSUME NEW k \in 1..(n + 1) PROVE CommittedLog'[k] = longer[k]
  <2>1. trees[longer[k]].sequence = k
    BY <1>1, <1>2, <1>4
  <2>2. trees[CommittedLog'[k]].sequence = k /\ longer[k] \in Committed' /\ CommittedLog'[k] \in Committed'
    BY <1>3, <1>4
  <2>3. \A o1, o2 \in Committed' : trees[o1].sequence = trees[o2].sequence => o1 = o2
    BY <1>1 DEF ChainInv, HistoryInv, Numbered
  <2> QED
    BY <2>1, <2>2, <2>3
<1>6. CommittedLog' = longer
  <2> HIDE DEF longer
  <2>1. CommittedLog' = [k \in 1..(n + 1) |-> CommittedLog'[k]]
    BY <1>3
  <2>2. longer = [k \in 1..(n + 1) |-> longer[k]]
    BY <1>4
  <2>3. [k \in 1..(n + 1) |-> CommittedLog'[k]] = [k \in 1..(n + 1) |-> longer[k]]
    BY <1>5
  <2> QED
    BY <2>1, <2>2, <2>3, Zenon
<1>7. new \notin History!ToSet(CommittedLog)
  BY <1>1, <1>2 DEF History!ToSet
<1>8. SequenceOf(head) = n /\ SequenceOf(projectHead) = n /\ UNCHANGED <<SequenceOf(head), SequenceOf(projectHead)>>
  BY <1>1 DEF Complete, AtEnd, SequenceOf
<1> QED
  BY <1>2, <1>6, <1>7, <1>8 DEF History!Commit

\* A step that neither commits nor moves a head is a stutter of the history.
LEMMA HistoryStutter ==
    ASSUME ChainInv, Committed' = Committed, \A o \in Committed : trees'[o] = trees[o],
           UNCHANGED <<head, projectHead>>
    PROVE  UNCHANGED History!hvars
<1>1. head \in Committed \cup {Null} /\ projectHead \in Committed \cup {Null}
  BY DEF ChainInv, StoreInv, HeadInv
<1>2. UNCHANGED <<SequenceOf(head), SequenceOf(projectHead)>>
  BY <1>1 DEF SequenceOf
<1> QED
  BY <1>2, SameLog DEF History!hvars

\* A head moves to the end of the history or not at all.
LEMMA HeadsRefine ==
    ASSUME ChainInv, UNCHANGED <<trees, receipts>>, NEW o, o \in Committed, AtEnd(o),
           \/ head' \in {head, o} /\ projectHead' = projectHead
           \/ projectHead' \in {projectHead, o} /\ head' = head
    PROVE  [History!HistoryNext]_(History!hvars)
<1>1. /\ Committed' = Committed /\ CommittedLog' = CommittedLog
      /\ \A h : SequenceOf(h)' = SequenceOf(h)
  BY SameRecords, SameLog
<1>2. Len(CommittedLog) = SequenceOf(o)
  BY LogIs DEF LogInOrder, AtEnd
<1>3. CASE head' = head /\ projectHead' = projectHead
  BY <1>1, <1>3, HistoryStutter
<1>4. CASE head' = o /\ projectHead' = projectHead
  <2>1. SequenceOf(head)' = Len(CommittedLog) /\ SequenceOf(projectHead)' = SequenceOf(projectHead)
    BY <1>1, <1>2, <1>4 DEF SequenceOf
  <2> QED
    BY <1>1, <2>1 DEF History!HistoryNext, History!PublishHead
<1>5. CASE projectHead' = o /\ head' = head
  <2>1. SequenceOf(projectHead)' = Len(CommittedLog) /\ SequenceOf(head)' = SequenceOf(head)
    BY <1>1, <1>2, <1>5 DEF SequenceOf
  <2> QED
    BY <1>1, <2>1 DEF History!HistoryNext, History!RecordHead
<1> QED
  BY <1>3, <1>4, <1>5

\* The steps of an operation, as steps of the abstract history.
LEMMA OperationRefines ==
    ASSUME ChainInv, ChainInv', Faults \subseteq {"crash"}, NEW p \in Procs, OperationStep(p)
    PROVE  [History!HistoryNext]_(History!hvars)
<1>1. CASE WriteReceipt(p)
  <2>1. op[p] \in Ids
    BY <1>1, MaxOpsAssumption DEF ChainInv, StoreInv, TypeOK, OwningInv, Owning, WriteReceipt, Ids
  <2> QED
    BY <1>1, <2>1, CommitsToLog DEF History!HistoryNext
<1>2. CASE WriteHead(p) \/ PublishProject(p) \/ FillProject(p)
  <2>1. Publishing(p) /\ Committing(p)
    BY <1>2 DEF WriteHead, PublishProject, FillProject, Publishing, Committing
  <2>2. op[p] \in Committed /\ AtEnd(op[p])
    BY <2>1, Parts DEF OperationInv, ChainInv, StoreInv, PublishingInv
  <2>3. /\ UNCHANGED <<trees, receipts>>
        /\ \/ head' \in {head, op[p]} /\ projectHead' = projectHead
           \/ projectHead' \in {projectHead, op[p]} /\ head' = head
    BY <1>2 DEF WriteHead, PublishProject, FillProject
  <2> QED
    BY <2>2, <2>3, HeadsRefine
<1>3. CASE Begin(p)
  <2>1. Committed' = Committed /\ UNCHANGED <<trees, head, projectHead>>
    <3>1. /\ issued + 1 \in Ids /\ issued + 1 > issued
          /\ UNCHANGED <<trees, head, projectHead>>
      BY <1>3, MaxOpsAssumption, Parts DEF Begin, TypeOK, Ids
    <3>2. receipts[issued + 1].status = "none"
      BY <3>1 DEF ChainInv, StoreInv, IdsFresh
    <3>3. receipts'[issued + 1].status # "committed" /\ \A o \in Ids \ {issued + 1} : receipts'[o] = receipts[o]
      BY <1>3, <3>1, <3>2, Parts DEF Begin, TypeOK
    <3> QED
      BY <3>1, <3>2, <3>3 DEF Committed, IsMaterialSuccessReceipt
  <2> QED
    BY <2>1, HistoryStutter
<1>4. CASE WriteRecords(p)
  <2>1. op[p] \notin Committed /\ UNCHANGED <<receipts, head, projectHead>>
    BY <1>4 DEF WriteRecords, ChainInv, StoreInv, OwningInv, Owning
  <2>2. Committed' = Committed /\ \A o \in Committed : trees'[o] = trees[o]
    BY <1>4, <2>1, Parts, FiniteCommitted DEF WriteRecords, TypeOK, Committed, IsMaterialSuccessReceipt
  <2> QED
    BY <2>1, <2>2, HistoryStutter
<1>5. CASE CreateLock(p) \/ StampLock(p) \/ Refuse(p) \/ WriteIntent(p) \/ ClearIntent(p) \/ Release(p)
  <2>1. UNCHANGED <<trees, receipts, head, projectHead>>
    BY <1>5 DEF CreateLock, StampLock, Refuse, WriteIntent, ClearIntent, Release, durable
  <2> QED
    BY <2>1, SameRecords, HistoryStutter
<1> QED
  BY <1>1, <1>2, <1>3, <1>4, <1>5 DEF OperationStep

\* The steps of a recovery.
LEMMA RecoveryRefines ==
    ASSUME ChainInv, NEW p \in Procs, RecoveryStep(p)
    PROVE  [History!HistoryNext]_(History!hvars)
<1>1. CASE RecoverInitProject(p) \/ RecoverFillProject(p) \/ RecoverIntentHead(p)
           \/ RecoverRestoreProject(p) \/ RecoverFixHead(p) \/ RecoverFixProject(p)
  <2>1. Publishing(p) /\ (Replaying(p) \/ Fixing(p))
    BY <1>1 DEF RecoverInitProject, RecoverFillProject, RecoverIntentHead, RecoverRestoreProject,
       RecoverFixHead, RecoverFixProject, Publishing, Replaying, Fixing
  <2>2. op[p] \in Committed /\ AtEnd(op[p])
    BY <2>1, Parts DEF RecoveryInv, ChainInv, StoreInv, PublishingInv
  <2>3. /\ UNCHANGED <<trees, receipts>>
        /\ \/ head' \in {head, op[p]} /\ projectHead' = projectHead
           \/ projectHead' \in {projectHead, op[p]} /\ head' = head
    BY <1>1 DEF RecoverInitProject, RecoverFillProject, RecoverIntentHead, RecoverRestoreProject,
       RecoverFixHead, RecoverFixProject
  <2> QED
    BY <2>2, <2>3, HeadsRefine
<1>2. CASE RecoverReadLock(p) \/ RecoverRemoveLock(p) \/ RecoverListIntents(p) \/ RecoverIntent(p)
           \/ RecoverClearIntent(p) \/ RecoverIntentsDone(p) \/ RecoverDecide(p)
  <2>1. UNCHANGED <<trees, receipts, head, projectHead>>
    BY <1>2 DEF RecoverReadLock, RecoverRemoveLock, RecoverListIntents, RecoverIntent, RecoverClearIntent,
       RecoverIntentsDone, RecoverDecide, durable
  <2> QED
    BY <2>1, SameRecords, HistoryStutter
<1> QED
  BY <1>1, <1>2 DEF RecoveryStep

\* All other steps are stutters.
LEMMA OthersRefine ==
    ASSUME ChainInv, NEW p \in Procs, Start(p) \/ Fail(p)
    PROVE  [History!HistoryNext]_(History!hvars)
<1>1. UNCHANGED <<trees, receipts, head, projectHead>>
  BY DEF Start, StartInit, StartSync, StartRestore, StartRecover, Enter, Fail, ThrowEarly, ThrowLate,
     ThrowInLock, Crash, durable
<1> QED
  BY <1>1, SameRecords, HistoryStutter

\* With processes that crash anywhere, the store is the committed history of
\* CommittedHistory: receipts append to its log, on top of a published history
\* only; the writes of HEAD and project.json publish its end, never go back, and
\* every other durable write, of an operation or of recovery, changes nothing of
\* it.
THEOREM HistoryRefined ==
    ASSUME Faults \subseteq {"crash"}
    PROVE  Spec => History!HistorySpec
<1>1. Init => History!HistoryInit
  <2> SUFFICES ASSUME Init PROVE History!HistoryInit
    OBVIOUS
  <2>1. Committed = {}
    BY DEF Init, Committed, IsMaterialSuccessReceipt, NoReceipt
  <2>2. Cardinality(Committed) = 0
    BY <2>1, FS_EmptySet
  <2>3. ChainInv
    BY InitHistory
  <2>4. CommittedLog = <<>>
    <3>1. CommittedLog \in Seq(Committed) /\ Len(CommittedLog) = 0
      BY <2>2, <2>3, LogIs DEF LogInOrder
    <3> QED
      BY <3>1, EmptySeq
  <2> QED
    BY <2>4 DEF Init, History!HistoryInit, SequenceOf
<1>2. ASSUME ChainInv, ChainInv', [Next]_vars
      PROVE  [History!HistoryNext]_(History!hvars)
  <2>1. ASSUME NEW p \in Procs, Start(p) \/ OperationStep(p) \/ RecoveryStep(p) \/ Fail(p)
        PROVE  [History!HistoryNext]_(History!hvars)
    BY <1>2, <2>1, OperationRefines, RecoveryRefines, OthersRefine
  <2>2. CASE UNCHANGED vars
    <3>1. UNCHANGED <<trees, receipts, head, projectHead>>
      BY <2>2 DEF vars, durable
    <3> QED
      BY <1>2, <3>1, SameRecords, HistoryStutter
  <2> QED
    BY <1>2, <2>1, <2>2 DEF Next
<1> QED
  BY <1>1, <1>2, HistoryInvariant, PTL DEF Spec, History!HistorySpec
=============================================================================
