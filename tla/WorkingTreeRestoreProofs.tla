---------------------- MODULE WorkingTreeRestoreProofs ----------------------
(***************************************************************************)
(* Proofs about WorkingTreeRestore, for every set of paths and contents    *)
(* and every number of interruptions: recovery never meets an intent it    *)
(* would turn down, a restore without consent replaces no unrecorded edit, *)
(* and restore implements AtomicRestore.                                   *)
(***************************************************************************)
EXTENDS WorkingTreeRestore, SequenceTheorems, TLAPS

Plans ==
    [kind : {"tree", "node"}, goal : PartialTree, force : BOOLEAN,
     conflicts : SUBSET Paths, before : TreeMap, base : TreeMap]

Intents ==
    [committed : 0..Len(trees), target : TreeMap, deletes : SUBSET Paths, writes : PartialTree]

\* A tree reference speaks of all paths, a node reference of one, where it puts a file.
Referring ==
    \/ plan.kind = "tree" /\ DOMAIN plan.goal = Paths
    \/ plan.kind = "node" /\ \E p \in Paths : DOMAIN plan.goal = {p} /\ plan.goal[p] # NoFile

PlanInv ==
    /\ plan = NoPlan \/ plan \in Plans
    /\ pc \in {"stage", "commit"} => plan \in Plans /\ Referring /\ plan.base = HeadTree
    /\ intent.committed # 0 => plan \in Plans

\* The intent is staged, and its receipt is not there or it is.
Staged == pc = "commit" \/ intent.committed # 0

IntentInv ==
    /\ intent = NoIntent \/ intent \in Intents
    /\ Staged => intent \in Intents
    /\ pc = "stage" => intent = NoIntent
    /\ pc = "commit" => intent.committed = 0
    /\ pc \in {"delete", "write", "fill", "heads", "clear"} => intent.committed # 0
    /\ IntentMatchesTree(intent, intent.target)
    /\ intent.committed # 0 => trees[intent.committed] = intent.target
    /\ \A p \in DOMAIN intent.writes : intent.writes[p] # NoFile

\* What the loops have done and what they have left.
LoopInv ==
    /\ pc = "delete" => left \subseteq intent.deletes
    /\ pc \in {"write", "fill"} => left \cup opened \subseteq DOMAIN intent.writes
    /\ pc # "fill" => opened = {}
    /\ pc = "clear" => head = intent.committed

\* Without edits in between, the second scan finds what the first one found ...
ScanInv ==
    /\ pc \in {"stage", "commit"} =>
          /\ plan.conflicts = Conflicts(plan.kind, plan.goal)
          /\ plan.conflicts = {} \/ plan.force
    /\ pc = "commit" =>
          /\ intent.target = TargetTree
          /\ intent.deletes = DeletePaths
          /\ intent.writes = [p \in WritePaths |-> plan.goal[p]]

\* ... and the files change by the loops only.
FilesInv ==
    /\ Staged /\ ~plan.force =>
          /\ \A p \in intent.deletes : work[p] \in {plan.base[p], NoFile}
          /\ \A p \in DOMAIN intent.writes : work[p] \in {plan.base[p], Torn, intent.writes[p]}
    /\ pc = "delete" => \A p \in intent.deletes \ left : work[p] = NoFile
    /\ pc \in {"write", "fill", "heads", "clear"} => \A p \in intent.deletes : work[p] = NoFile
    /\ pc \in {"write", "fill"} =>
          \A p \in DOMAIN intent.writes \ (left \cup opened) : work[p] = intent.writes[p]
    /\ pc \in {"heads", "clear"} => \A p \in DOMAIN intent.writes : work[p] = intent.writes[p]
    /\ pc = "fill" => \A p \in opened : work[p] = Torn

StateInv ==
    /\ work \in TreeMap /\ trees \in Seq(TreeMap) /\ head \in 1..Len(trees)
    /\ pc \in Steps
    /\ left \subseteq Paths /\ opened \subseteq Paths
    /\ interrupts \in 0..MaxInterrupts
    /\ hazards \subseteq Hazards

RestoreInv ==
    /\ StateInv
    /\ PlanInv /\ IntentInv /\ LoopInv
    /\ hazards = {} => ScanInv /\ FilesInv

-----------------------------------------------------------------------------
(* Types. *)

LEMMA PartialTreeIs ==
    ASSUME NEW f \in PartialTree
    PROVE  DOMAIN f \subseteq Paths /\ f \in [DOMAIN f -> FileStates]
BY DEF PartialTree

LEMMA PartialTreeMade ==
    ASSUME NEW S \in SUBSET Paths, NEW f \in [S -> FileStates]
    PROVE  f \in PartialTree /\ DOMAIN f = S
BY DEF PartialTree

LEMMA TreesType ==
    ASSUME StateInv
    PROVE  /\ Len(trees) \in Nat /\ HeadTree \in TreeMap
           /\ \A k \in 1..Len(trees) : trees[k] \in TreeMap
BY DEF StateInv, HeadTree

LEMMA NoIntentIs ==
    /\ NoIntent.committed = 0
    /\ DOMAIN NoIntent.writes = {} /\ NoIntent.deletes = {}
    /\ \A tree : IntentMatchesTree(NoIntent, tree)
<1>1. NoIntent.committed = 0 /\ NoIntent.writes = <<>> /\ NoIntent.deletes = {}
  BY DEF NoIntent
<1>2. DOMAIN NoIntent.writes = {}
  BY <1>1
<1> QED
  BY <1>1, <1>2 DEF IntentMatchesTree

LEMMA TypeFollows ==
    ASSUME RestoreInv
    PROVE  TypeOK
<1>1. /\ work \in TreeMap /\ head \in 1..Len(trees) /\ pc \in Steps
      /\ left \subseteq Paths /\ opened \subseteq Paths
      /\ interrupts \in 0..MaxInterrupts /\ hazards \subseteq Hazards
      /\ \A k \in 1..Len(trees) : trees[k] \in TreeMap
  BY DEF RestoreInv, StateInv
<1>2. plan # NoPlan =>
          /\ plan.kind \in {"tree", "node"}
          /\ plan.goal \in PartialTree
          /\ plan.force \in BOOLEAN
          /\ plan.conflicts \subseteq Paths
          /\ plan.before \in TreeMap /\ plan.base \in TreeMap
  BY DEF RestoreInv, PlanInv, Plans
<1>3. Pending =>
          /\ intent.committed \in 0..Len(trees)
          /\ intent.target \in TreeMap
          /\ intent.deletes \subseteq Paths
          /\ intent.writes \in PartialTree
  BY DEF RestoreInv, IntentInv, Intents, Pending
<1> QED
  BY <1>1, <1>2, <1>3 DEF TypeOK

\* What a path's classification says of its contents.
LEMMA Effects ==
    ASSUME NEW base, NEW goal
    PROVE  /\ Effect(base, goal) = "remove" <=> goal = NoFile /\ base # NoFile
           /\ Effect(base, goal) \in {"create", "update"} <=> goal # NoFile /\ goal # base
BY DEF Effect

LEMMA ConflictsAre ==
    ASSUME NEW base, NEW goal, NEW found
    PROVE  /\ Conflict("tree", base, goal, found) <=>
                 /\ goal # base
                 /\ found # base
                 /\ base = NoFile => found \notin {goal, NoFile}
                 /\ goal = NoFile => found # NoFile
           /\ Conflict("node", base, goal, found) <=> found \notin {base, goal}
BY DEF Effect, Conflict, TreeConflict, NodeConflict

-----------------------------------------------------------------------------
(* Between operations. *)

LEMMA UserEditKeeps ==
    ASSUME RestoreInv, UserEdit
    PROVE  RestoreInv'
<1>1. UNCHANGED <<trees, head, plan, intent, pc, left, opened, interrupts, hazards>> /\ work' \in TreeMap
  BY DEF UserEdit, RestoreInv, StateInv, TreeMap, FileStates
<1>2. StateInv' /\ PlanInv' /\ IntentInv' /\ LoopInv'
  BY <1>1 DEF RestoreInv, StateInv, PlanInv, Plans, Referring, HeadTree, IntentInv, Intents, Staged, LoopInv,
              IntentMatchesTree, TreeMap
<1>3. hazards' = {} => pc = "idle" /\ intent.committed = 0
  BY <1>1, NoIntentIs DEF UserEdit, UserMayEdit, Pending
<1>4. hazards' = {} => ScanInv' /\ FilesInv'
  BY <1>1, <1>3 DEF ScanInv, FilesInv, Staged
<1> QED
  BY <1>2, <1>4 DEF RestoreInv

LEMMA SyncKeeps ==
    ASSUME RestoreInv, Sync
    PROVE  RestoreInv'
<1>1. /\ pc = "idle" /\ intent = NoIntent
      /\ trees' = Append(trees, work) /\ head' = Len(trees) + 1
      /\ UNCHANGED <<work, plan, intent, pc, left, opened, interrupts, hazards>>
  BY DEF Sync, Pending
<1>2. trees' \in Seq(TreeMap) /\ Len(trees') = Len(trees) + 1 /\ Len(trees) \in Nat
  BY <1>1, AppendProperties DEF RestoreInv, StateInv
<1>3. StateInv'
  BY <1>1, <1>2 DEF RestoreInv, StateInv, TreeMap
<1>4. PlanInv' /\ IntentInv' /\ LoopInv'
  BY <1>1, NoIntentIs DEF RestoreInv, PlanInv, Plans, IntentInv, Staged, LoopInv, TreeMap, IntentMatchesTree
<1>5. ScanInv' /\ FilesInv'
  BY <1>1, NoIntentIs DEF ScanInv, FilesInv, Staged
<1> QED
  BY <1>3, <1>4, <1>5 DEF RestoreInv

LEMMA PlanRestoreKeeps ==
    ASSUME RestoreInv, NEW kind, NEW goal \in PartialTree, NEW force \in BOOLEAN, PlanRestore(kind, goal, force),
           \/ kind = "tree" /\ DOMAIN goal = Paths
           \/ kind = "node" /\ \E p \in Paths : DOMAIN goal = {p} /\ goal[p] # NoFile
    PROVE  RestoreInv'
<1>1. /\ pc = "idle" /\ intent = NoIntent /\ pc' = "stage"
      /\ Conflicts(kind, goal) = {} \/ force
      /\ UNCHANGED <<work, trees, head, intent, left, opened, interrupts, hazards>>
  BY DEF PlanRestore, Pending
<1>2. plan' = [kind |-> kind, goal |-> goal, force |-> force,
               conflicts |-> Conflicts(kind, goal), before |-> work, base |-> HeadTree]
  BY DEF PlanRestore
<1>3. Conflicts(kind, goal) \subseteq Paths
  BY PartialTreeIs DEF Conflicts
<1>4. plan' \in Plans /\ Referring' /\ plan'.base = HeadTree
  BY <1>2, <1>3, TreesType DEF Plans, Referring, RestoreInv, StateInv
<1>5. StateInv'
  BY <1>1 DEF RestoreInv, StateInv, TreeMap, Steps
<1>6. PlanInv' /\ IntentInv' /\ LoopInv'
  BY <1>1, <1>4, NoIntentIs DEF RestoreInv, PlanInv, Plans, HeadTree, IntentInv, Staged, LoopInv, IntentMatchesTree, TreeMap
<1>7. ScanInv' /\ FilesInv'
  <2>1. Conflicts(kind, goal)' = Conflicts(kind, goal)
    BY <1>1 DEF Conflicts, HeadTree
  <2>2. plan'.conflicts = Conflicts(plan.kind, plan.goal)' /\ (plan'.conflicts = {} \/ plan'.force)
    BY <1>1, <1>2, <2>1 DEF Conflicts, HeadTree
  <2> QED
    BY <1>1, <2>2, NoIntentIs DEF ScanInv, FilesInv, Staged
<1> QED
  BY <1>5, <1>6, <1>7 DEF RestoreInv

LEMMA RestoresKeep ==
    ASSUME RestoreInv, RestoreTree \/ RestoreNode
    PROVE  RestoreInv'
<1>1. ASSUME NEW k \in 1..Len(trees), NEW force \in BOOLEAN, PlanRestore("tree", trees[k], force)
      PROVE  RestoreInv'
  <2>1. trees[k] \in TreeMap
    BY TreesType DEF RestoreInv
  <2>2. trees[k] \in PartialTree /\ DOMAIN trees[k] = Paths
    BY <2>1, PartialTreeMade DEF TreeMap
  <2> QED
    BY <1>1, <2>2, PlanRestoreKeeps
<1>2. ASSUME NEW k \in 1..Len(trees), NEW p \in Paths, NEW q \in Paths, NEW force \in BOOLEAN,
             trees[k][q] # NoFile, PlanRestore("node", [x \in {p} |-> trees[k][q]], force)
      PROVE  RestoreInv'
  <2> DEFINE goal == [x \in {p} |-> trees[k][q]]
  <2>1. trees[k] \in TreeMap
    BY TreesType DEF RestoreInv
  <2>2. goal \in [{p} -> FileStates]
    BY <2>1 DEF TreeMap
  <2>3. goal \in PartialTree /\ DOMAIN goal = {p} /\ goal[p] # NoFile
    BY <1>2, <2>2, PartialTreeMade
  <2> QED
    BY <1>2, <2>3, PlanRestoreKeeps
<1> QED
  BY <1>1, <1>2 DEF RestoreTree, RestoreNode

-----------------------------------------------------------------------------
(* A restore up to its receipt. *)

\* What the second scan makes of a plan.
LEMMA SecondScan ==
    ASSUME RestoreInv, plan \in Plans, Referring
    PROVE  /\ TargetTree \in TreeMap
           /\ DeletePaths \subseteq DOMAIN plan.goal /\ WritePaths \subseteq DOMAIN plan.goal
           /\ DOMAIN plan.goal \subseteq Paths
           /\ \A p \in DOMAIN plan.goal : TargetTree[p] = plan.goal[p] /\ plan.goal[p] \in FileStates
           /\ \A p \in DeletePaths : plan.goal[p] = NoFile
           /\ \A p \in WritePaths : plan.goal[p] # NoFile
<1>1. /\ DOMAIN plan.goal \subseteq Paths
      /\ \A p \in DOMAIN plan.goal : plan.goal[p] \in FileStates
      /\ plan.goal \in [DOMAIN plan.goal -> FileStates]
      /\ work \in TreeMap
  BY PartialTreeIs DEF Plans, RestoreInv, StateInv
<1>2. TargetTree \in TreeMap /\ \A p \in DOMAIN plan.goal : TargetTree[p] = plan.goal[p]
  <2>1. CASE plan.kind = "tree"
    BY <1>1, <2>1 DEF TargetTree, Referring, TreeMap
  <2>2. CASE plan.kind = "node"
    BY <1>1, <2>2 DEF TargetTree, TreeMap
  <2> QED
    BY <2>1, <2>2 DEF Referring
<1>3. DeletePaths \subseteq DOMAIN plan.goal /\ \A p \in DeletePaths : plan.goal[p] = NoFile
  <2>1. \A p \in DeletePaths : p \in DOMAIN plan.goal /\ Effect(HeadTree[p], plan.goal[p]) = "remove"
    BY DEF DeletePaths
  <2> QED
    BY <2>1, Effects
<1>4. WritePaths \subseteq DOMAIN plan.goal /\ \A p \in WritePaths : plan.goal[p] # NoFile
  BY Effects DEF WritePaths, Referring
<1> QED
  BY <1>1, <1>2, <1>3, <1>4

\* Without a conflict and without consent, the paths hold what HEAD recorded, or nothing.
LEMMA NothingToLose ==
    ASSUME RestoreInv, plan \in Plans, Referring, plan.base = HeadTree,
           plan.conflicts = Conflicts(plan.kind, plan.goal), plan.conflicts = {}
    PROVE  /\ \A p \in DeletePaths : work[p] \in {plan.base[p], NoFile}
           /\ \A p \in WritePaths : work[p] = plan.base[p]
<1>1. \A p \in DOMAIN plan.goal : ~ Conflict(plan.kind, plan.base[p], plan.goal[p], work[p])
  BY DEF Conflicts
<1>2. plan.kind \in {"tree", "node"}
  BY DEF Plans
<1> QED
  BY <1>1, <1>2, Effects, ConflictsAre DEF DeletePaths, WritePaths

LEMMA StageKeeps ==
    ASSUME RestoreInv, StageIntent
    PROVE  RestoreInv'
<1>1. /\ pc = "stage" /\ pc' = "commit"
      /\ UNCHANGED <<work, trees, head, plan, left, opened, interrupts, hazards>>
      /\ plan \in Plans /\ Referring /\ plan.base = HeadTree
  BY DEF StageIntent, RestoreInv, PlanInv
<1>2. intent' = [committed |-> 0, target |-> TargetTree, deletes |-> DeletePaths,
                 writes |-> [p \in WritePaths |-> plan.goal[p]]]
  BY DEF StageIntent
<1>3. /\ TargetTree \in TreeMap
      /\ DeletePaths \subseteq DOMAIN plan.goal /\ WritePaths \subseteq DOMAIN plan.goal
      /\ DOMAIN plan.goal \subseteq Paths
      /\ \A p \in DOMAIN plan.goal : TargetTree[p] = plan.goal[p] /\ plan.goal[p] \in FileStates
      /\ \A p \in DeletePaths : plan.goal[p] = NoFile
      /\ \A p \in WritePaths : plan.goal[p] # NoFile
  BY <1>1, SecondScan
<1>4. [p \in WritePaths |-> plan.goal[p]] \in PartialTree
  <2>1. [p \in WritePaths |-> plan.goal[p]] \in [WritePaths -> FileStates]
    BY <1>3
  <2> QED
    BY <1>3, <2>1, PartialTreeMade
<1>5. intent' \in Intents'
  BY <1>1, <1>2, <1>3, <1>4, TreesType DEF Intents, TreeMap, RestoreInv, FileStates, PartialTree
<1>6. IntentMatchesTree(intent, intent.target)' /\ \A p \in DOMAIN intent'.writes : intent'.writes[p] # NoFile
  BY <1>2, <1>3 DEF IntentMatchesTree
<1>7. StateInv' /\ PlanInv' /\ IntentInv' /\ LoopInv'
  BY <1>1, <1>2, <1>5, <1>6 DEF RestoreInv, StateInv, TreeMap, Steps, PlanInv, Plans, Referring, HeadTree,
       IntentInv, Staged, LoopInv
<1>8. ASSUME hazards' = {}
      PROVE  ScanInv' /\ FilesInv'
  <2>1. plan.conflicts = Conflicts(plan.kind, plan.goal) /\ (plan.conflicts = {} \/ plan.force)
    BY <1>1, <1>8 DEF RestoreInv, ScanInv
  <2>2. Conflicts(plan.kind, plan.goal)' = Conflicts(plan.kind, plan.goal)
    BY <1>1 DEF Conflicts, HeadTree
  <2>3. TargetTree' = TargetTree /\ DeletePaths' = DeletePaths /\ WritePaths' = WritePaths
    BY <1>1 DEF TargetTree, DeletePaths, WritePaths, HeadTree
  <2>4. ScanInv'
    BY <1>1, <1>2, <2>1, <2>2, <2>3 DEF ScanInv
  <2>5. FilesInv'
    BY <1>1, <1>2, <2>1, NothingToLose DEF FilesInv, Staged
  <2> QED
    BY <2>4, <2>5
<1> QED
  BY <1>7, <1>8 DEF RestoreInv

LEMMA CommitKeeps ==
    ASSUME RestoreInv, CommitRestore
    PROVE  RestoreInv'
<1>1. /\ pc = "commit" /\ pc' = "delete" /\ trees' = Append(trees, intent.target)
      /\ intent' = [intent EXCEPT !.committed = Len(trees) + 1] /\ left' = intent.deletes
      /\ UNCHANGED <<work, head, plan, opened, interrupts, hazards>>
      /\ intent \in Intents /\ intent.committed = 0 /\ plan \in Plans
  BY DEF CommitRestore, RestoreInv, IntentInv, PlanInv, Staged
<1>2. /\ intent.target \in TreeMap /\ trees \in Seq(TreeMap)
      /\ intent.deletes \subseteq Paths
  BY <1>1 DEF Intents, RestoreInv, StateInv
<1>3. /\ trees' \in Seq(TreeMap) /\ Len(trees') = Len(trees) + 1 /\ Len(trees) \in Nat
      /\ trees'[Len(trees) + 1] = intent.target
  BY <1>1, <1>2, AppendProperties
<1>4. /\ intent' \in Intents' /\ intent'.committed = Len(trees) + 1
      /\ intent'.target = intent.target /\ intent'.deletes = intent.deletes /\ intent'.writes = intent.writes
  BY <1>1, <1>3 DEF Intents
<1>5. StateInv'
  BY <1>1, <1>2, <1>3 DEF RestoreInv, StateInv, TreeMap, Steps
<1>6. PlanInv'
  BY <1>1 DEF PlanInv, Plans
<1>7. IntentInv'
  <2>1. IntentMatchesTree(intent, intent.target)'
    BY <1>4 DEF RestoreInv, IntentInv, IntentMatchesTree
  <2> QED
    BY <1>1, <1>3, <1>4, <2>1 DEF RestoreInv, IntentInv, Staged
<1>8. LoopInv'
  BY <1>1 DEF RestoreInv, LoopInv
<1>9. hazards' = {} => ScanInv' /\ FilesInv'
  BY <1>1, <1>4 DEF RestoreInv, ScanInv, FilesInv, Staged
<1> QED
  BY <1>5, <1>6, <1>7, <1>8, <1>9 DEF RestoreInv

\* The operation ends before its commit, or by an interruption.
LEMMA StopKeeps ==
    ASSUME RestoreInv, RefuseSources \/ Interrupt
    PROVE  RestoreInv'
<1>1. /\ pc' = "idle" /\ left' \subseteq left /\ opened' \subseteq opened /\ interrupts' \in 0..MaxInterrupts
      /\ UNCHANGED <<work, trees, head, plan, intent, hazards>>
      /\ opened' = {}
  BY BoundsAssumption DEF RefuseSources, Interrupt, RestoreInv, StateInv, LoopInv
<1>2. StateInv' /\ PlanInv' /\ LoopInv'
  BY <1>1 DEF RestoreInv, StateInv, TreeMap, Steps, PlanInv, Plans, LoopInv
<1>3. IntentInv'
  BY <1>1 DEF RestoreInv, IntentInv, Intents, Staged, IntentMatchesTree, TreeMap, PartialTree
<1>4. hazards' = {} => ScanInv' /\ FilesInv'
  BY <1>1 DEF RestoreInv, ScanInv, FilesInv, Staged
<1> QED
  BY <1>2, <1>3, <1>4 DEF RestoreInv

-----------------------------------------------------------------------------
(* After the receipt. *)

\* A loop is under way or about to begin.
LEMMA AfterReceipt ==
    ASSUME RestoreInv, intent.committed # 0
    PROVE  /\ intent \in Intents /\ plan \in Plans /\ pc \notin {"stage", "commit"}
           /\ intent.deletes \subseteq Paths /\ DOMAIN intent.writes \subseteq Paths
           /\ intent.committed \in 1..Len(trees)
           /\ \A p \in DOMAIN intent.writes : intent.writes[p] \in FileStates \ {NoFile} /\ p \notin intent.deletes
<1>1. /\ intent \in Intents /\ plan \in Plans /\ pc \notin {"stage", "commit"}
      /\ IntentMatchesTree(intent, intent.target)
      /\ \A p \in DOMAIN intent.writes : intent.writes[p] # NoFile
  BY NoIntentIs DEF RestoreInv, IntentInv, PlanInv, Staged
<1>2. DOMAIN intent.writes \subseteq Paths /\ \A p \in DOMAIN intent.writes : intent.writes[p] \in FileStates
  BY <1>1, PartialTreeIs DEF Intents
<1>3. intent.committed \in 1..Len(trees) /\ intent.deletes \subseteq Paths
  BY <1>1, TreesType DEF Intents, RestoreInv
<1> QED
  BY <1>1, <1>2, <1>3 DEF IntentMatchesTree

\* A step of a loop leaves plan, intent and history alone.
LEMMA LoopStepKeeps ==
    ASSUME RestoreInv, intent.committed # 0, work' \in TreeMap, pc' \in {"delete", "write", "fill", "heads"},
           left' \subseteq Paths, opened' \subseteq Paths,
           UNCHANGED <<trees, head, plan, intent, interrupts, hazards>>,
           LoopInv', hazards' = {} => FilesInv'
    PROVE  RestoreInv'
<1>1. StateInv' /\ PlanInv'
  BY DEF RestoreInv, StateInv, TreeMap, Steps, PlanInv, Plans
<1>2. IntentInv'
  BY DEF RestoreInv, IntentInv, Intents, Staged, IntentMatchesTree, TreeMap, PartialTree
<1>3. ScanInv'
  BY DEF ScanInv
<1> QED
  BY <1>1, <1>2, <1>3 DEF RestoreInv

LEMMA DeletePathKeeps ==
    ASSUME RestoreInv, DeletePath
    PROVE  RestoreInv'
<1>1. PICK p \in left : work' = [work EXCEPT ![p] = NoFile] /\ left' = left \ {p}
  BY DEF DeletePath
<1>2. /\ pc = "delete" /\ intent.committed # 0 /\ opened = {}
      /\ UNCHANGED <<trees, head, plan, intent, pc, opened, interrupts, hazards>>
      /\ left \subseteq intent.deletes /\ left \subseteq Paths /\ work \in TreeMap
  BY DEF DeletePath, RestoreInv, IntentInv, LoopInv, StateInv
<1>3. /\ work' \in TreeMap /\ left' \subseteq left /\ left' \subseteq intent.deletes
      /\ \A q \in Paths : work'[q] = IF q = p THEN NoFile ELSE work[q]
  BY <1>1, <1>2 DEF TreeMap, FileStates
<1>4. hazards' = {} => FilesInv'
  BY <1>1, <1>2, <1>3, AfterReceipt DEF RestoreInv, FilesInv, Staged
<1>5. LoopInv'
  BY <1>2, <1>3 DEF LoopInv
<1> QED
  BY <1>2, <1>3, <1>4, <1>5, LoopStepKeeps

LEMMA StartWritesKeeps ==
    ASSUME RestoreInv, StartWrites \/ EndWrites
    PROVE  RestoreInv'
<1>1. /\ intent.committed # 0 /\ left = {} /\ opened = {}
      /\ UNCHANGED <<work, trees, head, plan, intent, opened, interrupts, hazards>>
      /\ \/ pc = "delete" /\ pc' = "write" /\ left' = DOMAIN intent.writes
         \/ pc = "write" /\ pc' = "heads" /\ left' = left
  BY DEF StartWrites, EndWrites, RestoreInv, IntentInv, LoopInv
<1>2. LoopInv' /\ left' \subseteq Paths /\ opened' \subseteq Paths /\ work' \in TreeMap
  BY <1>1, AfterReceipt DEF LoopInv, RestoreInv, StateInv, TreeMap
<1>3. hazards' = {} => FilesInv'
  BY <1>1, AfterReceipt DEF RestoreInv, FilesInv, Staged
<1> QED
  BY <1>1, <1>2, <1>3, LoopStepKeeps

LEMMA OpenFileKeeps ==
    ASSUME RestoreInv, OpenFile
    PROVE  RestoreInv'
<1>1. PICK p \in left : work' = [work EXCEPT ![p] = Torn] /\ left' = left \ {p} /\ opened' = {p}
  BY DEF OpenFile
<1>2. /\ pc = "write" /\ pc' = "fill" /\ intent.committed # 0 /\ opened = {}
      /\ UNCHANGED <<trees, head, plan, intent, interrupts, hazards>>
      /\ left \subseteq DOMAIN intent.writes /\ left \subseteq Paths /\ work \in TreeMap
  BY DEF OpenFile, RestoreInv, IntentInv, LoopInv, StateInv
<1>3. /\ work' \in TreeMap /\ left' \cup opened' \subseteq DOMAIN intent.writes
      /\ \A q \in Paths : work'[q] = IF q = p THEN Torn ELSE work[q]
  BY <1>1, <1>2 DEF TreeMap, FileStates
<1>4. hazards' = {} => FilesInv'
  BY <1>1, <1>2, <1>3, AfterReceipt DEF RestoreInv, FilesInv, Staged
<1>5. LoopInv' /\ left' \subseteq Paths /\ opened' \subseteq Paths
  BY <1>1, <1>2, <1>3 DEF LoopInv
<1> QED
  BY <1>2, <1>3, <1>4, <1>5, LoopStepKeeps

LEMMA FillFileKeeps ==
    ASSUME RestoreInv, FillFile
    PROVE  RestoreInv'
<1>1. /\ pc = "fill" /\ pc' = "write" /\ intent.committed # 0 /\ opened' = {}
      /\ UNCHANGED <<trees, head, plan, intent, left, interrupts, hazards>>
      /\ left \cup opened \subseteq DOMAIN intent.writes /\ left \subseteq Paths /\ work \in TreeMap
      /\ work' = [p \in Paths |-> IF p \in opened THEN intent.writes[p] ELSE work[p]]
  BY DEF FillFile, RestoreInv, IntentInv, LoopInv, StateInv
<1>2. /\ work' \in TreeMap
      /\ \A q \in Paths : work'[q] = IF q \in opened THEN intent.writes[q] ELSE work[q]
  BY <1>1, AfterReceipt DEF TreeMap
<1>3. hazards' = {} => FilesInv'
  BY <1>1, <1>2, AfterReceipt DEF RestoreInv, FilesInv, Staged
<1>4. LoopInv' /\ opened' \subseteq Paths
  BY <1>1 DEF LoopInv
<1> QED
  BY <1>1, <1>2, <1>3, <1>4, LoopStepKeeps

LEMMA WriteHeadsKeeps ==
    ASSUME RestoreInv, WriteHeads
    PROVE  RestoreInv'
<1>1. /\ pc = "heads" /\ head' = intent.committed /\ pc' = "clear" /\ intent.committed # 0
      /\ UNCHANGED <<work, trees, plan, intent, left, opened, interrupts, hazards>>
  BY DEF WriteHeads, RestoreInv, IntentInv
<1>2. head' \in 1..Len(trees)
  BY <1>1, AfterReceipt
<1>3. StateInv' /\ PlanInv' /\ LoopInv'
  BY <1>1, <1>2 DEF RestoreInv, StateInv, TreeMap, Steps, PlanInv, Plans, LoopInv
<1>4. IntentInv'
  BY <1>1 DEF RestoreInv, IntentInv, Intents, Staged, IntentMatchesTree, TreeMap, PartialTree
<1>5. hazards' = {} => ScanInv' /\ FilesInv'
  BY <1>1 DEF RestoreInv, ScanInv, FilesInv, Staged
<1> QED
  BY <1>3, <1>4, <1>5 DEF RestoreInv

\* The intent is removed: the restore is done, or recovery found no receipt.
LEMMA IntentGoneKeeps ==
    ASSUME RestoreInv, intent' = NoIntent, plan' = NoPlan, pc' = "idle", opened = {},
           UNCHANGED <<work, trees, head, left, opened, interrupts, hazards>>
    PROVE  RestoreInv'
<1>1. StateInv' /\ PlanInv' /\ LoopInv'
  BY NoIntentIs DEF RestoreInv, StateInv, TreeMap, Steps, PlanInv, LoopInv
<1>2. IntentInv'
  BY NoIntentIs DEF IntentInv, Staged, IntentMatchesTree
<1>3. ScanInv' /\ FilesInv'
  BY NoIntentIs DEF ScanInv, FilesInv, Staged
<1> QED
  BY <1>1, <1>2, <1>3 DEF RestoreInv

LEMMA RecoverKeeps ==
    ASSUME RestoreInv, Recover
    PROVE  RestoreInv'
<1>1. pc = "idle" /\ opened = {} /\ UNCHANGED <<work, trees, head, opened, interrupts, hazards>>
  BY DEF Recover, RestoreInv, LoopInv
<1>2. CASE intent' = NoIntent /\ plan' = NoPlan /\ UNCHANGED <<pc, left>>
  BY <1>1, <1>2, IntentGoneKeeps
<1>3. CASE intent.committed # 0 /\ pc' = "delete" /\ left' = intent.deletes /\ UNCHANGED <<intent, plan>>
  <2>1. LoopInv' /\ left' \subseteq Paths /\ opened' \subseteq Paths /\ work' \in TreeMap
    BY <1>1, <1>3, AfterReceipt DEF LoopInv, RestoreInv, StateInv, TreeMap
  <2>2. hazards' = {} => FilesInv'
    BY <1>1, <1>3 DEF RestoreInv, FilesInv, Staged
  <2> QED
    BY <1>1, <1>3, <2>1, <2>2, LoopStepKeeps
<1> QED
  BY <1>2, <1>3 DEF Recover

-----------------------------------------------------------------------------
(* The theorems. *)

LEMMA RestoreInit ==
    ASSUME Init
    PROVE  RestoreInv
<1>1. work \in TreeMap /\ trees = <<work>> /\ Len(trees) = 1 /\ trees \in Seq(TreeMap)
  BY DEF Init, TreeMap, FileStates
<1>2. StateInv
  BY <1>1, BoundsAssumption DEF Init, StateInv, Steps
<1>3. PlanInv /\ IntentInv /\ LoopInv
  BY NoIntentIs DEF Init, PlanInv, IntentInv, Staged, LoopInv
<1>4. ScanInv /\ FilesInv
  BY NoIntentIs DEF Init, ScanInv, FilesInv, Staged
<1> QED
  BY <1>2, <1>3, <1>4 DEF RestoreInv

LEMMA RestoreStep ==
    ASSUME RestoreInv, [Next]_vars
    PROVE  RestoreInv'
<1>1. CASE User
  BY <1>1, UserEditKeeps, SyncKeeps, RestoresKeep DEF User
<1>2. CASE InstallStep
  BY <1>2, DeletePathKeeps, StartWritesKeeps, OpenFileKeeps, FillFileKeeps DEF InstallStep
<1>3. CASE StageIntent \/ CommitRestore \/ RefuseSources \/ WriteHeads
  BY <1>3, StageKeeps, CommitKeeps, StopKeeps, WriteHeadsKeeps
<1>4. CASE ClearIntent
  BY <1>4, IntentGoneKeeps DEF ClearIntent, RestoreInv, LoopInv
<1>5. CASE Recover \/ Interrupt
  BY <1>5, RecoverKeeps, StopKeeps
<1>6. CASE UNCHANGED vars
  <2>1. UNCHANGED <<work, trees, head, plan, intent, pc, left, opened, interrupts, hazards>>
    BY <1>6 DEF vars
  <2>2. StateInv' /\ PlanInv' /\ LoopInv'
    BY <2>1 DEF RestoreInv, StateInv, TreeMap, Steps, PlanInv, Plans, LoopInv, Referring, HeadTree
  <2>3. IntentInv'
    BY <2>1 DEF RestoreInv, IntentInv, Intents, Staged, IntentMatchesTree, TreeMap, PartialTree
  <2>4. hazards' = {} => ScanInv' /\ FilesInv'
    BY <2>1 DEF RestoreInv, ScanInv, FilesInv, Staged, Conflicts, HeadTree, TargetTree, DeletePaths, WritePaths
  <2> QED
    BY <2>2, <2>3, <2>4 DEF RestoreInv
<1> QED
  BY <1>1, <1>2, <1>3, <1>4, <1>5, <1>6 DEF Next, Runtime

\* The inductive invariant of a restore: what the plan, the intent, the loops and the
\* files of the user say of each other, whenever restore or recovery is interrupted.
THEOREM RestoreInvariant == Spec => []RestoreInv
<1>1. RestoreInv /\ [Next]_vars => RestoreInv'
  BY RestoreStep
<1> QED
  BY <1>1, RestoreInit, PTL DEF Spec

\* The state of restore and recovery keeps its type.
THEOREM RestoreTypeCorrect == Spec => []TypeOK
<1>1. RestoreInv => TypeOK
  BY TypeFollows
<1> QED
  BY <1>1, RestoreInvariant, PTL

\* Whatever the user edits between the two scans, the intent agrees with the tree
\* its receipt commits: recoverRestoreIntent never turns down what restore wrote.
THEOREM IntentAlwaysAgrees == Spec => []IntentAgrees
<1>1. RestoreInv => IntentAgrees
  BY DEF RestoreInv, IntentInv, IntentAgrees
<1> QED
  BY <1>1, RestoreInvariant, PTL

\* Without consent, and without edits while it is under way, restore and its recovery
\* replace or delete only files that hold what HEAD recorded or what they wrote there.
THEOREM DriftAlwaysKept == Spec => DriftKept
<1>1. ASSUME RestoreInv, hazards = {}, InstallStep, ~plan.force, NEW p \in Paths, work'[p] # work[p]
      PROVE  work[p] \in {plan.base[p], Torn} \/ (p \in DOMAIN intent.writes /\ work[p] = intent.writes[p])
  <2>1. FilesInv /\ work \in TreeMap
    BY <1>1 DEF RestoreInv, StateInv
  <2>2. CASE DeletePath
    <3>1. p \in left /\ work'[p] = NoFile
      BY <1>1, <2>1, <2>2 DEF DeletePath, TreeMap
    <3>2. Staged /\ p \in intent.deletes
      BY <1>1, <2>2, <3>1 DEF DeletePath, RestoreInv, LoopInv, IntentInv, Staged
    <3> QED
      BY <1>1, <2>1, <3>1, <3>2 DEF FilesInv
  <2>3. CASE OpenFile
    <3>1. p \in left
      BY <1>1, <2>1, <2>3 DEF OpenFile, TreeMap
    <3>2. Staged /\ p \in DOMAIN intent.writes
      BY <1>1, <2>3, <3>1 DEF OpenFile, RestoreInv, LoopInv, IntentInv, Staged
    <3> QED
      BY <1>1, <2>1, <3>2 DEF FilesInv
  <2>4. CASE FillFile
    <3>1. p \in opened /\ pc = "fill"
      BY <1>1, <2>1, <2>4 DEF FillFile, TreeMap
    <3> QED
      BY <2>1, <3>1 DEF FilesInv
  <2>5. CASE StartWrites \/ EndWrites
    BY <1>1, <2>5 DEF StartWrites, EndWrites
  <2> QED
    BY <1>1, <2>2, <2>3, <2>4, <2>5 DEF InstallStep
<1>2. RestoreInv /\ [Next]_vars => (hazards = {} => Kept)
  BY <1>1 DEF Kept
<1> QED
  BY <1>2, RestoreInvariant, PTL DEF Spec, DriftKept

-----------------------------------------------------------------------------
(* Restore implements AtomicRestore. *)

Files    == IF intent.committed # 0 THEN Installed ELSE work
Recorded == IF intent.committed # 0 THEN trees[intent.committed] ELSE HeadTree

\* Where the loops are done, and before they begin.
LEMMA InstalledIs ==
    /\ Installed = [p \in Paths |-> Installed[p]]
    /\ \A p \in Paths :
          /\ p \in intent.deletes => Installed[p] = NoFile
          /\ p \notin intent.deletes /\ p \in DOMAIN intent.writes => Installed[p] = intent.writes[p]
          /\ p \notin intent.deletes \cup DOMAIN intent.writes => Installed[p] = work[p]
BY DEF Installed

\* What a restore does to the files, before its commit.
LEMMA PlannedFiles ==
    ASSUME RestoreInv, hazards = {}, pc = "commit", NEW p \in Paths
    PROVE  /\ p \notin DOMAIN plan.goal => Installed[p] = work[p] /\ plan.kind = "node"
           /\ p \in DOMAIN plan.goal =>
                 /\ Installed[p] = IF plan.kind = "node" \/ plan.goal[p] # HeadTree[p]
                                   THEN plan.goal[p] ELSE work[p]
                 /\ plan.kind = "node" \/ plan.goal[p] # HeadTree[p] =>
                       plan.force \/ work[p] \in {HeadTree[p], plan.goal[p], NoFile}
<1>1. /\ plan \in Plans /\ Referring
      /\ plan.conflicts = Conflicts(plan.kind, plan.goal)
      /\ plan.conflicts = {} \/ plan.force
      /\ intent.deletes = DeletePaths /\ intent.writes = [q \in WritePaths |-> plan.goal[q]]
  BY DEF RestoreInv, PlanInv, ScanInv
<1>2. DeletePaths \subseteq DOMAIN plan.goal /\ WritePaths \subseteq DOMAIN plan.goal
  BY DEF DeletePaths, WritePaths
<1>3. CASE p \notin DOMAIN plan.goal
  BY <1>1, <1>2, <1>3, InstalledIs DEF Referring
<1>4. CASE p \in DOMAIN plan.goal
  <2> DEFINE base == HeadTree[p]
             goal == plan.goal[p]
  <2>1. p \in plan.conflicts <=> Conflict(plan.kind, base, goal, work[p])
    BY <1>1, <1>4 DEF Conflicts
  <2>2. /\ p \in DeletePaths <=> /\ Effect(base, goal) = "remove"
                                 /\ work[p] \in {base, NoFile} \/ (plan.force /\ p \in plan.conflicts)
        /\ p \in WritePaths <=> /\ work[p] # goal
                                /\ plan.kind = "tree" => Effect(base, goal) \in {"create", "update"}
    BY <1>4 DEF DeletePaths, WritePaths
  <2>3. p \in WritePaths => intent.writes[p] = goal
    BY <1>1
  <2>4. p \in DOMAIN intent.writes <=> p \in WritePaths
    BY <1>1
  <2>5. CASE plan.kind = "node"
    <3>1. goal # NoFile
      BY <1>1, <1>4, <2>5 DEF Referring
    <3>2. p \notin DeletePaths
      BY <2>2, <3>1, Effects
    <3>3. Installed[p] = goal
      BY <1>1, <2>2, <2>3, <2>4, <2>5, <3>2, InstalledIs
    <3>4. plan.force \/ work[p] \in {base, goal}
      BY <1>1, <2>1, <2>5, ConflictsAre
    <3> QED
      BY <1>4, <2>5, <3>3, <3>4
  <2>6. CASE plan.kind = "tree"
    <3>1. CASE goal = base
      <4>1. p \notin DeletePaths /\ p \notin WritePaths
        BY <2>2, <2>6, <3>1, Effects
      <4> QED
        BY <1>1, <1>4, <2>4, <2>6, <3>1, <4>1, InstalledIs
    <3>2. CASE goal # base /\ goal = NoFile
      <4>1. p \in DeletePaths
        BY <1>1, <2>1, <2>2, <2>6, <3>2, Effects, ConflictsAre
      <4>2. plan.force \/ work[p] \in {base, NoFile}
        BY <2>2, <4>1
      <4> QED
        BY <1>1, <1>4, <2>6, <3>2, <4>1, <4>2, InstalledIs
    <3>3. CASE goal # base /\ goal # NoFile
      <4>1. p \notin DeletePaths /\ (p \in WritePaths <=> work[p] # goal)
        BY <2>2, <2>6, <3>3, Effects
      <4>2. Installed[p] = goal
        BY <1>1, <2>3, <2>4, <4>1, InstalledIs
      <4>3. plan.force \/ work[p] \in {base, goal, NoFile}
        BY <1>1, <2>1, <2>6, <3>3, ConflictsAre
      <4> QED
        BY <1>4, <2>6, <3>3, <4>2, <4>3
    <3> QED
      BY <3>1, <3>2, <3>3
  <2> QED
    BY <1>1, <2>5, <2>6 DEF Referring
<1> QED
  BY <1>3, <1>4

\* The receipt is the step of the abstract restore.
LEMMA CommitRefines ==
    ASSUME RestoreInv, hazards = {}, CommitRestore
    PROVE  Atomic!AtomicNext
<1>1. /\ pc = "commit" /\ trees' = Append(trees, intent.target)
      /\ intent' = [intent EXCEPT !.committed = Len(trees) + 1]
      /\ UNCHANGED <<work, head, plan>>
      /\ intent \in Intents /\ intent.committed = 0 /\ plan \in Plans /\ Referring
      /\ intent.target = TargetTree
  BY DEF CommitRestore, RestoreInv, IntentInv, PlanInv, Staged, ScanInv
<1>2. /\ trees \in Seq(TreeMap) /\ work \in TreeMap /\ HeadTree \in TreeMap /\ Len(trees) \in Nat
      /\ intent.target \in TreeMap
  BY <1>1, TreesType DEF RestoreInv, StateInv, Intents
<1>3. /\ intent'.committed = Len(trees) + 1 /\ intent'.committed # 0
      /\ intent'.deletes = intent.deletes /\ intent'.writes = intent.writes
      /\ trees'[intent'.committed] = intent.target
  BY <1>1, <1>2, AppendProperties DEF Intents
<1>4. Installed' = Installed
  BY <1>1, <1>3 DEF Installed
<1>5. Files = work /\ Files' = Installed /\ Recorded = HeadTree /\ Recorded' = intent.target
  BY <1>1, <1>3, <1>4 DEF Files, Recorded
<1>6. Installed = [p \in Paths |-> Installed[p]]
  BY InstalledIs
<1>7. CASE plan.kind = "tree"
  <2>1. plan.goal \in TreeMap /\ DOMAIN plan.goal = Paths
    BY <1>1, <1>7, PartialTreeIs DEF Plans, Referring, TreeMap
  <2>2. \A p \in Paths : Installed[p] = IF plan.goal[p] # HeadTree[p] THEN plan.goal[p] ELSE work[p]
    BY <1>1, <1>7, <2>1, PlannedFiles
  <2>3. Files' = [p \in Paths |-> IF plan.goal[p] # Recorded[p] THEN plan.goal[p] ELSE Files[p]]
    BY <1>5, <1>6, <2>2, Zenon
  <2>4. \A p \in Paths : plan.goal[p] # Recorded[p] =>
            plan.force \/ ~ (Files[p] \notin {Recorded[p], plan.goal[p], NoFile})
    BY <1>1, <1>5, <2>1, PlannedFiles
  <2>5. Recorded' = plan.goal
    BY <1>1, <1>5, <1>7 DEF TargetTree
  <2>6. Atomic!RestoreTree(plan.goal, plan.force)
    BY <2>3, <2>4, <2>5 DEF Atomic!RestoreTree, Atomic!Loses, Files, Recorded
  <2>7. plan.goal \in [Paths -> FileStates] /\ plan.force \in BOOLEAN
    BY <1>1, <2>1 DEF TreeMap, Plans
  <2> QED
    BY <2>6, <2>7 DEF Atomic!AtomicNext
<1>8. CASE plan.kind = "node"
  <2>1. PICK p \in Paths : DOMAIN plan.goal = {p}
    BY <1>1, <1>8 DEF Referring
  <2>2. plan.goal[p] \in FileStates /\ plan.force \in BOOLEAN
    BY <1>1, <2>1, PartialTreeIs DEF Plans
  <2>3. Installed[p] = plan.goal[p] /\ (plan.force \/ work[p] \in {HeadTree[p], plan.goal[p], NoFile})
    BY <1>1, <1>8, <2>1, PlannedFiles
  <2>4. \A q \in Paths \ {p} : Installed[q] = work[q]
    BY <1>1, <2>1, PlannedFiles
  <2>5. Files' = [Files EXCEPT ![p] = plan.goal[p]]
    <3>1. work = [q \in Paths |-> work[q]]
      BY <1>2 DEF TreeMap
    <3>2. Installed = [work EXCEPT ![p] = plan.goal[p]]
      BY <1>6, <2>1, <2>3, <2>4, <3>1
    <3> QED
      BY <1>5, <3>2
  <2>6. Recorded' = Files'
    <3>1. intent.target = [q \in Paths |-> IF q \in DOMAIN plan.goal THEN plan.goal[q] ELSE work[q]]
      BY <1>1, <1>8 DEF TargetTree
    <3>2. \A q \in Paths : intent.target[q] = Installed[q]
      BY <2>1, <2>3, <2>4, <3>1
    <3> QED
      BY <1>5, <1>6, <3>1, <3>2, Zenon
  <2>7. plan.force \/ ~ (Files[p] \notin {Recorded[p], plan.goal[p], NoFile})
    BY <1>5, <2>3
  <2>8. Atomic!RestoreNode(p, plan.goal[p], plan.force)
    BY <2>5, <2>6, <2>7 DEF Atomic!RestoreNode, Atomic!Loses, Files, Recorded
  <2> QED
    BY <2>2, <2>8 DEF Atomic!AtomicNext
<1> QED
  BY <1>1, <1>7, <1>8 DEF Referring

LEMMA UserRefines ==
    ASSUME RestoreInv, hazards = {}, UserEdit \/ Sync
    PROVE  Atomic!AtomicNext
<1>1. intent = NoIntent /\ intent' = NoIntent /\ intent.committed = 0
  BY NoIntentIs DEF UserEdit, UserMayEdit, Sync, Pending, RestoreInv, IntentInv
<1>2. Files = work /\ Files' = work' /\ Recorded = HeadTree /\ Recorded' = HeadTree'
  BY <1>1 DEF Files, Recorded
<1>3. CASE UserEdit
  <2>1. PICK p \in Paths, c \in FileStates : work' = [work EXCEPT ![p] = c]
    BY <1>3 DEF UserEdit, FileStates
  <2>2. HeadTree' = HeadTree
    BY <1>3 DEF UserEdit, HeadTree
  <2>3. Atomic!Edit
    BY <1>2, <2>1, <2>2 DEF Atomic!Edit, Files, Recorded
  <2> QED
    BY <2>3 DEF Atomic!AtomicNext
<1>4. CASE Sync
  <2>1. trees \in Seq(TreeMap) /\ work \in TreeMap
    BY DEF RestoreInv, StateInv
  <2>2. HeadTree' = work /\ work' = work
    BY <1>4, <2>1, AppendProperties DEF Sync, HeadTree
  <2>3. Atomic!Record
    BY <1>2, <2>2 DEF Atomic!Record, Files, Recorded
  <2> QED
    BY <2>3 DEF Atomic!AtomicNext
<1> QED
  BY <1>3, <1>4

\* The loops write what the receipt announced.
LEMMA InstallRefines ==
    ASSUME RestoreInv, hazards = {}, InstallStep
    PROVE  UNCHANGED <<Files, Recorded>>
<1>1. /\ intent.committed # 0 /\ UNCHANGED <<trees, head, intent>> /\ work \in TreeMap
      /\ left \cup opened \subseteq intent.deletes \cup DOMAIN intent.writes
  BY DEF InstallStep, DeletePath, StartWrites, OpenFile, FillFile, EndWrites, RestoreInv, IntentInv, LoopInv, StateInv
<1>2. \A p \in Paths \ (intent.deletes \cup DOMAIN intent.writes) : work'[p] = work[p]
  BY <1>1 DEF InstallStep, DeletePath, StartWrites, OpenFile, FillFile, EndWrites, TreeMap
<1>3. Installed' = Installed
  BY <1>1, <1>2 DEF Installed
<1> QED
  BY <1>1, <1>3 DEF Files, Recorded, HeadTree

\* When the intent goes, the files are what they were to be.
LEMMA ClearRefines ==
    ASSUME RestoreInv, hazards = {}, ClearIntent
    PROVE  UNCHANGED <<Files, Recorded>>
<1>1. /\ intent.committed # 0 /\ intent'.committed = 0 /\ head = intent.committed
      /\ UNCHANGED <<work, trees, head>> /\ work \in TreeMap
      /\ \A p \in intent.deletes : work[p] = NoFile
      /\ \A p \in DOMAIN intent.writes : work[p] = intent.writes[p]
  BY NoIntentIs DEF ClearIntent, RestoreInv, IntentInv, LoopInv, FilesInv, StateInv
<1>2. \A p \in Paths : Installed[p] = work[p]
  BY <1>1, InstalledIs
<1>3. Installed = work
  <2>1. work = [p \in Paths |-> work[p]] /\ Installed = [p \in Paths |-> Installed[p]]
    BY <1>1, InstalledIs DEF TreeMap
  <2> QED
    BY <1>2, <2>1, Zenon
<1> QED
  BY <1>1, <1>3 DEF Files, Recorded, HeadTree

\* Every other step changes neither the files nor what is recorded.
LEMMA OthersRefine ==
    ASSUME RestoreInv,
           RestoreTree \/ RestoreNode \/ StageIntent \/ RefuseSources \/ WriteHeads \/ Recover \/ Interrupt
             \/ UNCHANGED vars
    PROVE  UNCHANGED <<Files, Recorded>>
<1>1. CASE UNCHANGED <<work, trees, head, intent>>
  BY <1>1 DEF Files, Recorded, Installed, HeadTree
<1>2. CASE intent.committed = 0 /\ intent'.committed = 0 /\ UNCHANGED <<work, trees, head>>
  BY <1>2 DEF Files, Recorded, HeadTree
<1>3. CASE WriteHeads
  <2>1. intent.committed # 0 /\ UNCHANGED <<work, trees, intent>>
    BY <1>3 DEF WriteHeads, RestoreInv, IntentInv
  <2> QED
    BY <2>1 DEF Files, Recorded, Installed
<1>4. CASE StageIntent
  BY <1>2, <1>4, NoIntentIs DEF StageIntent, RestoreInv, IntentInv
<1>5. CASE Recover
  BY <1>1, <1>2, <1>5, NoIntentIs DEF Recover
<1> QED
  BY <1>1, <1>3, <1>4, <1>5 DEF RestoreTree, RestoreNode, PlanRestore, RefuseSources, Interrupt, vars

\* With interruptions anywhere and no edits while it is under way, restore with its
\* recovery is one atomic step of AtomicRestore, the one that writes its receipt.
THEOREM RestoreRefinesAtomic == Spec => RestoreIsAtomic
<1>1. Init => Atomic!AtomicInit
  <2> SUFFICES ASSUME Init PROVE Atomic!AtomicInit
    OBVIOUS
  <2>1. intent.committed = 0 /\ work \in [Paths -> FileStates] /\ HeadTree = work
    BY NoIntentIs DEF Init, FileStates, HeadTree
  <2> QED
    BY <2>1 DEF Atomic!AtomicInit
<1>2. RestoreInv /\ [Next]_vars => (hazards = {} => [Atomic!AtomicNext]_(Atomic!avars))
  <2> SUFFICES ASSUME RestoreInv, [Next]_vars, hazards = {}
               PROVE  Atomic!AtomicNext \/ UNCHANGED Atomic!avars
    OBVIOUS
  <2>1. UNCHANGED <<Files, Recorded>> => UNCHANGED Atomic!avars
    BY DEF Atomic!avars, Files, Recorded
  <2>2. \/ CommitRestore \/ UserEdit \/ Sync \/ InstallStep \/ ClearIntent
        \/ RestoreTree \/ RestoreNode \/ StageIntent \/ RefuseSources \/ WriteHeads \/ Recover \/ Interrupt
        \/ UNCHANGED vars
    BY DEF Next, User, Runtime
  <2> QED
    BY <2>1, <2>2, CommitRefines, UserRefines, InstallRefines, ClearRefines, OthersRefine
<1> QED
  BY <1>1, <1>2, RestoreInvariant, PTL DEF Spec, RestoreIsAtomic
=============================================================================
