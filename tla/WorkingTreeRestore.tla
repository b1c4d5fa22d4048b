------------------------- MODULE WorkingTreeRestore -------------------------
(***************************************************************************)
(* What restore does to the user's files (src/operations/runtime.ts,       *)
(* src/operations/restore-plan.ts, src/transactions/                       *)
(* working-tree-restore.ts, src/transactions/recovery.ts): the plan made   *)
(* from one scan of the working tree, the intent made from a second one,   *)
(* the commit of the new tree, the deletions and the writes path by path,  *)
(* interruptions anywhere, and the replay of the intent by recovery.  The  *)
(* user edits files in between; hazards says when.                         *)
(*                                                                         *)
(* One process at a time works on the store and an interrupted restore is  *)
(* recovered before the next operation: MaterialTransactions is about      *)
(* what happens otherwise.  A tree maps each path to the content it has    *)
(* there; node identities are the subject of SyncPlanning.                 *)
(***************************************************************************)
EXTENDS RestorePlanning, Integers, Sequences

CONSTANTS
    Paths, Contents,
    Torn,           \* what an interrupted write leaves behind
    MaxTrees,       \* bound on committed trees
    MaxInterrupts,  \* bound on interruptions
    Hazards         \* when users may edit besides between operations

\* edit_during       while a restore or a recovery runs
\* edit_interrupted  after an interruption, before recovery
HazardKinds == {"edit_during", "edit_interrupted"}

ASSUME StatesAssumption == NoFile \notin Contents /\ Torn \notin Contents /\ NoFile # Torn
ASSUME BoundsAssumption == MaxTrees \in Nat /\ MaxInterrupts \in Nat
ASSUME HazardsAssumption == Hazards \subseteq HazardKinds

VARIABLES
    work,       \* the working tree
    trees,      \* committed trees, oldest first
    head,       \* index in trees of the tree HEAD names
    plan,       \* the restore plan of the running restore
    intent,     \* recovery/<op>.json and the tree its receipt commits, if any
    pc,         \* next step of the running restore or recovery
    left,       \* paths the current loop has not reached
    opened,     \* the path whose file is open for writing
    interrupts,
    hazards     \* when this user edits; never changes

vars == <<work, trees, head, plan, intent, pc, left, opened, interrupts, hazards>>

-----------------------------------------------------------------------------
FileStates == Contents \cup {NoFile, Torn}
HeadTree == trees[head]

NoPlan   == [kind |-> "none"]
NoIntent == [committed |-> 0, target |-> <<>>, deletes |-> {}, writes |-> <<>>]
Pending  == intent # NoIntent
Steps    == {"idle", "stage", "commit", "delete", "write", "fill", "heads", "clear"}

\* The plan: goal maps the paths the reference speaks of, all of them for a
\* tree and one for a node.
Conflicts(kind, goal) == {p \in DOMAIN goal : Conflict(kind, HeadTree[p], goal[p], work[p])}

\* Mutant: paths with a conflict are deleted whatever the reference holds there.
DeletePathsOfConflicts ==
    {p \in DOMAIN plan.goal :
        \/ Effect(HeadTree[p], plan.goal[p]) = "remove" /\ work[p] \in {HeadTree[p], NoFile}
        \/ plan.force /\ p \in plan.conflicts}

\* delete_paths and write_files, from the second scan.
DeletePaths ==
    {p \in DOMAIN plan.goal :
        /\ Effect(HeadTree[p], plan.goal[p]) = "remove"
        /\ work[p] \in {HeadTree[p], NoFile} \/ (plan.force /\ p \in plan.conflicts)}

WritePaths ==
    {p \in DOMAIN plan.goal :
        /\ work[p] # plan.goal[p]
        /\ plan.kind = "tree" => Effect(HeadTree[p], plan.goal[p]) \in {"create", "update"}}

\* The tree that will be committed: for a node, everything the scan found.
TargetTree ==
    IF plan.kind = "tree" THEN plan.goal
    ELSE [p \in Paths |-> IF p \in DOMAIN plan.goal THEN plan.goal[p] ELSE work[p]]

\* restoreIntentMatchesTree.
IntentMatchesTree(i, tree) ==
    /\ \A p \in DOMAIN i.writes : tree[p] = i.writes[p]
    /\ \A p \in i.deletes : tree[p] = NoFile

-----------------------------------------------------------------------------
Init ==
    /\ work \in [Paths -> Contents \cup {NoFile}]
    /\ trees = <<work>>
    /\ head = 1
    /\ plan = NoPlan
    /\ intent = NoIntent
    /\ pc = "idle"
    /\ left = {}
    /\ opened = {}
    /\ interrupts = 0
    /\ hazards \in SUBSET Hazards

UserMayEdit ==
    \/ pc = "idle" /\ ~Pending
    \/ pc = "idle" /\ Pending /\ "edit_interrupted" \in hazards
    \/ pc # "idle" /\ "edit_during" \in hazards

UserEdit ==
    /\ UserMayEdit
    /\ \E p \in Paths, c \in Contents \cup {NoFile} :
           c # work[p] /\ work' = [work EXCEPT ![p] = c]
    /\ UNCHANGED <<trees, head, plan, intent, pc, left, opened, interrupts, hazards>>

\* A sync commits what it scans.
Sync ==
    /\ pc = "idle" /\ ~Pending
    /\ Len(trees) < MaxTrees
    /\ work # HeadTree
    /\ trees' = Append(trees, work)
    /\ head' = Len(trees) + 1
    /\ UNCHANGED <<work, plan, intent, pc, left, opened, interrupts, hazards>>

\* buildRestorePlan under the lock; restore_conflict without consent.
PlanRestore(kind, goal, force) ==
    /\ pc = "idle" /\ ~Pending
    /\ Len(trees) < MaxTrees
    /\ Conflicts(kind, goal) = {} \/ force
    /\ plan' = [kind |-> kind, goal |-> goal, force |-> force,
                conflicts |-> Conflicts(kind, goal), before |-> work, base |-> HeadTree]
    /\ pc' = "stage"
    /\ UNCHANGED <<work, trees, head, intent, left, opened, interrupts, hazards>>

RestoreTree ==
    \E k \in 1..Len(trees), force \in BOOLEAN : PlanRestore("tree", trees[k], force)

\* Any recorded content may be restored to any path.
RestoreNode ==
    \E k \in 1..Len(trees), p, q \in Paths, force \in BOOLEAN :
        trees[k][q] # NoFile /\ PlanRestore("node", [x \in {p} |-> trees[k][q]], force)

\* The second scan, and writeRecoveryIntent.
StageIntent ==
    /\ pc = "stage"
    /\ intent' = [committed |-> 0, target |-> TargetTree, deletes |-> DeletePaths,
                  writes |-> [p \in WritePaths |-> plan.goal[p]]]
    /\ pc' = "commit"
    /\ UNCHANGED <<work, trees, head, plan, left, opened, interrupts, hazards>>

\* A node restore stores the files it found changed: storeObjectFromFile throws
\* when one has changed again.
SourcesUnchanged ==
    plan.kind = "node" =>
        \A p \in Paths \ DOMAIN plan.goal :
            intent.target[p] \notin {NoFile, HeadTree[p]} => work[p] = intent.target[p]

\* The new tree and its receipt.
CommitRestore ==
    /\ pc = "commit"
    /\ SourcesUnchanged
    /\ trees' = Append(trees, intent.target)
    /\ intent' = [intent EXCEPT !.committed = Len(trees) + 1]
    /\ pc' = "delete"
    /\ left' = intent.deletes
    /\ UNCHANGED <<work, head, plan, opened, interrupts, hazards>>

RefuseSources ==
    /\ pc = "commit"
    /\ ~SourcesUnchanged
    /\ pc' = "idle"
    /\ UNCHANGED <<work, trees, head, plan, intent, left, opened, interrupts, hazards>>

(* deleteRestorePaths and writeRestoreFiles, of a restore or of a recovery. *)

DeletePath ==
    /\ pc = "delete"
    /\ \E p \in left : work' = [work EXCEPT ![p] = NoFile] /\ left' = left \ {p}
    /\ UNCHANGED <<trees, head, plan, intent, pc, opened, interrupts, hazards>>

StartWrites ==
    /\ pc = "delete"
    /\ left = {}
    /\ pc' = "write"
    /\ left' = DOMAIN intent.writes
    /\ UNCHANGED <<work, trees, head, plan, intent, opened, interrupts, hazards>>

OpenFile ==
    /\ pc = "write"
    /\ \E p \in left :
        /\ work' = [work EXCEPT ![p] = Torn]
        /\ left' = left \ {p}
        /\ opened' = {p}
    /\ pc' = "fill"
    /\ UNCHANGED <<trees, head, plan, intent, interrupts, hazards>>

FillFile ==
    /\ pc = "fill"
    /\ work' = [p \in Paths |-> IF p \in opened THEN intent.writes[p] ELSE work[p]]
    /\ opened' = {}
    /\ pc' = "write"
    /\ UNCHANGED <<trees, head, plan, intent, left, interrupts, hazards>>

EndWrites ==
    /\ pc = "write"
    /\ left = {}
    /\ pc' = "heads"
    /\ UNCHANGED <<work, trees, head, plan, intent, left, opened, interrupts, hazards>>

WriteHeads ==
    /\ pc = "heads"
    /\ head' = intent.committed
    /\ pc' = "clear"
    /\ UNCHANGED <<work, trees, plan, intent, left, opened, interrupts, hazards>>

ClearIntent ==
    /\ pc = "clear"
    /\ intent' = NoIntent
    /\ plan' = NoPlan
    /\ pc' = "idle"
    /\ UNCHANGED <<work, trees, head, left, opened, interrupts, hazards>>

\* A crash, or an error thrown by any step.  plan stays as a record of what
\* the user was promised; no later step reads it.
Interrupt ==
    /\ pc # "idle"
    /\ interrupts < MaxInterrupts
    /\ interrupts' = interrupts + 1
    /\ pc' = "idle"
    /\ left' = {}
    /\ opened' = {}
    /\ UNCHANGED <<work, trees, head, plan, intent, hazards>>

\* Mutant: recovery moves the heads and leaves the files.
RecoverHeads ==
    /\ pc = "idle" /\ Pending
    /\ intent.committed # 0
    /\ pc' = "heads"
    /\ UNCHANGED <<work, trees, head, plan, intent, left, opened, interrupts, hazards>>

\* Mutant: recovery replays an intent without looking for its receipt.
RecoverBlindly ==
    /\ pc = "idle" /\ Pending
    /\ pc' = "delete"
    /\ left' = intent.deletes
    /\ UNCHANGED <<work, trees, head, plan, intent, opened, interrupts, hazards>>

\* recoverRestoreIntent of an intent without receipt, and of a committed one.
Recover ==
    /\ pc = "idle" /\ Pending
    /\ \/ /\ intent.committed = 0
          /\ intent' = NoIntent
          /\ plan' = NoPlan
          /\ UNCHANGED <<pc, left>>
       \/ /\ intent.committed # 0
          /\ IntentMatchesTree(intent, trees[intent.committed])
          /\ pc' = "delete"
          /\ left' = intent.deletes
          /\ UNCHANGED <<intent, plan>>
    /\ UNCHANGED <<work, trees, head, opened, interrupts, hazards>>

-----------------------------------------------------------------------------
User == UserEdit \/ Sync \/ RestoreTree \/ RestoreNode

InstallStep ==
    \/ DeletePath \/ StartWrites \/ OpenFile \/ FillFile \/ EndWrites

Runtime ==
    \/ StageIntent \/ CommitRestore \/ RefuseSources
    \/ InstallStep \/ WriteHeads \/ ClearIntent

Next == User \/ Runtime \/ Recover \/ Interrupt

Spec == Init /\ [][Next]_vars

-----------------------------------------------------------------------------
TreeMap == [Paths -> FileStates]
PartialTree == UNION {[S -> FileStates] : S \in SUBSET Paths}

TypeOK ==
    /\ work \in TreeMap
    /\ \A k \in 1..Len(trees) : trees[k] \in TreeMap
    /\ head \in 1..Len(trees)
    /\ plan # NoPlan =>
          /\ plan.kind \in {"tree", "node"}
          /\ plan.goal \in PartialTree
          /\ plan.force \in BOOLEAN
          /\ plan.conflicts \subseteq Paths
          /\ plan.before \in TreeMap /\ plan.base \in TreeMap
    /\ Pending =>
          /\ intent.committed \in 0..Len(trees)
          /\ intent.target \in TreeMap
          /\ intent.deletes \subseteq Paths
          /\ intent.writes \in PartialTree
    /\ pc \in Steps
    /\ left \subseteq Paths
    /\ opened \subseteq Paths
    /\ interrupts \in 0..MaxInterrupts
    /\ hazards \subseteq Hazards

\* Without consent the tool replaces or deletes a file only if it holds what
\* HEAD recorded when the plan was made, or what the tool itself put there:
\* unrecorded edits survive, through interruptions and replays.
Kept ==
    InstallStep /\ ~plan.force =>
        \A p \in Paths : work'[p] # work[p] =>
            \/ work[p] \in {plan.base[p], Torn}
            \/ p \in DOMAIN intent.writes /\ work[p] = intent.writes[p]
DriftKept == [][hazards = {} => Kept]_vars

\* The same of every user.
EditsKept == [][Kept]_vars

\* Recovery never turns down an intent the runtime wrote: whatever the user
\* edits between the two scans, intent and committed tree agree.
IntentAgrees ==
    intent.committed # 0 => IntentMatchesTree(intent, trees[intent.committed])

\* From its receipt on a restore counts as done: the files are what they will be.
Installed ==
    [p \in Paths |-> IF p \in intent.deletes THEN NoFile
                     ELSE IF p \in DOMAIN intent.writes THEN intent.writes[p] ELSE work[p]]

Atomic == INSTANCE AtomicRestore WITH
    files    <- IF intent.committed # 0 THEN Installed ELSE work,
    recorded <- IF intent.committed # 0 THEN trees[intent.committed] ELSE HeadTree

\* With interruptions anywhere and no edits while it is under way, restore is one
\* atomic step: every step is one of AtomicRestore or changes nothing it sees.
RestoreIsAtomic ==
    Atomic!AtomicInit /\ [][hazards = {} => [Atomic!AtomicNext]_(Atomic!avars)]_vars
=============================================================================
