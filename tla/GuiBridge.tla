----------------------------- MODULE GuiBridge -----------------------------
(***************************************************************************)
(* Previews and approvals in the GUI server (src/gui/bridge.ts, with the   *)
(* paths it takes through src/application/service.ts and                   *)
(* src/operations/runtime.ts): a preview of a sync or a restore is stored  *)
(* under a token, the client approves it by sending the token back, the    *)
(* token is spent, and the operation runs later, under the project lock;   *)
(* meanwhile the user edits and other processes commit.                    *)
(*                                                                         *)
(* bridge.ts builds a bridge in two ways: over the runtime, which compares *)
(* what it is about to do with the approved preview, and over the          *)
(* application service, which is what apps/gui/server.mjs starts.          *)
(*                                                                         *)
(* The server is one thread: it can be overtaken by other processes, not   *)
(* by itself, between two reads of the disk.  A tree maps each path to a   *)
(* content; a node revision is known by its content.                       *)
(***************************************************************************)
EXTENDS RestorePlanning, Integers, Sequences, SequencesExt

CONSTANTS
    Paths, Contents,
    Targets,    \* paths node restores are requested for
    Clients,    \* requests the server may be executing at once
    Capacity,   \* previews of one kind the bridge keeps
    MaxPlans,   \* bound on previews
    MaxTrees,   \* bound on committed trees
    MaxOutside  \* bound on edits by the user and commits of other processes

ASSUME NoFileAssumption == NoFile \notin Contents
ASSUME TargetsAssumption == Targets \subseteq Paths
ASSUME BoundsAssumption == MaxPlans \in Nat /\ MaxTrees \in Nat /\ MaxOutside \in Nat
ASSUME CapacityAssumption == Capacity \in Nat \ {0}

VARIABLES
    backend,      \* how the bridge was built: "runtime" or "service"
    work,         \* the working tree
    trees,        \* committed trees, oldest first; the last one is HEAD's
    origin,       \* of each committed tree, the token that approved it, or 0
    reading,      \* the preview being made: HEAD is read, files are not
    syncPlans,    \* stored previews; they were put in in the order of their tokens
    restorePlans,
    issued,       \* tokens handed out
    calls,        \* per client: the approved operation under way
    outside       \* steps taken outside the server

vars == <<backend, work, trees, origin, reading, syncPlans, restorePlans, issued, calls, outside>>

-----------------------------------------------------------------------------
\* HEAD: trees are known by their place in the history.
Current == Len(trees)
HeadTree == trees[Current]

NoReading == [operation |-> "none"]
NoCall    == [operation |-> "none"]

\* A tree, or a node revision and the path to put it.
TreeReference(k)    == [kind |-> "tree", source |-> k]
NodeReference(p, c) == [kind |-> "node", source |-> c, path |-> p]

References ==
    {TreeReference(k) : k \in 1..Current}
    \cup {NodeReference(p, c) : p \in Targets,
                                c \in {trees[k][q] : k \in 1..Current, q \in Paths} \ {NoFile}}

Goal(r) == IF r.kind = "tree" THEN trees[r.source] ELSE [p \in {r.path} |-> r.source]

(***************************************************************************)
(* What a restore plan says, from HEAD h and the files found: this is what *)
(* the client sees, and all that the binding and the digests keep of it.   *)
(***************************************************************************)
PathEffect(r, h, found, p) ==
    LET base == trees[h][p]
        goal == Goal(r)[p]
    IN  [effect      |-> Effect(base, goal),
         drift_kind  |-> DriftKind(base, found[p]),
         conflicting |-> Conflict(r.kind, base, goal, found[p])]

RestorePreview(r, h, found) ==
    LET listed == {p \in DOMAIN Goal(r) : found[p] # trees[h][p] \/ Goal(r)[p] # trees[h][p]}
        \* a tree restore does not list an untracked file of neither tree
        shown  == {p \in listed : r.kind = "node" \/ trees[h][p] # NoFile \/ Goal(r)[p] # NoFile}
        clash  == {p \in shown : PathEffect(r, h, found, p).conflicting}
    IN  [source_ref   |-> <<r.kind, r.source>>,
         current_head |-> h,
         path_effects |-> [p \in shown |-> PathEffect(r, h, found, p)],
         conflicts    |-> clash,
         preserved    |-> {p \in Paths : /\ found[p] # trees[h][p]
                                         /\ p \in DOMAIN Goal(r) =>
                                               r.kind = "tree" /\ Goal(r)[p] = trees[h][p]}]

SyncPreview(h, found) == [previous_head |-> h, files |-> found]

\* The tree a restore commits and the files it leaves.
RestoredTree(r) ==
    IF r.kind = "tree" THEN trees[r.source] ELSE [work EXCEPT ![r.path] = r.source]

RestoredFiles(r) ==
    [p \in Paths |->
        IF p \in DOMAIN Goal(r) /\ (r.kind = "node" \/ Goal(r)[p] # HeadTree[p])
        THEN Goal(r)[p] ELSE work[p]]

\* What a sync finds to commit: changed files, or the removals of the last tree
\* not being removals any more.
SyncChanges ==
    \/ work # HeadTree
    \/ Current > 1 /\ \E p \in Paths : trees[Current - 1][p] # NoFile /\ HeadTree[p] = NoFile

-----------------------------------------------------------------------------
Init ==
    /\ backend \in {"runtime", "service"}
    /\ work \in [Paths -> Contents \cup {NoFile}]
    /\ trees = <<work>>
    /\ origin = <<0>>
    /\ reading = NoReading
    /\ syncPlans = {}
    /\ restorePlans = {}
    /\ issued = 0
    /\ calls = [c \in Clients |-> NoCall]
    /\ outside = 0

Edit ==
    /\ \E p \in Paths, c \in Contents \cup {NoFile} :
           c # work[p] /\ work' = [work EXCEPT ![p] = c]
    /\ UNCHANGED <<trees, origin>>

Commit(tree, files, token) ==
    /\ Current < MaxTrees
    /\ trees' = Append(trees, tree)
    /\ origin' = Append(origin, token)
    /\ work' = files

\* The command line of another process.
CliSync ==
    /\ SyncChanges
    /\ Commit(work, work, 0)

CliRestore == \E k \in 1..Current : Commit(trees[k], RestoredFiles(TreeReference(k)), 0)

-----------------------------------------------------------------------------
(* planSync and planRestore of the bridge. *)

\* buildSyncPlan and buildRestorePlan read HEAD without the lock ...
BeginPreview ==
    /\ reading = NoReading
    /\ issued < MaxPlans
    /\ \/ reading' = [operation |-> "sync", head |-> Current]
       \/ \E r \in References, overwrite \in BOOLEAN :
              reading' = [operation |-> "restore", head |-> Current,
                          reference |-> r, overwrite |-> overwrite]
    /\ UNCHANGED <<backend, work, trees, origin, syncPlans, restorePlans, issued, calls, outside>>

\* Mutant: nothing is ever forgotten.
StoreAll(plans, stored) == plans \cup {stored}

\* A Map keeps its entries in the order they were put in, which is that of their
\* tokens; over its limit it forgets the oldest.
Store(plans, stored) ==
    LET all == plans \cup {stored}
    IN  IF Cardinality(all) > Capacity
        THEN {s \in all : \E older \in all : older.token < s.token}
        ELSE all

\* ... then scan the working tree; the bridge stores the binding.
StoreSyncPlan ==
    /\ reading.operation = "sync"
    /\ issued' = issued + 1
    /\ syncPlans' = Store(syncPlans, [token |-> issued + 1,
                                      binding |-> SyncPreview(reading.head, work)])
    /\ reading' = NoReading
    /\ UNCHANGED <<backend, work, trees, origin, restorePlans, calls, outside>>

StoreRestorePlan ==
    /\ reading.operation = "restore"
    /\ issued' = issued + 1
    /\ restorePlans' = Store(restorePlans,
           [token     |-> issued + 1,
            binding   |-> RestorePreview(reading.reference, reading.head, work),
            reference |-> reading.reference,
            overwrite |-> reading.overwrite])
    /\ reading' = NoReading
    /\ UNCHANGED <<backend, work, trees, origin, syncPlans, calls, outside>>

-----------------------------------------------------------------------------
(* executeSync and executeRestore of the bridge: the synchronous part. *)

Idle(c) == reading = NoReading /\ calls[c] = NoCall

Without(plans, token) == {s \in plans : s.token # token}

\* A request that names another root, or another head than the preview, loses
\* its token; otherwise the token is spent and the operation is called.
ExecuteSync(c) ==
    /\ Idle(c)
    /\ \E s \in syncPlans, sameRoot \in BOOLEAN, expectedHead \in 1..Current :
        /\ syncPlans' = Without(syncPlans, s.token)
        /\ IF sameRoot /\ expectedHead = s.binding.previous_head
           THEN calls' = [calls EXCEPT ![c] = [operation |-> "sync", stored |-> s]]
           ELSE UNCHANGED calls
    /\ UNCHANGED <<backend, work, trees, origin, reading, restorePlans, issued, outside>>

\* The service has no way to pass the overwrite choice on.
OverwriteChoices == IF backend = "runtime" THEN BOOLEAN ELSE {FALSE}

\* Mutant: the token of a restore stays until it has run.
ExecuteRestoreKeeping(c) ==
    /\ Idle(c)
    /\ \E s \in restorePlans, r \in References, overwrite \in OverwriteChoices :
           calls' = [calls EXCEPT ![c] = [operation |-> "restore", stored |-> s,
                                          reference |-> r, overwrite |-> overwrite]]
    /\ UNCHANGED <<backend, work, trees, origin, reading, syncPlans, restorePlans, issued, outside>>

\* The reference and the overwrite choice come with the request again.
ExecuteRestore(c) ==
    /\ Idle(c)
    /\ \E s \in restorePlans, sameRoot \in BOOLEAN :
        /\ restorePlans' = Without(restorePlans, s.token)
        /\ IF sameRoot
           THEN \E r \in References, overwrite \in OverwriteChoices :
                    calls' = [calls EXCEPT ![c] = [operation |-> "restore", stored |-> s,
                                                   reference |-> r, overwrite |-> overwrite]]
           ELSE UNCHANGED calls
    /\ UNCHANGED <<backend, work, trees, origin, reading, syncPlans, issued, outside>>

-----------------------------------------------------------------------------
(* runtime.sync and runtime.restore, under the lock. *)

\* Mutant: the candidate is not compared with the preview.
SyncAcceptedByHead(s) == s.binding.previous_head = Current

\* expectedHead, and expectedChangeDigest if the caller passes one.
SyncAccepted(s) ==
    /\ s.binding.previous_head = Current
    /\ backend = "runtime" => s.binding.files = work

\* Mutant: the overwrite choice is not part of the binding.
RestoreAcceptedByPlan(call) ==
    LET now == RestorePreview(call.reference, Current, work)
    IN  /\ backend = "runtime" => now = call.stored.binding
        /\ now.conflicts # {} => call.overwrite

\* Mutant: path effects and conflicts are not compared.
RestoreAcceptedByHead(call) ==
    LET now == RestorePreview(call.reference, Current, work)
    IN  /\ backend = "runtime" => /\ now.source_ref = call.stored.binding.source_ref
                                  /\ now.current_head = call.stored.binding.current_head
                                  /\ call.overwrite = call.stored.overwrite
        /\ now.conflicts # {} => call.overwrite

\* The expected... bindings, and restore_conflict without overwrite; the service
\* passes the reference only.
RestoreAccepted(call) ==
    LET now == RestorePreview(call.reference, Current, work)
    IN  /\ backend = "runtime" => /\ now = call.stored.binding
                                  /\ call.overwrite = call.stored.overwrite
        /\ now.conflicts # {} => call.overwrite

ApplySync(c) ==
    /\ reading = NoReading
    /\ calls[c].operation = "sync"
    /\ IF SyncAccepted(calls[c].stored) /\ SyncChanges
       THEN Commit(work, work, calls[c].stored.token)
       ELSE UNCHANGED <<trees, origin, work>>
    /\ calls' = [calls EXCEPT ![c] = NoCall]
    /\ UNCHANGED <<backend, reading, syncPlans, restorePlans, issued, outside>>

ApplyRestore(c) ==
    /\ reading = NoReading
    /\ calls[c].operation = "restore"
    /\ IF RestoreAccepted(calls[c])
       THEN Commit(RestoredTree(calls[c].reference), RestoredFiles(calls[c].reference),
                   calls[c].stored.token)
       ELSE UNCHANGED <<trees, origin, work>>
    /\ calls' = [calls EXCEPT ![c] = NoCall]
    /\ UNCHANGED <<backend, reading, syncPlans, restorePlans, issued, outside>>

\* project_locked, or an error before the commit: the token is spent all the same.
FailCall(c) ==
    /\ reading = NoReading
    /\ calls[c] # NoCall
    /\ calls' = [calls EXCEPT ![c] = NoCall]
    /\ UNCHANGED <<backend, work, trees, origin, reading, syncPlans, restorePlans, issued, outside>>

-----------------------------------------------------------------------------
Outside ==
    /\ outside < MaxOutside
    /\ Edit \/ CliSync \/ CliRestore
    /\ outside' = outside + 1
    /\ UNCHANGED <<backend, reading, syncPlans, restorePlans, issued, calls>>
Preview == BeginPreview \/ StoreSyncPlan \/ StoreRestorePlan
Execute(c) ==
    \/ ExecuteSync(c) \/ ExecuteRestore(c)
    \/ ApplySync(c) \/ ApplyRestore(c) \/ FailCall(c)

Next == Outside \/ Preview \/ \E c \in Clients : Execute(c)

Spec == Init /\ [][Next]_vars

-----------------------------------------------------------------------------
Tree == [Paths -> Contents \cup {NoFile}]
Tokens == 1..issued

IsPreviewMap(plans) ==
    /\ IsFiniteSet(plans) /\ Cardinality(plans) <= Capacity
    /\ \A s \in plans : s.token \in Tokens
    /\ \A s1, s2 \in plans : s1.token = s2.token => s1 = s2

TypeOK ==
    /\ backend \in {"runtime", "service"}
    /\ work \in Tree
    /\ trees \in Seq(Tree)
    /\ origin \in [1..Len(trees) -> Tokens \cup {0}]
    /\ reading # NoReading => reading.operation \in {"sync", "restore"} /\ reading.head \in 1..Current
    /\ IsPreviewMap(syncPlans) /\ IsPreviewMap(restorePlans)
    /\ issued \in 0..MaxPlans
    /\ \A c \in Clients : calls[c] # NoCall => calls[c].stored.token \in Tokens
    /\ outside \in 0..MaxOutside

\* An approval is good for one commit: however often and from however many
\* windows the same preview is submitted, at most one tree comes of it.
ApprovalSpentOnce ==
    \A j, k \in 1..Len(origin) : origin[j] = origin[k] /\ origin[j] # 0 => j = k

Commits(c, operation) ==
    calls[c].operation = operation /\ calls'[c] = NoCall /\ trees' # trees

\* What the bridge over the runtime commits for an approved sync is the candidate the
\* preview showed, on top of the head it showed, whatever happened in between.
BoundSyncAsApproved ==
    [][\A c \in Clients : backend = "runtime" /\ Commits(c, "sync") =>
          /\ Last(trees') = calls[c].stored.binding.files
          /\ Current = calls[c].stored.binding.previous_head]_vars

\* What the bridge over the runtime commits for an approved restore changes the paths
\* the preview listed, to what the approved reference holds, and no others.
BoundRestoreAsApproved ==
    [][\A c \in Clients : backend = "runtime" /\ Commits(c, "restore") =>
          LET shown == calls[c].stored.binding
              goal  == Goal(calls[c].stored.reference)
          IN  \A p \in Paths :
                 /\ work'[p] # work[p] => p \in DOMAIN shown.path_effects /\ work'[p] = goal[p]
                 /\ Last(trees')[p] # HeadTree[p] =>
                        p \in DOMAIN shown.path_effects \cup shown.preserved]_vars

\* Neither bridge replaces an unrecorded edit unless the preview named its path
\* as a conflict and was made with the overwrite choice.
ConsentCoversConflicts ==
    [][\A c \in Clients : Commits(c, "restore") =>
          \A p \in Paths : work'[p] # work[p] /\ work[p] \notin {HeadTree[p], NoFile} =>
              p \in calls[c].stored.binding.conflicts /\ calls[c].stored.overwrite]_vars

\* "A sync commit SHALL represent the plan the user approved", however the
\* bridge was built.
SyncAsApproved ==
    [][\A c \in Clients : Commits(c, "sync") =>
          Last(trees') = calls[c].stored.binding.files]_vars
=============================================================================
