# Expflow in TLA+

Expflow keeps a versioned history of a directory of files under `.expflow/`:
`init` records the first tree, `sync` records what changed, `restore` puts an
earlier tree or file back and records that as a new tree, `recover` repairs what
an interrupted command left. Around this material core stand record stores
(authority, semantics, workflows, evidence, reproduction, projections), a
portable package format, read models, a GUI and a command line. Sources are
named relative to `src/src`, unless they begin with `apps/`, `docs/` or
`tests/`; `operations/runtime.ts` is the material runtime.

These modules model the material core, the record stores, packages, paging and
the GUI from page to commit. TLC checks them on small instances; TLAPS proves
every safety property of the passing runs for every value of the constants, under
the hypotheses section 4 names.

## 1. The system

| Part | State | Operations | What is hard, and what must hold |
|---|---|---|---|
| Material transactions (`operations/runtime.ts`, `material/store.ts`) | `LOCK`, `HEAD`, `project.json`, immutable objects, node revisions, tree revisions, receipts, recovery intents | `init`, `sync`, `restore`: take the lock, plan, write records, write the receipt (the commit point), move both heads | several processes share the directory; any may die or throw between two writes. One transaction at a time, one chain of committed trees, heads that never name an uncommitted tree |
| Recovery (`transactions/recovery.ts`) | the same files | classify and remove a dead lock, complete or drop intents, rebuild the heads from the receipts | takes no lock itself, so it may meet a running operation; may itself be interrupted |
| Restore (`operations/restore-plan.ts`, `transactions/working-tree-restore.ts`) | working tree, intent | plan effects and conflicts, stage an intent, commit, delete and write file by file | interruptions half way, files edited in between, unrecorded edits must not be lost without consent |
| Sync planning (`material/planner.ts`, `digest.ts`, `selectors.ts`) | candidate tree, reserved revision numbers | identity directives (`preserve`, `new`, `replace`), scopes, revision numbers | interrupted commits leave revisions behind; nodes move, return, occupy several paths |
| GUI bridge and service (`gui/bridge.ts`, `application/service.ts`) | two bounded maps of approved previews per process | preview, execute | previews go stale, tokens are resubmitted, the map overflows; what is committed must be what was approved |
| GUI page and server (`apps/gui/src/app.js`, `apps/gui/server.mjs`) | selected command, fields, plan panel, last plan and token | select, type, preview, run, apply; render answers | calls are neither ordered nor cancelled; an answer is rendered whenever it comes. Apply must mean what is on screen |
| Authority (`authority/runtime.ts`, `store.ts`) | source revisions, registration decisions, an order file | register a revision, decide on it; what is authoritative is replayed from the decisions | no lock; decision and index entry are two writes. One authoritative revision per source, a replay in the order of the operations |
| Semantics, workflows, projections, reproduction, evidence | append-only JSON records in families | read what is there, validate, create one more file and fill it; no lock | two writers validate against the same past; a crash leaves a torn record that later listings throw on |
| Portable packages (`portable-package/runtime.ts`) | a directory of payloads | export, validate, plan an import, import payload by payload without a lock | partial imports, races, retries, stale plans, the order of payloads; what the target had must stay |
| Read models (`read-models/runtime.ts`) | none; a client holds a cursor | pages of a collection, authority view | the store changes between two pages; a second implementation of the replay |
| Security, migration, extensions, schemas, command line, Python hooks | none or single records | policies, records, formatting, discovery | no protocol; not modelled |

Components interact through files. The command line and the GUI call the same
runtime; a material operation runs synchronously inside its process once it has
the lock, so interleaving is between processes, and between a GUI's preview and
execution. The record stores take no lock: their calls interleave at awaits and,
between processes, at every file operation. Recovery reads the receipts that
packages may bring. `PROJECT.json` lists every component with its status, and
the hazards with the line where each one bites.

## 2. The modules

| Module | Role |
|---|---|
| `MaterialTransactions` | the durable protocol: lock, receipts, heads, intents, crashes, recovery, any number of processes |
| `CommittedHistory`, `MaterialHistory` | abstract: one growing log and two published pointers; the refinement mapping |
| `ImportedHistory` | `MaterialTransactions` in a project into which receipts and trees are imported |
| `RestorePlanning` | effects, drift and conflicts of one path, pure operators |
| `WorkingTreeRestore` | one restore, file by file, with interruptions, edits and recovery |
| `AtomicRestore` | abstract: files and recorded tree change in one step |
| `SyncPlanning` | identity and revision numbers of syncs, node restores and tree restores |
| `GuiBridge` | both bridges: previews, plan maps, executions |
| `GuiApp` | the page and its calls in front of the service-backed bridge |
| `SourceAuthority` | sources, decisions, their order and replay, and the read models' view of them |
| `PackageTransfer` | export from a project that runs `SourceAuthority`, import into another |
| `RecordFamilies` | all other record families: check, exclusive create, fill |
| `ReadModelPages` | a client that pages while `RecordFamilies` writes and the head moves |
| `MaterialTransactionsProofs`, `WorkingTreeRestoreProofs`, `SyncPlanningProofs`, `GuiBridgeProofs`, `GuiAppProofs`, `SourceAuthorityProofs`, `PackageTransferProofs`, `RecordFamiliesProofs` | theorems and proofs |
| `MC...` | the symmetry sets, constraints and definitions of constants TLC needs |

Composition: `WorkingTreeRestore` extends `RestorePlanning`; `PackageTransfer`
extends `SourceAuthority` and instantiates it once more over the target's files;
`ReadModelPages` extends `RecordFamilies`, `ImportedHistory` extends
`MaterialTransactions`. `MaterialTransactions` has no file contents;
`WorkingTreeRestore`, `SyncPlanning` and `GuiBridge` each refine one aspect of
one operation's data and treat the rest of the operation as one step.

### MaterialTransactions

`lock`, `head`, `initialized`/`projectHead`, `trees`, `receipts`, `intents` are
the files of the same names (`project.json` is the pair; `TornProject` is the file
created and still empty). `pc`, `job`, `op`,
`prev`, `todo` are what a process has in memory: `prev` is `previousHead`,
`todo` the listed intents of a recovery. `issued` counts operation ids.
`dirty` is not in the program: it says some failure has not been followed by a
recovery that ran to its end.

Each durable write is one action, in the order of the code: `CreateLock`
(exclusive create), `StampLock` (its JSON), `Begin` (read `HEAD`, plan),
`WriteIntent` (init and restore), `WriteRecords` (objects, node revisions,
tree), `WriteReceipt`, then project-then-head for `init` and head-then-project
for the others, `ClearIntent`, `Release`. `init`, and the recovery of an init,
create `project.json` exclusively and then fill it, two writes like those of
`LOCK` (`PublishProject`, `FillProject`; `RecoverInitProject`,
`RecoverFillProject`); every later change replaces it in one. An empty
`project.json` counts as initialized, and whoever reads it throws: `sync` and
`restore` do not start, and a recovery ends where it reads it. `Refuse` is every early error or
rejection after the lock. `ThrowEarly` and `ThrowLate` are exceptions that run
the `finally` block, `ThrowInLock` one inside `createLock`, where no `finally`
is active; `Crash` ends a process. Recovery is one action per decision or
write of `recoverProject`; `LatestCausalCandidate` is the search of
`latestCausalMaterialCandidate`.

`Faults` names the kinds of trouble a run admits: `crash`; `late_throw` (an
error after the receipt, or inside `createLock`); `overlap` (recovery beside
other operations); `unrecovered` (new work before a recovery); `init_race` (an
init begins while another operation runs). Without a kind the matching start
is disabled, which is an assumption on the users, not on the code; the runs
with that kind show what its absence buys.

Abstractions: an operation id and the tree it creates are one number; recovery's
chain recursion with memo is the union of the closed sets it accepts (the
sequence numbers decrease towards the root, so both agree); staging
directories, other hosts' locks, reuse of process ids and corrupt records are
left out; `partial_post_commit` receipts count as committed, as they do for
recovery, and rejected ones are `Refuse`.

### RestorePlanning, WorkingTreeRestore

`Effect`, `DriftKind`, `TreeConflict`, `NodeConflict` are the classification
of one path. `PlanRestore` is the plan under the lock with the conflict check,
`StageIntent` the second scan and the intent, `CommitRestore` tree and receipt,
then `DeletePath`, `OpenFile` (truncated: `Torn`), `FillFile`, `WriteHeads`,
`ClearIntent`. `Interrupt` is a crash or error at any step, `Recover` is
`recoverRestoreIntent`, which replays through the same actions. `UserEdit` is
limited by `hazards`, which a behaviour chooses once out of `Hazards`: always
when nothing is under way, `edit_during` while an operation runs,
`edit_interrupted` between an interruption and recovery. `DriftKept` and
`RestoreIsAtomic` speak of the behaviours without either. One
process: exclusion is `MaterialTransactions`' business, and recovery comes
before the next operation. Both heads move in one step.

### SyncPlanning

`PlanCandidate` is `planCandidateTree`; `Planned` is its loop, a recursive function
over the places in scan order; directives are per path. `new` and `replace` differ only in the
recorded basis and are one. A commit writes node revisions one by one
(`WriteNode`), then the tree (`CommitTree`); `Interrupt` stops it anywhere.
`RestoreTree` is atomic here and may overwrite drift with consent. A node
restore is planned as the code plans it, including every other change the scan
found. Edits while an operation runs are in `WorkingTreeRestore`. User-supplied
`restore` changes of a sync and similarity proposals are left out.

### GuiBridge

`backend` chooses the construction: `createGuiBridge` (over the runtime) or
`createGuiBridgeFromService`. A preview reads the head (`BeginPreview`) and
later scans and is stored (`StoreSyncPlan`, `StoreRestorePlan`), because it
takes no lock; what other processes do falls in between. `ExecuteSync` and
`ExecuteRestore` are the synchronous part that spends the token; `ApplySync`,
`ApplyRestore` the operation under the lock, `FailCall` its failure. `Edit`,
`CliSync`, `CliRestore` are the world outside, at most `MaxOutside` steps. A
plan map is a set of plans; tokens are handed out in insertion order, so the
oldest entry is the one with the least token. `origin` records which token each
tree came from. A request names a possibly different root (`sameRoot`), a
reference and an overwrite choice again, as the interface lets it. Abstractions:
one project; whole-project previews; a node revision is known by its content;
the effective target path is part of the reference; an absent overwrite is
FALSE.

### GuiApp

`form`, `panel`, `lastToken`, `canApply` are the page's variables and DOM;
`calls` what has been sent and answered; `plans`, `kept` the bridge's maps;
`head` the commits of each project. `Select` is `selectFamily` and
`selectCommand`, `TypeField` the two inputs, `Primary` and `Apply` the buttons.
`Serve` is a request on the server in one step (`GuiBridge` has its parts),
`Lose` a failed or lost fetch, `Render` the continuation after the `await`,
which looks at no variable to see whether it is still wanted. Two commands stand
for the families of reads and of mutations without a plan. `shown`, the token on
the panel at the click, is there for the properties.

### SourceAuthority

`sources`, `decisions` are the record files, `order` the index. `BeginSource`
numbers a revision from a listing, `WriteSource` creates its file or fails;
`Decide` is `recordSourceRegistrationDecision` up to its first write, with the
scope check at a time `now`; `WriteDecision` and `AppendDecision` are the two
writes, `Crash` stops between them. `Place` is where
`listSourceRegistrationDecisions` lists a decision: what the index names in its
order, then the rest by creation. The loop of `currentAcceptedRefs` over that
list is stated by what it leaves (`Replayed`): a revision is accepted if a
decision put it in and none listed later took it out (`Withdraws`). A record file
is created and filled in one step here; what an unfilled one does to later
listings is in `RecordFamilies`. `Accepted`
is the runtime's, `AcceptedInView` and `ViewState` are those of
`read-models/runtime.ts`, written separately there. A scope is the set of
points it speaks of. Decision ids count in creation order, which is how the
listing sorts what the index lacks; the clock of the check is free, since hosts
disagree. `override`, `now` and `after` (the operations that had returned) are
kept in the model's records for the properties only. Authority documents are
left out.

### RecordFamilies, ReadModelPages

`files` are all records, with whether they are filled. A call passes its checks
and holds its record (`Prepares`), creates the file (`CreateFile`) and fills it
(`FillFile`); `Crash` may stop it before or between. `Known` is the family of
`assertKnown...` functions: they list, and a listing throws on a file that is
not filled. Each builder is an operator of its name; records that refer to
nothing checked (claims, conflicts, reviews, clusters, equivalence) are one,
`Claim`. Intake names its file after digest and origin, proposes an authority
source before it writes (`IntakePropose`), and lists again when the file exists
(`IntakeRaced`). A transition of a workflow occurrence is a new record of the
same kind; nothing orders two of them, as in the code. Creation times are those
of the calls, all different: the code sorts records of one millisecond by their
ids (`evidence/store.ts:25-26`), so `IntakeAgrees`, `DuplicatesAreFlat` and
`HeadsStayAccepted` say nothing of two calls within one.

`ReadModelPages` adds the head tree and one client. `SortedBefore` is
`localeCompare` on time and reference, `PastCursor` the comparison of code
units; `CodeUnits` relates the two orders for paths. A listing is the set of its
items, and a page (`FirstItems`) those with fewer than `Limit` before them.

### PackageTransfer, ImportedHistory

`package` is the payload list in path order: decisions, whose paths are random
ids and so come in any order, then sources, then the workflow occurrence, which
stands for all families without an order of their own. `target` has the state of
the file at each payload's path. An import plans path by path (`PlanPayload`),
then per payload `SkipPayload`, or `CreatePayload`, `FillPayload` and, for a
decision, `AppendPayload`. `StopImport` is a crash or error; a later
`CallImport` is the retry. `Target` is `SourceAuthority` over what the target
can read. `ImportReceipt` and `ImportTree` of `ImportedHistory` put the records
of another project's first operation into the store recovery reads.

## 3. What TLC checks

| Run | Instance | Properties |
|---|---|---|
| `transactions_crash` | 3 processes, 3 operations, crashes, fairness | `TypeOK`, `MutualExclusion`, `CommittedChain`, `SettledIsComplete`, `EveryRunEnds`, `FailureIsRepaired`, `ImplementsHistory` |
| `transactions_any_fault` | 3 processes, 2 operations, all faults | `HeadCommitted`, `AncestryCommitted` |
| `restore_files` | 2 paths, 2 contents, 3 trees, 2 interruptions; with edits in between 2 trees, 1 interruption | `TypeOK`, `IntentAgrees`, `DriftKept`, `RestoreIsAtomic` |
| `sync_identity` | 2 paths, 2 contents, 2 scopes, 3 plans, 3 trees | `TypeOK`, `RevisionsUnique`, `TreesVerify`, `NodeHistorySound`, `SyncRecordsItsScope` |
| `gui_bridge` | both bridges, 2 clients, 2 paths, 2 contents, 2 previews, map limit 1, 3 trees, 2 outside steps | `TypeOK`, `ApprovalSpentOnce`, `BoundSyncAsApproved`, `BoundRestoreAsApproved`, `ConsentCoversConflicts` |
| `gui_app` | 2 projects, 1 reference, 3 calls, 4 moves of user and others | `TypeOK`, `ApplyMeansShown`, `AppliedAsShown` |
| `source_authority` | 2 processes, 2 sources, 2 revisions, 3 decisions (accepted, revoked), crash, 2 times | `TypeOK`, `OneRevisionPerSource`, `ReplayKeepsReturnOrder`, `ConflictsAreExplained`, `ViewAgrees`, `RevisionsAreKept` |
| `record_pages` | 2 callers, 3 calls, 3 origins of one content, crash; pages of 1 of 2 collections | `ReferencesResolve`, `IntakeAgrees`, `DuplicatesAreFlat`, `HeadsStayAccepted`, `WalkIsComplete` |
| `package_transfer` | 2 revisions, 2 decisions, 2 importers, 3 imports, stops | `WorkflowComesWhole`, `ImportsDoNotDefeatEachOther`, `ImportKeepsRecords` |
| `finding_gui_restore` | 1 project, 2 references | `RestoredAsShown` is violated |
| `finding_import_order` | 1 source accepted, then revoked | `ImportKeepsAuthority` is violated |
| `finding_import_fork` | 2 processes, crash, 1 import | `InterruptedIsReconciled` is violated |

Why the bounds suffice. Two operations race and a third builds on the result,
so three operation ids let a fork, its repair and a later commit happen; a
third process recovers while two others are at odds. With all faults two
operations are enough for a fork and for a second root, and three processes for
a recovery that removes the lock of a live transaction while a third begins. In
a restore two paths
allow one file done and one not, two contents allow a file that is neither old
nor new, two interruptions allow recovery to be interrupted. In planning two
paths are what a move or a shared node needs; three plans allow an interrupted
commit between two others. In the bridge a map limit of 1 with two previews
evicts; the code's limit of 100 differs only in the number. On the page three
calls are two previews that overtake each other and an Apply. Two sources can
conflict and two revisions supersede; three decisions are two that race after a
first. Three origins of one content let a duplicate of a duplicate arise; three
calls are a record, one that refers to it and one that races. Three imports are
two that race and a retry. Every counter that bounds a run is a named constant
(`MaxOps`, `MaxTrees`, `MaxPlans`, `MaxInterrupts`, `MaxOutside`, `MaxSources`,
`MaxDecisions`, `MaxClock`, `MaxCalls`, `MaxImports`, `MaxMoves`); since
behaviours stop there, deadlock is not checked.

Constraints narrow four runs, each in the MC module: `HastyBound` (the smaller
restore instance when users edit in between); `SourcesFirst` (sources are
registered before decisions are made: registering reads no decision) and
`FirstSettled` (the first decision accepts and returns before the others begin,
so that a conflict, a supersession or a revocation has something to meet; its
time is fixed, since nothing was accepted that it could be compared with);
`SourceHistory` and `TargetBefore` (a source project that registers, then
decides; a target with at most one of the package's files, or all of them).
`record_pages` takes `CodeUnits <- SameOrder`, file names whose locale order is
the order of their code units, so that the condition of `WalkIsComplete` on walks
of a tree (`OrdersAgree`) is met and those walks are checked; for other names the
property says nothing of a tree (section 5). Processes,
clients, contents, paths, sources, callers, importers and projects are
interchangeable and are symmetry sets where no liveness is checked.

### Fairness

`FairSpec`: weak fairness of the steps of every process that is in an operation
or a recovery. The code between two durable writes is synchronous and calls
nothing that waits: it takes its next step unless it throws or dies. Starting,
failing and crashing are never fair. `AttendedSpec` adds strong fairness of
starting a recovery while `dirty`: this is not in the code but the assumption
that somebody runs the command the error message recommends. Strong, because a
recovery may start only while nobody else is busy. `FailureIsRepaired` then
leads to a free lock and agreeing heads, with two exceptions: a dead process's
lock file without JSON, which recovery refuses to remove (`LockLeftTorn`), and a
`project.json` that was created and not filled, on which recovery throws
(`ProjectLeftTorn`). `ImplementsHistory` asks for publication under the second
condition only; its safety part has none.

## 4. What is proved

`MaterialTransactionsProofs`, from the assumptions `ProcsAssumption`,
`MaxOpsAssumption`, `FaultsAssumption` (the types of the constants):

* `TypeCorrect`: `Spec => []TypeOK`, by induction on `TypeOK` itself.
* `StoreInvariant`: `Spec => []StoreInv`. `HeadCommitted` is not inductive: the
  step that writes `HEAD` must know that the operation's receipt is on disk
  (`PublishingInv`), the step that writes the receipt that its tree follows a
  committed parent (`ReceiptInv`, `OwningInv`), and both that nobody else works
  on the same id (`OwningInv`, `IdsFresh`). `QuietStep` covers all steps that
  touch none of this. It holds under every fault, including overlapping
  recovery and racing inits: the lock is not used.
* `HeadsAreCommitted`, `AncestryIsCommitted`: the two parts a reader wants.
* `TransactionsExclude`: if `"overlap" \notin Faults`, `Spec =>
  []MutualExclusion`. The invariant says that the owner named by the lock file
  is the process past the exclusive create (`HoldsLock`) and that recovery runs
  alone (`RecoversAlone`). Without the hypothesis it is false (section 5).

and, when crashes are the only trouble (`Faults \subseteq {"crash"}`; section 5 has
what an error after the receipt, an overlapping recovery and a racing init do to
these statements):

* `HistoryInvariant`: the conjunction the three results below share. The committed
  operations are numbered along one chain (`Lineage` of the last one is all of
  them), every commit under way builds on its end, and a recovery under way
  knows which part of the repair is done (`Complete`, `Cleared`, `JobInv`). None
  is inductive alone: an init or sync extends the chain because the head it
  read was its end, which holds because whoever left the head behind is dead and
  every later operation waits for the recovery.
* `CommittedIsChain`: `CommittedChain`. `SettledAlwaysComplete`:
  `SettledIsComplete`.
* `HistoryRefined`: the initial states and steps of `CommittedHistory`, under the
  refinement mapping of `MaterialHistory`; with the fairness part, TLC checks
  this as `ImplementsHistory`.

`WorkingTreeRestoreProofs`, for any paths, contents, trees and interruptions:

* `RestoreInvariant`: a plan is made of trees that exist and its drift is what a
  scan saw (`PlanInv`), an intent has the effects of the plan it was written
  for (`IntentInv`), and the file loop has done the effects before its place and
  touched no path without one (`LoopInv`). Where no user edits in between
  (`hazards = {}`), the scan still tells the truth about the files
  (`ScanInv`, `FilesInv`); with edits it does not, and the statements about files
  are made for those behaviours only.
* `RestoreTypeCorrect`: `TypeOK`. `IntentAlwaysAgrees`: `IntentAgrees`.
  `DriftAlwaysKept`: the action property `DriftKept`.
* `RestoreRefinesAtomic`: `RestoreIsAtomic`, every step is a step of `AtomicRestore`
  or a stutter: recording a tree is where the restore takes place.

`SyncPlanningProofs`, for any paths, contents, scopes and bounds, from
`PathsAssumption`, `NoFileAssumption`, `ScopesAssumption`, `BoundsAssumption`:

* `SyncInvariant`: `SyncInv`. `RevisionsUnique` is not inductive: it says nothing of
  how a candidate got its numbers. `PlanInv` does, for each place of the scan
  (`PlanHolds`, by a least counterexample over the places): a planned revision of
  a known node is above everything of the node on disk and below what the plan
  has reserved, one of a new node is the only one, and every entry names a
  revision that is on disk or planned with the content the scan found
  (`RecordsPlanned`, `AllDifferent`). While a candidate is written this becomes
  `PendingInv` (what is left to write is new) and `CandidateInv` (what its entries
  name is on disk or left to write), so an interruption loses nothing that
  anything names. `StoreInv` has the rest: ids on disk are below `created`,
  numbers on disk have a greatest, trees name what is on disk.
* `SyncTypeCorrect`: `TypeOK`. `RevisionsAlwaysUnique`: `RevisionsUnique`.
  `TreesAlwaysVerify`: `TreesVerify`. `NodeHistoryAlwaysSound`: `NodeHistorySound`, whose
  second half needs `Continues` of every record of a plan and of a candidate.
* `SyncAlwaysRecordsItsScope`: the action property `SyncRecordsItsScope`. A plain
  plan of the files as they are shows as drift what differs from the head
  (`DriftIs`, from `PlanInv` again), and a commit makes the two equal in its scope
  and leaves both alone outside.

`GuiBridgeProofs`, for both constructions and any map limit, from the types of the
constants:

* `BridgeInvariant`: tokens are numbers handed out so far (`ReadingInv`), a stored
  plan is a preview of its tree (`PlansInv`), a token is in one place only: a
  call being previewed, a map, an execution or a tree's origin (`TokenInv`), and
  an execution carries the plan it took out of the map (`CallInv`). That no token
  is spent twice is inductive only with all the places it could hide.
* `BridgeTypeCorrect`: `TypeOK`. `ApprovalSpentAtMostOnce`: `ApprovalSpentOnce`.
  `SyncIsBound`, `RestoreIsBound`, `EditsAreReplacedByConsent`:
  `BoundSyncAsApproved`, `BoundRestoreAsApproved`, `ConsentCoversConflicts`.

`RecordFamiliesProofs`, about `PageSpec` of `ReadModelPages` (and so with a client
that pages and a head that moves), from `SubmissionsAssumption`,
`MaxCallsAssumption`, `LimitAssumption`, `CodeUnitsAssumption`, `NoCursorAssumption`:

* `RecordsInvariant`: `RecordsInv`. `ReferencesResolve` is not inductive: a call
  checks its references and writes later, so a record in a caller's hands must
  be as sound as one on disk (`CallsInv`), what was readable must stay readable
  and unchanged (`Grows`), names must say whose file it is (`Named`), and
  creation times must tell records apart (`TimesInv`), which is what makes the
  first record of a content unique and the last accepted one move forward.
* `ReferencesAlwaysResolve`, `IntakeAlwaysAgrees`, `DuplicatesAlwaysFlat` follow
  from it; `HeadsAlwaysStayAccepted` is an action property from it.
* `WalkInvariant`: `WalkInv`, for any two orders of the file names: of a walk of the
  tree it speaks if they agree (`OrdersAgree`). What has been seen is not past the
  cursor (`SeenInv`); what is owed has been seen or is past it (`OwedInv`); for the
  head tree this is said only while the cursor is of the tree there is
  (`TreeOwedInv`), because a head that moves puts all its entries past the cursor
  again. A record written between two pages is not owed, wherever it sorts, and
  takes away nothing that is.
* `WalksAlwaysComplete`: `WalkIsComplete` from it, with the same condition on walks of
  a tree. Without it the statement is false (`PaginationIsStable`, section 5).

`GuiAppProofs`, from `CommandsAssumption` and `GuiBoundsAssumption`:

* `PageInvariant`: `PageInv`. Tokens in the page, in calls and in the maps are
  plans handed out, and an Apply under way carries the token that was on the
  panel at the click (`CallInv`), which `ApplyMeansShown` made true then.
* `PageTypeCorrect`, `ApplyAlwaysMeansShown`; `AlwaysAppliedAsShown` is an action
  property from the invariant: the page's part (the command selected at the
  click) and the server's (token, operation, root, head) together.

`SourceAuthorityProofs`, for any set of processes and sources; of the constants
the module assumes only that intervals and bounds are numbers and that outcomes
are the code's:

* `RevisionsInvariant`: `RevisionsInv`. The revisions of a source are `1..k`
  (`Gapless`), and a process between its listing and its write holds a number
  whose predecessor exists (`PendingSource`). The number may be taken by then,
  and the exclusive create refuses it; revisions only ever grow (`Grow`), so the
  predecessor cannot disappear.
* `RevisionsAlwaysKept`: `RevisionsAreKept` from that invariant and `Grow`.
* `AuthorityInvariant`: `AuthorityInv`. A decision read the list before it wrote:
  what a caller holds must be as sound as a file (`JobInv`, `RecordInv`), its id
  nobody else's (`IdsInv`), and what was indexed when it began must stay ahead of
  it (`DecisionsGrow`: appending to the index moves the entries it lacks, never
  one against what comes before it). `Cleared` is what the check for scope
  conflicts leaves for ever: an acceptance that had returned and overlapped
  belongs to a revision the new one supersedes, or was taken back.
* From it `AuthorityTypeCorrect`: `TypeOK`; `ReplayAlwaysKeepsOrder`:
  `ReplayKeepsReturnOrder`; `OneRevisionAlways`: `OneRevisionPerSource`, because
  of two acceptances the later in the list takes out the other's revision;
  `ViewAlwaysAgrees`: `ViewAgrees`, although the view's replay takes out registered
  siblings where the runtime's takes out accepted ones;
  `ConflictsAlwaysExplained`: `ConflictsAreExplained`.

`PackageTransferProofs`, about `PackageSpec`, for any package, set of importers
and files in the target, with or without stops, and `MaxImportsAssumption`:

* `TransferInvariant`: `TransferInv`. A package is in path order with the workflow
  last (`Ordered`, which `PathOrdersAreOrdered` derives from the export), and a
  call's plan and place mean that the payloads before it are in the target
  (`StepInv`). `WorkflowComesWhole` alone is not inductive: without `StepInv` a
  stale plan could write the workflow over a gap. What is written stays
  (`SameStays`), so a call that another one overtakes keeps its part.
* `WorkflowAlwaysWhole`: `WorkflowComesWhole`.
* `RecordsInvariant`: `RecordsInv`. Payloads are all different (`PackageInv`), a file
  a call has created and not filled, or filled and not indexed, is in its hands
  only (`HandInv`), and the index names decisions that are there (`IndexInv`).
  `RecordsAlwaysKept`: `ImportKeepsRecords`, from the exclusive create and `HandInv`.
* `RaceInvariant`: `RaceInv`. Of imports that race one is always ahead: nothing it
  still means to create exists (`Ahead`). That this passes on is `BehindInv`: who
  finds a later payload created finds everything before it, so a create that
  succeeds puts its call ahead, and one that fails was not.
  `ImportsNeverDefeatEachOther`: `ImportsDoNotDefeatEachOther`.

Model-checked only: liveness under fairness (`EveryRunEnds`, `FailureIsRepaired`, the
fairness part of `ImplementsHistory`) and with it `ENABLED`, which are beyond the
prover, and the properties of the `finding_` runs, which are false. Every other
property of a passing run is a theorem. Folds and the induction theorems of the
library take an operator as a parameter, which the provers cannot instantiate;
where a recursion is over numbers, as in `Lineage`, in the scan of a plan and in
the search for the oldest preview, the proofs take a least counterexample instead
(`WFMin` of `WellFoundedInduction`).

## 5. Where code and documents disagree

Three have a run that shows them; `PROJECT.json` quotes both sides.

1. A restore executes the reference typed after the preview
   (`finding_gui_restore`).
2. A package replays registration decisions in the order of their random ids,
   so a revoked source may be authoritative where it is imported
   (`finding_import_order`).
3. A package brings receipts of another project's history; recovery counts them
   and stops repairing the project's own (`finding_import_fork`). That a fork is
   reported and not repaired is documented (`STORAGE_AND_RECOVERY.md:39` of
   release 1.0.1); that an ordinary import makes one, in a project that had none,
   is the defect.

Others are stated in the modules and need no run of their own. TLC refutes them
when the property is added to the named instance:

* `SettledIsComplete` with `late_throw`: an error after the receipt releases the
  lock with `HEAD` behind (`operations/runtime.ts:685`); the next sync forks the
  chain and recovery refuses a fork.
* `InitIsCompleted` under `AttendedSpec` with crashes (2 processes, 1 operation):
  `docs/releases/v1.0.1/files/docs/STORAGE_AND_RECOVERY.md:34` says an
  `init_project` intent "completes interrupted publication". `init` creates
  `project.json` and then writes it (`material/store.ts:108-114`,
  `core/json.ts:59-69`); after a crash in between the file is empty, which counts
  as initialized, and every recovery throws where it reads it
  (`transactions/recovery.ts:173`). Safety is not lost: nothing else starts.
* `HeadNeverGoesBack` with `overlap` (2 processes, 2 operations): a recovery that
  has decided on a tree writes `HEAD` although a transaction has committed since
  (`transactions/recovery.ts:176`, `:485`).
* `MutualExclusion` with `overlap`: recovery and the `finally` block remove
  `LOCK` by path (`transactions/recovery.ts:126`), so a slow recovery removes a
  live transaction's lock (3 processes).
* `RefusedInitCommitsNothing` with `init_race`: an init that passed the check
  before the lock is refused after its receipt was written
  (`operations/runtime.ts:446`), while `cli/format.ts:289` says that no version
  was committed.
* `EditsKept` in `restore_files`: recovery replays a restore over files edited
  since the interruption (`transactions/recovery.ts:221`).
* `SyncAsApproved` in `gui_bridge`: the service-backed bridge checks only the
  head, so a sync commits files changed after the approved preview
  (`application/service.ts:189-192`).
* `RevocationHolds` in `source_authority` with one process: a decision that a
  crash left out of the index is replayed after everything indexed, so an
  acceptance cut short before its index entry comes after a later revocation
  (`authority/store.ts:120`, `:145-151`).
* `IntakeProposesOnce` in `record_pages`: intake proposes the authority source
  first and then writes its record, so a race or a retry after a crash proposes
  it twice (`evidence/runtime.ts:351`; `tests/README.md:18` speaks of idempotent
  intake).
* `PaginationIsStable` in `record_pages` with `CodeUnits <- MixedCase`:
  `docs/releases/v1.1.0/files/docs/release_notes/GITHUB_RELEASE_NOTE_V1_1_0.md:32`
  promises "Stable ordering, filtering, pagination". Pages are sorted by
  `localeCompare` and continued by code units (`read-models/runtime.ts:187-192`,
  `:772`), so a walk of a tree with names of mixed case, `README.md` beside
  `package.json`, skips or repeats entries.

Observed while modelling:

* Material: after a sync that records a removal, `status` says "clean", yet a
  second sync commits a tree that differs in `removed_paths` only
  (`material/digest.ts:29-50`, `operations/runtime.ts:626`). A node restore
  commits the drift that the command line calls "Preserved unrelated drift (left
  untouched)" (`cli/format.ts:236-240`). A crash between creating and writing
  `LOCK` leaves a lock that the recovery recommended at `material/store.ts:494`
  never removes.
* Bridge: the service-backed bridge runs a restore with no bindings and no
  overwrite choice, reports `committed` for every outcome, and its `recover`
  calls only `status` (`gui/bridge.ts:943-1009`). A preview with a scope is
  refused on execution when other files exist (`operations/runtime.ts:564-575`).
  A restore preview with `overwrite` omitted stores FALSE and is refused if the
  execution omits it too (`operations/runtime.ts:817`).
* Page: the error branch of `renderPreview` leaves the status pill on "loading"
  (`apps/gui/src/app.js:259-280`); an Apply that fails on the way keeps a token
  the server may have spent.
* Records: `docs/architecture/EXPFLOW_PROTOCOL_SPEC_V2_3.md:566` says manifest
  heads are promoted by compare-and-swap; the code derives the head from the
  listing and compares nothing. `HeadsStayAccepted` is what that still gives. An
  output transition copies an accepted completion to an occurrence with another
  output (`workflows/runtime.ts:103-122`).
* Packages: an import does not repeat the check for scope conflicts. A stop
  between a decision's file and its index entry is not made good by a retry,
  which skips the file. A torn file makes every later plan throw.
* Read models: `sourceStates` calls a revision "accepted" after another revision
  of its source has taken its place.

## 6. What is not modelled

Security controls, migration evidence, extensions, schemas, the command line and
the Python package hold no protocol of their own: each is a pure function, a
discovery of files or one exclusive write, which `RecordFamilies` has. Repository
tools run at build time. Of modelled parts: user-supplied restore changes and
similarity proposals of a sync; staging directories, foreign hosts, reuse of
process ids and corrupt records in recovery; authority documents; payloads of
objects and files and the inside of package validation (whether it refuses is
free); filters and summaries of read models; origin and token checks of the GUI
server. File formats, digests and JSON are abstracted to equality; digests do
not collide.

## 7. What could follow

Models first: a sync with user-supplied `restore` changes in `SyncPlanning`; scoped
previews in `GuiBridge`; host names and reused process ids of a lock in
`MaterialTransactions`; a repair of intake's order, for which `IntakeProposesOnce` is
the property to prove. Then the refinement of `SyncPlanning`'s commits by
`MaterialTransactions`, so that one theorem speaks of numbers and of crashes
together.
