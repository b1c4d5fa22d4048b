------------------------ MODULE MaterialTransactions ------------------------
(***************************************************************************)
(* The control of one Expflow project store shared by several OS processes *)
(* (src/operations/runtime.ts, src/material/store.ts,                      *)
(* src/transactions/recovery.ts): the LOCK file, HEAD, project.json, the   *)
(* immutable tree revisions and operation receipts, the recovery intents,  *)
(* and the three mutating operations init, sync and restore, each as the   *)
(* sequence of durable writes it makes, interleaved with other processes,  *)
(* with process crashes, with operations that throw, and with recovery,    *)
(* which runs without the lock.                                            *)
(*                                                                         *)
(* What files hold is the subject of WorkingTreeRestore and SyncPlanning:  *)
(* here, whether a scan equals the head tree is an input.  An operation    *)
(* creates at most one tree, so one number stands for its operation id and *)
(* its tree id.                                                            *)
(***************************************************************************)
EXTENDS Integers, FiniteSets

CONSTANTS
    Procs,      \* OS processes that use the project
    NoProc,     \* owner of a lock file that does not exist
    MaxOps,     \* bound on the operations that reach their transaction
    Faults      \* which of FaultKinds the environment may produce

(***************************************************************************)
(* crash      a process stops between any two durable steps, for ever      *)
(* late_throw an operation throws after its receipt is durable (a failed   *)
(*            rename, fsync or working-tree write); throws before that are *)
(*            always possible                                              *)
(* overlap    recovery runs while other processes are in an operation      *)
(* unrecovered operations are started although a failure was not yet       *)
(*            followed by a recovery that ran to its end                   *)
(* init_race  init is started while another process is in an operation     *)
(***************************************************************************)
FaultKinds == {"crash", "late_throw", "overlap", "unrecovered", "init_race"}

ASSUME ProcsAssumption == NoProc \notin Procs
ASSUME MaxOpsAssumption == MaxOps \in Nat
ASSUME FaultsAssumption == Faults \subseteq FaultKinds

VARIABLES
    lock,        \* .expflow/LOCK: its owner and whether its JSON is written
    head,        \* .expflow/HEAD
    initialized, \* project.json exists
    projectHead, \* its head_tree_revision_id; Null while the file is empty
    trees,       \* tree-revisions/<id>.json
    receipts,    \* receipts/<op>.json
    intents,     \* recovery/<op>.json: its intent_type
    issued,      \* number of operation ids handed out
    dirty,       \* a failure happened and no recovery ran to its end since
    pc, job,     \* per process: the next step, and the operation it belongs to
    op, prev,    \* per process: the operation (or intent, or repair target); previousHead
    todo         \* per process: intents recovery listed and has not handled

durable == <<lock, head, initialized, projectHead, trees, receipts, intents>>
locals  == <<pc, job, op, prev, todo>>
vars    == <<durable, issued, dirty, locals>>

-----------------------------------------------------------------------------
Null == 0
Ids  == 1..MaxOps
Heads == Ids \cup {Null}

NoLock    == [owner |-> NoProc, written |-> FALSE]
NoTree    == [parent |-> Null, sequence |-> 0]
NoReceipt == [status |-> "none", previous_head |-> Null, new_head |-> Null]

Jobs == {"none", "init", "sync", "restore", "recover"}
OpSteps == {"lock", "stamp", "begin", "intent", "records", "receipt",
            "project", "fill", "head", "clear", "release"}
RecoverySteps == {"r_lock", "r_unlock", "r_list", "r_intent", "r_init_project",
                  "r_init_fill", "r_init_head", "r_restore_head", "r_restore_project", "r_clear",
                  "r_latest", "r_fix_head", "r_fix_project"}
Steps == {"idle", "dead"} \cup OpSteps \cup RecoverySteps

Busy(p)       == pc[p] \notin {"idle", "dead"}
Recovering(p) == Busy(p) /\ job[p] = "recover"
OthersQuiet(p) == \A q \in Procs \ {p} : ~Busy(q)

\* A live process that has the lock file to itself, as far as it knows.
InTransaction(p) == pc[p] \in OpSteps \ {"lock", "stamp"}

\* project.json is created and then written: in between, and for ever if nobody
\* writes it any more, isProjectInitialized is true and readProject throws.
TornProject == initialized /\ projectHead = Null

IsMaterialSuccessReceipt(o) == receipts[o].status = "committed"
TreeExists(o) == trees[o].sequence > 0
Committed == {o \in Ids : IsMaterialSuccessReceipt(o)}

-----------------------------------------------------------------------------
(* The causal repair candidate of reconcileMutableHeads. *)

\* readTreeRevision succeeds and tree, receipt and parent agree.
VerifiedCandidates ==
    {o \in Committed :
        /\ receipts[o].new_head = o
        /\ TreeExists(o)
        /\ trees[o].parent = receipts[o].previous_head}

\* The step chainIsValid takes from o to its parent, inside the set S.
FollowsParent(o, S) ==
    IF trees[o].parent = Null
    THEN trees[o].sequence = 1
    ELSE /\ trees[o].parent \in S
         /\ trees[o].sequence = trees[trees[o].parent].sequence + 1

\* Sequences decrease towards the root, so the largest closed set is what
\* the recursion with memo and visiting accepts.
ChainValid ==
    UNION {S \in SUBSET VerifiedCandidates : \A o \in S : FollowsParent(o, S)}

Forked == \E o1, o2 \in ChainValid : o1 # o2 /\ trees[o1].parent = trees[o2].parent

HighestCandidates ==
    {o \in ChainValid : \A q \in ChainValid : trees[q].sequence <= trees[o].sequence}

\* Mutant: heads are never reconciled with the receipts.
NoCandidate == Null

LatestCausalCandidate ==
    IF ~Forked /\ \E o \in Ids : HighestCandidates = {o}
    THEN CHOOSE o \in Ids : HighestCandidates = {o}
    ELSE Null

-----------------------------------------------------------------------------
Init ==
    /\ lock = NoLock
    /\ head = Null
    /\ initialized = FALSE
    /\ projectHead = Null
    /\ trees = [o \in Ids |-> NoTree]
    /\ receipts = [o \in Ids |-> NoReceipt]
    /\ intents = [o \in Ids |-> "none"]
    /\ issued = 0
    /\ dirty = FALSE
    /\ pc = [p \in Procs |-> "idle"]
    /\ job = [p \in Procs |-> "none"]
    /\ op = [p \in Procs |-> Null]
    /\ prev = [p \in Procs |-> Null]
    /\ todo = [p \in Procs |-> {}]

Goto(p, step) == pc' = [pc EXCEPT ![p] = step]

\* p is outside every operation; its locals mean nothing any more.
Leave(p) ==
    /\ Goto(p, "idle")
    /\ job' = [job EXCEPT ![p] = "none"]
    /\ op' = [op EXCEPT ![p] = Null]
    /\ prev' = [prev EXCEPT ![p] = Null]
    /\ todo' = [todo EXCEPT ![p] = {}]

-----------------------------------------------------------------------------
(* init, sync, restore: the entry checks, before the lock. *)

MayStart(p) ==
    /\ pc[p] = "idle"
    /\ "unrecovered" \in Faults \/ ~dirty
    /\ "overlap" \in Faults \/ \A q \in Procs : ~Recovering(q)

Enter(p, operation) ==
    /\ Goto(p, "lock")
    /\ job' = [job EXCEPT ![p] = operation]
    /\ UNCHANGED <<durable, issued, dirty, op, prev, todo>>

\* isProjectInitialized is read before the lock is taken.
StartInit(p) ==
    /\ MayStart(p)
    /\ ~initialized
    /\ "init_race" \in Faults \/ OthersQuiet(p)
    /\ Enter(p, "init")

\* readProject, before the lock is taken, needs a project.json with content.
StartSync(p) ==
    /\ MayStart(p)
    /\ initialized /\ ~TornProject
    /\ Enter(p, "sync")

StartRestore(p) ==
    /\ MayStart(p)
    /\ initialized /\ ~TornProject
    /\ Enter(p, "restore")

\* Mutant: LOCK is opened without the exclusive flag.
CreateLockShared(p) ==
    /\ pc[p] = "lock"
    /\ lock' = [owner |-> p, written |-> FALSE]
    /\ Goto(p, "stamp")
    /\ UNCHANGED <<head, initialized, projectHead, trees, receipts, intents, issued, dirty,
                   job, op, prev, todo>>

\* Mutant: a second process waits for LOCK to disappear.
CreateLockWaiting(p) ==
    /\ lock = NoLock
    /\ CreateLockShared(p)

(* createLock: exclusive create, then write and fsync of the JSON. *)

CreateLock(p) ==
    /\ pc[p] = "lock"
    /\ \/ /\ lock = NoLock
          /\ lock' = [owner |-> p, written |-> FALSE]
          /\ Goto(p, "stamp")
          /\ UNCHANGED <<job, op, prev, todo>>
       \/ /\ lock # NoLock                      \* project_locked
          /\ Leave(p)
          /\ UNCHANGED lock
    /\ UNCHANGED <<head, initialized, projectHead, trees, receipts, intents, issued, dirty>>

\* The write goes to p's file: nothing appears if it was unlinked meanwhile.
StampLock(p) ==
    /\ pc[p] = "stamp"
    /\ lock' = IF lock.owner = p THEN [lock EXCEPT !.written = TRUE] ELSE lock
    /\ Goto(p, "begin")
    /\ UNCHANGED <<head, initialized, projectHead, trees, receipts, intents,
                   issued, dirty, job, op, prev, todo>>

(***************************************************************************)
(* Under the lock: read HEAD, compare expectedHead, allocate the operation *)
(* id, scan and plan.  init never reads HEAD.  The outcomes without a tree *)
(* are stale_head, restore_conflict and the other binding errors (nothing  *)
(* written) and a sync that finds no change (a no_change receipt).         *)
(***************************************************************************)
Begin(p) ==
    /\ pc[p] = "begin"
    /\ issued < MaxOps
    /\ LET new == issued + 1
           previousHead == IF job[p] = "init" THEN Null ELSE head
       IN  /\ issued' = new
           /\ op' = [op EXCEPT ![p] = new]
           /\ prev' = [prev EXCEPT ![p] = previousHead]
           /\ \/ /\ Goto(p, IF job[p] = "sync" THEN "records" ELSE "intent")
                 /\ UNCHANGED receipts
              \/ /\ job[p] = "sync"
                 /\ previousHead # Null
                 /\ receipts' = [receipts EXCEPT ![new] =
                        [status |-> "no_change", previous_head |-> previousHead,
                         new_head |-> previousHead]]
                 /\ Goto(p, "release")
    /\ UNCHANGED <<lock, head, initialized, projectHead, trees, intents, dirty, job, todo>>

Refuse(p) ==
    /\ pc[p] = "begin"
    /\ Goto(p, "release")
    /\ UNCHANGED <<durable, issued, dirty, job, op, prev, todo>>

\* Mutant: the intent is filed under the name of the operation.
WriteIntentOfJob(p) ==
    /\ pc[p] = "intent"
    /\ intents' = [intents EXCEPT ![op[p]] = job[p]]
    /\ Goto(p, "records")
    /\ UNCHANGED <<lock, head, initialized, projectHead, trees, receipts,
                   issued, dirty, job, op, prev, todo>>

\* writeRecoveryIntent of init and restore; sync writes none.
WriteIntent(p) ==
    /\ pc[p] = "intent"
    /\ intents' = [intents EXCEPT ![op[p]] =
                      IF job[p] = "init" THEN "init_project" ELSE "restore_working_tree"]
    /\ Goto(p, "records")
    /\ UNCHANGED <<lock, head, initialized, projectHead, trees, receipts,
                   issued, dirty, job, op, prev, todo>>

\* commitCandidateTree: objects, node revisions, then the tree that names them.
WriteRecords(p) ==
    /\ pc[p] = "records"
    /\ trees' = [trees EXCEPT ![op[p]] =
                    [parent |-> prev[p],
                     sequence |-> IF prev[p] = Null THEN 1 ELSE trees[prev[p]].sequence + 1]]
    /\ Goto(p, "receipt")
    /\ UNCHANGED <<lock, head, initialized, projectHead, receipts, intents,
                   issued, dirty, job, op, prev, todo>>

\* Mutant: previous_head is what HEAD says when the receipt is written.
WriteReceiptOfHead(p) ==
    /\ pc[p] = "receipt"
    /\ receipts' = [receipts EXCEPT ![op[p]] =
                       [status |-> "committed", previous_head |-> head, new_head |-> op[p]]]
    /\ Goto(p, IF job[p] = "init" THEN "project" ELSE "head")
    /\ UNCHANGED <<lock, head, initialized, projectHead, trees, intents,
                   issued, dirty, job, op, prev, todo>>

\* The receipt is the commit point of the operation.
WriteReceipt(p) ==
    /\ pc[p] = "receipt"
    /\ receipts' = [receipts EXCEPT ![op[p]] =
                       [status |-> "committed", previous_head |-> prev[p], new_head |-> op[p]]]
    /\ Goto(p, IF job[p] = "init" THEN "project" ELSE "head")
    /\ UNCHANGED <<lock, head, initialized, projectHead, trees, intents,
                   issued, dirty, job, op, prev, todo>>

\* init publishes project.json before HEAD and refuses to replace one: like
\* LOCK, it is created exclusively and then written (FillProject).  sync and
\* restore, which have read it, replace it after HEAD in one step.
PublishProject(p) ==
    /\ pc[p] = "project"
    /\ \/ /\ job[p] = "init" /\ initialized       \* project_already_initialized
          /\ dirty' = TRUE
          /\ Goto(p, "release")
          /\ UNCHANGED <<initialized, projectHead>>
       \/ /\ job[p] = "init" /\ ~initialized
          /\ initialized' = TRUE
          /\ Goto(p, "fill")
          /\ UNCHANGED <<projectHead, dirty>>
       \/ /\ job[p] # "init"
          /\ projectHead' = op[p]
          /\ Goto(p, IF job[p] = "restore" THEN "clear" ELSE "release")
          /\ UNCHANGED <<initialized, dirty>>
    /\ UNCHANGED <<lock, head, trees, receipts, intents, issued, job, op, prev, todo>>

FillProject(p) ==
    /\ pc[p] = "fill"
    /\ projectHead' = op[p]
    /\ Goto(p, "head")
    /\ UNCHANGED <<lock, head, initialized, trees, receipts, intents,
                   issued, dirty, job, op, prev, todo>>

WriteHead(p) ==
    /\ pc[p] = "head"
    /\ head' = op[p]
    /\ Goto(p, IF job[p] = "init" THEN "clear" ELSE "project")
    /\ UNCHANGED <<lock, initialized, projectHead, trees, receipts, intents,
                   issued, dirty, job, op, prev, todo>>

ClearIntent(p) ==
    /\ pc[p] = "clear"
    /\ intents' = [intents EXCEPT ![op[p]] = "none"]
    /\ Goto(p, "release")
    /\ UNCHANGED <<lock, head, initialized, projectHead, trees, receipts,
                   issued, dirty, job, op, prev, todo>>

\* The finally block unlinks whatever LOCK file is there.
Release(p) ==
    /\ pc[p] = "release"
    /\ lock' = NoLock
    /\ Leave(p)
    /\ UNCHANGED <<head, initialized, projectHead, trees, receipts, intents, issued, dirty>>

(***************************************************************************)
(* An exception goes to the finally block and leaves intent and records.   *)
(***************************************************************************)
ThrowEarly(p) ==
    /\ pc[p] \in {"intent", "records", "receipt"}
    /\ Goto(p, "release")
    /\ UNCHANGED <<durable, issued, dirty, job, op, prev, todo>>

ThrowLate(p) ==
    /\ "late_throw" \in Faults
    /\ pc[p] \in {"project", "fill", "head", "clear"}
    /\ dirty' = TRUE
    /\ Goto(p, "release")
    /\ UNCHANGED <<durable, issued, job, op, prev, todo>>

\* createLock fails after the exclusive create: the file stays, without JSON,
\* and no finally block is active yet.
ThrowInLock(p) ==
    /\ "late_throw" \in Faults
    /\ pc[p] = "stamp"
    /\ dirty' = TRUE
    /\ Leave(p)
    /\ UNCHANGED <<durable, issued>>

\* The process is gone; only what is on disk stays.
Crash(p) ==
    /\ "crash" \in Faults
    /\ Busy(p)
    /\ \E q \in Procs \ {p} : pc[q] # "dead"
    /\ dirty' = TRUE
    /\ Goto(p, "dead")
    /\ job' = [job EXCEPT ![p] = "none"]
    /\ op' = [op EXCEPT ![p] = Null]
    /\ prev' = [prev EXCEPT ![p] = Null]
    /\ todo' = [todo EXCEPT ![p] = {}]
    /\ UNCHANGED <<durable, issued>>

-----------------------------------------------------------------------------
(* recoverProject: never takes the lock. *)

StartRecover(p) ==
    /\ pc[p] = "idle"
    /\ "overlap" \in Faults \/ OthersQuiet(p)
    /\ Goto(p, "r_lock")
    /\ job' = [job EXCEPT ![p] = "recover"]
    /\ UNCHANGED <<durable, issued, dirty, op, prev, todo>>

\* Mutant: recovery goes on past a dead owner's lock and leaves it there.
RecoverKeepLock(p) ==
    /\ pc[p] = "r_lock"
    /\ Goto(p, "r_list")
    /\ UNCHANGED <<durable, issued, dirty, job, op, prev, todo>>

\* recoverLock: a lock without JSON or of a live process ends the recovery.
RecoverReadLock(p) ==
    /\ pc[p] = "r_lock"
    /\ \/ /\ lock = NoLock
          /\ Goto(p, "r_list")
          /\ UNCHANGED <<job, op, prev, todo>>
       \/ /\ lock # NoLock
          /\ lock.written
          /\ pc[lock.owner] = "dead"
          /\ Goto(p, "r_unlock")
          /\ UNCHANGED <<job, op, prev, todo>>
       \/ /\ lock # NoLock
          /\ ~lock.written \/ pc[lock.owner] # "dead"
          /\ Leave(p)
    /\ UNCHANGED <<durable, issued, dirty>>

\* The file is removed by path, whatever it holds by now.
RecoverRemoveLock(p) ==
    /\ pc[p] = "r_unlock"
    /\ lock' = NoLock
    /\ Goto(p, "r_list")
    /\ UNCHANGED <<head, initialized, projectHead, trees, receipts, intents,
                   issued, dirty, job, op, prev, todo>>

RecoverListIntents(p) ==
    /\ pc[p] = "r_list"
    /\ todo' = [todo EXCEPT ![p] = {o \in Ids : intents[o] # "none"}]
    /\ Goto(p, "r_intent")
    /\ UNCHANGED <<durable, issued, dirty, job, op, prev>>

\* Mutant: every intent is completed, whether or not its receipt was written.
RecoverIntentBlindly(p) ==
    /\ pc[p] = "r_intent"
    /\ \E o \in todo[p] :
        /\ intents[o] # "none"
        /\ op' = [op EXCEPT ![p] = o]
        /\ Goto(p, IF intents[o] = "init_project" THEN "r_init_project" ELSE "r_restore_head")
    /\ UNCHANGED <<durable, issued, dirty, job, prev, todo>>

\* Ids are random, so the sorted order of the listing is any order.
RecoverIntent(p) ==
    /\ pc[p] = "r_intent"
    /\ \E o \in todo[p] :
        \/ /\ intents[o] = "none"                  \* gone since the listing: ENOENT
           /\ Leave(p)
           /\ UNCHANGED intents
        \/ /\ intents[o] # "none"
           /\ ~IsMaterialSuccessReceipt(o)
           /\ intents' = [intents EXCEPT ![o] = "none"]
           /\ todo' = [todo EXCEPT ![p] = @ \ {o}]
           /\ UNCHANGED <<pc, job, op, prev>>
        \/ /\ intents[o] # "none"
           /\ IsMaterialSuccessReceipt(o)
           /\ op' = [op EXCEPT ![p] = o]
           /\ Goto(p, IF intents[o] = "init_project" THEN "r_init_project"
                                                     ELSE "r_restore_head")
           /\ UNCHANGED <<intents, job, prev, todo>>
    /\ UNCHANGED <<lock, head, initialized, projectHead, trees, receipts, issued, dirty>>

\* recoverInitIntent: project.json is written, or its head set, before HEAD.
\* An empty one ends the recovery: readProject throws.
RecoverInitProject(p) ==
    /\ pc[p] = "r_init_project"
    /\ \/ /\ ~initialized
          /\ initialized' = TRUE
          /\ Goto(p, "r_init_fill")
          /\ UNCHANGED <<projectHead, job, op, prev, todo>>
       \/ /\ TornProject
          /\ Leave(p)
          /\ UNCHANGED <<initialized, projectHead>>
       \/ /\ initialized /\ ~TornProject
          /\ projectHead' = op[p]
          /\ Goto(p, "r_init_head")
          /\ UNCHANGED <<initialized, job, op, prev, todo>>
    /\ UNCHANGED <<lock, head, trees, receipts, intents, issued, dirty>>

RecoverFillProject(p) ==
    /\ pc[p] = "r_init_fill"
    /\ projectHead' = op[p]
    /\ Goto(p, "r_init_head")
    /\ UNCHANGED <<lock, head, initialized, trees, receipts, intents,
                   issued, dirty, job, op, prev, todo>>

\* writeHead to the target of the intent; HEAD's present value is not looked at.
RecoverIntentHead(p) ==
    /\ pc[p] \in {"r_init_head", "r_restore_head"}
    /\ head' = op[p]
    /\ Goto(p, IF pc[p] = "r_init_head" THEN "r_clear" ELSE "r_restore_project")
    /\ UNCHANGED <<lock, initialized, projectHead, trees, receipts, intents,
                   issued, dirty, job, op, prev, todo>>

RecoverRestoreProject(p) ==
    /\ pc[p] = "r_restore_project"
    /\ projectHead' = op[p]
    /\ Goto(p, "r_clear")
    /\ UNCHANGED <<lock, head, initialized, trees, receipts, intents,
                   issued, dirty, job, op, prev, todo>>

RecoverClearIntent(p) ==
    /\ pc[p] = "r_clear"
    /\ intents' = [intents EXCEPT ![op[p]] = "none"]
    /\ todo' = [todo EXCEPT ![p] = @ \ {op[p]}]
    /\ op' = [op EXCEPT ![p] = Null]
    /\ Goto(p, "r_intent")
    /\ UNCHANGED <<lock, head, initialized, projectHead, trees, receipts,
                   issued, dirty, job, prev>>

RecoverIntentsDone(p) ==
    /\ pc[p] = "r_intent"
    /\ todo[p] = {}
    /\ Goto(p, "r_latest")
    /\ UNCHANGED <<durable, issued, dirty, job, op, prev, todo>>

\* reconcileMutableHeads decides from one reading of receipts, trees and heads.
RecoverDecide(p) ==
    /\ pc[p] = "r_latest"
    /\ LET latest == LatestCausalCandidate
       IN \/ /\ TornProject                       \* readProject throws
             /\ Leave(p)
             /\ UNCHANGED dirty
          \/ /\ ~TornProject
             /\ latest # Null
             /\ head # latest \/ projectHead # latest
             /\ op' = [op EXCEPT ![p] = latest]
             /\ Goto(p, "r_fix_head")
             /\ UNCHANGED <<dirty, job, prev, todo>>
          \/ /\ ~TornProject
             /\ latest = Null \/ (head = latest /\ projectHead = latest)
             /\ dirty' = FALSE
             /\ Leave(p)
    /\ UNCHANGED <<durable, issued>>

RecoverFixHead(p) ==
    /\ pc[p] = "r_fix_head"
    /\ head' = op[p]
    /\ Goto(p, "r_fix_project")
    /\ UNCHANGED <<lock, initialized, projectHead, trees, receipts, intents,
                   issued, dirty, job, op, prev, todo>>

\* Mutant: only HEAD is repaired.
RecoverFixHeadOnly(p) ==
    /\ pc[p] = "r_fix_project"
    /\ dirty' = FALSE
    /\ Leave(p)
    /\ UNCHANGED <<durable, issued>>

\* updateProjectHead, if project.json exists; an empty one makes it throw.
RecoverFixProject(p) ==
    /\ pc[p] = "r_fix_project"
    /\ \/ /\ TornProject
          /\ UNCHANGED <<projectHead, dirty>>
       \/ /\ ~TornProject
          /\ projectHead' = IF initialized THEN op[p] ELSE projectHead
          /\ dirty' = FALSE
    /\ Leave(p)
    /\ UNCHANGED <<lock, head, initialized, trees, receipts, intents, issued>>

-----------------------------------------------------------------------------
OperationStep(p) ==
    \/ CreateLock(p) \/ StampLock(p) \/ Begin(p) \/ Refuse(p)
    \/ WriteIntent(p) \/ WriteRecords(p) \/ WriteReceipt(p)
    \/ PublishProject(p) \/ FillProject(p) \/ WriteHead(p) \/ ClearIntent(p) \/ Release(p)

RecoveryStep(p) ==
    \/ RecoverReadLock(p) \/ RecoverRemoveLock(p) \/ RecoverListIntents(p)
    \/ RecoverIntent(p) \/ RecoverInitProject(p) \/ RecoverFillProject(p)
    \/ RecoverIntentHead(p) \/ RecoverRestoreProject(p) \/ RecoverClearIntent(p) \/ RecoverIntentsDone(p)
    \/ RecoverDecide(p) \/ RecoverFixHead(p) \/ RecoverFixProject(p)

Start(p) == StartInit(p) \/ StartSync(p) \/ StartRestore(p) \/ StartRecover(p)
Fail(p)  == ThrowEarly(p) \/ ThrowLate(p) \/ ThrowInLock(p) \/ Crash(p)

Next == \E p \in Procs : Start(p) \/ OperationStep(p) \/ RecoveryStep(p) \/ Fail(p)

Spec == Init /\ [][Next]_vars

\* Every step a process has begun it takes: the code between two durable
\* writes is straight-line and synchronous.  Nobody is forced to start
\* anything, to fail, or to crash.
FairSpec == Spec /\ \A p \in Procs : WF_vars(OperationStep(p) \/ RecoveryStep(p))

\* ... and a client that sees a failure runs recovery (assumption on the user).
AttendedSpec == FairSpec /\ \A p \in Procs : SF_vars(dirty /\ StartRecover(p))

-----------------------------------------------------------------------------
LockRecord    == [owner : Procs \cup {NoProc}, written : BOOLEAN]
TreeRecord    == [parent : Heads, sequence : Nat]
ReceiptRecord == [status : {"none", "committed", "no_change"},
                  previous_head : Heads, new_head : Heads]

TypeOK ==
    /\ lock \in LockRecord
    /\ head \in Heads
    /\ initialized \in BOOLEAN
    /\ projectHead \in Heads
    /\ trees \in [Ids -> TreeRecord]
    /\ receipts \in [Ids -> ReceiptRecord]
    /\ intents \in [Ids -> {"none", "init_project", "restore_working_tree"}]
    /\ issued \in 0..MaxOps
    /\ dirty \in BOOLEAN
    /\ pc \in [Procs -> Steps]
    /\ job \in [Procs -> Jobs]
    /\ op \in [Procs -> Heads]
    /\ prev \in [Procs -> Heads]
    /\ todo \in [Procs -> SUBSET Ids]

\* HEAD and project.json never name a tree that is not on disk with the
\* receipt that commits it: not after a crash, a throw, a race of two inits or
\* a recovery that overlaps with anything.
HeadCommitted ==
    \A h \in {head, projectHead} \ {Null} : TreeExists(h) /\ IsMaterialSuccessReceipt(h)

\* A committed tree's whole ancestry is committed: its parent is a committed
\* tree with the sequence before it, so recovery can always follow the chain.
AncestryCommitted ==
    \A o \in Committed :
        /\ TreeExists(o)
        /\ trees[o].parent = receipts[o].previous_head
        /\ IF trees[o].parent = Null
           THEN trees[o].sequence = 1
           ELSE /\ trees[o].parent \in Committed
                /\ trees[o].sequence = trees[trees[o].parent].sequence + 1

\* One material transaction at a time.
MutualExclusion ==
    \A p, q \in Procs : InTransaction(p) /\ InTransaction(q) => p = q

\* An init that is about to report project_already_initialized has committed
\* nothing, as the message of every failed command says.
RefusedInitCommitsNothing ==
    \A p \in Procs : job[p] = "init" /\ pc[p] = "project" /\ initialized
                       => ~IsMaterialSuccessReceipt(op[p])

\* No two committed operations follow the same head.
CommittedChain ==
    \A o1, o2 \in Committed :
        receipts[o1].previous_head = receipts[o2].previous_head => o1 = o2

\* The tree o and all its ancestors.
Lineage[o \in Heads] == IF o = Null THEN {} ELSE {o} \cup Lineage[trees[o].parent]

\* When nobody is at work and every failure was followed by a recovery that ran
\* to its end, the lock is free, both heads agree, and every committed
\* operation is part of the history HEAD names.
Settled == ~dirty /\ \A p \in Procs : ~Busy(p)
SettledIsComplete ==
    Settled => /\ lock = NoLock
               /\ projectHead = head
               /\ Committed = Lineage[head]
               /\ \A o \in Committed : intents[o] = "none"

\* An operation or a recovery that was begun ends; its process is not stuck.
EveryRunEnds == \A p \in Procs : Busy(p) ~> ~Busy(p)

\* A crash between the creation of LOCK, or of project.json, and the write of
\* its content: recovery leaves such a lock alone, and throws on such a project.
LockLeftTorn    == lock # NoLock /\ ~lock.written /\ pc[lock.owner] = "dead"
ProjectLeftTorn == TornProject /\ \A p \in Procs : pc[p] \notin {"fill", "r_init_fill"}

Repaired == ~dirty /\ lock = NoLock /\ projectHead = head

\* Failures do not last: wherever else a crash hits, in an operation or in the
\* recovery from an earlier one, in the end the lock is free again and both
\* heads agree.
FailureIsRepaired == dirty ~> LockLeftTorn \/ ProjectLeftTorn \/ Repaired

\* HEAD moves along the history only: no step takes it back to an older tree.
HeadNeverGoesBack ==
    [][head # Null => head' # Null /\ trees'[head'].sequence >= trees[head].sequence]_vars

\* STORAGE_AND_RECOVERY: "an `init_project` recovery intent completes
\* interrupted publication."
InitIsCompleted ==
    (\E o \in Committed : intents[o] = "init_project") ~> (projectHead # Null /\ projectHead = head)
=============================================================================
