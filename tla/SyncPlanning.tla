---------------------------- MODULE SyncPlanning ----------------------------
(***************************************************************************)
(* How sync turns a scan into a tree (src/material/planner.ts,             *)
(* src/material/digest.ts, src/operations/runtime.ts, node revisions of    *)
(* src/material/store.ts): which node each path gets, which revision       *)
(* number, what is retained outside the scope, when nothing has changed;   *)
(* with explicit identity directives, scoped syncs, restores of old trees  *)
(* and of single nodes, and syncs interrupted between the node revisions   *)
(* they write and the tree that names them.                                *)
(***************************************************************************)
EXTENDS Integers, Sequences, SequencesExt

CONSTANTS
    PathOrder,  \* the paths, in the order of a scan
    Contents,
    NoFile,     \* there is no file at the path
    Scopes,     \* the path selectors in use, as sets of paths
    MaxPlans,   \* bound on the candidates planned
    MaxTrees    \* bound on the trees committed

Paths == ToSet(PathOrder)

ASSUME PathsAssumption == PathOrder \in Seq(Paths) /\ IsInjective(PathOrder)
ASSUME NoFileAssumption == NoFile \notin Contents
ASSUME ScopesAssumption == Scopes \subseteq SUBSET Paths /\ Paths \in Scopes
ASSUME BoundsAssumption == MaxPlans \in Nat /\ MaxTrees \in Nat

VARIABLES
    work,       \* the working tree
    trees,      \* committed trees; the last one is HEAD's
    nodes,      \* node-revisions/<node>/<revision>.json
    created,    \* number of node ids handed out
    candidate,  \* the candidate of the running sync or node restore
    plans       \* candidates planned so far

vars == <<work, trees, nodes, created, candidate, plans>>

-----------------------------------------------------------------------------
DefaultScope == Paths
NoEntry      == [node |-> 0, revision |-> 0, content |-> NoFile]
NoTree       == [entries |-> [p \in Paths |-> NoEntry], removed |-> {}, scope |-> DefaultScope]
NoCandidate  == [records |-> <<>>]

HeadTree     == IF trees = <<>> THEN NoTree ELSE Last(trees)
Entry(p)     == HeadTree.entries[p]
Present(e)   == e # NoEntry

(***************************************************************************)
(* An identity directive for each path: auto, new (replace differs in its  *)
(* continuity basis only), preserve from another path, or the node         *)
(* revision a node restore puts there.                                     *)
(***************************************************************************)
Automatic   == [kind |-> "auto"]
New         == [kind |-> "new"]
Preserve(q) == [kind |-> "preserve", from |-> q]
Restore(n)  == [kind |-> "restore", record |-> n]

AllAuto     == [p \in Paths |-> Automatic]
Directives  == [Paths -> {Automatic, New} \cup {Preserve(q) : q \in Paths}]

Preserving(d, p) == d[p].kind = "preserve" /\ Present(Entry(d[p].from))

\* The entry whose node the file at p continues, NoEntry if it gets a new node.
Continued(d, p) ==
    IF Preserving(d, p) THEN Entry(d[p].from)
    ELSE IF d[p].kind = "new" THEN NoEntry ELSE Entry(p)

\* nextNodeRevisionNumber.
PersistedNext(n) == 1 + Max({0} \cup {r.revision : r \in {x \in nodes : x.node = n}})

\* Mutant: the record names the node's newest revision on disk.
PreviousOnDisk(d, p) == PersistedNext(Continued(d, p).node) - 1

\* previous_revision of the record planned for p.
PreviousRevision(d, p) == Continued(d, p).revision

\* Mutant: two paths of one plan do not see each other.
UnreservedNext(visible, persisted, reserved) == Max({visible + 1, persisted})

\* allocateRevision: what the tree, the disk and this plan allow.
NextRevision(visible, persisted, reserved) == Max({visible + 1, persisted, reserved})

(***************************************************************************)
(* planCandidateTree, path by path in scan order.  plan.tree.entries fills *)
(* up, plan.records lists the new node revisions, plan.reserved holds   *)
(* the next free revision of each node, plan.fresh the ids handed out.     *)
(***************************************************************************)
PlanFile(d, found, plan, p) ==
    LET old      == Continued(d, p)
        content  == found[p]
        restored == d[p].kind = "restore"
        kept     == ~restored /\ Present(old) /\ old.content = content
        isNew    == ~restored /\ ~Present(old)
        node     == IF isNew THEN plan.fresh + 1 ELSE old.node
        revision == IF isNew THEN 1
                    ELSE NextRevision(old.revision, PersistedNext(node), plan.reserved[node])
    IN  IF restored
        THEN [plan EXCEPT !.entries[p] = [node     |-> d[p].record.node,
                                          revision |-> d[p].record.revision,
                                          content  |-> content]]
        ELSE IF kept THEN [plan EXCEPT !.entries[p] = old]
        ELSE [plan EXCEPT
                !.entries[p] = [node |-> node, revision |-> revision, content |-> content],
                !.records = Append(@, [node |-> node, revision |-> revision, content |-> content,
                                      previous |-> PreviousRevision(d, p), operation |-> plans]),
                !.reserved[node] = IF isNew THEN @ ELSE revision + 1,
                !.fresh = IF isNew THEN node ELSE @]

\* Mutant: a path the scan did not find is planned too.
PlanMissing(d, found, plan, p) == PlanFile(d, found, plan, p)

PlanPath(d, found, plan, p) ==
    IF found[p] = NoFile THEN plan ELSE PlanFile(d, found, plan, p)

\* Mutant: the candidate starts empty, whatever the scope.
StartEmpty(scope) ==
    [entries |-> [p \in Paths |-> NoEntry], records |-> <<>>,
     reserved |-> [n \in 1..(created + Len(PathOrder)) |-> 1], fresh |-> created]

StartPlan(scope) ==
    [entries  |-> [p \in Paths |-> IF p \in scope THEN NoEntry ELSE Entry(p)],
     records  |-> <<>>,
     reserved |-> [n \in 1..(created + Len(PathOrder)) |-> 1],
     fresh    |-> created]

\* The plan after each path of the scan.
Planned(d, scope, found) ==
    LET after[i \in 0..Len(PathOrder)] ==
            IF i = 0 THEN StartPlan(scope)
            ELSE IF PathOrder[i] \in scope THEN PlanPath(d, found, after[i - 1], PathOrder[i])
            ELSE after[i - 1]
    IN  after

\* Entries outside the scope are retained; removed paths are those in scope
\* that the scan did not find.
PlanCandidate(d, scope, found) ==
    LET plan == Planned(d, scope, found)[Len(PathOrder)]
    IN  [tree    |-> [entries |-> plan.entries,
                      removed |-> {p \in scope : Present(Entry(p)) /\ found[p] = NoFile},
                      scope   |-> scope],
         records |-> plan.records]

\* status: what buildSyncPlan finds to do for a plain sync.
PendingPlan == PlanCandidate(AllAuto, DefaultScope, work)

\* The paths pending_change_details lists.
Drift == {p \in Paths : PendingPlan.tree.entries[p].content # Entry(p).content}

\* Equality of treeContentDigest: entries, removed paths and scope.
SameDigest(t, u) == t = u

-----------------------------------------------------------------------------
Init ==
    /\ work \in [Paths -> Contents \cup {NoFile}]
    /\ trees = <<>>
    /\ nodes = {}
    /\ created = 0
    /\ candidate = NoCandidate
    /\ plans = 0

Idle == candidate = NoCandidate

UserEdit ==
    /\ Idle
    /\ plans < MaxPlans
    /\ \E p \in Paths, c \in Contents \cup {NoFile} :
           c # work[p] /\ work' = [work EXCEPT ![p] = c]
    /\ UNCHANGED <<trees, nodes, created, candidate, plans>>

\* A candidate is planned and its commit begins.
Begin(planned) ==
    /\ Idle
    /\ plans < MaxPlans
    /\ candidate' = planned
    /\ created' = Max({created} \cup {r.node : r \in ToSet(planned.records)})
    /\ plans' = plans + 1
    /\ UNCHANGED <<work, trees, nodes>>

\* init is the first sync: no directives, the whole project.
StartInit == trees = <<>> /\ Begin(PlanCandidate(AllAuto, DefaultScope, work))

StartSync ==
    /\ trees # <<>>
    /\ \E d \in Directives, scope \in Scopes :
           LET planned == PlanCandidate(d, scope, work)
           IN  ~SameDigest(planned.tree, HeadTree) /\ Begin(planned)

\* node:<id>@<revision>:<path>: planned as a sync of the tree with the node's
\* content at the path; a restore commits even if nothing changes.
StartNodeRestore ==
    /\ trees # <<>>
    /\ \E r \in nodes, p \in Paths :
           Begin(PlanCandidate([AllAuto EXCEPT ![p] = Restore(r)], DefaultScope,
                               [work EXCEPT ![p] = r.content]))

\* A tree restore commits the old entries again and writes no node revision.
\* Files it has no effect on keep their drift, the others are overwritten (with
\* consent if they have drift: WorkingTreeRestore).
RestoreTree ==
    /\ Idle
    /\ Len(trees) < MaxTrees
    /\ \E k \in 1..Len(trees) :
           /\ trees' = Append(trees, [trees[k] EXCEPT
                  !.removed = {p \in Paths : Present(Entry(p)) /\ ~Present(trees[k].entries[p])}])
           /\ work' = [p \in Paths |-> IF trees[k].entries[p].content = Entry(p).content
                                       THEN work[p] ELSE trees[k].entries[p].content]
    /\ UNCHANGED <<nodes, created, candidate, plans>>

\* writeNodeRevision: an occupied path is an error.
WriteNode ==
    /\ ~Idle /\ candidate.records # <<>>
    /\ LET r == Head(candidate.records)
       IN  /\ ~\E x \in nodes : x.node = r.node /\ x.revision = r.revision
           /\ nodes' = nodes \cup {r}
    /\ candidate' = [candidate EXCEPT !.records = Tail(@)]
    /\ UNCHANGED <<work, trees, created, plans>>

\* Mutant: the tree is written while some node revisions are not.
CommitTreeEarly ==
    /\ ~Idle
    /\ Len(trees) < MaxTrees
    /\ trees' = Append(trees, candidate.tree)
    /\ candidate' = NoCandidate
    /\ UNCHANGED <<work, nodes, created, plans>>

\* The tree, its receipt and the heads; a restored node reaches its file.
CommitTree ==
    /\ ~Idle
    /\ candidate.records = <<>>
    /\ Len(trees) < MaxTrees
    /\ trees' = Append(trees, candidate.tree)
    /\ work' = [p \in Paths |-> IF p \in candidate.tree.scope
                                THEN candidate.tree.entries[p].content ELSE work[p]]
    /\ candidate' = NoCandidate
    /\ UNCHANGED <<nodes, created, plans>>

\* A crash or an error: what is written stays.
Interrupt ==
    /\ ~Idle
    /\ candidate' = NoCandidate
    /\ UNCHANGED <<work, trees, nodes, created, plans>>

Next ==
    \/ UserEdit \/ StartInit \/ StartSync \/ StartNodeRestore \/ RestoreTree
    \/ WriteNode \/ CommitTree \/ Interrupt

Spec == Init /\ [][Next]_vars

-----------------------------------------------------------------------------
Entries == [node : Nat \ {0}, revision : Nat \ {0}, content : Contents] \cup {NoEntry}
Trees   == [entries : [Paths -> Entries], removed : SUBSET Paths, scope : Scopes]
Records == [node : Nat \ {0}, revision : Nat \ {0}, content : Contents, previous : Nat, operation : Nat]

IsTree(t) ==
    /\ \A p \in Paths : t.entries[p] \in Entries
    /\ t.removed \subseteq Paths
    /\ t.scope \in Scopes

TypeOK ==
    /\ work \in [Paths -> Contents \cup {NoFile}]
    /\ \A k \in 1..Len(trees) : IsTree(trees[k])
    /\ nodes \subseteq Records
    /\ created \in Nat
    /\ ToSet(candidate.records) \subseteq Records
    /\ ~Idle => IsTree(candidate.tree)
    /\ plans \in 0..MaxPlans

\* A planned revision number is taken by no other record, on disk or in the
\* same plan: writing the candidate never meets immutable_record_conflict, even
\* after interrupted syncs, restores of old trees, and nodes at several paths.
RevisionsUnique ==
    \A r \in ToSet(candidate.records), x \in nodes \cup ToSet(candidate.records) :
        x.node = r.node /\ x.revision = r.revision => x = r

\* Every committed tree can be restored for ever: each of its entries names a
\* node revision on disk that holds the content of the entry.
TreesVerify ==
    \A k \in 1..Len(trees), p \in Paths :
        LET e == trees[k].entries[p]
        IN  Present(e) => \E r \in nodes : /\ r.node = e.node
                                           /\ r.revision = e.revision
                                           /\ r.content = e.content

\* A planned revision follows the one its node has at HEAD, at whatever path.
Continues(r) ==
    r.previous # 0 => \E p \in Paths : Entry(p).node = r.node /\ Entry(p).revision = r.previous

\* The previous_revision of a node revision is an earlier revision of the same
\* node, and is on disk: a node's history has no gap.  While a candidate is
\* written it is the revision HEAD has, not a newer one that an interrupted sync
\* left or that a restore of an old tree took out of use.
NodeHistorySound ==
    /\ \A r \in nodes : r.previous # 0 =>
           /\ r.previous < r.revision
           /\ \E x \in nodes : x.node = r.node /\ x.revision = r.previous
    /\ \A r \in ToSet(candidate.records) : Continues(r)

\* A committed sync records the changes in its scope and no others: afterwards
\* status lists exactly the drift it listed outside the scope, whatever the
\* directives did to identities.
SyncRecordsItsScope ==
    [][CommitTree => Drift' = Drift \ candidate.tree.scope]_vars
=============================================================================
