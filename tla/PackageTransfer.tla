--------------------------- MODULE PackageTransfer ---------------------------
(***************************************************************************)
(* Portable packages (src/src/portable-package/runtime.ts) between two     *)
(* projects.  SourceAuthority runs in the source project; a workflow is    *)
(* exported with the source revisions it names and their decisions, and    *)
(* imported into a target project payload by payload: planned first, then  *)
(* written, without a lock, by calls that may race, stop and be retried.   *)
(*                                                                         *)
(* Besides the authority records a package carries one more record, the    *)
(* workflow occurrence, which comes last in path order and stands for the  *)
(* families that have no order of their own.                               *)
(***************************************************************************)
EXTENDS SourceAuthority

CONSTANTS
    Importers,
    MaxImports      \* bound on calls of importPackage

ASSUME MaxImportsAssumption == MaxImports \in Nat

VARIABLES
    package,    \* payloads in path order; whether importing it is refused
    target,     \* the target's files at the payloads' paths
    tOrder,     \* its source-registration-decisions.order
    step, plan, \* per importer: its next step, the effects planned so far
    imports     \* calls of importPackage: made, past their plan, stopped half way

packageVars == <<package, target, tOrder, step, plan, imports>>
allVars == <<vars, packageVars>>

-----------------------------------------------------------------------------
Decision(d) == <<"authority_decision", d>>
Source(ref) == <<"authority_source", ref>>
Workflow    == <<"workflow_occurrence", 1>>

Payloads == ToSet(package.payloads)
IsDecision(payload) == payload[1] = "authority_decision"

\* What is at a payload's path: nothing, the same record, another record, or
\* a file that is created and not filled.
FileStates == {"none", "same", "other", "torn"}
Effects == {"create", "exists_same"}

\* exportPackage, for a workflow that names the revisions refs: decisions are
\* selected by the revision they are about.
SelectedDecisions(refs) == {d \in DOMAIN decisions : decisions[d].ref \in refs}

\* The two families a package collects, each in any order.
Collected(refs) ==
    SetToSeqs({Decision(d) : d \in SelectedDecisions(refs)}) \X SetToSeqs({Source(r) : r \in refs})

\* Mutant: payloads stay in the order they were collected in.
CollectedOrders(refs) == {c[2] \o <<Workflow>> \o c[1] : c \in Collected(refs)}

\* Payloads are sorted by path.  A decision's path is its random id, so the
\* decisions come in any order, before the sources and the workflow.
PathOrders(refs) == {c[1] \o c[2] \o <<Workflow>> : c \in Collected(refs)}

\* validatePackage finds the manifest, every payload and its digest in order,
\* and no evidence was left out as an external reference.
Importable == ~package.refused

\* What the target's authority runtime makes of its files.
There(payload) == payload \in DOMAIN target /\ target[payload] = "same"
tSources == [r \in {s \in DOMAIN sources : There(Source(s))} |-> sources[r]]
tDecisions == [d \in {e \in DOMAIN decisions : There(Decision(e))} |-> decisions[d]]

Target == INSTANCE SourceAuthority WITH
    sources <- tSources, decisions <- tDecisions, order <- tOrder

-----------------------------------------------------------------------------
Resting == [at |-> 0, todo |-> "plan"]

PackageInit ==
    /\ Init
    /\ package = [payloads |-> <<>>, refused |-> FALSE]
    /\ target = <<>>
    /\ tOrder = <<>>
    /\ step = [i \in Importers |-> Resting]
    /\ plan = [i \in Importers |-> <<>>]
    /\ imports = [made |-> 0, planned |-> 0, stopped |-> 0]

\* The target may hold some of the records already, or others at their paths;
\* it holds the workflow only with the records the workflow needs.
Export ==
    /\ package.payloads = <<>>
    /\ \A p \in Procs : pc[p] = "idle"
    /\ \E refs \in SUBSET DOMAIN sources \ {{}}, refused \in BOOLEAN :
        \E payloads \in PathOrders(refs) :
            /\ package' = [payloads |-> payloads, refused |-> refused]
            /\ target' \in [ToSet(payloads) -> {"none", "same", "other"}]
            /\ target'[Workflow] = "same" => target' = [f \in ToSet(payloads) |-> "same"]
            /\ tOrder' \in SetToSeqs({d \in DOMAIN decisions : Decision(d) \in ToSet(payloads)
                                                                /\ target'[Decision(d)] = "same"})
            /\ \A m, n \in DOMAIN tOrder' : m < n => Place(tOrder'[m]) < Place(tOrder'[n])
    /\ UNCHANGED <<vars, step, plan, imports>>

At(i) == package.payloads[step[i].at]

GoTo(i, at, todo) == step' = [step EXCEPT ![i] = [at |-> at, todo |-> todo]]

\* The call ends: it returns, or throws and leaves what it has written.
Rest(i) ==
    /\ step' = [step EXCEPT ![i] = Resting]
    /\ plan' = [plan EXCEPT ![i] = <<>>]

CallImport(i) ==
    /\ step[i].at = 0
    /\ package.payloads # <<>>
    /\ imports.made < MaxImports
    /\ imports' = [imports EXCEPT !.made = @ + 1]
    /\ IF Importable THEN GoTo(i, 1, "plan") ELSE UNCHANGED step
    /\ UNCHANGED <<vars, package, target, tOrder, plan>>

\* planImport looks at one path after the other; a collision blocks the
\* import and a file that does not parse makes it throw.
PlanPayload(i) ==
    /\ step[i].at > 0 /\ step[i].todo = "plan"
    /\ IF target[At(i)] \in {"other", "torn"}
       THEN Rest(i) /\ UNCHANGED imports
       ELSE /\ plan' = [plan EXCEPT ![i] =
                          Append(@, IF target[At(i)] = "same" THEN "exists_same" ELSE "create")]
            /\ IF step[i].at < Len(package.payloads)
               THEN GoTo(i, step[i].at + 1, "plan") /\ UNCHANGED imports
               ELSE GoTo(i, 1, "create") /\ imports' = [imports EXCEPT !.planned = @ + 1]
    /\ UNCHANGED <<vars, package, target, tOrder>>

\* Mutant: the last payload is left out.
NextPayloadButLast(i) ==
    IF step[i].at < Len(package.payloads) - 1
    THEN GoTo(i, step[i].at + 1, "create") /\ UNCHANGED plan
    ELSE Rest(i)

\* To the next payload, or importPackage returns.
NextPayload(i) ==
    IF step[i].at < Len(package.payloads)
    THEN GoTo(i, step[i].at + 1, "create") /\ UNCHANGED plan
    ELSE Rest(i)

SkipPayload(i) ==
    /\ step[i].todo = "create" /\ plan[i][step[i].at] = "exists_same"
    /\ NextPayload(i)
    /\ UNCHANGED <<vars, package, target, tOrder, imports>>

\* Mutant: a file that appeared since the plan is written over.
CreatePayloadOver(i) ==
    /\ step[i].todo = "create" /\ plan[i][step[i].at] = "create"
    /\ target' = [target EXCEPT ![At(i)] = "torn"]
    /\ GoTo(i, step[i].at, "fill")
    /\ UNCHANGED <<vars, package, tOrder, plan, imports>>

\* writeRecord, the exclusive create: the call throws when the file is there.
CreatePayload(i) ==
    /\ step[i].todo = "create" /\ plan[i][step[i].at] = "create"
    /\ IF target[At(i)] = "none"
       THEN /\ target' = [target EXCEPT ![At(i)] = "torn"]
            /\ GoTo(i, step[i].at, "fill")
            /\ UNCHANGED plan
       ELSE Rest(i) /\ UNCHANGED target
    /\ UNCHANGED <<vars, package, tOrder, imports>>

FillPayload(i) ==
    /\ step[i].todo = "fill"
    /\ target' = [target EXCEPT ![At(i)] = "same"]
    /\ IF IsDecision(At(i)) THEN GoTo(i, step[i].at, "append") /\ UNCHANGED plan
                             ELSE NextPayload(i)
    /\ UNCHANGED <<vars, package, tOrder, imports>>

\* writeSourceRegistrationDecision, its last step.
AppendPayload(i) ==
    /\ step[i].todo = "append"
    /\ tOrder' = Append(tOrder, At(i)[2])
    /\ NextPayload(i)
    /\ UNCHANGED <<vars, package, target, imports>>

StopImport(i) ==
    /\ "crash" \in Faults
    /\ step[i].todo # "plan"
    /\ imports' = [imports EXCEPT !.stopped = @ + 1]
    /\ Rest(i)
    /\ UNCHANGED <<vars, package, target, tOrder>>

PackageNext ==
    \/ package.payloads = <<>> /\ Next /\ UNCHANGED packageVars
    \/ Export
    \/ \E i \in Importers :
        \/ CallImport(i) \/ PlanPayload(i) \/ SkipPayload(i)
        \/ CreatePayload(i) \/ FillPayload(i) \/ AppendPayload(i)
        \/ StopImport(i)

PackageSpec == PackageInit /\ [][PackageNext]_allVars

-----------------------------------------------------------------------------
Whole == \A f \in Payloads : target[f] = "same"

\* Wherever imports stop or overtake each other, the target never shows the
\* workflow occurrence without every record it was exported with.
WorkflowComesWhole == package.payloads # <<>> /\ target[Workflow] = "same" => Whole

\* Imports that race refuse each other's files, and yet they never all give
\* up: unless one was stopped, one import that got past its plan completes.
ImportsDoNotDefeatEachOther ==
    (\A i \in Importers : step[i] = Resting) /\ imports.planned > 0 /\ imports.stopped = 0 => Whole

\* An import never changes or removes a record of the target, and indexes a
\* decision once, although the plan it follows may be stale.
ImportKeepsRecords ==
    [][/\ \A f \in DOMAIN target : target[f] \in {"same", "other"} => target'[f] = target[f]
       /\ \A m, n \in DOMAIN tOrder' : tOrder'[m] = tOrder'[n] => m = n]_allVars

\* AD-022, for the project a package is imported into: a revision that the
\* source project revoked or superseded is not authoritative there once an
\* import of it is complete.
ImportKeepsAuthority ==
    (\A i \in Importers : step[i] = Resting) /\ imports.planned > 0 /\ Whole => Target!Accepted \subseteq Accepted

=============================================================================
