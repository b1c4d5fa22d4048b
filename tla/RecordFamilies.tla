--------------------------- MODULE RecordFamilies ---------------------------
(***************************************************************************)
(* The immutable record families beside the material store: workflow       *)
(* occurrences, virtual artifacts and materialization events               *)
(* (src/src/workflows), assertions, decisions, conflicts, reviews,         *)
(* correspondence and clusters (src/src/semantics), manifest revisions     *)
(* (src/src/projections), regeneration, equivalence and reuse              *)
(* (src/src/reproduction) and evidence intake (src/src/evidence).          *)
(*                                                                         *)
(* Every record is a file of its own, created exclusively and then filled  *)
(* (src/src/core/immutable-record-store.ts); no lock is taken.  A record   *)
(* is looked up by listing its family, and a listing fails while one file  *)
(* of the family is not filled.  Calls of one process interleave at their  *)
(* awaits, calls of several processes between any two file operations.     *)
(*                                                                         *)
(* A record keeps its kind, the records it was checked against and its     *)
(* status; texts, digests and unchecked references are left out.           *)
(***************************************************************************)
EXTENDS Integers, Sequences, FiniteSets, SequencesExt

CONSTANTS
    Callers,
    Subjects,       \* output trees of a workflow, keys of a manifest
    Submissions,    \* pairs <<digest, origin>> handed to evidence intake
    None,
    MaxCalls,       \* bound on calls
    Faults          \* subset of {"crash"}

ASSUME SubmissionsAssumption == \A s \in Submissions : s[1] # "id"
ASSUME MaxCallsAssumption == MaxCalls \in Nat

VARIABLES
    files,      \* records/<family>/<name>.json
    proposals,  \* authority source revisions intake has proposed
    answers,    \* the records the calls of intake have returned
    calls,      \* calls begun: creation times count in that order
    pc, doing   \* per caller: the next step, the record it writes and its name

vars == <<files, proposals, answers, calls, pc, doing>>

-----------------------------------------------------------------------------
(* A file: [filled, record]; a record: [kind, created, refs, about,        *)
(* status], where status says whether a workflow's completion or a         *)
(* manifest is accepted, or a reuse is past its policy gate.  Names are    *)
(* random ids <<"id", n>>, but for intake, where digest and origin give    *)
(* the name.                                                               *)

Idle == [name |-> None]

OfKind(kind) == {n \in DOMAIN files : files[n].record.kind = kind}

\* listImmutableRecords fails on a file that is not filled.
Readable(kind) == \A n \in OfKind(kind) : files[n].filled

\* Mutant: a name in the directory is enough.
KnownByName(kind) == OfKind(kind)

\* assertKnownWorkflow, assertKnownVirtualArtifact, assertKnownManifest and
\* the check of a superseded decision.
Known(kind) == IF Readable(kind) THEN OfKind(kind) ELSE {}

\* Listings are in creation order.
Earlier(m, n) == files[m].record.created < files[n].record.created

\* manifestHeads: the last accepted revision of the key in the listing.
LastRevision(key) ==
    {n \in OfKind("manifest") :
        /\ files[n].filled /\ files[n].record.about = key
        /\ \A m \in OfKind("manifest") :
               files[m].filled /\ files[m].record.about = key => m = n \/ Earlier(m, n)}

ManifestHead(key) ==
    LET accepted == {n \in OfKind("manifest") : files[n].filled
                        /\ files[n].record.about = key /\ files[n].record.status = "accepted"}
    IN  {n \in accepted : \A m \in accepted : m = n \/ Earlier(m, n)}

-----------------------------------------------------------------------------
Init ==
    /\ files = <<>>
    /\ proposals = {}
    /\ answers = {}
    /\ calls = 0
    /\ pc = [p \in Callers |-> "idle"]
    /\ doing = [p \in Callers |-> Idle]

Ends(p) == pc' = [pc EXCEPT ![p] = "idle"] /\ doing' = [doing EXCEPT ![p] = Idle]
Go(p, step) == pc' = [pc EXCEPT ![p] = step] /\ UNCHANGED doing

\* A call that has passed its checks holds a new record and its time.
Prepares(p, name, record, step) ==
    /\ calls < MaxCalls
    /\ calls' = calls + 1
    /\ pc' = [pc EXCEPT ![p] = step]
    /\ doing' = [doing EXCEPT ![p] = [name |-> name, record |-> record]]
    /\ UNCHANGED <<files, proposals>>

Call(p, record) ==
    /\ pc[p] = "idle"
    /\ Prepares(p, <<"id", calls + 1>>, record, "open")
    /\ UNCHANGED answers

\* The records, as their builders make them; a transition copies the rest of
\* the occurrence it supersedes.
New(kind, refs) ==
    [kind |-> kind, created |-> calls + 1, refs |-> refs, about |-> None, status |-> "open"]

WorkflowRecord == New("workflow", {})
OutputTransition(w, tree) ==
    [New("workflow", {w}) EXCEPT !.about = tree, !.status = files[w].record.status]
StateTransition(w, status) ==
    [New("workflow", {w}) EXCEPT !.about = files[w].record.about, !.status = status]
VirtualArtifact(w) == New("artifact", {w})
MaterializationEvent(a) == New("event", {a})

\* Assertions, conflicts, reviews, clusters and equivalence refer to nothing
\* that is checked; a decision may supersede another.
Claim == New("claim", {})
Decision(superseded) == New("decision", superseded)

ManifestRevision(key, status) == [New("manifest", {}) EXCEPT !.about = key, !.status = status]
RegenerationAttempt(w) == New("regeneration", {w})

\* Nothing runs without the policy gate; a completed reuse names its output.
ReuseAllowed(stage, gate, output) ==
    /\ stage \in {"running", "completed"} => gate
    /\ stage = "completed" => output # {}
ReuseResult(w, m, output, stage) ==
    [New("reuse", {w, m} \cup output) EXCEPT !.status = IF stage = "proposed" THEN "open" ELSE "accepted"]

RecordWorkflow(p) ==
    \/ Call(p, WorkflowRecord)
    \/ \E w \in Known("workflow") :
        \/ \E tree \in Subjects : Call(p, OutputTransition(w, tree))
        \/ \E status \in {"open", "accepted"} : Call(p, StateTransition(w, status))
        \/ Call(p, VirtualArtifact(w))
    \/ \E a \in Known("artifact") : Call(p, MaterializationEvent(a))

RecordSemantics(p) ==
    \/ Call(p, Claim)
    \/ \E superseded \in {{}} \cup {{d} : d \in Known("decision")} : Call(p, Decision(superseded))

RecordManifest(p) ==
    \E key \in Subjects, status \in {"open", "accepted"} : Call(p, ManifestRevision(key, status))

RecordReproduction(p) ==
    \E w \in Known("workflow") :
        \/ Call(p, RegenerationAttempt(w))
        \/ \E m \in Known("manifest"), output \in {{}} \cup {{o} : o \in Known("workflow")},
              stage \in {"proposed", "running", "completed"}, gate \in BOOLEAN :
               /\ ReuseAllowed(stage, gate, output)
               /\ Call(p, ReuseResult(w, m, output, stage))

\* proposeCorrespondence records an assertion, and then a correspondence
\* that has it for evidence.
ProposeCorrespondence(p) == Call(p, New("proposal", {}))

Correspond(p) ==
    /\ pc[p] = "correspond"
    /\ Prepares(p, <<"id", calls + 1>>, New("correspondence", {doing[p].name}), "open")
    /\ UNCHANGED answers

-----------------------------------------------------------------------------
(* Evidence intake.                                                        *)

Filled(s) == s \in DOMAIN files /\ files[s].filled
Answer(s) == answers' = answers \cup {<<s, files[s].record.created>>}

\* existingByDigest: the first record of the same content, whatever its origin.
SameContent(s) == {n \in OfKind("intake") : n[1] = s[1]}

\* Mutant: the latest record of the same content.
LatestDuplicate(s) == {n \in SameContent(s) : \A m \in SameContent(s) : m = n \/ Earlier(m, n)}

DuplicateOf(s) == {n \in SameContent(s) : \A m \in SameContent(s) : m = n \/ Earlier(n, m)}

Intake(s) == New("intake", DuplicateOf(s))

IntakeKnown(p, s) ==
    /\ pc[p] = "idle"
    /\ Readable("intake") /\ Filled(s)
    /\ Answer(s)
    /\ UNCHANGED <<files, proposals, calls, pc, doing>>

\* From the listing to the first await; the record is normalized or, for an
\* archive, quarantined.
IntakeNew(p, s, quarantined) ==
    /\ pc[p] = "idle"
    /\ Readable("intake") /\ ~Filled(s)
    /\ Prepares(p, s, Intake(s), IF quarantined THEN "open" ELSE "propose")
    /\ UNCHANGED answers

\* authorityProposal, if the submission describes an authority source.
IntakePropose(p) ==
    /\ pc[p] = "propose"
    /\ proposals' \in {proposals, proposals \cup {<<doing[p].name, doing[p].record.created>>}}
    /\ Go(p, "open")
    /\ UNCHANGED <<files, answers, calls>>

-----------------------------------------------------------------------------
(* The file of a record.                                                   *)

With(name, file) ==
    [n \in DOMAIN files \cup {name} |-> IF n = name THEN file ELSE files[n]]

\* Exclusive creation: of two calls that write one name, one fails.
CreateFile(p) ==
    /\ pc[p] = "open"
    /\ doing[p].name \notin DOMAIN files
    /\ files' = With(doing[p].name, [filled |-> FALSE, record |-> doing[p].record])
    /\ Go(p, "fill")
    /\ UNCHANGED <<proposals, answers, calls>>

FillFile(p) ==
    /\ pc[p] = "fill"
    /\ files' = [files EXCEPT ![doing[p].name].filled = TRUE]
    /\ answers' = IF doing[p].name \in Submissions
                  THEN answers \cup {<<doing[p].name, doing[p].record.created>>} ELSE answers
    /\ IF doing[p].record.kind = "proposal" THEN Go(p, "correspond") ELSE Ends(p)
    /\ UNCHANGED <<proposals, calls>>

\* Mutant: intake answers with the record it could not write.
IntakeRacedOwn(p) ==
    /\ pc[p] = "open"
    /\ doing[p].name \in DOMAIN files
    /\ answers' = answers \cup {<<doing[p].name, doing[p].record.created>>}
    /\ Ends(p)
    /\ UNCHANGED <<files, proposals, calls>>

\* Intake lists again when its file exists; the listing may fail in turn.
IntakeRaced(p) ==
    /\ pc[p] = "open"
    /\ doing[p].name \in DOMAIN files
    /\ IF Readable("intake") THEN Answer(doing[p].name) ELSE UNCHANGED answers
    /\ Ends(p)
    /\ UNCHANGED <<files, proposals, calls>>

Crash(p) ==
    /\ "crash" \in Faults
    /\ pc[p] # "idle"
    /\ Ends(p)
    /\ UNCHANGED <<files, proposals, answers, calls>>

Calls(p) ==
    \/ RecordWorkflow(p) \/ RecordSemantics(p) \/ RecordManifest(p) \/ RecordReproduction(p)
    \/ ProposeCorrespondence(p)
    \/ \E s \in Submissions :
        \/ IntakeKnown(p, s)
        \/ \E quarantined \in BOOLEAN : IntakeNew(p, s, quarantined)

Steps(p) ==
    \/ IntakePropose(p) \/ IntakeRaced(p) \/ Correspond(p)
    \/ CreateFile(p) \/ FillFile(p)

RecordNext == \E p \in Callers : Calls(p) \/ Steps(p) \/ Crash(p)

RecordSpec == Init /\ [][RecordNext]_vars

-----------------------------------------------------------------------------
\* A record that can be read refers to records that can be read, although the
\* check and the write are apart and any call may stop in between.
ReferencesResolve ==
    \A n \in DOMAIN files : files[n].filled =>
        \A r \in files[n].record.refs : Filled(r) /\ Earlier(r, n)

\* Every call that submits the same content from the same origin gets the
\* same record, and it is the one on disk.
IntakeAgrees ==
    \A a \in answers : Filled(a[1]) /\ files[a[1]].record.created = a[2]

\* Evidence is marked a duplicate of an original, never of a duplicate.
DuplicatesAreFlat ==
    \A s \in Submissions : Filled(s) =>
        \A d \in files[s].record.refs : d[1] = s[1] /\ files[d].record.refs = {}

\* AD-024: proposals, drafts and superseded revisions leave the accepted head
\* of a key where it is; it only ever gives way to a later accepted revision.
HeadsStayAccepted ==
    [][\A key \in Subjects : \A n \in ManifestHead(key) :
          /\ ManifestHead(key)' # {}
          /\ \A m \in ManifestHead(key)' :
                files'[m].record.status = "accepted" /\ files'[m].record.created >= files[n].record.created]_vars

\* tests/README.md:18 "duplicate/idempotent intake including concurrent
\* retries": a submission proposes its authority source at most once.
IntakeProposesOnce == \A s, t \in proposals : s[1] = t[1] => s = t

=============================================================================
