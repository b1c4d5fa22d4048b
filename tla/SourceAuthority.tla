-------------------------- MODULE SourceAuthority --------------------------
(***************************************************************************)
(* Authority sources and registration decisions (src/src/authority/        *)
(* runtime.ts, store.ts) and the view the read models give of them         *)
(* (src/src/read-models/runtime.ts).  Revisions and decisions are          *)
(* immutable files; which revisions are authoritative is never stored but  *)
(* replayed from the decisions, in the order of an append-only index.      *)
(* The runtime takes no lock: processes interleave between what they read  *)
(* and the files they write, and may stop in between.                      *)
(*                                                                         *)
(* A scope is the set of (path, fact) points a source speaks of, so that   *)
(* two scopes overlap when they meet.  Names, digests, rationales and      *)
(* labels are left out: nothing depends on them once they are valid.       *)
(***************************************************************************)
EXTENDS Integers, Sequences, FiniteSets, SequencesExt

CONSTANTS
    Procs, SourceIds, Outcomes, None,
    Profiles,       \* what a source may declare: its scope and effective interval
    MaxSources,     \* bound on source revisions
    MaxDecisions,   \* bound on registration decisions
    MaxClock,       \* bound on the time, which is whatever the host says it is
    Faults          \* subset of {"crash"}

ASSUME ProfilesAssumption == \A f \in Profiles : f.interval \in Nat \X Nat
ASSUME OutcomesAssumption ==
    Outcomes \subseteq {"proposed", "accepted", "rejected", "superseded", "revoked"}
ASSUME AuthorityBoundsAssumption ==
    MaxSources \in Nat /\ MaxDecisions \in Nat /\ MaxClock \in Nat

VARIABLES
    sources,    \* authority-sources/<id>/<revision>.json
    decisions,  \* source-registration-decisions/<id>.json
    order,      \* source-registration-decisions.order
    pc, doing   \* per process: the next step, the record it is about to write

vars == <<sources, decisions, order, pc, doing>>

-----------------------------------------------------------------------------
(* Records.  override, now and after are not in the files: what the call   *)
(* allowed, the time it saw and the decisions that had returned when it    *)
(* began, for the properties to refer to.                                  *)

Refs == SourceIds \X (1..MaxSources)
DecisionIds == 1..MaxDecisions

SourceRecord == [profile : Profiles, supersedes : Refs \cup {None}]

DecisionRecord ==
    [ref : Refs, outcome : Outcomes, supersedes : DecisionIds \cup {None},
     override : BOOLEAN, now : 0..MaxClock, after : SUBSET DecisionIds]

\* The operations that have returned: the append is their last step.
Returned == ToSet(order)

Indexed(d) == Min({n \in DOMAIN order : order[n] = d})

\* Mutant: what the index lacks comes first.
PlaceUnindexedFirst(d) == IF d \in Returned THEN MaxDecisions + Indexed(d) ELSE d

\* Where listSourceRegistrationDecisions lists a decision: what the index
\* names, in its order, then what it does not, by creation time (the ids count
\* in that order here).
Place(d) == IF d \in Returned THEN Indexed(d) ELSE Len(order) + d

-----------------------------------------------------------------------------
(* Which sources are authoritative.                                        *)

\* The revisions ref supersedes, directly or through what they superseded: the
\* least set that holds what ref supersedes and what its members do.
SupersededRefs == {sources[r].supersedes : r \in DOMAIN sources} \ {None}
ClosedUnder(ref, C) == \A r \in (C \cup {ref}) \cap DOMAIN sources : sources[r].supersedes \in C \cup {None}
Chain(ref) == {r \in SupersededRefs : \A C \in SUBSET SupersededRefs : ClosedUnder(ref, C) => r \in C}

\* listAcceptedSourceRecords.
Acceptances(ref) == {d \in DOMAIN decisions : decisions[d].ref = ref /\ decisions[d].outcome = "accepted"}
AcceptedOnce == {r \in DOMAIN sources : Acceptances(r) # {}}

\* refsSupersededBySource of the runtime, and of the read models, which
\* take every registered revision of the source.
Siblings(ref, among) == {r \in among : r[1] = ref[1] /\ r # ref}
SupersededChainOnly(ref) == Chain(ref)
Superseded(ref) == Chain(ref) \cup Siblings(ref, AcceptedOnce)
SupersededInView(ref) == Chain(ref) \cup Siblings(ref, DOMAIN sources)

SupersededByDecision(d) ==
    {decisions[e].ref : e \in {decisions[d].supersedes} \cap DOMAIN decisions}

\* What a decision takes out of the accepted ones; aside is what accepting its
\* source supersedes.  An accepted source may be missing where a package was
\* imported halfway.
Withdraws(d, ref, aside) ==
    \/ ref \in SupersededByDecision(d)
    \/ decisions[d].outcome = "accepted" /\ decisions[d].ref \in DOMAIN sources /\ ref \in aside
    \/ decisions[d].outcome \in {"rejected", "superseded", "revoked"} /\ ref = decisions[d].ref

\* The decisions are replayed one after the other: a source is accepted if one
\* of them put it in and none after that took it out.
Replayed(Aside(_)) ==
    {r \in DOMAIN sources : \E d \in Acceptances(r) : \A e \in DOMAIN decisions :
        Place(d) < Place(e) => ~Withdraws(e, r, Aside(decisions[e].ref))}

Effective(ref, t) == sources[ref].profile.interval[1] <= t /\ t <= sources[ref].profile.interval[2]

\* currentAcceptedRefs, deriveAuthorityStatus.
Accepted == Replayed(Superseded)
Current(t) == {r \in Accepted : Effective(r, t)}

\* authorityStatus and sourceStates of the read models, whose time is that of
\* the head tree.
AcceptedInView == Replayed(SupersededInView)
CurrentInView(t) == {r \in AcceptedInView : Effective(r, t)}

LastOutcome(ref) ==
    LET about == {d \in DOMAIN decisions : decisions[d].ref = ref}
    IN  IF about = {} THEN "proposed"
        ELSE decisions[CHOOSE d \in about : \A e \in about : Place(e) <= Place(d)].outcome

ViewState(ref, t) ==
    IF ref \in CurrentInView(t) THEN "accepted"
    ELSE IF \E r \in CurrentInView(t) : ref \in SupersededInView(r) THEN "superseded"
    ELSE IF LastOutcome(ref) = "accepted" /\ ~Effective(ref, t) THEN "stale"
    ELSE LastOutcome(ref)

\* assertNoAuthorityScopeConflict.
Overlap(r, s) == sources[r].profile.scope \cap sources[s].profile.scope # {}

\* Mutant: only sources registered under the same id are compared.
ScopeConflictInSource(ref, now) ==
    \E r \in Current(now) \ Superseded(ref) : r[1] = ref[1] /\ Overlap(r, ref)

ScopeConflict(ref, now) ==
    \E r \in Current(now) \ Superseded(ref) : r[1] # ref[1] /\ Overlap(r, ref)

-----------------------------------------------------------------------------
Idle == [kind |-> "idle"]

Init ==
    /\ sources = <<>>
    /\ decisions = <<>>
    /\ order = <<>>
    /\ pc = [p \in Procs |-> "idle"]
    /\ doing = [p \in Procs |-> Idle]

Go(p, step) == pc' = [pc EXCEPT ![p] = step]
Ends(p) == Go(p, "idle") /\ doing' = [doing EXCEPT ![p] = Idle]

\* sourceRecord: a new revision is numbered after the highest that exists.
NextRevision(id) == Cardinality({r \in DOMAIN sources : r[1] = id}) + 1

\* writeJsonFileExclusive, where it succeeds.
With(files, name, record) ==
    [n \in DOMAIN files \cup {name} |-> IF n = name THEN record ELSE files[n]]

BeginSource(p) ==
    /\ pc[p] = "idle"
    /\ Cardinality(DOMAIN sources) < MaxSources
    /\ \E id \in SourceIds :
           doing' = [doing EXCEPT ![p] = [kind |-> "source", ref |-> <<id, NextRevision(id)>>]]
    /\ Go(p, "source")
    /\ UNCHANGED <<sources, decisions, order>>

\* Mutant: the file is written over.
WriteSourceOver(p) ==
    /\ pc[p] = "source"
    /\ \E new \in SourceRecord :
           /\ new.supersedes \in DOMAIN sources \cup {None}
           /\ sources' = With(sources, doing[p].ref, new)
    /\ Ends(p)
    /\ UNCHANGED <<decisions, order>>

\* assertKnownSource on what it supersedes; writeAuthoritySource: the file is
\* created, or the call fails.
WriteSource(p) ==
    /\ pc[p] = "source"
    /\ \E new \in SourceRecord :
           /\ new.supersedes \in DOMAIN sources \cup {None}
           /\ sources' = IF doing[p].ref \in DOMAIN sources THEN sources
                         ELSE With(sources, doing[p].ref, new)
    /\ Ends(p)
    /\ UNCHANGED <<decisions, order>>

\* recordSourceRegistrationDecision up to its first write.
NextDecision ==
    Cardinality(DOMAIN decisions) + Cardinality({p \in Procs : pc[p] = "decision"}) + 1

Decide(p, ref, outcome, override, supersedes, now) ==
    /\ pc[p] = "idle"
    /\ NextDecision \in DecisionIds
    /\ outcome = "accepted" /\ ~override => ~ScopeConflict(ref, now)
    /\ doing' = [doing EXCEPT ![p] =
                  [kind |-> "decision", id |-> NextDecision,
                   record |-> [ref |-> ref, outcome |-> outcome, supersedes |-> supersedes,
                               override |-> override, now |-> now, after |-> Returned]]]
    /\ Go(p, "decision")
    /\ UNCHANGED <<sources, decisions, order>>

\* Mutant: the index first, then the record.
WriteDecisionIndexFirst(p) ==
    /\ pc[p] = "decision"
    /\ order' = Append(order, doing[p].id)
    /\ Go(p, "append")
    /\ UNCHANGED <<sources, decisions, doing>>

WriteDecision(p) ==
    /\ pc[p] = "decision"
    /\ decisions' = With(decisions, doing[p].id, doing[p].record)
    /\ Go(p, "append")
    /\ UNCHANGED <<sources, order, doing>>

AppendDecision(p) ==
    /\ pc[p] = "append"
    /\ order' = Append(order, doing[p].id)
    /\ Ends(p)
    /\ UNCHANGED <<sources, decisions>>

\* An operation that stops before its first write leaves nothing.
Crash(p) ==
    /\ "crash" \in Faults
    /\ pc[p] = "append"
    /\ Ends(p)
    /\ UNCHANGED <<sources, decisions, order>>

Next ==
    \/ \E p \in Procs :
        \/ BeginSource(p) \/ WriteSource(p)
        \/ \E ref \in DOMAIN sources, outcome \in Outcomes, override \in BOOLEAN,
              supersedes \in DOMAIN decisions \cup {None}, now \in 0..MaxClock :
               /\ override \/ outcome # "accepted" => now = 0
               /\ override => outcome = "accepted"
               /\ Decide(p, ref, outcome, override, supersedes, now)
        \/ WriteDecision(p) \/ AppendDecision(p)
        \/ Crash(p)

Spec == Init /\ [][Next]_vars

-----------------------------------------------------------------------------
TypeOK ==
    /\ DOMAIN sources \subseteq Refs
    /\ \A r \in DOMAIN sources : sources[r] \in SourceRecord
    /\ DOMAIN decisions \subseteq DecisionIds
    /\ \A d \in DOMAIN decisions : decisions[d] \in DecisionRecord
    /\ order \in Seq(DOMAIN decisions)
    /\ pc \in [Procs -> {"idle", "source", "decision", "append"}]

\* A source never has two authoritative revisions, whatever was accepted in
\* which order, which index entries a crash left out and which are in flight.
OneRevisionPerSource ==
    LET accepted == Accepted
    IN  \A r, s \in accepted : r[1] = s[1] => r = s

\* The replay is a linear order of the operations: a decision begun after
\* another one returned is replayed after it, although the index is written
\* in a second step and the listing puts what it lacks at the end.
ReplayKeepsReturnOrder ==
    \A d, e \in DOMAIN decisions : d \in decisions[e].after => Place(d) < Place(e)

\* Two sources are authoritative for the same point only if someone accepted
\* one of them in spite of the conflict, if the two acceptances raced, or if
\* at the time of the later one the other was not effective.
Explained(d, e) ==
    \/ decisions[d].override \/ decisions[e].override
    \/ d \notin decisions[e].after /\ e \notin decisions[d].after
    \/ d \in decisions[e].after /\ ~Effective(decisions[d].ref, decisions[e].now)
    \/ e \in decisions[d].after /\ ~Effective(decisions[e].ref, decisions[d].now)
ConflictsAreExplained ==
    LET accepted == Accepted
    IN  \A r, s \in accepted :
            r[1] # s[1] /\ Overlap(r, s) => \E d \in Acceptances(r), e \in Acceptances(s) : Explained(d, e)

\* Two implementations of the replay agree: what the read models list as
\* authoritative at a time is what the authority runtime finds then.
ViewAgrees == AcceptedInView = Accepted

\* A registered revision never changes, is never lost, and the revisions of
\* a source are numbered without gaps although two processes may number
\* theirs from the same listing.
RevisionsAreKept ==
    [][/\ \A r \in DOMAIN sources : r \in DOMAIN sources' /\ sources'[r] = sources[r]
       /\ \A r \in DOMAIN sources' : r[2] > 1 => <<r[1], r[2] - 1>> \in DOMAIN sources']_vars

\* AD-022: "A stale, expired, revoked, or superseded source must not remain
\* current because of ... an earlier acceptance decision."  For one process,
\* where ids count the decisions in the order they were made.
RevocationHolds ==
    \A d \in Returned :
        (decisions[d].outcome = "revoked" /\ \A e \in Acceptances(decisions[d].ref) : e < d)
            => decisions[d].ref \notin Accepted

=============================================================================
