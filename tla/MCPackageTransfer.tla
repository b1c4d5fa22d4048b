------------------------- MODULE MCPackageTransfer -------------------------
(* PackageTransfer with one kind of source profile, importers alike, and a *)
(* source project that registers its sources before it decides on them.    *)
EXTENDS PackageTransfer

MCProfiles == {[scope |-> {1}, interval |-> <<0, MaxClock>>]}

\* Bound: a source project that registers its sources, none superseding
\* another by its record, before it decides on them, and no decision that
\* overrides a conflict or supersedes another: imports only copy such refs.
SourceHistory ==
    /\ DOMAIN decisions # {} => Cardinality(DOMAIN sources) = MaxSources
    /\ \A r \in DOMAIN sources : sources[r].supersedes = None
    /\ \A p \in Procs : doing[p].kind = "decision" =>
           ~doing[p].record.override /\ doing[p].record.supersedes = None

\* Bound: before the first import the target has a file at one of the
\* package's paths, or at all of them, or the package is refused right away.
TargetBefore ==
    package.payloads # <<>> /\ imports.made = 0 =>
        \/ Whole /\ ~package.refused
        \/ Cardinality({f \in Payloads : target[f] # "none"}) <= IF package.refused THEN 0 ELSE 1

Symmetry == Permutations(Importers)

=============================================================================
