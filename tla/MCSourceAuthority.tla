-------------------------- MODULE MCSourceAuthority --------------------------
(* Small instances of SourceAuthority for TLC. *)
EXTENDS SourceAuthority

\* Sources of one point, effective from time 1.
MCProfiles == {[scope |-> {1}, interval |-> <<1, 9>>]}

\* Registering a source reads and changes no decision: it is checked before
\* the decisions, which are checked for every set of registered sources.
SourcesFirst ==
    (\E p \in Procs : doing[p].kind = "source") =>
        decisions = <<>> /\ \A p \in Procs : doing[p].kind # "decision"

\* Bound: the first decision accepts a source and returns before others begin;
\* its time is compared with nothing.
FirstSettled ==
    /\ 1 \in DOMAIN decisions =>
           decisions[1].outcome = "accepted" /\ ~decisions[1].override /\ decisions[1].now = 1
    /\ \A p \in Procs : doing[p].kind = "decision" /\ doing[p].id > 1 => 1 \in Returned

Symmetry == Permutations(Procs) \cup Permutations(SourceIds)
=============================================================================
