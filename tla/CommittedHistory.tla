-------------------------- MODULE CommittedHistory --------------------------
(***************************************************************************)
(* What the material store promises its clients, without locks, records or *)
(* recovery: the history of a project is one growing sequence of committed *)
(* operations; HEAD and project.json are two published copies of its end,  *)
(* each of which may lag behind but never goes back; and nothing commits   *)
(* on top of a history that is not published.                              *)
(***************************************************************************)
EXTENDS Naturals, Sequences, SequencesExt

CONSTANT Operations

VARIABLES
    log,        \* committed operations, oldest first
    published,  \* how much of log HEAD covers
    recorded    \* how much of log project.json covers

hvars == <<log, published, recorded>>

HistoryInit == log = <<>> /\ published = 0 /\ recorded = 0

Commit(o) ==
    /\ published = Len(log)
    /\ recorded = Len(log)
    /\ o \notin ToSet(log)
    /\ log' = Append(log, o)
    /\ UNCHANGED <<published, recorded>>

PublishHead ==
    /\ published' = Len(log)
    /\ UNCHANGED <<log, recorded>>

RecordHead ==
    /\ recorded' = Len(log)
    /\ UNCHANGED <<log, published>>

HistoryNext == (\E o \in Operations : Commit(o)) \/ PublishHead \/ RecordHead

HistorySpec == HistoryInit /\ [][HistoryNext]_hvars

\* A committed operation is not left unpublished for ever.
Publishing == WF_hvars(PublishHead) /\ WF_hvars(RecordHead)
=============================================================================
