-------------------------- MODULE RestorePlanning --------------------------
(***************************************************************************)
(* What a restore plan says of one path (src/operations/restore-plan.ts),  *)
(* from the content recorded by HEAD (base), the content the reference     *)
(* holds (goal) and the content a scan found (found).                      *)
(***************************************************************************)
CONSTANT NoFile  \* there is no file at the path

Effect(base, goal) ==
    IF base = goal THEN "unchanged"
    ELSE IF goal = NoFile THEN "remove"
    ELSE IF base = NoFile THEN "create" ELSE "update"

DriftKind(base, found) ==
    IF found = base THEN "none"
    ELSE IF found = NoFile THEN "removed"
    ELSE IF base = NoFile THEN "added" ELSE "modified"

\* buildTreeRestorePlan.
TreeConflict(base, goal, found) ==
    CASE Effect(base, goal) = "unchanged" -> FALSE
      [] Effect(base, goal) = "update"    -> found # base
      [] Effect(base, goal) = "remove"    -> found \notin {base, NoFile}
      [] Effect(base, goal) = "create"    -> found \notin {goal, NoFile}

\* Mutant: a missing target file is not taken for an edit.
NodeConflictPresent(base, goal, found) == found \notin {base, goal, NoFile}

\* buildNodeRestorePlan: a missing target file is drift too.
NodeConflict(base, goal, found) == found \notin {base, goal}

\* kind is reference_kind of the plan.
Conflict(kind, base, goal, found) ==
    IF kind = "tree" THEN TreeConflict(base, goal, found) ELSE NodeConflict(base, goal, found)
=============================================================================
