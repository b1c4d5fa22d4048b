--------------------------- MODULE AtomicRestore ---------------------------
(***************************************************************************)
(* What restore promises its user: the files and the recorded tree change  *)
(* together, in one step, whatever interrupts the program meanwhile; only  *)
(* the paths on which the reference differs from the recorded tree change; *)
(* and without consent none of them may hold an unrecorded edit.           *)
(***************************************************************************)
CONSTANTS Paths, FileStates, NoFile

VARIABLES files, recorded

avars == <<files, recorded>>

AtomicInit == files \in [Paths -> FileStates] /\ recorded = files

Edit == \E p \in Paths, c \in FileStates :
    /\ files' = [files EXCEPT ![p] = c]
    /\ UNCHANGED recorded

Record == recorded' = files /\ UNCHANGED files

\* The unrecorded content of p would be lost if goal were written over it.
Loses(p, goal) == files[p] \notin {recorded[p], goal, NoFile}

RestoreTree(goal, consent) ==
    /\ \A p \in Paths : goal[p] # recorded[p] => consent \/ ~Loses(p, goal[p])
    /\ files' = [p \in Paths |-> IF goal[p] # recorded[p] THEN goal[p] ELSE files[p]]
    /\ recorded' = goal

\* A restored node brings the other edits into the new tree with it.
RestoreNode(p, goal, consent) ==
    /\ consent \/ ~Loses(p, goal)
    /\ files' = [files EXCEPT ![p] = goal]
    /\ recorded' = files'

AtomicNext ==
    \/ Edit
    \/ Record
    \/ \E goal \in [Paths -> FileStates], consent \in BOOLEAN : RestoreTree(goal, consent)
    \/ \E p \in Paths, goal \in FileStates, consent \in BOOLEAN : RestoreNode(p, goal, consent)

AtomicSpec == AtomicInit /\ [][AtomicNext]_avars
=============================================================================
