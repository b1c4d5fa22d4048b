------------------------- MODULE SyncPlanningProofs -------------------------
(***************************************************************************)
(* Proofs about SyncPlanning, for any paths, contents and scopes and any   *)
(* number of plans and trees: whatever is moved, restored, interrupted or  *)
(* left at several paths, revision numbers are not given twice, and every  *)
(* committed tree names revisions that are on disk.                        *)
(***************************************************************************)
EXTENDS SyncPlanning, SequenceTheorems, WellFoundedInduction, TLAPS

\* Among the revisions rs is the one an entry names.
Named(e, rs) ==
    \E r \in rs : r.node = e.node /\ r.revision = e.revision /\ r.content = e.content

\* A new revision follows one of its node that is on disk.
Follows(r) ==
    r.previous # 0 => r.previous < r.revision /\ \E x \in nodes : x.node = r.node /\ x.revision = r.previous

SameRevision(r, x) == r.node = x.node /\ r.revision = x.revision

\* What a plan is asked for: paths to continue exist, a node revision to
\* restore is on disk and its content is what the scan will find.
Asked(d, scope, found) ==
    /\ scope \in Scopes
    /\ found \in [Paths -> Contents \cup {NoFile}]
    /\ \A p \in Paths : d[p].kind = "preserve" => d[p].from \in Paths
    /\ \A p \in Paths : d[p].kind = "restore" => d[p].record \in nodes /\ d[p].record.content = found[p]

\* The new revisions of a plan: of a node of the head they are numbered from
\* what is on disk and below what is reserved, of a new node they are alone.
RecordsPlanned(plan) ==
    \A m \in 1..Len(plan.records) :
        /\ plan.records[m].node <= plan.fresh
        /\ plan.records[m].node <= created =>
               /\ plan.records[m].revision < plan.reserved[plan.records[m].node]
               /\ \A x \in nodes : ~SameRevision(plan.records[m], x)
        /\ Follows(plan.records[m])
        /\ Continues(plan.records[m])

AllDifferent(records) ==
    \A m, n \in 1..Len(records) : SameRevision(records[m], records[n]) => m = n

PlanType(plan, i) ==
    /\ plan = [entries |-> plan.entries, records |-> plan.records,
               reserved |-> plan.reserved, fresh |-> plan.fresh]
    /\ plan.entries \in [Paths -> Entries]
    /\ plan.records \in Seq(Records)
    /\ plan.reserved \in [1..(created + Len(PathOrder)) -> Nat \ {0}]
    /\ plan.fresh \in created..(created + i)

\* After i paths: every entry names a revision that is on disk or planned, and
\* has the content the scan found, or is the head's where the scope ends.
PlanInv(scope, found, plan, i) ==
    /\ PlanType(plan, i)
    /\ RecordsPlanned(plan)
    /\ AllDifferent(plan.records)
    /\ \A q \in Paths : Present(plan.entries[q]) => Named(plan.entries[q], nodes \cup ToSet(plan.records))
    /\ \A q \in Paths \ scope : plan.entries[q] = Entry(q)
    /\ \A q \in scope : plan.entries[q].content \in {found[q], NoFile}
    /\ \A j \in 1..i : PathOrder[j] \in scope => plan.entries[PathOrder[j]].content = found[PathOrder[j]]

CandidateInv ==
    /\ candidate.tree \in Trees
    /\ candidate = [tree |-> candidate.tree, records |-> candidate.records]
    /\ \A p \in Paths : Present(candidate.tree.entries[p])
           => Named(candidate.tree.entries[p], nodes \cup ToSet(candidate.records))
    /\ \A p \in Paths \ candidate.tree.scope : candidate.tree.entries[p] = Entry(p)
    /\ \A m \in 1..Len(candidate.records) : Continues(candidate.records[m])

StoreInv ==
    /\ work \in [Paths -> Contents \cup {NoFile}]
    /\ trees \in Seq(Trees)
    /\ nodes \subseteq Records
    /\ created \in Nat
    /\ plans \in 0..MaxPlans
    /\ \A r \in nodes : r.node <= created
    /\ \E most \in Nat : \A r \in nodes : r.revision <= most
    /\ \A r \in nodes : Follows(r)
    /\ \A k \in 1..Len(trees) : \A p \in Paths :
           Present(trees[k].entries[p]) => Named(trees[k].entries[p], nodes)

\* What is left to write of a candidate is new.
PendingInv ==
    /\ candidate.records \in Seq(Records)
    /\ AllDifferent(candidate.records)
    /\ \A m \in 1..Len(candidate.records) :
           /\ candidate.records[m].node <= created
           /\ \A x \in nodes : ~SameRevision(candidate.records[m], x)
           /\ Follows(candidate.records[m])

SyncInv == StoreInv /\ PendingInv /\ (~Idle => CandidateInv)

-----------------------------------------------------------------------------
(* Numbers. *)

\* Every nonempty set of numbers has a least one.
LEMMA NatLeast ==
    ASSUME NEW T, T \subseteq Nat, T # {}
    PROVE  \E x \in T : \A y \in T : x <= y
<1> DEFINE R == {ss \in Nat \X Nat : ss[1] < ss[2]}
<1>1. IsWellFoundedOn(R, Nat)
  BY NatLessThanWellFounded, Zenon DEF OpToRel
<1>2. PICK x \in T : \A y \in T : ~ (<<y, x>> \in R)
  <2> HIDE DEF R
  <2> QED
    BY <1>1, WFMin
<1>3. ASSUME NEW y \in T PROVE x <= y
  <2>1. ~ (y < x)
    <3>1. x \in Nat /\ y \in Nat /\ <<y, x>> \notin R
      BY <1>2
    <3> QED
      BY <3>1
  <2> QED
    BY <2>1
<1> QED
  BY <1>3

\* The greatest number of a bounded set.
LEMMA MaxIs ==
    ASSUME NEW S, S \subseteq Nat, S # {}, NEW most \in Nat, \A x \in S : x <= most
    PROVE  Max(S) \in S /\ \A x \in S : x <= Max(S)
<1> DEFINE T == {most - x : x \in S}
<1>1. T \subseteq Nat /\ T # {}
  <2>1. \A x \in S : most - x \in Nat
    OBVIOUS
  <2>2. T \subseteq Nat
    BY <2>1
  <2>3. PICK x \in S : TRUE
    OBVIOUS
  <2>4. most - x \in T
    OBVIOUS
  <2> QED
    BY <2>2, <2>4
<1>2. PICK least \in T : \A y \in T : least <= y
  <2> HIDE DEF T
  <2> QED
    BY <1>1, NatLeast
<1>3. PICK top \in S : least = most - top
  BY <1>2
<1>4. \A x \in S : top >= x
  <2> TAKE x \in S
  <2>1. least <= most - x
    BY <1>2
  <2> QED
    BY <1>3, <2>1
<1>5. Max(S) \in S /\ \A y \in S : Max(S) >= y
  BY <1>4 DEF Max
<1>6. \A x \in S : x <= Max(S)
  BY <1>5
<1> QED
  BY <1>5, <1>6

\* allocateRevision gives a number above all three.
LEMMA NextRevisionIs ==
    ASSUME NEW visible \in Nat, NEW persisted \in Nat, NEW reserved \in Nat
    PROVE  /\ NextRevision(visible, persisted, reserved) \in Nat
           /\ NextRevision(visible, persisted, reserved) > visible
           /\ NextRevision(visible, persisted, reserved) >= persisted
           /\ NextRevision(visible, persisted, reserved) >= reserved
<1> DEFINE S == {visible + 1, persisted, reserved}
<1>1. S \subseteq Nat /\ S # {}
  OBVIOUS
<1>2. visible + 1 + persisted + reserved \in Nat /\ \A x \in S : x <= visible + 1 + persisted + reserved
  OBVIOUS
<1>3. Max(S) \in S /\ \A x \in S : x <= Max(S)
  <2> HIDE DEF S
  <2> QED
    BY <1>1, <1>2, MaxIs
<1>4. Max(S) \in Nat /\ visible + 1 <= Max(S) /\ persisted <= Max(S) /\ reserved <= Max(S)
  BY <1>1, <1>3
<1>5. NextRevision(visible, persisted, reserved) = Max(S)
  BY DEF NextRevision
<1> HIDE DEF S
<1> QED
  BY <1>4, <1>5

\* nextNodeRevisionNumber is above every revision of the node on disk.
LEMMA PersistedNextIs ==
    ASSUME StoreInv, NEW n
    PROVE  PersistedNext(n) \in Nat \ {0} /\ \A x \in nodes : x.node = n => x.revision < PersistedNext(n)
<1> DEFINE S == {0} \cup {r.revision : r \in {x \in nodes : x.node = n}}
<1>1. PICK most \in Nat : \A r \in nodes : r.revision <= most
  BY DEF StoreInv
<1>2. \A x \in nodes : x.revision \in Nat
  BY DEF StoreInv, Records
<1>3. S \subseteq Nat /\ S # {} /\ \A x \in S : x <= most
  BY <1>1, <1>2
<1>4. Max(S) \in S /\ \A x \in S : x <= Max(S)
  <2> HIDE DEF S
  <2> QED
    BY <1>3, MaxIs
<1>5. Max(S) \in Nat
  BY <1>3, <1>4
<1>6. \A x \in nodes : x.node = n => x.revision <= Max(S)
  BY <1>4
<1>7. PersistedNext(n) = 1 + Max(S)
  BY DEF PersistedNext
<1> HIDE DEF S
<1> QED
  BY <1>2, <1>5, <1>6, <1>7

\* A sequence of planned revisions grows at its end.
LEMMA Appended ==
    ASSUME NEW S, NEW s \in Seq(S), NEW x \in S
    PROVE  /\ Append(s, x) \in Seq(S)
           /\ Len(Append(s, x)) = Len(s) + 1
           /\ Len(s) \in Nat
           /\ \A m \in 1..(Len(s) + 1) : Append(s, x)[m] = IF m <= Len(s) THEN s[m] ELSE x
           /\ ToSet(Append(s, x)) = ToSet(s) \cup {x}
<1> DEFINE t == Append(s, x)
<1>1. t \in Seq(S) /\ Len(t) = Len(s) + 1 /\ Len(s) \in Nat
  BY AppendProperties, LenProperties
<1>2. \A m \in 1..(Len(s) + 1) : t[m] = IF m <= Len(s) THEN s[m] ELSE x
  BY <1>1, AppendProperties
<1>3. DOMAIN t = 1..(Len(s) + 1) /\ DOMAIN s = 1..Len(s)
  BY <1>1, LenProperties
<1> HIDE DEF t
<1>4. ToSet(t) = ToSet(s) \cup {x}
  <2>1. ToSet(t) = {t[m] : m \in 1..(Len(s) + 1)} /\ ToSet(s) = {s[m] : m \in 1..Len(s)}
    BY <1>3 DEF ToSet
  <2> QED
    BY <1>1, <1>2, <2>1
<1> QED
  BY <1>1, <1>2, <1>4 DEF t

-----------------------------------------------------------------------------
(* The plan of a sync, path by path. *)

\* What the plan after a path is made from.
NextPlan(d, scope, found, plan, p) == IF p \in scope THEN PlanPath(d, found, plan, p) ELSE plan

\* The recursion over the paths of the scan is well defined.
LEMMA PlannedIs ==
    ASSUME NEW d, NEW scope, NEW found
    PROVE  /\ Planned(d, scope, found)[0] = StartPlan(scope)
           /\ \A i \in 1..Len(PathOrder) :
                  Planned(d, scope, found)[i] =
                      NextPlan(d, scope, found, Planned(d, scope, found)[i - 1], PathOrder[i])
<1> DEFINE N == Len(PathOrder)
           Step(f) == [i \in 0..N |-> IF i = 0 THEN StartPlan(scope)
                                      ELSE IF PathOrder[i] \in scope THEN PlanPath(d, found, f[i - 1], PathOrder[i])
                                      ELSE f[i - 1]]
           Upto(f, n) == /\ f[0] = StartPlan(scope)
                         /\ \A i \in 1..n : f[i] = NextPlan(d, scope, found, f[i - 1], PathOrder[i])
           Missing == {n \in Nat : ~\E f : Upto(f, n)}
<1>1. N \in Nat
  BY PathsAssumption, LenProperties
<1>2. Missing = {}
  <2> SUFFICES ASSUME Missing # {} PROVE FALSE
    OBVIOUS
  <2>1. PICK n \in Missing : \A m \in Missing : n <= m
    <3>1. Missing \subseteq Nat
      OBVIOUS
    <3> HIDE DEF Missing
    <3> QED
      BY <3>1, NatLeast
  <2>2. CASE n = 0
    <3>1. PICK f : f = [i \in {0} |-> StartPlan(scope)]
      OBVIOUS
    <3>2. Upto(f, 0)
      BY <3>1
    <3> QED
      BY <2>1, <2>2, <3>2
  <2>3. CASE n # 0
    <3>1. n \in Nat /\ n - 1 \in Nat /\ n - 1 \notin Missing
      <4>1. n \in Nat
        BY <2>1
      <4>2. n - 1 \in Nat /\ ~(n <= n - 1)
        BY <2>3, <4>1
      <4> HIDE DEF Missing
      <4> QED
        BY <2>1, <4>1, <4>2
    <3>2. PICK f : Upto(f, n - 1)
      BY <3>1
    <3>3. PICK g : g = [i \in 0..n |-> IF i = n THEN NextPlan(d, scope, found, f[n - 1], PathOrder[n]) ELSE f[i]]
      OBVIOUS
    <3>4. g[0] = StartPlan(scope)
      BY <2>3, <3>1, <3>2, <3>3
    <3>5. ASSUME NEW i \in 1..n PROVE g[i] = NextPlan(d, scope, found, g[i - 1], PathOrder[i])
      <4>1. i - 1 \in 0..n /\ i - 1 # n /\ i \in 0..n
        BY <3>1, <3>5
      <4>2. g[i - 1] = f[i - 1]
        BY <3>3, <4>1
      <4>3. CASE i = n
        BY <3>3, <4>1, <4>2, <4>3
      <4>4. CASE i # n
        <5>1. i \in 1..(n - 1)
          BY <3>1, <4>4
        <5> QED
          BY <3>2, <3>3, <4>1, <4>2, <4>4, <5>1
      <4> QED
        BY <4>3, <4>4
    <3>6. Upto(g, n)
      BY <3>4, <3>5
    <3> QED
      BY <2>1, <3>6
  <2> QED
    BY <2>2, <2>3
<1>3. \E f : f = Step(f)
  <2>1. PICK f : Upto(f, N)
    BY <1>1, <1>2
  <2>2. PICK g : g = [i \in 0..N |-> f[i]]
    OBVIOUS
  <2>3. ASSUME NEW i \in 0..N PROVE g[i] = Step(g)[i]
    <3>1. CASE i = 0
      BY <1>1, <2>1, <2>2, <3>1
    <3>2. CASE i # 0
      <4>1. i \in 1..N /\ i - 1 \in 0..N
        BY <1>1, <3>2
      <4>2. g[i] = f[i] /\ g[i - 1] = f[i - 1]
        BY <2>2, <4>1
      <4>3. f[i] = NextPlan(d, scope, found, f[i - 1], PathOrder[i])
        BY <2>1, <4>1
      <4> QED
        BY <3>2, <4>1, <4>2, <4>3 DEF NextPlan
    <3> QED
      BY <3>1, <3>2
  <2>4. g = Step(g)
    BY <2>2, <2>3
  <2> QED
    BY <2>4
<1>4. Planned(d, scope, found) = CHOOSE f : f = Step(f)
  BY Zenon DEF Planned
<1>5. Planned(d, scope, found) = Step(Planned(d, scope, found))
  <2> HIDE DEF Step
  <2> QED
    BY <1>3, <1>4, Zenon
<1> DEFINE P == Planned(d, scope, found)
<1>6. P = Step(P)
  BY <1>5
<1> HIDE DEF P
<1>7. P[0] = StartPlan(scope)
  BY <1>1, <1>6
<1>8. ASSUME NEW i \in 1..N PROVE P[i] = NextPlan(d, scope, found, P[i - 1], PathOrder[i])
  <2>1. i \in 0..N /\ i # 0
    BY <1>1
  <2>2. P[i] = Step(P)[i]
    BY <1>6
  <2> QED
    BY <2>1, <2>2 DEF NextPlan
<1> QED
  BY <1>7, <1>8 DEF P

\* The head's entries name revisions on disk.
LEMMA HeadIs ==
    ASSUME StoreInv, NEW p \in Paths
    PROVE  Entry(p) \in Entries /\ (Present(Entry(p)) => Named(Entry(p), nodes))
<1>1. CASE trees = <<>>
  BY <1>1 DEF Entry, HeadTree, NoTree, Entries, Present
<1>2. CASE trees # <<>>
  <2>1. trees \in Seq(Trees)
    BY DEF StoreInv
  <2>2. Len(trees) \in 1..Len(trees)
    BY <1>2, <2>1, LenProperties, EmptySeq
  <2>3. trees[Len(trees)] \in Trees
    BY <2>1, <2>2, ElementOfSeq
  <2>4. HeadTree = trees[Len(trees)]
    BY <1>2 DEF HeadTree, Last
  <2>5. Entry(p) \in Entries
    BY <2>3, <2>4 DEF Entry, Trees
  <2>6. Present(Entry(p)) => Named(Entry(p), nodes)
    BY <2>2, <2>4 DEF StoreInv, Entry
  <2> QED
    BY <2>5, <2>6
<1> QED
  BY <1>1, <1>2

\* So does what a file continues.
LEMMA ContinuedIs ==
    ASSUME StoreInv, NEW d, NEW scope, NEW found, Asked(d, scope, found), NEW p \in Paths
    PROVE  /\ Continued(d, p) \in Entries
           /\ Present(Continued(d, p)) =>
                  Named(Continued(d, p), nodes) /\ Continued(d, p).node \in 1..created
           /\ ~Present(Continued(d, p)) => Continued(d, p).revision = 0
           /\ Present(Continued(d, p)) => \E q \in Paths : Continued(d, p) = Entry(q)
<1>0. Present(Continued(d, p)) => \E q \in Paths : Continued(d, p) = Entry(q)
  <2>1. CASE Preserving(d, p)
    BY <2>1 DEF Preserving, Asked, Continued
  <2>2. CASE ~Preserving(d, p)
    BY <2>2 DEF Continued, Present
  <2> QED
    BY <2>1, <2>2
<1>1. Continued(d, p) \in Entries /\ (Present(Continued(d, p)) => Named(Continued(d, p), nodes))
  <2>1. CASE Preserving(d, p)
    <3>1. d[p].from \in Paths
      BY <2>1 DEF Preserving, Asked
    <3> QED
      BY <2>1, <3>1, HeadIs DEF Continued
  <2>2. CASE ~Preserving(d, p)
    BY <2>2, HeadIs DEF Continued, Entries, Present
  <2> QED
    BY <2>1, <2>2
<1>2. PICK e : e = Continued(d, p)
  OBVIOUS
<1>3. Named(e, nodes) => e.node \in 1..created
  BY DEF Named, StoreInv, Records
<1>4. ~Present(e) => e.revision = 0
  BY DEF Present, NoEntry
<1> QED
  BY <1>0, <1>1, <1>2, <1>3, <1>4

\* The plan before the first path.
LEMMA PlanStarts ==
    ASSUME StoreInv, NEW scope \in Scopes, NEW found
    PROVE  PlanInv(scope, found, StartPlan(scope), 0)
<1> DEFINE plan == StartPlan(scope)
<1>0. Len(PathOrder) \in Nat /\ created \in Nat /\ scope \subseteq Paths
  BY PathsAssumption, ScopesAssumption, LenProperties DEF StoreInv
<1>1. /\ plan = [entries |-> plan.entries, records |-> plan.records,
                 reserved |-> plan.reserved, fresh |-> plan.fresh]
      /\ plan.records = <<>> /\ plan.fresh = created
      /\ plan.entries = [p \in Paths |-> IF p \in scope THEN NoEntry ELSE Entry(p)]
      /\ plan.reserved = [n \in 1..(created + Len(PathOrder)) |-> 1]
  BY DEF StartPlan
<1> HIDE DEF plan
<1>2. \A p \in Paths : Entry(p) \in Entries /\ (Present(Entry(p)) => Named(Entry(p), nodes))
  BY HeadIs
<1>3. NoEntry \in Entries /\ ~Present(NoEntry) /\ NoEntry.content = NoFile
  BY DEF Entries, Present, NoEntry
<1>4. PlanType(plan, 0)
  <2>1. plan.entries \in [Paths -> Entries]
    BY <1>1, <1>2, <1>3
  <2>2. plan.records \in Seq(Records)
    BY <1>1
  <2>3. plan.reserved \in [1..(created + Len(PathOrder)) -> Nat \ {0}]
    BY <1>1
  <2> QED
    BY <1>0, <1>1, <2>1, <2>2, <2>3 DEF PlanType
<1>5. Len(plan.records) = 0
  BY <1>1
<1>6. RecordsPlanned(plan) /\ AllDifferent(plan.records)
  BY <1>5 DEF RecordsPlanned, AllDifferent
<1>7. \A q \in Paths : Present(plan.entries[q]) => Named(plan.entries[q], nodes \cup ToSet(plan.records))
  BY <1>1, <1>2, <1>3 DEF Named
<1>8. /\ \A q \in Paths \ scope : plan.entries[q] = Entry(q)
      /\ \A q \in scope : plan.entries[q].content \in {found[q], NoFile}
  BY <1>0, <1>1, <1>3
<1>9. \A j \in 1..0 : FALSE
  OBVIOUS
<1>10. PlanInv(scope, found, plan, 0)
  BY <1>4, <1>6, <1>7, <1>8, <1>9 DEF PlanInv
<1> QED
  BY <1>10 DEF plan

\* A file gets its entry.
LEMMA FileKeeps ==
    ASSUME StoreInv, NEW scope \in Scopes, NEW found, NEW plan, NEW i \in 1..Len(PathOrder), PlanInv(scope, found, plan, i - 1),
           PathOrder[i] \in scope,
           NEW entry \in Entries, entry.content = found[PathOrder[i]],
           NEW planned, planned.entries = [plan.entries EXCEPT ![PathOrder[i]] = entry],
           ToSet(plan.records) \subseteq ToSet(planned.records),
           Named(entry, nodes \cup ToSet(planned.records)),
           PlanType(planned, i), RecordsPlanned(planned), AllDifferent(planned.records)
    PROVE  PlanInv(scope, found, planned, i)
<1>0. scope \subseteq Paths /\ plan.entries \in [Paths -> Entries] /\ Len(PathOrder) \in Nat
  BY ScopesAssumption, PathsAssumption, LenProperties DEF PlanInv, PlanType
<1>1. PICK p \in scope : p = PathOrder[i]
  OBVIOUS
<1>2. planned.entries[p] = entry /\ \A q \in Paths : q # p => planned.entries[q] = plan.entries[q]
  BY <1>0, <1>1
<1>3. \A q \in Paths : Present(planned.entries[q]) => Named(planned.entries[q], nodes \cup ToSet(planned.records))
  BY <1>2 DEF PlanInv, Named
<1>4. \A q \in Paths \ scope : planned.entries[q] = Entry(q)
  BY <1>2 DEF PlanInv
<1>5. \A q \in scope : planned.entries[q].content \in {found[q], NoFile}
  BY <1>0, <1>1, <1>2 DEF PlanInv
<1>6. ASSUME NEW j \in 1..i, PathOrder[j] \in scope
      PROVE  planned.entries[PathOrder[j]].content = found[PathOrder[j]]
  <2>1. CASE PathOrder[j] = p
    BY <1>1, <1>2, <2>1
  <2>2. CASE PathOrder[j] # p
    <3>1. j \in 1..(i - 1)
      BY <1>0, <1>1, <2>2
    <3>2. plan.entries[PathOrder[j]].content = found[PathOrder[j]]
      BY <1>6, <3>1 DEF PlanInv
    <3> QED
      BY <1>0, <1>2, <1>6, <2>2, <3>2
  <2> QED
    BY <2>1, <2>2
<1> QED
  BY <1>3, <1>4, <1>5, <1>6 DEF PlanInv

\* A file that needs no new revision.
LEMMA KeptKeeps ==
    ASSUME StoreInv, NEW scope \in Scopes, NEW found, NEW plan, NEW i \in 1..Len(PathOrder), PlanInv(scope, found, plan, i - 1),
           PathOrder[i] \in scope,
           NEW entry \in Entries, entry.content = found[PathOrder[i]], Named(entry, nodes)
    PROVE  PlanInv(scope, found, [plan EXCEPT !.entries[PathOrder[i]] = entry], i)
<1>0. Len(PathOrder) \in Nat /\ scope \subseteq Paths /\ created \in Nat
  BY PathsAssumption, ScopesAssumption, LenProperties DEF StoreInv
<1>1. PICK planned : planned = [plan EXCEPT !.entries[PathOrder[i]] = entry]
  OBVIOUS
<1>2. PlanType(plan, i - 1)
  BY DEF PlanInv
<1>3. /\ planned = [entries |-> planned.entries, records |-> planned.records,
                    reserved |-> planned.reserved, fresh |-> planned.fresh]
      /\ planned.entries = [plan.entries EXCEPT ![PathOrder[i]] = entry]
      /\ planned.records = plan.records /\ planned.reserved = plan.reserved /\ planned.fresh = plan.fresh
  BY <1>1, <1>2 DEF PlanType
<1>4. PlanType(planned, i)
  BY <1>0, <1>2, <1>3 DEF PlanType
<1>5. RecordsPlanned(planned) /\ AllDifferent(planned.records)
  BY <1>3 DEF PlanInv, RecordsPlanned
<1>6. Named(entry, nodes \cup ToSet(planned.records))
  BY DEF Named
<1>7. PlanInv(scope, found, planned, i)
  BY <1>3, <1>4, <1>5, <1>6, FileKeeps
<1> QED
  BY <1>1, <1>7

\* A file that gets a new revision r.
LEMMA NewKeeps ==
    ASSUME StoreInv, NEW scope \in Scopes, NEW found, NEW plan, NEW i \in 1..Len(PathOrder), PlanInv(scope, found, plan, i - 1),
           PathOrder[i] \in scope,
           NEW r \in Records, r.content = found[PathOrder[i]], Follows(r), Continues(r),
           NEW reserved \in [1..(created + Len(PathOrder)) -> Nat \ {0}],
           NEW fresh \in created..(created + i), plan.fresh <= fresh, r.node <= fresh,
           \A n \in 1..(created + Len(PathOrder)) : plan.reserved[n] <= reserved[n],
           r.node <= created =>
               /\ r.revision >= plan.reserved[r.node] /\ r.revision < reserved[r.node]
               /\ \A x \in nodes : ~SameRevision(r, x),
           r.node > created => r.node > plan.fresh,
           NEW planned,
           planned = [entries |-> [plan.entries EXCEPT ![PathOrder[i]] =
                                       [node |-> r.node, revision |-> r.revision, content |-> r.content]],
                      records |-> Append(plan.records, r), reserved |-> reserved, fresh |-> fresh]
    PROVE  PlanInv(scope, found, planned, i)
<1>0. Len(PathOrder) \in Nat /\ scope \subseteq Paths /\ created \in Nat /\ PlanType(plan, i - 1)
  BY PathsAssumption, ScopesAssumption, LenProperties DEF StoreInv, PlanInv
<1>1. PICK entry \in Entries : entry = [node |-> r.node, revision |-> r.revision, content |-> r.content]
  BY DEF Entries, Records
<1> DEFINE n == Len(plan.records)
           s == planned.records
<1>2. /\ s \in Seq(Records) /\ Len(s) = n + 1 /\ n \in Nat
      /\ \A m \in 1..(n + 1) : s[m] = IF m <= n THEN plan.records[m] ELSE r
      /\ ToSet(s) = ToSet(plan.records) \cup {r}
  BY <1>0, Appended DEF PlanType
<1>3. planned.entries = [plan.entries EXCEPT ![PathOrder[i]] = entry] /\ planned.reserved = reserved /\ planned.fresh = fresh
  BY <1>1
<1>4. PlanType(planned, i)
  <2>1. planned.entries \in [Paths -> Entries]
    BY <1>0, <1>3 DEF PlanType
  <2> QED
    BY <1>2, <1>3, <2>1 DEF PlanType
<1>5. Named(entry, nodes \cup ToSet(s)) /\ entry.content = found[PathOrder[i]]
  BY <1>1, <1>2 DEF Named
<1>6. \A m \in 1..n : /\ plan.records[m] \in Records
                      /\ plan.records[m].node \in Nat \ {0} /\ plan.records[m].revision \in Nat \ {0}
                      /\ plan.records[m].node <= plan.fresh
                      /\ plan.records[m].node <= created =>
                            /\ plan.records[m].revision < plan.reserved[plan.records[m].node]
                            /\ \A x \in nodes : ~SameRevision(plan.records[m], x)
                      /\ Follows(plan.records[m]) /\ Continues(plan.records[m])
  <2>1. \A m \in 1..n : plan.records[m] \in Records
    BY <1>0, ElementOfSeq DEF PlanType
  <2> QED
    BY <2>1 DEF PlanInv, RecordsPlanned, Records
<1>7. r.node \in Nat \ {0} /\ r.revision \in Nat \ {0} /\ plan.fresh \in Nat /\ fresh \in Nat
  <2>1. i \in Nat /\ i - 1 \in Nat
    BY <1>0
  <2>2. plan.fresh \in created..(created + (i - 1))
    BY <1>0 DEF PlanType
  <2> QED
    BY <1>0, <2>1, <2>2 DEF Records
<1>8. RecordsPlanned(planned)
  <2> SUFFICES ASSUME NEW m \in 1..(n + 1)
               PROVE  /\ s[m].node <= fresh
                      /\ s[m].node <= created =>
                             /\ s[m].revision < reserved[s[m].node]
                             /\ \A x \in nodes : ~SameRevision(s[m], x)
                      /\ Follows(s[m]) /\ Continues(s[m])
    BY <1>2, <1>3 DEF RecordsPlanned
  <2>1. CASE m = n + 1
    BY <1>2, <2>1
  <2>2. CASE m # n + 1
    <3>1. m \in 1..n /\ s[m] = plan.records[m]
      BY <1>2, <2>2
    <3>2. PICK x \in Records : x = plan.records[m]
      BY <1>6, <3>1
    <3>3. x.node <= plan.fresh /\ x.node \in Nat \ {0} /\ x.revision \in Nat \ {0}
      BY <1>6, <3>1, <3>2
    <3>4. x.node <= created => x.revision < reserved[x.node]
      <4> SUFFICES ASSUME x.node <= created PROVE x.revision < reserved[x.node]
        OBVIOUS
      <4>1. x.node \in 1..(created + Len(PathOrder))
        BY <1>0, <3>3
      <4>2. x.revision < plan.reserved[x.node]
        BY <1>6, <3>1, <3>2
      <4>3. plan.reserved[x.node] <= reserved[x.node]
        BY <4>1
      <4>4. plan.reserved[x.node] \in Nat /\ reserved[x.node] \in Nat
        BY <1>0, <4>1 DEF PlanType
      <4> QED
        BY <3>3, <4>2, <4>3, <4>4
    <3>5. x.node <= fresh
      BY <1>7, <3>3
    <3> QED
      BY <1>6, <3>1, <3>2, <3>4, <3>5
  <2> QED
    BY <2>1, <2>2
<1>9. ASSUME NEW m \in 1..n PROVE ~SameRevision(plan.records[m], r)
  <2>1. PICK x \in Records : x = plan.records[m]
    BY <1>6
  <2>2. /\ x.node <= plan.fresh /\ x.node \in Nat \ {0} /\ x.revision \in Nat \ {0}
        /\ x.node <= created => x.revision < plan.reserved[x.node]
    BY <1>6, <2>1
  <2>3. CASE r.node <= created
    <3>1. r.node \in 1..(created + Len(PathOrder))
      BY <1>0, <1>7, <2>3
    <3>2. plan.reserved[r.node] \in Nat
      BY <1>0, <3>1 DEF PlanType
    <3> SUFFICES ASSUME x.node = r.node, x.revision = r.revision PROVE FALSE
      BY <2>1 DEF SameRevision
    <3>3. x.revision < plan.reserved[r.node]
      BY <2>2, <2>3
    <3>4. r.revision >= plan.reserved[r.node]
      BY <2>3
    <3> QED
      BY <1>7, <2>2, <3>2, <3>3, <3>4
  <2>4. CASE r.node > created
    BY <1>7, <2>1, <2>2, <2>4 DEF SameRevision
  <2> QED
    BY <1>0, <1>7, <2>3, <2>4
<1>10. AllDifferent(s)
  <2> SUFFICES ASSUME NEW k \in 1..(n + 1), NEW m \in 1..(n + 1), SameRevision(s[k], s[m]) PROVE k = m
    BY <1>2 DEF AllDifferent
  <2>1. CASE k <= n /\ m <= n
    BY <1>2, <2>1 DEF PlanInv, AllDifferent
  <2>2. CASE k <= n /\ m = n + 1
    BY <1>2, <1>9, <2>2
  <2>3. CASE k = n + 1 /\ m <= n
    BY <1>2, <1>9, <2>3 DEF SameRevision
  <2> QED
    BY <1>2, <2>1, <2>2, <2>3
<1> QED
  BY <1>2, <1>3, <1>4, <1>5, <1>8, <1>10, FileKeeps

\* A file of the scan is planned.
LEMMA FilePlanned ==
    ASSUME StoreInv, NEW scope \in Scopes, NEW d, NEW found, Asked(d, scope, found),
           NEW plan, NEW i \in 1..Len(PathOrder), PlanInv(scope, found, plan, i - 1),
           PathOrder[i] \in scope, found[PathOrder[i]] # NoFile
    PROVE  PlanInv(scope, found, PlanFile(d, found, plan, PathOrder[i]), i)
<1>0. Len(PathOrder) \in Nat /\ scope \subseteq Paths /\ created \in Nat /\ plans \in Nat /\ PlanType(plan, i - 1)
  BY PathsAssumption, ScopesAssumption, BoundsAssumption, LenProperties DEF StoreInv, PlanInv
<1>1. PICK p \in Paths : p = PathOrder[i]
  BY <1>0
<1>2. PICK old \in Entries : old = Continued(d, p)
  BY <1>1, ContinuedIs
<1>3. /\ Present(old) => Named(old, nodes) /\ old.node \in 1..created
      /\ ~Present(old) => old.revision = 0
  BY <1>2, ContinuedIs
<1>4. found[p] \in Contents
  BY <1>1 DEF Asked
<1>5. i \in Nat /\ i - 1 \in Nat /\ plan.fresh \in Nat /\ created <= plan.fresh /\ plan.fresh <= created + (i - 1)
  BY <1>0 DEF PlanType
<1>6. PICK planned : planned = PlanFile(d, found, plan, p)
  OBVIOUS
<1> SUFFICES PlanInv(scope, found, planned, i)
  BY <1>1, <1>6
<1>7. CASE d[p].kind = "restore"
  <2>1. PICK r \in nodes : r = d[p].record
    BY <1>7 DEF Asked
  <2>2. PICK entry : entry = [node |-> r.node, revision |-> r.revision, content |-> found[p]]
    OBVIOUS
  <2>3. r \in Records /\ r.content = found[p]
    BY <1>7, <2>1 DEF Asked, StoreInv
  <2>4. entry \in Entries /\ entry.content = found[p] /\ Named(entry, nodes)
    BY <1>4, <2>1, <2>2, <2>3 DEF Entries, Records, Named
  <2>5. planned = [plan EXCEPT !.entries[p] = entry]
    BY <1>6, <1>7, <2>1, <2>2 DEF PlanFile
  <2>6. PlanInv(scope, found, [plan EXCEPT !.entries[PathOrder[i]] = entry], i)
    <3>1. entry \in Entries /\ entry.content = found[PathOrder[i]] /\ Named(entry, nodes)
      BY <1>1, <2>4
    <3> QED
      BY <3>1, KeptKeeps
  <2> QED
    BY <1>1, <1>6, <2>5, <2>6
<1>8. CASE d[p].kind # "restore" /\ Present(old) /\ old.content = found[p]
  <2>1. planned = [plan EXCEPT !.entries[p] = old]
    BY <1>2, <1>6, <1>8 DEF PlanFile
  <2>2. PlanInv(scope, found, [plan EXCEPT !.entries[PathOrder[i]] = old], i)
    <3>1. old.content = found[PathOrder[i]] /\ Named(old, nodes)
      BY <1>1, <1>3, <1>8
    <3> QED
      BY <3>1, KeptKeeps
  <2> QED
    BY <1>1, <1>6, <2>1, <2>2
<1>9. CASE d[p].kind # "restore" /\ Present(old) /\ old.content # found[p]
  <2>1. old.node \in 1..created /\ old.revision \in Nat \ {0} /\ Named(old, nodes)
    BY <1>3, <1>9 DEF Entries, Present
  <2>2. PICK node : node = old.node
    OBVIOUS
  <2>3. node \in 1..(created + Len(PathOrder)) /\ node \in Nat \ {0} /\ node <= plan.fresh /\ node <= created
    BY <1>0, <1>5, <2>1, <2>2
  <2>4. plan.reserved \in [1..(created + Len(PathOrder)) -> Nat \ {0}] /\ plan.reserved[node] \in Nat \ {0}
    BY <1>0, <2>3 DEF PlanType
  <2>5. PersistedNext(node) \in Nat \ {0} /\ \A x \in nodes : x.node = node => x.revision < PersistedNext(node)
    BY PersistedNextIs
  <2>6. PICK revision : revision = NextRevision(old.revision, PersistedNext(node), plan.reserved[node])
    OBVIOUS
  <2>7. /\ revision \in Nat /\ revision > old.revision
        /\ revision >= PersistedNext(node) /\ revision >= plan.reserved[node]
    <3>1. old.revision \in Nat /\ PersistedNext(node) \in Nat /\ plan.reserved[node] \in Nat
      BY <2>1, <2>4, <2>5
    <3> QED
      BY <2>6, <3>1, NextRevisionIs
  <2>8. PICK r : r = [node |-> node, revision |-> revision, content |-> found[p],
                      previous |-> old.revision, operation |-> plans]
    OBVIOUS
  <2>9. r \in Records
    BY <1>0, <1>4, <2>1, <2>3, <2>7, <2>8 DEF Records
  <2>10. Follows(r)
    <3>1. PICK x \in nodes : x.node = old.node /\ x.revision = old.revision
      BY <2>1 DEF Named
    <3> QED
      BY <2>2, <2>7, <2>8, <3>1 DEF Follows
  <2>19. Continues(r)
    <3>1. PICK q \in Paths : Entry(q) = old
      BY <1>2, <1>9, ContinuedIs
    <3> QED
      BY <2>2, <2>8, <3>1 DEF Continues
  <2>11. PICK reserved : reserved = [plan.reserved EXCEPT ![node] = revision + 1]
    OBVIOUS
  <2>12. /\ reserved \in [1..(created + Len(PathOrder)) -> Nat \ {0}]
         /\ reserved[node] = revision + 1
         /\ \A n \in 1..(created + Len(PathOrder)) : plan.reserved[n] <= reserved[n]
    <3>1. revision + 1 \in Nat \ {0} /\ plan.reserved[node] <= revision + 1
      BY <2>4, <2>7
    <3>2. \A n \in 1..(created + Len(PathOrder)) :
              plan.reserved[n] \in Nat /\ reserved[n] = IF n = node THEN revision + 1 ELSE plan.reserved[n]
      BY <2>4, <2>11
    <3> QED
      BY <2>3, <2>4, <2>11, <3>1, <3>2
  <2>13. \A x \in nodes : ~SameRevision(r, x)
    <3> SUFFICES ASSUME NEW x \in nodes, x.node = node, x.revision = revision PROVE FALSE
      BY <2>8 DEF SameRevision
    <3>1. x.revision \in Nat
      BY DEF StoreInv, Records
    <3> QED
      BY <2>5, <2>7, <3>1
  <2>14. planned = [entries |-> [plan.entries EXCEPT ![p] =
                                     [node |-> node, revision |-> revision, content |-> found[p]]],
                    records |-> Append(plan.records, r), reserved |-> reserved, fresh |-> plan.fresh]
    BY <1>0, <1>2, <1>6, <1>9, <2>2, <2>6, <2>8, <2>11 DEF PlanFile, PlanType, PreviousRevision
  <2>15. planned = [entries |-> [plan.entries EXCEPT ![p] =
                                     [node |-> r.node, revision |-> r.revision, content |-> r.content]],
                    records |-> Append(plan.records, r), reserved |-> reserved, fresh |-> plan.fresh]
    BY <2>8, <2>14
  <2>16. r.revision < reserved[r.node] /\ r.revision >= plan.reserved[r.node] /\ r.node <= plan.fresh /\ ~(r.node > created)
    BY <1>0, <2>3, <2>7, <2>8, <2>12
  <2>17. plan.fresh \in created..(created + i) /\ plan.fresh <= plan.fresh
    BY <1>0, <1>5
  <2>18. r.content = found[p]
    BY <2>8
  <2> QED
    BY <1>1, <1>6, <2>9, <2>10, <2>19, <2>12, <2>13, <2>15, <2>16, <2>17, <2>18, NewKeeps
<1>10. CASE d[p].kind # "restore" /\ ~Present(old)
  <2>1. PICK fresh : fresh = plan.fresh + 1
    OBVIOUS
  <2>2. fresh \in created..(created + i) /\ fresh \in Nat \ {0} /\ plan.fresh <= fresh /\ fresh > created /\ fresh > plan.fresh
    BY <1>0, <1>5, <2>1
  <2>3. PICK r : r = [node |-> fresh, revision |-> 1, content |-> found[p], previous |-> 0, operation |-> plans]
    OBVIOUS
  <2>4. r \in Records /\ Follows(r) /\ Continues(r) /\ r.content = found[p]
    BY <1>0, <1>4, <2>2, <2>3 DEF Records, Follows, Continues
  <2>5. /\ plan.reserved \in [1..(created + Len(PathOrder)) -> Nat \ {0}]
        /\ [plan.reserved EXCEPT ![fresh] = plan.reserved[fresh]] = plan.reserved
    BY <1>0 DEF PlanType
  <2>6. planned = [entries |-> [plan.entries EXCEPT ![p] =
                                    [node |-> fresh, revision |-> 1, content |-> found[p]]],
                   records |-> Append(plan.records, r),
                   reserved |-> [plan.reserved EXCEPT ![fresh] = plan.reserved[fresh]], fresh |-> fresh]
    BY <1>0, <1>2, <1>3, <1>6, <1>10, <2>1, <2>3 DEF PlanFile, PlanType, PreviousRevision
  <2>7. planned = [entries |-> [plan.entries EXCEPT ![p] =
                                    [node |-> r.node, revision |-> r.revision, content |-> r.content]],
                   records |-> Append(plan.records, r), reserved |-> plan.reserved, fresh |-> fresh]
    BY <2>3, <2>5, <2>6
  <2>8. \A n \in 1..(created + Len(PathOrder)) : plan.reserved[n] <= plan.reserved[n]
    <3> TAKE n \in 1..(created + Len(PathOrder))
    <3>1. plan.reserved[n] \in Nat
      BY <2>5
    <3> QED
      BY <3>1
  <2>9. r.node <= fresh /\ ~(r.node <= created) /\ r.node > plan.fresh
    BY <1>0, <2>2, <2>3
  <2>10. r.content = found[PathOrder[i]]
    BY <1>1, <2>4
  <2>11. PlanInv(scope, found, planned, i)
    BY <1>1, <2>2, <2>4, <2>5, <2>7, <2>8, <2>9, <2>10, NewKeeps
  <2> QED
    BY <2>11
<1> QED
  BY <1>7, <1>8, <1>9, <1>10

\* Every path of the scan is planned, or left as it was.
LEMMA PathPlanned ==
    ASSUME StoreInv, NEW scope \in Scopes, NEW d, NEW found, Asked(d, scope, found),
           NEW plan, NEW i \in 1..Len(PathOrder), PlanInv(scope, found, plan, i - 1)
    PROVE  PlanInv(scope, found, NextPlan(d, scope, found, plan, PathOrder[i]), i)
<1>0. Len(PathOrder) \in Nat /\ created \in Nat /\ scope \subseteq Paths
  BY PathsAssumption, ScopesAssumption, LenProperties DEF StoreInv
<1>1. CASE PathOrder[i] \in scope /\ found[PathOrder[i]] # NoFile
  BY <1>1, FilePlanned DEF NextPlan, PlanPath
<1>2. CASE ~(PathOrder[i] \in scope /\ found[PathOrder[i]] # NoFile)
  <2>1. NextPlan(d, scope, found, plan, PathOrder[i]) = plan
    BY <1>2 DEF NextPlan, PlanPath
  <2>2. PlanType(plan, i)
    <3>1. PlanType(plan, i - 1) /\ created..(created + (i - 1)) \subseteq created..(created + i)
      BY <1>0 DEF PlanInv
    <3> QED
      BY <3>1 DEF PlanType
  <2>3. ASSUME NEW j \in 1..i, PathOrder[j] \in scope
        PROVE  plan.entries[PathOrder[j]].content = found[PathOrder[j]]
    <3>1. CASE j = i
      BY <1>2, <2>3, <3>1 DEF PlanInv
    <3>2. CASE j # i
      <4>1. j \in 1..(i - 1)
        BY <1>0, <3>2
      <4> QED
        BY <2>3, <4>1 DEF PlanInv
    <3> QED
      BY <3>1, <3>2
  <2>4. PlanInv(scope, found, plan, i)
    BY <2>2, <2>3 DEF PlanInv
  <2> QED
    BY <2>1, <2>4
<1> QED
  BY <1>1, <1>2

\* After every path of the scan.
LEMMA PlanHolds ==
    ASSUME StoreInv, NEW scope \in Scopes, NEW d, NEW found, Asked(d, scope, found)
    PROVE  PlanInv(scope, found, Planned(d, scope, found)[Len(PathOrder)], Len(PathOrder))
<1> DEFINE N == Len(PathOrder)
           P == Planned(d, scope, found)
           Bad == {i \in 0..N : ~PlanInv(scope, found, P[i], i)}
<1>1. N \in Nat
  BY PathsAssumption, LenProperties
<1>2. /\ P[0] = StartPlan(scope)
      /\ \A i \in 1..N : P[i] = NextPlan(d, scope, found, P[i - 1], PathOrder[i])
  BY PlannedIs
<1> HIDE DEF P
<1>3. Bad = {}
  <2> SUFFICES ASSUME Bad # {} PROVE FALSE
    OBVIOUS
  <2>1. PICK i \in Bad : \A j \in Bad : i <= j
    <3>1. Bad \subseteq Nat
      BY <1>1
    <3> HIDE DEF Bad
    <3> QED
      BY <3>1, NatLeast
  <2>2. i \in 0..N /\ ~PlanInv(scope, found, P[i], i)
    BY <2>1
  <2>3. i # 0
    <3>1. PlanInv(scope, found, P[0], 0)
      BY <1>2, PlanStarts
    <3> QED
      BY <2>2, <3>1
  <2>4. i \in 1..N /\ i - 1 \in 0..N /\ ~(i <= i - 1)
    BY <1>1, <2>2, <2>3
  <2>5. i - 1 \notin Bad
    <3> HIDE DEF Bad
    <3> QED
      BY <2>1, <2>4
  <2>6. PlanInv(scope, found, P[i - 1], i - 1)
    BY <2>4, <2>5
  <2>7. PlanInv(scope, found, NextPlan(d, scope, found, P[i - 1], PathOrder[i]), i)
    BY <2>4, <2>6, PathPlanned
  <2>8. P[i] = NextPlan(d, scope, found, P[i - 1], PathOrder[i])
    BY <1>2, <2>4
  <2> QED
    BY <2>2, <2>7, <2>8
<1>4. N \in 0..N
  BY <1>1
<1>5. PlanInv(scope, found, P[N], N)
  BY <1>3, <1>4
<1> QED
  BY <1>5 DEF P

\* What planCandidateTree returns.
WellPlanned(c, scope, found) ==
    /\ c = [tree |-> c.tree, records |-> c.records]
    /\ c.tree \in Trees
    /\ c.tree.scope = scope
    /\ c.records \in Seq(Records)
    /\ AllDifferent(c.records)
    /\ \A m \in 1..Len(c.records) :
           /\ c.records[m].node <= created + Len(PathOrder)
           /\ \A x \in nodes : ~SameRevision(c.records[m], x)
           /\ Follows(c.records[m])
           /\ Continues(c.records[m])
    /\ \A p \in Paths : Present(c.tree.entries[p]) => Named(c.tree.entries[p], nodes \cup ToSet(c.records))
    /\ \A p \in Paths \ scope : c.tree.entries[p] = Entry(p)
    /\ \A p \in scope : c.tree.entries[p].content = found[p]

\* What is asked for is well planned.
LEMMA CandidateIs ==
    ASSUME StoreInv, NEW scope \in Scopes, NEW d, NEW found, Asked(d, scope, found)
    PROVE  WellPlanned(PlanCandidate(d, scope, found), scope, found)
<1> DEFINE N == Len(PathOrder)
<1>0. N \in Nat /\ scope \subseteq Paths /\ created \in Nat
  BY PathsAssumption, ScopesAssumption, LenProperties DEF StoreInv
<1>1. PICK plan : plan = Planned(d, scope, found)[N]
  OBVIOUS
<1>2. PlanInv(scope, found, plan, N)
  BY <1>1, PlanHolds
<1>3. PICK removed : removed = {p \in scope : Present(Entry(p)) /\ found[p] = NoFile}
  OBVIOUS
<1>4. PICK c : c = [tree |-> [entries |-> plan.entries, removed |-> removed, scope |-> scope],
                    records |-> plan.records]
  OBVIOUS
<1>5. c = PlanCandidate(d, scope, found)
  BY <1>1, <1>3, <1>4 DEF PlanCandidate
<1>6. PlanType(plan, N) /\ RecordsPlanned(plan)
  BY <1>2 DEF PlanInv
<1>7. c = [tree |-> c.tree, records |-> c.records] /\ c.tree \in Trees /\ c.tree.scope = scope
  <2>1. removed \subseteq Paths
    BY <1>0, <1>3
  <2> QED
    BY <1>4, <1>6, <2>1 DEF PlanType, Trees
<1>8. c.records = plan.records /\ c.tree.entries = plan.entries
  BY <1>4
<1>9. c.records \in Seq(Records) /\ AllDifferent(c.records)
  BY <1>2, <1>6, <1>8 DEF PlanType, PlanInv
<1>10. ASSUME NEW m \in 1..Len(c.records)
       PROVE  /\ c.records[m].node <= created + N
              /\ \A x \in nodes : ~SameRevision(c.records[m], x)
              /\ Follows(c.records[m]) /\ Continues(c.records[m])
  <2>1. PICK r \in Records : r = c.records[m]
    BY <1>9, ElementOfSeq
  <2>2. r.node <= plan.fresh /\ (r.node <= created => \A x \in nodes : ~SameRevision(r, x)) /\ Follows(r) /\ Continues(r)
    BY <1>6, <1>8, <2>1 DEF RecordsPlanned
  <2>3. r.node \in Nat /\ plan.fresh \in Nat /\ plan.fresh <= created + N
    BY <1>0, <1>6 DEF PlanType, Records
  <2>4. CASE r.node <= created
    BY <1>0, <2>1, <2>2, <2>3, <2>4
  <2>5. CASE ~(r.node <= created)
    <3>1. \A x \in nodes : x.node # r.node
      BY <2>5 DEF StoreInv
    <3> QED
      BY <1>0, <2>1, <2>2, <2>3, <3>1 DEF SameRevision
  <2> QED
    BY <2>4, <2>5
<1>11. /\ \A p \in Paths : Present(c.tree.entries[p]) => Named(c.tree.entries[p], nodes \cup ToSet(c.records))
       /\ \A p \in Paths \ scope : c.tree.entries[p] = Entry(p)
  BY <1>2, <1>8 DEF PlanInv
<1>12. ASSUME NEW p \in scope PROVE c.tree.entries[p].content = found[p]
  <2>1. PICK j \in 1..N : PathOrder[j] = p
    <3>1. DOMAIN PathOrder = 1..N
      BY PathsAssumption, LenProperties
    <3> QED
      BY <1>0, <1>12, <3>1 DEF Paths, ToSet
  <2> QED
    BY <1>2, <1>8, <2>1 DEF PlanInv
<1>13. WellPlanned(c, scope, found)
  BY <1>7, <1>9, <1>10, <1>11, <1>12 DEF WellPlanned
<1> QED
  BY <1>5, <1>13

-----------------------------------------------------------------------------
(* The steps. *)

\* A pending sync is what its plan was.
LEMMA BeginKeeps ==
    ASSUME SyncInv, NEW scope \in Scopes, NEW found, NEW c, WellPlanned(c, scope, found), Begin(c)
    PROVE  SyncInv'
<1>0. Len(PathOrder) \in Nat /\ created \in Nat /\ plans \in Nat /\ MaxPlans \in Nat
  BY PathsAssumption, BoundsAssumption, LenProperties DEF SyncInv, StoreInv
<1>1. candidate' = c /\ plans' = plans + 1 /\ UNCHANGED <<work, trees, nodes>>
  BY DEF Begin
<1> DEFINE S == {created} \cup {r.node : r \in ToSet(c.records)}
<1>2. \A m \in 1..Len(c.records) : c.records[m] \in Records
  BY ElementOfSeq DEF WellPlanned
<1>3. ToSet(c.records) = {c.records[m] : m \in 1..Len(c.records)}
  <2>1. DOMAIN c.records = 1..Len(c.records)
    BY LenProperties DEF WellPlanned
  <2> QED
    BY <2>1 DEF ToSet
<1>4. S \subseteq Nat /\ S # {} /\ \A x \in S : x <= created + Len(PathOrder)
  <2>1. \A r \in ToSet(c.records) : r.node \in Nat /\ r.node <= created + Len(PathOrder)
    BY <1>2, <1>3 DEF WellPlanned, Records
  <2> QED
    BY <1>0, <2>1
<1>5. created' \in S /\ \A x \in S : x <= created'
  <2>1. created' = Max(S)
    BY DEF Begin
  <2>2. created + Len(PathOrder) \in Nat
    BY <1>0
  <2> HIDE DEF S
  <2> QED
    BY <1>4, <2>1, <2>2, MaxIs
<1>6. created' \in Nat /\ created <= created' /\ \A m \in 1..Len(c.records) : c.records[m].node <= created'
  BY <1>3, <1>4, <1>5
<1>7. StoreInv'
  <2>1. \A r \in nodes : r.node <= created'
    <3> SUFFICES ASSUME NEW r \in nodes PROVE r.node <= created'
      OBVIOUS
    <3>1. r.node \in Nat /\ r.node <= created
      BY DEF SyncInv, StoreInv, Records
    <3> QED
      BY <1>0, <1>6, <3>1
  <2>2. plans' \in 0..MaxPlans
    BY <1>0, <1>1 DEF Begin
  <2> QED
    BY <1>1, <1>6, <2>1, <2>2 DEF SyncInv, StoreInv, Follows
<1>8. PendingInv'
  BY <1>1, <1>6 DEF WellPlanned, PendingInv, Follows
<1>9. CandidateInv'
  BY <1>1 DEF WellPlanned, CandidateInv, Continues, Entry, HeadTree
<1> QED
  BY <1>7, <1>8, <1>9 DEF SyncInv

\* What init, sync and a node restore ask a plan for.
LEMMA AskedIs ==
    ASSUME StoreInv
    PROVE  /\ Asked(AllAuto, DefaultScope, work)
           /\ \A d \in Directives, scope \in Scopes : Asked(d, scope, work)
           /\ \A r \in nodes, p \in Paths :
                  Asked([AllAuto EXCEPT ![p] = Restore(r)], DefaultScope, [work EXCEPT ![p] = r.content])
<1>0. DefaultScope \in Scopes /\ work \in [Paths -> Contents \cup {NoFile}]
  BY ScopesAssumption DEF DefaultScope, StoreInv
<1>1. Asked(AllAuto, DefaultScope, work)
  BY <1>0 DEF Asked, AllAuto, Automatic
<1>2. ASSUME NEW d \in Directives, NEW scope \in Scopes PROVE Asked(d, scope, work)
  <2>1. \A p \in Paths : d[p] \in {Automatic, New} \cup {Preserve(q) : q \in Paths}
    BY DEF Directives
  <2>2. \A p \in Paths : d[p].kind # "restore"
    BY <2>1 DEF Automatic, New, Preserve
  <2>3. \A p \in Paths : d[p].kind = "preserve" => d[p].from \in Paths
    BY <2>1 DEF Automatic, New, Preserve
  <2> QED
    BY <1>0, <2>2, <2>3 DEF Asked
<1>3. ASSUME NEW r \in nodes, NEW p \in Paths
      PROVE  Asked([AllAuto EXCEPT ![p] = Restore(r)], DefaultScope, [work EXCEPT ![p] = r.content])
  <2>1. PICK d : d = [AllAuto EXCEPT ![p] = Restore(r)]
    OBVIOUS
  <2>2. PICK found : found = [work EXCEPT ![p] = r.content]
    OBVIOUS
  <2>3. \A q \in Paths : d[q] = IF q = p THEN [kind |-> "restore", record |-> r] ELSE [kind |-> "auto"]
    BY <2>1 DEF AllAuto, Restore, Automatic
  <2>4. found \in [Paths -> Contents \cup {NoFile}] /\ found[p] = r.content
    BY <1>0, <2>2 DEF StoreInv, Records
  <2>5. Asked(d, DefaultScope, found)
    BY <1>0, <2>3, <2>4 DEF Asked
  <2> QED
    BY <2>1, <2>2, <2>5
<1> QED
  BY <1>1, <1>2, <1>3

\* StartInit, StartSync and StartNodeRestore begin what is well planned.
LEMMA StartsKeep ==
    ASSUME SyncInv, StartInit \/ StartSync \/ StartNodeRestore
    PROVE  SyncInv'
<1>0. StoreInv /\ DefaultScope \in Scopes
  BY ScopesAssumption DEF SyncInv, DefaultScope
<1>1. CASE StartInit
  <2>1. WellPlanned(PlanCandidate(AllAuto, DefaultScope, work), DefaultScope, work)
    BY <1>0, AskedIs, CandidateIs
  <2> QED
    BY <1>0, <1>1, <2>1, BeginKeeps DEF StartInit
<1>2. CASE StartSync
  <2>1. PICK d \in Directives, scope \in Scopes : Begin(PlanCandidate(d, scope, work))
    BY <1>2 DEF StartSync
  <2>2. Asked(d, scope, work)
    BY <1>0, AskedIs
  <2>3. WellPlanned(PlanCandidate(d, scope, work), scope, work)
    BY <1>0, <2>2, CandidateIs
  <2> QED
    BY <2>1, <2>3, BeginKeeps
<1>3. CASE StartNodeRestore
  <2>1. PICK r \in nodes, p \in Paths :
            Begin(PlanCandidate([AllAuto EXCEPT ![p] = Restore(r)], DefaultScope, [work EXCEPT ![p] = r.content]))
    BY <1>3 DEF StartNodeRestore
  <2>2. PICK d : d = [AllAuto EXCEPT ![p] = Restore(r)]
    OBVIOUS
  <2>3. PICK found : found = [work EXCEPT ![p] = r.content]
    OBVIOUS
  <2>4. Begin(PlanCandidate(d, DefaultScope, found))
    BY <2>1, <2>2, <2>3
  <2>5. Asked(d, DefaultScope, found)
    BY <1>0, <2>2, <2>3, AskedIs
  <2>6. WellPlanned(PlanCandidate(d, DefaultScope, found), DefaultScope, found)
    BY <1>0, <2>5, CandidateIs
  <2> QED
    BY <1>0, <2>4, <2>6, BeginKeeps
<1> QED
  BY <1>1, <1>2, <1>3

\* A tree joins the history.
LEMMA TreeJoins ==
    ASSUME StoreInv, NEW t \in Trees, trees' = Append(trees, t),
           \A p \in Paths : Present(t.entries[p]) => Named(t.entries[p], nodes)
    PROVE  /\ trees' \in Seq(Trees)
           /\ \A k \in 1..Len(trees') : \A p \in Paths :
                  Present(trees'[k].entries[p]) => Named(trees'[k].entries[p], nodes)
           /\ trees' # <<>> /\ trees'[Len(trees')] = t
<1>1. /\ trees' \in Seq(Trees) /\ Len(trees') = Len(trees) + 1 /\ Len(trees) \in Nat
      /\ \A m \in 1..(Len(trees) + 1) : trees'[m] = IF m <= Len(trees) THEN trees[m] ELSE t
  BY Appended DEF StoreInv
<1>2. ASSUME NEW k \in 1..(Len(trees) + 1), NEW p \in Paths, Present(trees'[k].entries[p])
      PROVE  Named(trees'[k].entries[p], nodes)
  <2>1. CASE k \in 1..Len(trees)
    BY <1>1, <1>2, <2>1 DEF StoreInv
  <2>2. CASE k = Len(trees) + 1
    BY <1>1, <1>2, <2>2
  <2> QED
    BY <1>1, <2>1, <2>2
<1>3. trees' # <<>> /\ trees'[Len(trees')] = t
  BY <1>1
<1> QED
  BY <1>1, <1>2, <1>3

\* A restored tree names what the old tree named.
LEMMA RestoreTreeKeeps ==
    ASSUME SyncInv, RestoreTree
    PROVE  SyncInv'
<1>0. StoreInv
  BY DEF SyncInv
<1>1. PICK k \in 1..Len(trees) :
          /\ trees' = Append(trees, [trees[k] EXCEPT
                 !.removed = {p \in Paths : Present(Entry(p)) /\ ~Present(trees[k].entries[p])}])
          /\ work' = [p \in Paths |-> IF trees[k].entries[p].content = Entry(p).content
                                      THEN work[p] ELSE trees[k].entries[p].content]
  BY DEF RestoreTree
<1>2. UNCHANGED <<nodes, created, candidate, plans>> /\ Idle
  BY DEF RestoreTree
<1>3. PICK removed : removed = {p \in Paths : Present(Entry(p)) /\ ~Present(trees[k].entries[p])}
  OBVIOUS
<1>4. PICK old \in Trees : old = trees[k]
  BY <1>0, ElementOfSeq DEF StoreInv
<1>5. PICK t : t = [old EXCEPT !.removed = removed]
  OBVIOUS
<1>6. t \in Trees /\ t.entries = old.entries
  BY <1>3, <1>5 DEF Trees
<1>7. trees' = Append(trees, t)
  BY <1>1, <1>3, <1>4, <1>5
<1>8. \A p \in Paths : Present(t.entries[p]) => Named(t.entries[p], nodes)
  BY <1>0, <1>4, <1>6 DEF StoreInv
<1>9. /\ trees' \in Seq(Trees)
      /\ \A m \in 1..Len(trees') : \A p \in Paths :
             Present(trees'[m].entries[p]) => Named(trees'[m].entries[p], nodes)
  BY <1>0, <1>6, <1>7, <1>8, TreeJoins
<1>10. work' \in [Paths -> Contents \cup {NoFile}]
  <2>1. \A p \in Paths : old.entries[p].content \in Contents \cup {NoFile}
    BY DEF Trees, Entries, NoEntry
  <2> QED
    BY <1>0, <1>1, <1>4, <2>1 DEF StoreInv
<1>11. StoreInv'
  BY <1>0, <1>2, <1>9, <1>10 DEF StoreInv, Follows
<1>12. PendingInv'
  BY <1>2 DEF SyncInv, PendingInv, Follows
<1> QED
  BY <1>2, <1>11, <1>12 DEF SyncInv, Idle

\* Writing a node revision takes it off the list and puts it on disk.
LEMMA WriteNodeKeeps ==
    ASSUME SyncInv, WriteNode
    PROVE  SyncInv'
<1>0. StoreInv /\ PendingInv /\ CandidateInv
  BY DEF SyncInv, WriteNode
<1>1. PICK s \in Seq(Records) : s = candidate.records
  BY <1>0 DEF PendingInv
<1>2. s # <<>>
  BY <1>1 DEF WriteNode
<1>3. PICK tail : tail = Tail(s)
  OBVIOUS
<1>4. PICK r : r = s[1]
  OBVIOUS
<1>5. /\ Len(s) \in Nat \ {0} /\ r \in Records
      /\ tail \in Seq(Records) /\ Len(tail) = Len(s) - 1
      /\ \A m \in 1..Len(tail) : tail[m] = s[m + 1]
  <2>1. Len(s) \in Nat \ {0} /\ 1 \in 1..Len(s)
    BY <1>2, LenProperties, EmptySeq
  <2>2. r \in Records
    BY <1>4, <2>1, ElementOfSeq
  <2>3. tail \in Seq(Records) /\ Len(tail) = Len(s) - 1 /\ \A m \in 1..Len(tail) : tail[m] = s[m + 1]
    BY <1>2, <1>3, HeadTailProperties
  <2> QED
    BY <2>1, <2>2, <2>3
<1>6. ToSet(s) = {r} \cup ToSet(tail)
  <2>1. DOMAIN s = 1..Len(s) /\ DOMAIN tail = 1..Len(tail)
    BY <1>5, LenProperties
  <2>2. ToSet(s) = {s[m] : m \in 1..Len(s)} /\ ToSet(tail) = {tail[m] : m \in 1..Len(tail)}
    BY <2>1 DEF ToSet
  <2>3. \A m \in 1..Len(tail) : m + 1 \in 1..Len(s)
    BY <1>5
  <2>4. \A m \in 1..Len(s) : m = 1 \/ (m - 1 \in 1..Len(tail) /\ s[m] = tail[m - 1])
    BY <1>5
  <2>5. 1 \in 1..Len(s)
    BY <1>5
  <2>6. ASSUME NEW x \in ToSet(s) PROVE x \in {r} \cup ToSet(tail)
    <3>1. PICK m \in 1..Len(s) : x = s[m]
      BY <2>2
    <3> QED
      BY <1>4, <2>2, <2>4, <3>1
  <2>7. ASSUME NEW x \in ToSet(tail) PROVE x \in ToSet(s)
    <3>1. PICK m \in 1..Len(tail) : x = tail[m]
      BY <2>2
    <3>2. x = s[m + 1]
      BY <1>5, <3>1
    <3> QED
      BY <2>2, <2>3, <3>2
  <2>8. r \in ToSet(s)
    BY <1>4, <2>2, <2>5
  <2> QED
    BY <2>6, <2>7, <2>8
<1>7. /\ nodes' = nodes \cup {r}
      /\ candidate' = [candidate EXCEPT !.records = tail]
      /\ UNCHANGED <<work, trees, created, plans>>
  <2>1. Head(s) = r
    BY <1>4
  <2> QED
    BY <1>1, <1>3, <2>1 DEF WriteNode
<1>8. candidate' = [tree |-> candidate.tree, records |-> tail]
  BY <1>0, <1>7 DEF CandidateInv
<1>9. \A x : Follows(x) => Follows(x)'
  BY <1>7 DEF Follows
<1>10. 1 \in 1..Len(s) /\ Follows(r) /\ r.node <= created
  BY <1>0, <1>1, <1>4, <1>5 DEF PendingInv
<1>11. StoreInv'
  <2>1. \E most \in Nat : \A x \in nodes' : x.revision <= most
    <3>1. PICK most \in Nat : \A x \in nodes : x.revision <= most
      BY <1>0 DEF StoreInv
    <3>2. r.revision \in Nat /\ \A x \in nodes : x.revision \in Nat
      BY <1>0, <1>5 DEF StoreInv, Records
    <3>3. most + r.revision \in Nat /\ \A x \in nodes' : x.revision <= most + r.revision
      BY <1>7, <3>1, <3>2
    <3> QED
      BY <3>3
  <2>2. nodes' \subseteq Records /\ \A x \in nodes' : x.node <= created
    BY <1>0, <1>5, <1>7, <1>10 DEF StoreInv
  <2>3. \A x \in nodes' : Follows(x)'
    BY <1>0, <1>7, <1>9, <1>10 DEF StoreInv
  <2>4. \A k \in 1..Len(trees) : \A p \in Paths :
            Present(trees[k].entries[p]) => Named(trees[k].entries[p], nodes')
    BY <1>0, <1>7 DEF StoreInv, Named
  <2> QED
    BY <1>0, <1>7, <2>1, <2>2, <2>3, <2>4 DEF StoreInv
<1>12. PendingInv'
  <2>1. AllDifferent(tail)
    <3> SUFFICES ASSUME NEW m \in 1..Len(tail), NEW n \in 1..Len(tail), SameRevision(tail[m], tail[n])
                 PROVE  m = n
      BY DEF AllDifferent
    <3>1. m + 1 \in 1..Len(s) /\ n + 1 \in 1..Len(s)
      BY <1>5
    <3>2. m + 1 = n + 1
      BY <1>0, <1>1, <1>5, <3>1 DEF PendingInv, AllDifferent
    <3> QED
      BY <3>2
  <2>2. ASSUME NEW m \in 1..Len(tail)
        PROVE  /\ tail[m].node <= created
               /\ \A x \in nodes' : ~SameRevision(tail[m], x)
               /\ Follows(tail[m])'
    <3>1. m + 1 \in 1..Len(s) /\ m + 1 # 1 /\ tail[m] = s[m + 1]
      BY <1>5
    <3>2. ~SameRevision(s[m + 1], r)
      BY <1>0, <1>1, <1>4, <1>10, <3>1 DEF PendingInv, AllDifferent
    <3>3. s[m + 1].node <= created /\ (\A x \in nodes : ~SameRevision(s[m + 1], x)) /\ Follows(s[m + 1])
      BY <1>0, <1>1, <3>1 DEF PendingInv
    <3> QED
      BY <1>7, <1>9, <3>1, <3>2, <3>3
  <2>3. candidate'.records = tail
    BY <1>8
  <2> QED
    BY <1>5, <1>7, <2>1, <2>2, <2>3 DEF PendingInv
<1>13. CandidateInv'
  <2>1. candidate'.tree = candidate.tree /\ candidate'.records = tail
    BY <1>8
  <2>2. nodes' \cup ToSet(tail) = nodes \cup ToSet(s)
    BY <1>6, <1>7
  <2>3. \A x : Continues(x) => Continues(x)'
    BY <1>7 DEF Continues, Entry, HeadTree
  <2>4. ASSUME NEW m \in 1..Len(tail) PROVE Continues(tail[m])'
    <3>1. m + 1 \in 1..Len(s) /\ tail[m] = s[m + 1]
      BY <1>5
    <3>2. Continues(s[m + 1])
      BY <1>0, <1>1, <3>1 DEF CandidateInv
    <3> QED
      BY <2>3, <3>1, <3>2
  <2> QED
    BY <1>0, <1>1, <1>7, <1>8, <2>1, <2>2, <2>4 DEF CandidateInv, Entry, HeadTree
<1> QED
  BY <1>11, <1>12, <1>13 DEF SyncInv

\* A pending list that is empty holds nothing back.
LEMMA NothingPending ==
    ASSUME UNCHANGED <<nodes, created>>, candidate' = NoCandidate
    PROVE  PendingInv' /\ Idle'
<1>1. candidate'.records = <<>> /\ <<>> \in Seq(Records) /\ Len(<<>>) = 0
  BY DEF NoCandidate
<1>2. \A m \in 1..0 : FALSE
  OBVIOUS
<1>3. AllDifferent(<<>>)
  BY <1>1, <1>2 DEF AllDifferent
<1> QED
  BY <1>1, <1>2, <1>3 DEF PendingInv, Idle, NoCandidate

\* The tree is committed when all its revisions are on disk.
LEMMA CommitTreeKeeps ==
    ASSUME SyncInv, CommitTree
    PROVE  SyncInv' /\ trees' # <<>> /\ trees'[Len(trees')] = candidate.tree
<1>0. StoreInv /\ CandidateInv
  BY DEF SyncInv, CommitTree
<1>1. PICK t \in Trees : t = candidate.tree
  BY <1>0 DEF CandidateInv
<1>2. /\ trees' = Append(trees, t)
      /\ work' = [p \in Paths |-> IF p \in t.scope THEN t.entries[p].content ELSE work[p]]
      /\ candidate' = NoCandidate
      /\ candidate.records = <<>>
      /\ UNCHANGED <<nodes, created, plans>>
  BY <1>1 DEF CommitTree
<1>3. \A p \in Paths : Present(t.entries[p]) => Named(t.entries[p], nodes)
  <2>1. nodes \cup ToSet(candidate.records) = nodes
    BY <1>2 DEF ToSet
  <2> QED
    BY <1>0, <1>1, <2>1 DEF CandidateInv
<1>4. /\ trees' \in Seq(Trees)
      /\ \A k \in 1..Len(trees') : \A p \in Paths :
             Present(trees'[k].entries[p]) => Named(trees'[k].entries[p], nodes)
      /\ trees' # <<>> /\ trees'[Len(trees')] = t
  BY <1>0, <1>2, <1>3, TreeJoins
<1>5. work' \in [Paths -> Contents \cup {NoFile}]
  <2>1. \A p \in Paths : t.entries[p].content \in Contents \cup {NoFile}
    BY DEF Trees, Entries, NoEntry
  <2> QED
    BY <1>0, <1>2, <2>1 DEF StoreInv
<1>6. StoreInv'
  BY <1>0, <1>2, <1>4, <1>5 DEF StoreInv, Follows
<1>7. PendingInv' /\ Idle'
  BY <1>2, NothingPending
<1>8. SyncInv'
  BY <1>6, <1>7 DEF SyncInv
<1> QED
  BY <1>1, <1>4, <1>8

\* At first nothing is committed, written or pending.
LEMMA SyncStarts == ASSUME Init PROVE SyncInv
<1>1. /\ trees = <<>> /\ nodes = {} /\ created = 0 /\ plans = 0 /\ candidate = NoCandidate
      /\ work \in [Paths -> Contents \cup {NoFile}]
  BY DEF Init
<1>2. candidate.records = <<>> /\ Len(candidate.records) = 0 /\ Len(trees) = 0 /\ \A m \in 1..0 : FALSE
  BY <1>1 DEF NoCandidate
<1>3. StoreInv
  BY <1>1, <1>2, BoundsAssumption DEF StoreInv
<1>4. PendingInv
  BY <1>1, <1>2 DEF PendingInv, AllDifferent
<1> QED
  BY <1>1, <1>3, <1>4 DEF SyncInv, Idle

\* Every step keeps it.
LEMMA SyncStep == ASSUME SyncInv, [Next]_vars PROVE SyncInv'
<1>0. StoreInv /\ PendingInv
  BY DEF SyncInv
<1>1. CASE UserEdit
  <2>1. work' \in [Paths -> Contents \cup {NoFile}]
    BY <1>0, <1>1 DEF UserEdit, StoreInv
  <2>2. UNCHANGED <<trees, nodes, created, candidate, plans>> /\ Idle
    BY <1>1 DEF UserEdit
  <2> QED
    BY <1>0, <2>1, <2>2 DEF SyncInv, StoreInv, PendingInv, Follows, Idle
<1>2. CASE StartInit \/ StartSync \/ StartNodeRestore
  BY <1>2, StartsKeep
<1>3. CASE RestoreTree
  BY <1>3, RestoreTreeKeeps
<1>4. CASE WriteNode
  BY <1>4, WriteNodeKeeps
<1>5. CASE CommitTree
  BY <1>5, CommitTreeKeeps
<1>6. CASE Interrupt
  <2>1. UNCHANGED <<work, trees, nodes, created, plans>> /\ candidate' = NoCandidate
    BY <1>6 DEF Interrupt
  <2>2. PendingInv' /\ Idle'
    BY <2>1, NothingPending
  <2>3. StoreInv'
    BY <1>0, <2>1 DEF StoreInv, Follows
  <2> QED
    BY <2>2, <2>3 DEF SyncInv
<1>7. CASE UNCHANGED vars
  BY <1>0, <1>7 DEF vars, SyncInv, StoreInv, PendingInv, CandidateInv, Follows, Continues, Idle, Entry, HeadTree
<1> QED
  BY <1>1, <1>2, <1>3, <1>4, <1>5, <1>6, <1>7 DEF Next

-----------------------------------------------------------------------------
(* The theorems. *)

\* Every sync, restore and interruption keeps the trees, the revisions on disk
\* and the planned ones in the relation the next plan starts from.
THEOREM SyncInvariant == Spec => []SyncInv
<1>1. Init => SyncInv
  BY SyncStarts
<1>2. SyncInv /\ [Next]_vars => SyncInv'
  BY SyncStep
<1> QED
  BY <1>1, <1>2, PTL DEF Spec

\* A tree, and a sequence of revisions, of the types the invariant gives.
LEMMA TypesAre == ASSUME SyncInv PROVE TypeOK
<1>1. ASSUME NEW t \in Trees PROVE IsTree(t)
  BY DEF Trees, IsTree
<1>2. \A k \in 1..Len(trees) : IsTree(trees[k])
  <2>1. \A k \in 1..Len(trees) : trees[k] \in Trees
    BY ElementOfSeq DEF SyncInv, StoreInv
  <2> QED
    BY <1>1, <2>1
<1>3. ToSet(candidate.records) \subseteq Records
  <2>1. DOMAIN candidate.records = 1..Len(candidate.records)
    BY LenProperties DEF SyncInv, PendingInv
  <2>2. \A m \in 1..Len(candidate.records) : candidate.records[m] \in Records
    BY ElementOfSeq DEF SyncInv, PendingInv
  <2> QED
    BY <2>1, <2>2 DEF ToSet
<1>4. ~Idle => IsTree(candidate.tree)
  BY <1>1 DEF SyncInv, CandidateInv
<1> QED
  BY <1>2, <1>3, <1>4 DEF TypeOK, SyncInv, StoreInv

\* The working tree, the trees, the revisions and the candidate keep the shapes
\* the planner gives them (MaterialTree and NodeRevision records).
THEOREM SyncTypeCorrect == Spec => []TypeOK
<1>1. SyncInv => TypeOK
  BY TypesAre
<1> QED
  BY <1>1, SyncInvariant, PTL

\* Nothing the candidate still has to write is on disk.
LEMMA RevisionsAreUnique == ASSUME SyncInv PROVE RevisionsUnique
<1>1. DOMAIN candidate.records = 1..Len(candidate.records)
  BY LenProperties DEF SyncInv, PendingInv
<1>2. SUFFICES ASSUME NEW r \in ToSet(candidate.records), NEW x \in nodes \cup ToSet(candidate.records),
                      x.node = r.node, x.revision = r.revision
               PROVE  x = r
  BY DEF RevisionsUnique
<1>3. PICK m \in 1..Len(candidate.records) : r = candidate.records[m]
  BY <1>1 DEF ToSet
<1>4. x \notin nodes
  BY <1>2, <1>3 DEF SyncInv, PendingInv, SameRevision
<1>5. PICK n \in 1..Len(candidate.records) : x = candidate.records[n]
  BY <1>1, <1>4 DEF ToSet
<1>6. m = n
  BY <1>2, <1>3, <1>5 DEF SyncInv, PendingInv, AllDifferent, SameRevision
<1> QED
  BY <1>3, <1>5, <1>6

\* allocateRevision and writeNodeRevision: a planned revision number is taken by
\* no other record, after any syncs interrupted part-way, restores of old trees
\* and nodes found at several paths: writing a candidate meets no conflict.
THEOREM RevisionsAlwaysUnique == Spec => []RevisionsUnique
<1>1. SyncInv => RevisionsUnique
  BY RevisionsAreUnique
<1> QED
  BY <1>1, SyncInvariant, PTL

\* commitTree comes after the last writeNodeRevision, and nothing on disk goes
\* away: each entry of each committed tree names a revision with its content.
THEOREM TreesAlwaysVerify == Spec => []TreesVerify
<1>1. SyncInv => TreesVerify
  BY DEF SyncInv, StoreInv, TreesVerify, Named
<1> QED
  BY <1>1, SyncInvariant, PTL

\* What a plan has found stays so for what is left to write of it.
LEMMA HistoryIsSound == ASSUME SyncInv PROVE NodeHistorySound
<1>1. \A r \in nodes : Follows(r)
  BY DEF SyncInv, StoreInv
<1>2. ASSUME NEW r \in ToSet(candidate.records) PROVE Continues(r)
  <2>1. DOMAIN candidate.records = 1..Len(candidate.records)
    BY LenProperties DEF SyncInv, PendingInv
  <2>2. PICK m \in 1..Len(candidate.records) : r = candidate.records[m]
    BY <2>1 DEF ToSet
  <2>3. ~Idle
    <3> SUFFICES ASSUME Idle PROVE FALSE
      OBVIOUS
    <3>1. candidate.records = <<>>
      BY DEF Idle, NoCandidate
    <3> QED
      BY <2>2, <3>1
  <2> QED
    BY <2>2, <2>3 DEF SyncInv, CandidateInv
<1> QED
  BY <1>1, <1>2 DEF NodeHistorySound, Follows

\* The history of a node has no gap: previous_revision names an earlier
\* revision of the same node, written before its successor, and what a sync has
\* yet to write continues the revision of HEAD.
THEOREM NodeHistoryAlwaysSound == Spec => []NodeHistorySound
<1>1. SyncInv => NodeHistorySound
  BY HistoryIsSound
<1> QED
  BY <1>1, SyncInvariant, PTL

\* What status reports is what the working tree has and HEAD has not.
ReportsDrift == Drift = {p \in Paths : work[p] # Entry(p).content}

\* The plan of the whole working tree gives every path the content it has there.
LEMMA DriftIs == ASSUME StoreInv PROVE ReportsDrift
<1>1. WellPlanned(PendingPlan, DefaultScope, work)
  BY ScopesAssumption, AskedIs, CandidateIs DEF PendingPlan, DefaultScope
<1>2. PICK plan : plan = PendingPlan
  OBVIOUS
<1>3. \A p \in Paths : plan.tree.entries[p].content = work[p]
  BY <1>1, <1>2 DEF WellPlanned, DefaultScope
<1> QED
  BY <1>2, <1>3 DEF ReportsDrift, Drift

\* A commit leaves the drift outside its scope, and no other.
LEMMA CommitRecords ==
    ASSUME SyncInv, CommitTree, ReportsDrift, ReportsDrift'
    PROVE  Drift' = Drift \ candidate.tree.scope
<1>1. /\ trees' # <<>> /\ trees'[Len(trees')] = candidate.tree
      /\ candidate.tree \in Trees
      /\ \A p \in Paths \ candidate.tree.scope : candidate.tree.entries[p] = Entry(p)
  BY CommitTreeKeeps DEF CommitTree, SyncInv, CandidateInv
<1>2. \A p \in Paths : Entry(p)' = candidate.tree.entries[p]
  BY <1>1 DEF Entry, HeadTree, Last
<1>3. \A p \in Paths : work'[p] = IF p \in candidate.tree.scope THEN candidate.tree.entries[p].content ELSE work[p]
  BY DEF CommitTree
<1>4. Drift' = {p \in Paths : work'[p] # Entry(p)'.content}
  BY DEF ReportsDrift
<1>5. Drift = {p \in Paths : work[p] # Entry(p).content}
  BY DEF ReportsDrift
<1> QED
  BY <1>1, <1>2, <1>3, <1>4, <1>5

\* After a committed sync or node restore, status lists the drift it listed
\* outside the scope and nothing else, whatever the directives were.
THEOREM SyncAlwaysRecordsItsScope == Spec => SyncRecordsItsScope
<1>1. SyncInv => ReportsDrift
  BY DriftIs DEF SyncInv
<1>2. SyncInv /\ ReportsDrift /\ ReportsDrift' /\ [Next]_vars
          => [CommitTree => Drift' = Drift \ candidate.tree.scope]_vars
  BY CommitRecords
<1> QED
  BY <1>1, <1>2, SyncInvariant, PTL DEF Spec, SyncRecordsItsScope
=============================================================================
