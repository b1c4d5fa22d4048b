----------------------- MODULE PackageTransferProofs -----------------------
(***************************************************************************)
(* Proofs about PackageTransfer, for any source project, package, target  *)
(* and set of importers, however imports race, stop and are tried again.   *)
(***************************************************************************)
EXTENDS PackageTransfer, FiniteSetTheorems, SequenceTheorems, TLAPS

\* A package in path order: the workflow is the last payload and no other.
Ordered(payloads) ==
    /\ payloads \in Seq(ToSet(payloads))
    /\ Len(payloads) >= 1
    /\ \A n \in 1..Len(payloads) : payloads[n] = Workflow <=> n = Len(payloads)

\* What a call has planned and written is there.
StepInv(i) ==
    /\ step[i] \in [at : 0..Len(package.payloads), todo : {"plan", "create", "fill", "append"}]
    /\ plan[i] \in Seq(Effects)
    /\ Len(plan[i]) <= Len(package.payloads)
    /\ \A m \in 1..Len(plan[i]) : plan[i][m] = "exists_same" => target[package.payloads[m]] = "same"
    /\ step[i].at = 0 => step[i].todo = "plan" /\ plan[i] = <<>>
    /\ step[i].at > 0 /\ step[i].todo = "plan" => Len(plan[i]) = step[i].at - 1
    /\ step[i].todo # "plan" =>
           /\ Len(plan[i]) = Len(package.payloads)
           /\ \A m \in 1..Len(package.payloads) : m < step[i].at => target[package.payloads[m]] = "same"
    /\ step[i].todo = "append" => target[At(i)] = "same"

TransferInv ==
    /\ IsFiniteSet(DOMAIN sources) /\ IsFiniteSet(DOMAIN decisions)
    /\ step = [i \in Importers |-> step[i]]
    /\ plan = [i \in Importers |-> plan[i]]
    /\ package.payloads = <<>> \/ Ordered(package.payloads)
    /\ package.payloads # <<>> => target \in [Payloads -> FileStates]
    /\ \A i \in Importers : StepInv(i)
    /\ WorkflowComesWhole

\* What is imported stays imported.
SameStays == \A f \in Payloads : target[f] = "same" => target'[f] = "same"

-----------------------------------------------------------------------------
(* The package. *)

LEMMA SequenceOf ==
    ASSUME NEW S, NEW n \in Nat, NEW s \in [1..n -> S]
    PROVE  s \in Seq(S)
BY SeqDef

\* What exportPackage selects is finite.
LEMMA SelectedIsFinite ==
    ASSUME IsFiniteSet(DOMAIN sources), IsFiniteSet(DOMAIN decisions), NEW refs \in SUBSET DOMAIN sources
    PROVE  /\ IsFiniteSet({Decision(d) : d \in SelectedDecisions(refs)})
           /\ IsFiniteSet({Source(r) : r \in refs})
<1> DEFINE Ds == {Decision(d) : d \in SelectedDecisions(refs)}
           Ss == {Source(r) : r \in refs}
<1>1. IsFiniteSet(SelectedDecisions(refs)) /\ IsFiniteSet(refs)
  BY FS_Subset DEF SelectedDecisions
<1>2. IsFiniteSet(Ds)
  <2> DEFINE f == [d \in SelectedDecisions(refs) |-> Decision(d)]
  <2>1. f \in Surjection(SelectedDecisions(refs), Ds)
    BY DEF Surjection
  <2> QED
    BY <1>1, <2>1, FS_Surjection
<1>3. IsFiniteSet(Ss)
  <2> DEFINE f == [r \in refs |-> Source(r)]
  <2>1. f \in Surjection(refs, Ss)
    BY DEF Surjection
  <2> QED
    BY <1>1, <2>1, FS_Surjection
<1> QED
  BY <1>1, <1>2, <1>3

LEMMA PathOrdersAreOrdered ==
    ASSUME IsFiniteSet(DOMAIN sources), IsFiniteSet(DOMAIN decisions),
           NEW refs \in SUBSET DOMAIN sources, NEW payloads \in PathOrders(refs)
    PROVE  Ordered(payloads)
<1> DEFINE Ds == {Decision(d) : d \in SelectedDecisions(refs)}
           Ss == {Source(r) : r \in refs}
           All == Ds \cup Ss \cup {Workflow}
<1>1. PICK ds \in SetToSeqs(Ds), ss \in SetToSeqs(Ss) : payloads = ds \o ss \o <<Workflow>>
  BY DEF PathOrders, Collected
<1>4. IsFiniteSet(Ds) /\ IsFiniteSet(Ss)
  BY SelectedIsFinite
<1>6. ds \in Seq(All) /\ ss \in Seq(All)
  <2>1. Cardinality(Ds) \in Nat /\ Cardinality(Ss) \in Nat
    BY <1>4, FS_CardinalityType
  <2>2. ds \in [1..Cardinality(Ds) -> Ds] /\ ss \in [1..Cardinality(Ss) -> Ss]
    BY <1>1 DEF SetToSeqs
  <2>3. ds \in Seq(Ds) /\ ss \in Seq(Ss)
    BY <2>1, <2>2, SequenceOf
  <2> QED
    BY <2>3
<1>7. /\ \A n \in 1..Len(ds) : ds[n] # Workflow
      /\ \A n \in 1..Len(ss) : ss[n] # Workflow
  <2>1. Workflow \notin Ds /\ Workflow \notin Ss
    BY DEF Workflow, Decision, Source
  <2>2. ds \in [1..Cardinality(Ds) -> Ds] /\ ss \in [1..Cardinality(Ss) -> Ss]
    BY <1>1 DEF SetToSeqs
  <2>3. DOMAIN ds = 1..Len(ds) /\ DOMAIN ss = 1..Len(ss)
    BY <1>6, LenProperties
  <2> QED
    BY <2>1, <2>2, <2>3
<1> DEFINE q == ds \o ss
<1>8. /\ q \in Seq(All)
      /\ Len(q) \in Nat
      /\ \A n \in 1..Len(q) : q[n] # Workflow
  <2> HIDE DEF All
  <2>1. q \in Seq(All) /\ Len(q) = Len(ds) + Len(ss)
    BY <1>6, ConcatProperties
  <2>2. \A n \in 1..(Len(ds) + Len(ss)) : q[n] = IF n <= Len(ds) THEN ds[n] ELSE ss[n - Len(ds)]
    BY <1>6, ConcatProperties
  <2>3. Len(ds) \in Nat /\ Len(ss) \in Nat
    BY <1>6, LenProperties
  <2> QED
    BY <1>7, <2>1, <2>2, <2>3
<1>9. <<Workflow>> \in Seq(All) /\ Len(<<Workflow>>) = 1 /\ <<Workflow>>[1] = Workflow
  OBVIOUS
<1>10. payloads = q \o <<Workflow>>
  BY <1>1
<1> HIDE DEF q, All
<1>11. /\ payloads \in Seq(All)
       /\ Len(payloads) = Len(q) + 1
       /\ \A n \in 1..(Len(q) + 1) : payloads[n] = IF n <= Len(q) THEN q[n] ELSE <<Workflow>>[n - Len(q)]
  BY <1>8, <1>9, <1>10, ConcatProperties
<1>12. payloads \in Seq(ToSet(payloads))
  <2>1. DOMAIN payloads = 1..Len(payloads) /\ payloads \in [1..Len(payloads) -> All]
    BY <1>11, LenProperties
  <2>2. payloads \in [1..Len(payloads) -> ToSet(payloads)]
    BY <2>1 DEF ToSet
  <2> QED
    BY <1>8, <1>11, <2>2
<1>13. \A n \in 1..Len(payloads) : payloads[n] = Workflow <=> n = Len(payloads)
  BY <1>8, <1>9, <1>11
<1> QED
  BY <1>8, <1>11, <1>12, <1>13 DEF Ordered

\* Places and payloads of a package.
LEMMA Places ==
    ASSUME Ordered(package.payloads)
    PROVE  /\ Len(package.payloads) \in Nat
           /\ \A n \in 1..Len(package.payloads) : package.payloads[n] \in Payloads
           /\ \A f \in Payloads : \E n \in 1..Len(package.payloads) : package.payloads[n] = f
           /\ package.payloads # <<>>
           /\ Workflow \in Payloads
<1>1. package.payloads \in Seq(Payloads)
  BY DEF Ordered, Payloads
<1>2. Len(package.payloads) \in Nat /\ DOMAIN package.payloads = 1..Len(package.payloads)
  BY <1>1, LenProperties
<1>3. /\ \A n \in 1..Len(package.payloads) : package.payloads[n] \in Payloads
      /\ \A f \in Payloads : \E n \in 1..Len(package.payloads) : package.payloads[n] = f
  BY <1>2 DEF Payloads, ToSet
<1>4. Len(package.payloads) >= 1
  BY DEF Ordered
<1>5. package.payloads # <<>>
  BY <1>4
<1>6. package.payloads[Len(package.payloads)] = Workflow
  BY <1>2, <1>4 DEF Ordered
<1> QED
  BY <1>2, <1>3, <1>4, <1>5, <1>6

-----------------------------------------------------------------------------
(* The importers. *)

\* A step of another importer.
LEMMA OthersStay ==
    ASSUME NEW i \in Importers, StepInv(i), Ordered(package.payloads), SameStays,
           package' = package, step'[i] = step[i], plan'[i] = plan[i]
    PROVE  StepInv(i)'
<1>1. \A n \in 1..Len(package.payloads) :
         target[package.payloads[n]] = "same" => target'[package.payloads[n]] = "same"
  BY Places DEF SameStays
<1>2. Len(plan[i]) \in Nat
  BY LenProperties DEF StepInv
<1>3. Len(package.payloads) \in Nat
  BY Places
<1>4. \A m \in 1..Len(plan[i]) : plan[i][m] = "exists_same" => target'[package.payloads[m]] = "same"
  BY <1>1, <1>2, <1>3 DEF StepInv
<1>5. step[i].todo # "plan" =>
          \A m \in 1..Len(package.payloads) : m < step[i].at => target'[package.payloads[m]] = "same"
  BY <1>1 DEF StepInv
<1>6. step[i].todo = "append" => target'[At(i)] = "same"
  <2> SUFFICES ASSUME step[i].todo = "append" PROVE target'[At(i)] = "same"
    OBVIOUS
  <2>1. step[i].at \in 1..Len(package.payloads)
    BY <1>3 DEF StepInv
  <2> QED
    BY <1>1, <2>1 DEF StepInv, At
<1> QED
  BY <1>4, <1>5, <1>6 DEF StepInv, At

\* A step of one importer that takes away nothing, and gives the workflow last.
LEMMA ImporterKeeps ==
    ASSUME TransferInv, NEW i \in Importers, Ordered(package.payloads),
           UNCHANGED <<sources, decisions, package>>,
           NEW goes, step' = [step EXCEPT ![i] = goes],
           NEW plans, plan' = [plan EXCEPT ![i] = plans],
           target' \in [Payloads -> FileStates], SameStays, StepInv(i)',
           target'[Workflow] = "same" => target[Workflow] = "same" \/ Whole'
    PROVE  TransferInv'
<1>1. ASSUME NEW j \in Importers PROVE StepInv(j)'
  <2>1. CASE j # i
    <3>1. step'[j] = step[j] /\ plan'[j] = plan[j]
      BY <2>1 DEF TransferInv
    <3> QED
      BY <3>1, OthersStay DEF TransferInv
  <2> QED
    BY <2>1
<1>2. WorkflowComesWhole'
  <2> SUFFICES ASSUME target'[Workflow] = "same" PROVE Whole'
    BY DEF WorkflowComesWhole
  <2>1. CASE target[Workflow] = "same"
    <3>1. Whole
      BY <2>1, Places DEF TransferInv, WorkflowComesWhole
    <3> QED
      BY <3>1 DEF Whole, SameStays, Payloads
  <2> QED
    BY <2>1
<1>3. Payloads' = Payloads
  BY DEF Payloads
<1>4. step' = [j \in Importers |-> step'[j]] /\ plan' = [j \in Importers |-> plan'[j]]
  BY DEF TransferInv
<1> QED
  BY <1>1, <1>2, <1>3, <1>4 DEF TransferInv

\* What an importer in the middle of a call relies on.
LEMMA Busy ==
    ASSUME TransferInv, NEW i \in Importers, step[i].at > 0
    PROVE  /\ Ordered(package.payloads)
           /\ step[i].at \in 1..Len(package.payloads)
           /\ At(i) \in Payloads
           /\ Len(package.payloads) \in Nat
           /\ target \in [Payloads -> FileStates]
           /\ StepInv(i)
           /\ plan[i] \in Seq(Effects)
           /\ Len(plan[i]) \in Nat
<1>1. StepInv(i)
  BY DEF TransferInv
<1>2. package.payloads # <<>>
  <2> SUFFICES ASSUME package.payloads = <<>> PROVE FALSE
    OBVIOUS
  <2>1. Len(package.payloads) = 0
    OBVIOUS
  <2> QED
    BY <1>1, <2>1 DEF StepInv
<1>3. Ordered(package.payloads) /\ target \in [Payloads -> FileStates]
  BY <1>2 DEF TransferInv
<1>4. step[i].at \in 1..Len(package.payloads) /\ Len(package.payloads) \in Nat
  BY <1>1, <1>3, Places DEF StepInv
<1>5. At(i) \in Payloads
  BY <1>3, <1>4, Places DEF At
<1>6. plan[i] \in Seq(Effects) /\ Len(plan[i]) \in Nat
  BY <1>1, LenProperties DEF StepInv
<1> QED
  BY <1>1, <1>3, <1>4, <1>5, <1>6

\* A call that ends leaves what it has written.
LEMMA RestKeeps ==
    ASSUME TransferInv, NEW i \in Importers, step[i].at > 0, Rest(i),
           UNCHANGED <<sources, decisions, package, target>>
    PROVE  TransferInv'
<1>1. Ordered(package.payloads) /\ target \in [Payloads -> FileStates] /\ Len(package.payloads) \in Nat
  BY Busy
<1>2. step'[i] = Resting /\ plan'[i] = <<>>
  BY DEF Rest, TransferInv
<1>3. <<>> \in Seq(Effects) /\ Len(<<>>) = 0
  OBVIOUS
<1>4. StepInv(i)'
  BY <1>1, <1>2, <1>3 DEF StepInv, Resting
<1> QED
  BY <1>1, <1>4, ImporterKeeps DEF Rest, SameStays

\* To the next payload, when this one is there.
LEMMA NextPayloadKeeps ==
    ASSUME TransferInv, NEW i \in Importers, step[i].at > 0, step[i].todo # "plan", NextPayload(i),
           UNCHANGED <<sources, decisions, package>>,
           target' \in [Payloads -> FileStates], SameStays, target'[At(i)] = "same",
           \A f \in Payloads : f # At(i) => target'[f] = target[f]
    PROVE  TransferInv'
<1> DEFINE last == Len(package.payloads)
<1>0. /\ Ordered(package.payloads) /\ StepInv(i)
      /\ step[i].at \in 1..last /\ last \in Nat
      /\ plan[i] \in Seq(Effects) /\ Len(plan[i]) \in Nat
  BY Busy
<1>1. \A n \in 1..last : package.payloads[n] \in Payloads
  BY <1>0, Places
<1>2. \A n \in 1..last : n <= step[i].at => target'[package.payloads[n]] = "same"
  <2> TAKE n \in 1..last
  <2>1. CASE n = step[i].at
    BY <2>1 DEF At
  <2>2. CASE n < step[i].at
    <3>1. target[package.payloads[n]] = "same"
      BY <1>0, <2>2 DEF StepInv
    <3> QED
      BY <1>1, <3>1 DEF SameStays
  <2> QED
    BY <1>0, <2>1, <2>2
<1>3. \A m \in 1..Len(plan[i]) : plan[i][m] = "exists_same" => target'[package.payloads[m]] = "same"
  BY <1>0, <1>1 DEF StepInv, SameStays
<1>4. Workflow \in Payloads /\ Payloads' = Payloads
  BY <1>0, Places DEF Payloads
<1>5. ASSUME At(i) = Workflow PROVE Whole'
  <2>1. step[i].at = last
    BY <1>0, <1>5 DEF Ordered, At
  <2>2. \A f \in Payloads : target'[f] = "same"
    BY <1>0, <1>2, <2>1, Places
  <2> QED
    BY <1>4, <2>2 DEF Whole
<1>6. target'[Workflow] = "same" => target[Workflow] = "same" \/ Whole'
  BY <1>4, <1>5
<1>7. CASE step[i].at < last
  <2>1. /\ step' = [step EXCEPT ![i] = [at |-> step[i].at + 1, todo |-> "create"]]
        /\ plan' = plan
    BY <1>7 DEF NextPayload, GoTo
  <2>2. step'[i] = [at |-> step[i].at + 1, todo |-> "create"] /\ plan'[i] = plan[i]
    BY <2>1 DEF TransferInv
  <2>3. \A m \in 1..last : m < step[i].at + 1 => target'[package.payloads[m]] = "same"
    BY <1>0, <1>2
  <2>4. StepInv(i)'
    BY <1>0, <1>3, <1>7, <2>2, <2>3 DEF StepInv
  <2>5. plan' = [plan EXCEPT ![i] = plan[i]]
    BY <2>1 DEF TransferInv
  <2> QED
    BY <1>0, <1>6, <2>1, <2>4, <2>5, ImporterKeeps
<1>8. CASE ~(step[i].at < last)
  <2>1. Rest(i)
    BY <1>8 DEF NextPayload
  <2>2. step'[i] = Resting /\ plan'[i] = <<>>
    BY <2>1 DEF Rest, TransferInv
  <2>3. <<>> \in Seq(Effects) /\ Len(<<>>) = 0
    OBVIOUS
  <2>4. StepInv(i)'
    BY <1>0, <2>2, <2>3 DEF StepInv, Resting
  <2> QED
    BY <1>0, <1>6, <2>1, <2>4, ImporterKeeps DEF Rest
<1> QED
  BY <1>7, <1>8

-----------------------------------------------------------------------------
(* The steps of an import. *)

LEMMA CallKeeps ==
    ASSUME TransferInv, NEW i \in Importers, CallImport(i)
    PROVE  TransferInv'
<1>0. Ordered(package.payloads) /\ target \in [Payloads -> FileStates]
  BY DEF CallImport, TransferInv
<1>1. UNCHANGED <<sources, decisions, package, target, plan>>
  BY DEF CallImport, vars
<1>2. plan' = [plan EXCEPT ![i] = plan[i]] /\ plan'[i] = plan[i]
  BY <1>1 DEF TransferInv
<1>3. StepInv(i) /\ plan[i] = <<>> /\ step[i].todo = "plan"
  BY DEF CallImport, TransferInv, StepInv
<1>4. CASE Importable
  <2>1. step' = [step EXCEPT ![i] = [at |-> 1, todo |-> "plan"]]
    BY <1>4 DEF CallImport, GoTo
  <2>2. step'[i] = [at |-> 1, todo |-> "plan"]
    BY <2>1 DEF TransferInv
  <2>3. Len(package.payloads) \in Nat /\ Len(package.payloads) >= 1 /\ Len(<<>>) = 0
    BY <1>0, Places DEF Ordered
  <2>4. StepInv(i)'
    BY <1>1, <1>2, <1>3, <2>2, <2>3 DEF StepInv
  <2> QED
    BY <1>0, <1>1, <1>2, <2>1, <2>4, ImporterKeeps DEF SameStays
<1>5. CASE ~Importable
  <2>1. step' = step
    BY <1>5 DEF CallImport
  <2>2. step' = [step EXCEPT ![i] = step[i]] /\ step'[i] = step[i]
    BY <2>1 DEF TransferInv
  <2>3. SameStays
    BY <1>1 DEF SameStays
  <2>4. StepInv(i)'
    BY <1>0, <1>1, <1>2, <1>3, <2>2, <2>3, OthersStay
  <2> QED
    BY <1>0, <1>1, <1>2, <2>2, <2>3, <2>4, ImporterKeeps
<1> QED
  BY <1>4, <1>5

LEMMA PlanKeeps ==
    ASSUME TransferInv, NEW i \in Importers, PlanPayload(i)
    PROVE  TransferInv'
<1> DEFINE last == Len(package.payloads)
<1>0. /\ Ordered(package.payloads) /\ StepInv(i) /\ target \in [Payloads -> FileStates]
      /\ step[i].at \in 1..last /\ last \in Nat
      /\ plan[i] \in Seq(Effects) /\ Len(plan[i]) \in Nat
  BY Busy DEF PlanPayload
<1>1. UNCHANGED <<sources, decisions, package, target>>
  BY DEF PlanPayload, vars
<1>2. CASE target[At(i)] \in {"other", "torn"}
  BY <1>0, <1>1, <1>2, RestKeeps DEF PlanPayload
<1>3. CASE target[At(i)] \notin {"other", "torn"}
  <2> DEFINE effect == IF target[At(i)] = "same" THEN "exists_same" ELSE "create"
  <2>1. plan' = [plan EXCEPT ![i] = Append(plan[i], effect)]
    BY <1>3 DEF PlanPayload
  <2>2. plan'[i] = Append(plan[i], effect)
    BY <2>1 DEF TransferInv
  <2>3. effect \in Effects
    BY DEF Effects
  <2>4. Len(plan[i]) = step[i].at - 1
    BY <1>0 DEF StepInv, PlanPayload
  <2> HIDE DEF effect
  <2>5. /\ plan'[i] \in Seq(Effects)
        /\ Len(plan'[i]) = step[i].at
        /\ \A m \in 1..Len(plan'[i]) : plan'[i][m] = IF m < step[i].at THEN plan[i][m] ELSE effect
    BY <1>0, <2>2, <2>3, <2>4, AppendProperties
  <2>6. \A m \in 1..Len(plan'[i]) : plan'[i][m] = "exists_same" => target'[package.payloads[m]] = "same"
    <3> TAKE m \in 1..Len(plan'[i])
    <3>1. CASE m < step[i].at
      BY <1>0, <1>1, <2>4, <2>5, <3>1 DEF StepInv
    <3>2. CASE m = step[i].at
      BY <1>0, <1>1, <2>5, <3>2 DEF effect, At
    <3> QED
      BY <1>0, <2>5, <3>1, <3>2
  <2>7. CASE step[i].at < last
    <3>1. step' = [step EXCEPT ![i] = [at |-> step[i].at + 1, todo |-> "plan"]]
      BY <1>3, <2>7 DEF PlanPayload, GoTo
    <3>2. step'[i] = [at |-> step[i].at + 1, todo |-> "plan"]
      BY <3>1 DEF TransferInv
    <3>3. StepInv(i)'
      BY <1>0, <1>1, <2>5, <2>6, <2>7, <3>2 DEF StepInv
    <3> QED
      BY <1>0, <1>1, <2>1, <3>1, <3>3, ImporterKeeps DEF SameStays
  <2>8. CASE ~(step[i].at < last)
    <3>1. step' = [step EXCEPT ![i] = [at |-> 1, todo |-> "create"]]
      BY <1>3, <2>8 DEF PlanPayload, GoTo
    <3>2. step'[i] = [at |-> 1, todo |-> "create"]
      BY <3>1 DEF TransferInv
    <3>3. StepInv(i)'
      BY <1>0, <1>1, <2>5, <2>6, <2>8, <3>2 DEF StepInv
    <3> QED
      BY <1>0, <1>1, <2>1, <3>1, <3>3, ImporterKeeps DEF SameStays
  <2> QED
    BY <2>7, <2>8
<1> QED
  BY <1>2, <1>3

LEMMA SkipKeeps ==
    ASSUME TransferInv, NEW i \in Importers, step[i].at > 0, SkipPayload(i)
    PROVE  TransferInv'
<1>0. /\ Ordered(package.payloads) /\ StepInv(i) /\ target \in [Payloads -> FileStates]
      /\ step[i].at \in 1..Len(package.payloads)
  BY Busy
<1>1. UNCHANGED <<sources, decisions, package, target>>
  BY DEF SkipPayload, vars
<1>2. target[At(i)] = "same"
  BY <1>0 DEF SkipPayload, StepInv, At
<1> QED
  BY <1>0, <1>1, <1>2, NextPayloadKeeps DEF SkipPayload, SameStays

LEMMA CreateKeeps ==
    ASSUME TransferInv, NEW i \in Importers, step[i].at > 0, CreatePayload(i)
    PROVE  TransferInv'
<1>0. /\ Ordered(package.payloads) /\ StepInv(i) /\ target \in [Payloads -> FileStates]
      /\ At(i) \in Payloads /\ Workflow \in Payloads
      /\ step[i].at \in 1..Len(package.payloads) /\ Len(package.payloads) \in Nat
      /\ plan[i] \in Seq(Effects) /\ Len(plan[i]) \in Nat
  BY Busy, Places
<1>1. UNCHANGED <<sources, decisions, package>>
  BY DEF CreatePayload, vars
<1>2. CASE target[At(i)] = "none"
  <2>1. /\ target' = [target EXCEPT ![At(i)] = "torn"]
        /\ step' = [step EXCEPT ![i] = [at |-> step[i].at, todo |-> "fill"]]
        /\ plan' = plan
    BY <1>2 DEF CreatePayload, GoTo
  <2>2. step'[i] = [at |-> step[i].at, todo |-> "fill"] /\ plan'[i] = plan[i]
    BY <2>1 DEF TransferInv
  <2>3. target' \in [Payloads -> FileStates] /\ SameStays
    BY <1>0, <1>2, <2>1 DEF FileStates, SameStays
  <2>4. target'[Workflow] = "same" => target[Workflow] = "same"
    BY <1>0, <1>2, <2>1
  <2>5. \A n \in 1..Len(package.payloads) :
           target[package.payloads[n]] = "same" => target'[package.payloads[n]] = "same"
    BY <1>0, <2>3, Places DEF SameStays
  <2>6. \A m \in 1..Len(plan[i]) : plan[i][m] = "exists_same" => target'[package.payloads[m]] = "same"
    BY <1>0, <2>5 DEF StepInv
  <2>7. \A m \in 1..Len(package.payloads) : m < step[i].at => target'[package.payloads[m]] = "same"
    BY <1>0, <2>5 DEF StepInv, CreatePayload
  <2>8. StepInv(i)'
    BY <1>0, <1>1, <2>2, <2>6, <2>7 DEF StepInv, CreatePayload
  <2>9. plan' = [plan EXCEPT ![i] = plan[i]]
    BY <2>1 DEF TransferInv
  <2> QED
    BY <1>0, <1>1, <2>1, <2>3, <2>4, <2>8, <2>9, ImporterKeeps
<1>3. CASE target[At(i)] # "none"
  BY <1>1, <1>3, RestKeeps DEF CreatePayload
<1> QED
  BY <1>2, <1>3

LEMMA FillKeeps ==
    ASSUME TransferInv, NEW i \in Importers, step[i].at > 0, FillPayload(i)
    PROVE  TransferInv'
<1>0. /\ Ordered(package.payloads) /\ StepInv(i) /\ target \in [Payloads -> FileStates]
      /\ At(i) \in Payloads /\ Workflow \in Payloads
      /\ step[i].at \in 1..Len(package.payloads) /\ Len(package.payloads) \in Nat
      /\ plan[i] \in Seq(Effects) /\ Len(plan[i]) \in Nat
  BY Busy, Places
<1>1. UNCHANGED <<sources, decisions, package>>
  BY DEF FillPayload, vars
<1>2. target' = [target EXCEPT ![At(i)] = "same"]
  BY DEF FillPayload
<1>3. /\ target' \in [Payloads -> FileStates] /\ SameStays /\ target'[At(i)] = "same"
      /\ \A f \in Payloads : f # At(i) => target'[f] = target[f]
  BY <1>0, <1>2 DEF FileStates, SameStays
<1>4. CASE IsDecision(At(i))
  <2>1. /\ step' = [step EXCEPT ![i] = [at |-> step[i].at, todo |-> "append"]]
        /\ plan' = plan
    BY <1>4 DEF FillPayload, GoTo
  <2>2. step'[i] = [at |-> step[i].at, todo |-> "append"] /\ plan'[i] = plan[i]
    BY <2>1 DEF TransferInv
  <2>3. At(i) # Workflow
    BY <1>4 DEF IsDecision, Workflow
  <2>4. target'[Workflow] = "same" => target[Workflow] = "same"
    BY <1>0, <1>3, <2>3
  <2>5. \A n \in 1..Len(package.payloads) :
           target[package.payloads[n]] = "same" => target'[package.payloads[n]] = "same"
    BY <1>0, <1>3, Places DEF SameStays
  <2>6. \A m \in 1..Len(plan[i]) : plan[i][m] = "exists_same" => target'[package.payloads[m]] = "same"
    BY <1>0, <2>5 DEF StepInv, FillPayload
  <2>7. \A m \in 1..Len(package.payloads) : m < step[i].at => target'[package.payloads[m]] = "same"
    BY <1>0, <2>5 DEF StepInv, FillPayload
  <2>8. target'[package.payloads[step[i].at]] = "same"
    BY <1>3 DEF At
  <2>9. StepInv(i)'
    BY <1>0, <1>1, <2>2, <2>6, <2>7, <2>8 DEF StepInv, FillPayload, At
  <2>10. plan' = [plan EXCEPT ![i] = plan[i]]
    BY <2>1 DEF TransferInv
  <2> QED
    BY <1>0, <1>1, <1>3, <2>1, <2>4, <2>9, <2>10, ImporterKeeps
<1>5. CASE ~IsDecision(At(i))
  <2>1. NextPayload(i) /\ step[i].todo # "plan"
    BY <1>5 DEF FillPayload
  <2> QED
    BY <1>1, <1>3, <2>1, NextPayloadKeeps
<1> QED
  BY <1>4, <1>5

LEMMA AppendKeeps ==
    ASSUME TransferInv, NEW i \in Importers, step[i].at > 0, AppendPayload(i)
    PROVE  TransferInv'
<1>0. StepInv(i) /\ target \in [Payloads -> FileStates]
  BY Busy
<1>1. UNCHANGED <<sources, decisions, package, target>>
  BY DEF AppendPayload, vars
<1>2. target[At(i)] = "same"
  BY <1>0 DEF AppendPayload, StepInv
<1> QED
  BY <1>0, <1>1, <1>2, NextPayloadKeeps DEF AppendPayload, SameStays

LEMMA StopKeeps ==
    ASSUME TransferInv, NEW i \in Importers, step[i].at > 0, StopImport(i)
    PROVE  TransferInv'
BY RestKeeps DEF StopImport, vars

-----------------------------------------------------------------------------
(* The source project, and the export. *)

\* Before the export nobody imports.
LEMMA NobodyImports ==
    ASSUME TransferInv, package.payloads = <<>>, NEW i \in Importers
    PROVE  step[i].at = 0 /\ step[i].todo = "plan" /\ plan[i] = <<>>
<1>1. Len(package.payloads) = 0
  OBVIOUS
<1>2. StepInv(i)
  BY DEF TransferInv
<1> QED
  BY <1>1, <1>2 DEF StepInv

LEMMA WithIsFinite ==
    ASSUME NEW files, NEW name, NEW record, IsFiniteSet(DOMAIN files)
    PROVE  IsFiniteSet(DOMAIN With(files, name, record))
<1>1. DOMAIN With(files, name, record) = DOMAIN files \cup {name}
  BY DEF With
<1> QED
  BY <1>1, FS_AddElement

LEMMA AuthorityKeeps ==
    ASSUME TransferInv, package.payloads = <<>>, Next, UNCHANGED packageVars
    PROVE  TransferInv'
<1>1. IsFiniteSet(DOMAIN sources') /\ IsFiniteSet(DOMAIN decisions')
  <2>0. IsFiniteSet(DOMAIN sources) /\ IsFiniteSet(DOMAIN decisions)
    BY DEF TransferInv
  <2>1. ASSUME NEW p \in Procs, WriteSource(p) PROVE IsFiniteSet(DOMAIN sources') /\ IsFiniteSet(DOMAIN decisions')
    <3>1. PICK new \in SourceRecord :
             sources' = IF doing[p].ref \in DOMAIN sources THEN sources
                        ELSE With(sources, doing[p].ref, new)
      BY <2>1 DEF WriteSource
    <3>2. IsFiniteSet(DOMAIN sources')
      BY <2>0, <3>1, WithIsFinite
    <3> QED
      BY <2>0, <2>1, <3>2 DEF WriteSource
  <2>2. ASSUME NEW p \in Procs, WriteDecision(p) PROVE IsFiniteSet(DOMAIN sources') /\ IsFiniteSet(DOMAIN decisions')
    BY <2>0, <2>2, WithIsFinite DEF WriteDecision
  <2>3. ASSUME NEW p \in Procs, BeginSource(p) \/ AppendDecision(p) \/ Crash(p) PROVE IsFiniteSet(DOMAIN sources') /\ IsFiniteSet(DOMAIN decisions')
    BY <2>0, <2>3 DEF BeginSource, AppendDecision, Crash
  <2>4. ASSUME NEW p \in Procs, NEW ref, NEW outcome, NEW override, NEW supersedes, NEW now,
               Decide(p, ref, outcome, override, supersedes, now)
        PROVE IsFiniteSet(DOMAIN sources') /\ IsFiniteSet(DOMAIN decisions')
    BY <2>0, <2>4 DEF Decide
  <2> QED
    BY <2>1, <2>2, <2>3, <2>4 DEF Next
<1>2. UNCHANGED <<package, target, tOrder, step, plan, imports>>
  BY DEF packageVars
<1>3. \A i \in Importers : StepInv(i)'
  BY <1>2 DEF TransferInv, StepInv, At
<1> QED
  BY <1>1, <1>2, <1>3 DEF TransferInv, WorkflowComesWhole, Whole, Payloads

LEMMA ExportKeeps ==
    ASSUME TransferInv, Export
    PROVE  TransferInv'
<1>1. PICK refs \in SUBSET DOMAIN sources, refused \in BOOLEAN : \E payloads \in PathOrders(refs) :
         /\ package' = [payloads |-> payloads, refused |-> refused]
         /\ target' \in [ToSet(payloads) -> {"none", "same", "other"}]
         /\ target'[Workflow] = "same" => target' = [f \in ToSet(payloads) |-> "same"]
  BY DEF Export
<1>2. PICK payloads \in PathOrders(refs) :
         /\ package' = [payloads |-> payloads, refused |-> refused]
         /\ target' \in [ToSet(payloads) -> {"none", "same", "other"}]
         /\ target'[Workflow] = "same" => target' = [f \in ToSet(payloads) |-> "same"]
  BY <1>1
<1>3. UNCHANGED <<sources, decisions, step, plan>>
  BY DEF Export, vars
<1>4. Ordered(payloads)
  BY PathOrdersAreOrdered DEF TransferInv
<1>5. package'.payloads = payloads
  BY <1>2
<1>6. Payloads' = ToSet(payloads) /\ target' \in [ToSet(payloads) -> FileStates]
  BY <1>2, <1>5 DEF Payloads, FileStates
<1>7. ASSUME NEW i \in Importers PROVE StepInv(i)'
  <2>1. step[i].at = 0 /\ step[i].todo = "plan" /\ plan[i] = <<>>
    BY NobodyImports DEF Export
  <2>2. StepInv(i)
    BY DEF TransferInv
  <2>3. step[i] \in [at : {0}, todo : {"plan"}]
    BY <2>1, <2>2 DEF StepInv
  <2>4. Len(package'.payloads) \in Nat
    BY <1>4, <1>5, LenProperties DEF Ordered
  <2>5. <<>> \in Seq(Effects) /\ Len(<<>>) = 0
    OBVIOUS
  <2> QED
    BY <1>3, <2>1, <2>3, <2>4, <2>5 DEF StepInv
<1>8. WorkflowComesWhole'
  <2> SUFFICES ASSUME target'[Workflow] = "same" PROVE Whole'
    BY DEF WorkflowComesWhole
  <2>1. target' = [f \in ToSet(payloads) |-> "same"]
    BY <1>2
  <2> QED
    BY <1>6, <2>1 DEF Whole
<1> QED
  BY <1>3, <1>4, <1>5, <1>6, <1>7, <1>8 DEF TransferInv

LEMMA NothingKeeps ==
    ASSUME TransferInv, UNCHANGED allVars
    PROVE  TransferInv'
<1>1. UNCHANGED <<sources, decisions, package, target, step, plan>>
  BY DEF allVars, vars, packageVars
<1>2. \A i \in Importers : StepInv(i)'
  BY <1>1 DEF TransferInv, StepInv, At
<1> QED
  BY <1>1, <1>2 DEF TransferInv, WorkflowComesWhole, Whole, Payloads

\* Past its plan a call is at a payload.
LEMMA PastItsPlan ==
    ASSUME TransferInv, NEW i \in Importers, step[i].todo # "plan"
    PROVE  step[i].at > 0
<1>1. StepInv(i)
  BY DEF TransferInv
<1>2. step[i].at # 0
  BY <1>1 DEF StepInv
<1> QED
  BY <1>1, <1>2 DEF StepInv

LEMMA PackageNextKeeps ==
    ASSUME TransferInv, [PackageNext]_allVars
    PROVE  TransferInv'
<1>1. ASSUME NEW i \in Importers, step[i].todo # "plan" PROVE step[i].at > 0
  BY <1>1, PastItsPlan
<1>2. CASE package.payloads = <<>> /\ Next /\ UNCHANGED packageVars
  BY <1>2, AuthorityKeeps
<1>3. CASE Export
  BY <1>3, ExportKeeps
<1>4. ASSUME NEW i \in Importers, CallImport(i) PROVE TransferInv'
  BY <1>4, CallKeeps
<1>5. ASSUME NEW i \in Importers, PlanPayload(i) PROVE TransferInv'
  BY <1>5, PlanKeeps
<1>6. ASSUME NEW i \in Importers, SkipPayload(i) PROVE TransferInv'
  <2>1. step[i].todo # "plan"
    BY <1>6 DEF SkipPayload
  <2> QED
    BY <1>1, <1>6, <2>1, SkipKeeps
<1>7. ASSUME NEW i \in Importers, CreatePayload(i) PROVE TransferInv'
  <2>1. step[i].todo # "plan"
    BY <1>7 DEF CreatePayload
  <2> QED
    BY <1>1, <1>7, <2>1, CreateKeeps
<1>8. ASSUME NEW i \in Importers, FillPayload(i) PROVE TransferInv'
  <2>1. step[i].todo # "plan"
    BY <1>8 DEF FillPayload
  <2> QED
    BY <1>1, <1>8, <2>1, FillKeeps
<1>9. ASSUME NEW i \in Importers, AppendPayload(i) PROVE TransferInv'
  <2>1. step[i].todo # "plan"
    BY <1>9 DEF AppendPayload
  <2> QED
    BY <1>1, <1>9, <2>1, AppendKeeps
<1>10. ASSUME NEW i \in Importers, StopImport(i) PROVE TransferInv'
  <2>1. step[i].todo # "plan"
    BY <1>10 DEF StopImport
  <2> QED
    BY <1>1, <1>10, <2>1, StopKeeps
<1> QED
  BY <1>2, <1>3, <1>4, <1>5, <1>6, <1>7, <1>8, <1>9, <1>10, NothingKeeps DEF PackageNext

-----------------------------------------------------------------------------
(* The theorems. *)

\* What holds of every reachable state: an import has written, of the payloads
\* before its place, every one, and the workflow is the last of them.
THEOREM TransferInvariant == PackageSpec => []TransferInv
<1>1. PackageInit => TransferInv
  <2> SUFFICES ASSUME PackageInit PROVE TransferInv
    OBVIOUS
  <2>1. /\ DOMAIN sources = {} /\ DOMAIN decisions = {}
        /\ package.payloads = <<>>
        /\ step = [i \in Importers |-> Resting] /\ plan = [i \in Importers |-> <<>>]
    BY DEF PackageInit, Init
  <2>2. IsFiniteSet(DOMAIN sources) /\ IsFiniteSet(DOMAIN decisions)
    BY <2>1, FS_EmptySet
  <2>3. <<>> \in Seq(Effects) /\ Len(<<>>) = 0
    OBVIOUS
  <2>4. \A i \in Importers : StepInv(i)
    BY <2>1, <2>3 DEF StepInv, Resting
  <2> QED
    BY <2>1, <2>2, <2>4 DEF TransferInv, WorkflowComesWhole
<1>2. TransferInv /\ [PackageNext]_allVars => TransferInv'
  BY PackageNextKeeps
<1> QED
  BY <1>1, <1>2, PTL DEF PackageSpec

\* The workflow occurrence is never in the target without every record it was
\* exported with: importPackage (src/src/portable-package/runtime.ts) writes it
\* last, and only after the others were there or written.
THEOREM WorkflowAlwaysWhole == PackageSpec => []WorkflowComesWhole
<1>1. TransferInv => WorkflowComesWhole
  BY DEF TransferInv
<1> QED
  BY <1>1, TransferInvariant, PTL
-----------------------------------------------------------------------------
(* Records and index of the target, and who gets through.                  *)

\* The payloads of a package are all different, and a decision's payload is
\* known by its id.
PackageInv ==
    /\ \A m, n \in 1..Len(package.payloads) : package.payloads[m] = package.payloads[n] => m = n
    /\ \A f \in Payloads : IsDecision(f) => f = Decision(f[2])

\* What a call has in its hands is nobody else's, and not in the index yet.
HandInv(i) ==
    /\ step[i].todo = "fill" => target[At(i)] = "torn"
    /\ step[i].todo = "append" => IsDecision(At(i)) /\ At(i)[2] \notin ToSet(tOrder)
    /\ \A j \in Importers :
           j # i /\ step[i].todo \in {"fill", "append"} /\ step[j].todo \in {"fill", "append"}
               => At(j) # At(i)

\* The index names decisions that are there, each of them once.
IndexInv ==
    /\ tOrder \in Seq(ToSet(tOrder))
    /\ \A d \in ToSet(tOrder) : Decision(d) \in Payloads /\ target[Decision(d)] = "same"
    /\ \A m, n \in DOMAIN tOrder : tOrder[m] = tOrder[n] => m = n

RecordsInv ==
    /\ PackageInv
    /\ package.payloads = <<>> => target = <<>> /\ tOrder = <<>>
    /\ package.payloads # <<>> => IndexInv
    /\ \A i \in Importers : HandInv(i)

\* What a call means to create and finds created, another call has reached,
\* which had everything before it.
BehindInv(i) ==
    \A n \in 1..Len(plan[i]) : plan[i][n] = "create" /\ target[package.payloads[n]] # "none" =>
        \A m \in 1..Len(package.payloads) : m < n => target[package.payloads[m]] = "same"

\* A call that finds nothing in its way any more.
Ahead(i) ==
    /\ step[i].todo # "plan"
    /\ \A n \in 1..Len(package.payloads) :
           (n > step[i].at \/ (n = step[i].at /\ step[i].todo = "create")) /\ plan[i][n] = "create"
               => target[package.payloads[n]] = "none"

\* Before a first call is past its plan every plan so far is right; then, unless
\* a call was stopped, one call is ahead or has been through.
RaceInv ==
    /\ imports \in [made : Nat, planned : Nat, stopped : Nat]
    /\ package.payloads = <<>> => imports.planned = 0
    /\ \A i \in Importers : BehindInv(i)
    /\ imports.planned = 0 =>
           \A i \in Importers :
               /\ step[i].todo = "plan"
               /\ \A n \in 1..Len(plan[i]) : plan[i][n] = "create" => target[package.payloads[n]] = "none"
    /\ imports.planned > 0 /\ imports.stopped = 0 => Whole \/ \E i \in Importers : Ahead(i)

Differ(s) == \A m, n \in 1..Len(s) : s[m] = s[n] => m = n

\* Sequences without repetition and nothing in common.
LEMMA ConcatDiffers ==
    ASSUME NEW S, NEW s \in Seq(S), NEW t \in Seq(S), Differ(s), Differ(t),
           \A m \in 1..Len(s), n \in 1..Len(t) : s[m] # t[n]
    PROVE  /\ s \o t \in Seq(S)
           /\ Differ(s \o t)
           /\ \A n \in 1..Len(s \o t) :
                  (\E m \in 1..Len(s) : (s \o t)[n] = s[m]) \/ (\E m \in 1..Len(t) : (s \o t)[n] = t[m])
<1> DEFINE q == s \o t
<1>1. Len(s) \in Nat /\ Len(t) \in Nat
  BY LenProperties
<1>2. q \in Seq(S) /\ Len(q) = Len(s) + Len(t)
  BY ConcatProperties
<1>3. \A n \in 1..(Len(s) + Len(t)) : q[n] = IF n <= Len(s) THEN s[n] ELSE t[n - Len(s)]
  BY ConcatProperties
<1> HIDE DEF q
<1>4. ASSUME NEW n \in 1..Len(q)
      PROVE  (n <= Len(s) /\ n \in 1..Len(s) /\ q[n] = s[n])
                 \/ (n > Len(s) /\ n - Len(s) \in 1..Len(t) /\ q[n] = t[n - Len(s)])
  BY <1>1, <1>2, <1>3
<1>5. ASSUME NEW m \in 1..Len(q), NEW n \in 1..Len(q), q[m] = q[n] PROVE m = n
  <2>1. CASE m <= Len(s) /\ n <= Len(s)
    BY <1>1, <1>4, <1>5, <2>1 DEF Differ
  <2>2. CASE m > Len(s) /\ n > Len(s)
    <3>1. m - Len(s) = n - Len(s)
      BY <1>1, <1>4, <1>5, <2>2 DEF Differ
    <3> QED
      BY <1>1, <1>2, <3>1
  <2>3. CASE m <= Len(s) /\ n > Len(s)
    BY <1>1, <1>4, <1>5, <2>3
  <2>4. CASE m > Len(s) /\ n <= Len(s)
    BY <1>1, <1>4, <1>5, <2>4
  <2> QED
    BY <1>1, <1>2, <2>1, <2>2, <2>3, <2>4
<1>6. Differ(q)
  BY <1>5 DEF Differ
<1>7. \A n \in 1..Len(q) : (\E m \in 1..Len(s) : q[n] = s[m]) \/ (\E m \in 1..Len(t) : q[n] = t[m])
  BY <1>4
<1> QED
  BY <1>2, <1>6, <1>7 DEF q

\* The elements of a finite set, each of them once, in some order.
LEMMA Enumerated ==
    ASSUME NEW S, IsFiniteSet(S), NEW s \in SetToSeqs(S)
    PROVE  s \in Seq(S) /\ Differ(s) /\ \A n \in 1..Len(s) : s[n] \in S
<1>1. Cardinality(S) \in Nat
  BY FS_CardinalityType
<1>2. s \in [1..Cardinality(S) -> S] /\ \A m, n \in 1..Cardinality(S) : m # n => s[m] # s[n]
  BY DEF SetToSeqs
<1>3. s \in Seq(S)
  BY <1>1, <1>2, SequenceOf
<1>4. DOMAIN s = 1..Len(s) /\ DOMAIN s = 1..Cardinality(S)
  BY <1>2, <1>3, LenProperties
<1> QED
  BY <1>2, <1>3, <1>4 DEF Differ

\* Every payload of an exported package is there once.
LEMMA PathOrdersDiffer ==
    ASSUME IsFiniteSet(DOMAIN sources), IsFiniteSet(DOMAIN decisions),
           NEW refs \in SUBSET DOMAIN sources, NEW payloads \in PathOrders(refs)
    PROVE  /\ Differ(payloads)
           /\ \A f \in ToSet(payloads) : IsDecision(f) => f = Decision(f[2])
<1> DEFINE Ds == {Decision(d) : d \in SelectedDecisions(refs)}
           Ss == {Source(r) : r \in refs}
           All == Ds \cup Ss \cup {Workflow}
<1>1. PICK ds \in SetToSeqs(Ds), ss \in SetToSeqs(Ss) : payloads = ds \o ss \o <<Workflow>>
  BY DEF PathOrders, Collected
<1>2. IsFiniteSet(Ds) /\ IsFiniteSet(Ss)
  BY SelectedIsFinite
<1>3. /\ ds \in Seq(Ds) /\ Differ(ds) /\ \A n \in 1..Len(ds) : ds[n] \in Ds
      /\ ss \in Seq(Ss) /\ Differ(ss) /\ \A n \in 1..Len(ss) : ss[n] \in Ss
  <2> HIDE DEF Ds, Ss
  <2> QED
    BY <1>1, <1>2, Enumerated
<1>4. /\ \A n \in 1..Len(ds), m \in 1..Len(ss) : ds[n] # ss[m]
      /\ \A n \in 1..Len(ds) : ds[n] # Workflow
      /\ \A n \in 1..Len(ss) : ss[n] # Workflow
  <2>1. /\ \A a \in Ds, b \in Ss : a # b
        /\ \A a \in Ds : a # Workflow
        /\ \A b \in Ss : b # Workflow
    BY DEF Decision, Source, Workflow
  <2> HIDE DEF Ds, Ss, All
  <2>2. ASSUME NEW n \in 1..Len(ds), NEW m \in 1..Len(ss) PROVE ds[n] # ss[m]
    <3>1. ds[n] \in Ds /\ ss[m] \in Ss
      BY <1>3
    <3> QED
      BY <2>1, <3>1
  <2>3. ASSUME NEW n \in 1..Len(ds) PROVE ds[n] # Workflow
    <3>1. ds[n] \in Ds
      BY <1>3
    <3> QED
      BY <2>1, <3>1
  <2>4. ASSUME NEW n \in 1..Len(ss) PROVE ss[n] # Workflow
    <3>1. ss[n] \in Ss
      BY <1>3
    <3> QED
      BY <2>1, <3>1
  <2> QED
    BY <2>2, <2>3, <2>4
<1> DEFINE q == ds \o ss
<1>w. PICK w : w = <<Workflow>>
  OBVIOUS
<1>5. ds \in Seq(All) /\ ss \in Seq(All) /\ w \in Seq(All)
  BY <1>3, <1>w
<1>7. Len(w) = 1 /\ w[1] = Workflow /\ Differ(w)
  BY <1>w DEF Differ
<1>8. payloads = q \o w
  BY <1>1, <1>w
<1> HIDE DEF Ds, Ss, All
<1>6. /\ q \in Seq(All) /\ Differ(q)
      /\ \A n \in 1..Len(q) : (\E m \in 1..Len(ds) : q[n] = ds[m]) \/ (\E m \in 1..Len(ss) : q[n] = ss[m])
  BY <1>3, <1>4, <1>5, ConcatDiffers
<1> HIDE DEF q
<1>9. \A m \in 1..Len(q), n \in 1..Len(w) : q[m] # w[n]
  <2>1. \A m \in 1..Len(q) : q[m] # Workflow
    BY <1>4, <1>6
  <2> QED
    BY <1>7, <2>1
<1>10. /\ payloads \in Seq(All) /\ Differ(payloads)
       /\ \A n \in 1..Len(payloads) :
              (\E m \in 1..Len(q) : payloads[n] = q[m]) \/ (\E m \in 1..Len(w) : payloads[n] = w[m])
  <2>1. /\ q \o w \in Seq(All) /\ Differ(q \o w)
        /\ \A n \in 1..Len(q \o w) :
               (\E m \in 1..Len(q) : (q \o w)[n] = q[m]) \/ (\E m \in 1..Len(w) : (q \o w)[n] = w[m])
    <3>1. Differ(w)
      BY <1>7
    <3> QED
      BY <1>5, <1>6, <1>9, <3>1, ConcatDiffers
  <2> QED
    BY <1>8, <2>1
<1>11. \A n \in 1..Len(payloads) : payloads[n] \in Ds \cup Ss \cup {Workflow}
  <2>1. \A n \in 1..Len(q) : q[n] \in Ds \cup Ss
    BY <1>3, <1>6
  <2>2. \A n \in 1..Len(w) : w[n] = Workflow
    BY <1>7
  <2> QED
    BY <1>10, <2>1, <2>2
<1>12. DOMAIN payloads = 1..Len(payloads)
  BY <1>10, LenProperties
<1>13. \A f \in Ds \cup Ss \cup {Workflow} : IsDecision(f) => f = Decision(f[2])
  BY DEF Ds, Ss, IsDecision, Decision, Source, Workflow
<1> QED
  BY <1>10, <1>11, <1>12, <1>13 DEF ToSet


-----------------------------------------------------------------------------
(* The records and the index stay, step by step.                           *)

Hands == {"fill", "append"}

\* A step of one importer, from what it does to the files and to its own place.
LEMMA HandsMove ==
    ASSUME TransferInv, RecordsInv, NEW i \in Importers, Ordered(package.payloads), package' = package,
           NEW goes, step' = [step EXCEPT ![i] = goes],
           \A j \in Importers : j # i /\ step[j].todo = "fill" => target'[At(j)] = "torn",
           \A d \in ToSet(tOrder') : d \in ToSet(tOrder) \/ (step[i].todo = "append" /\ d = At(i)[2]),
           IndexInv',
           goes.todo \in Hands =>
               /\ goes.at = step[i].at
               /\ \A j \in Importers : j # i /\ step[j].todo \in Hands => At(j) # At(i),
           goes.todo = "fill" => target'[At(i)] = "torn",
           goes.todo = "append" => IsDecision(At(i)) /\ At(i)[2] \notin ToSet(tOrder')
    PROVE  RecordsInv'
<1>1. step'[i] = goes /\ \A j \in Importers : j # i => step'[j] = step[j]
  BY DEF TransferInv
<1>2. package.payloads # <<>>
  BY Places
<1>3. PackageInv'
  BY DEF RecordsInv, PackageInv, Payloads
<1>4. \A j \in Importers : j # i => At(j)' = At(j)
  BY <1>1 DEF At
<1>5. goes.todo \in Hands => At(i)' = At(i)
  BY <1>1 DEF At
<1>6. \A j \in Importers : step[j].todo = "append" => At(j) = Decision(At(j)[2])
  <2> SUFFICES ASSUME NEW j \in Importers, step[j].todo = "append" PROVE At(j) = Decision(At(j)[2])
    OBVIOUS
  <2>1. IsDecision(At(j))
    BY DEF RecordsInv, HandInv
  <2>2. step[j].at > 0
    BY DEF TransferInv, StepInv
  <2> QED
    BY <2>1, <2>2, Busy DEF RecordsInv, PackageInv
<1>7. ASSUME NEW j \in Importers, j # i PROVE HandInv(j)'
  <2>1. step'[j].todo = "fill" => target'[At(j)'] = "torn"
    BY <1>1, <1>4, <1>7
  <2>2. ASSUME step'[j].todo = "append" PROVE IsDecision(At(j)') /\ At(j)'[2] \notin ToSet(tOrder')
    <3>1. step[j].todo = "append" /\ At(j)' = At(j)
      BY <1>1, <1>4, <1>7, <2>2
    <3>2. IsDecision(At(j)) /\ At(j)[2] \notin ToSet(tOrder)
      BY <3>1 DEF RecordsInv, HandInv
    <3>3. step[i].todo = "append" => At(i) # At(j)
      BY <1>7, <3>1 DEF RecordsInv, HandInv
    <3>4. step[i].todo = "append" => At(i)[2] # At(j)[2]
      BY <1>6, <3>1, <3>3
    <3> QED
      BY <3>1, <3>2, <3>4
  <2>3. ASSUME NEW k \in Importers, k # j, step'[j].todo \in Hands, step'[k].todo \in Hands
        PROVE  At(k)' # At(j)'
    <3>1. CASE k = i
      BY <1>1, <1>4, <1>5, <1>7, <2>3, <3>1
    <3>2. CASE k # i
      BY <1>1, <1>4, <1>7, <2>3, <3>2 DEF RecordsInv, HandInv, Hands
    <3> QED
      BY <3>1, <3>2
  <2> QED
    BY <2>1, <2>2, <2>3 DEF HandInv, Hands
<1>8. HandInv(i)'
  <2>1. step'[i].todo = "fill" => target'[At(i)'] = "torn"
    BY <1>1, <1>5 DEF Hands
  <2>2. step'[i].todo = "append" => IsDecision(At(i)') /\ At(i)'[2] \notin ToSet(tOrder')
    BY <1>1, <1>5 DEF Hands
  <2>3. \A k \in Importers : k # i /\ step'[i].todo \in Hands /\ step'[k].todo \in Hands => At(k)' # At(i)'
    BY <1>1, <1>4, <1>5
  <2> QED
    BY <2>1, <2>2, <2>3 DEF HandInv, Hands
<1> QED
  BY <1>2, <1>3, <1>7, <1>8 DEF RecordsInv

\* A step that leaves files and index alone and takes nothing in hand.
LEMMA HandsRest ==
    ASSUME TransferInv, RecordsInv, NEW i \in Importers, Ordered(package.payloads),
           UNCHANGED <<package, target, tOrder>>,
           NEW goes, step' = [step EXCEPT ![i] = goes], goes.todo \notin Hands
    PROVE  RecordsInv'
<1>1. IndexInv'
  BY Places DEF RecordsInv, IndexInv, Payloads
<1>2. \A j \in Importers : j # i /\ step[j].todo = "fill" => target'[At(j)] = "torn"
  BY DEF RecordsInv, HandInv
<1>3. \A d \in ToSet(tOrder') : d \in ToSet(tOrder)
  OBVIOUS
<1> QED
  BY <1>1, <1>2, <1>3, HandsMove DEF Hands

\* Records in the target stay what they are.
RecordsStay == \A f \in DOMAIN target : target[f] \in {"same", "other"} => target'[f] = target[f]

\* To a step, or a call that ends: nothing is taken in hand.
LEMMA GoesTo ==
    ASSUME NEW i \in Importers, NEW at, NEW todo, GoTo(i, at, todo), todo \notin Hands
    PROVE  \E goes : step' = [step EXCEPT ![i] = goes] /\ goes.todo \notin Hands
<1>1. PICK goes : goes = [at |-> at, todo |-> todo]
  OBVIOUS
<1>2. step' = [step EXCEPT ![i] = goes] /\ goes.todo \notin Hands
  BY <1>1 DEF GoTo
<1> QED
  BY <1>2

LEMMA RestGoes ==
    ASSUME NEW i \in Importers, Rest(i)
    PROVE  \E goes : step' = [step EXCEPT ![i] = goes] /\ goes.todo \notin Hands
<1>1. PICK goes : goes = Resting
  OBVIOUS
<1>2. step' = [step EXCEPT ![i] = goes] /\ goes.todo \notin Hands
  BY <1>1 DEF Rest, Resting, Hands
<1> QED
  BY <1>2

LEMMA NextPayloadGoes ==
    ASSUME NEW i \in Importers, NextPayload(i)
    PROVE  \E goes : step' = [step EXCEPT ![i] = goes] /\ goes.todo \notin Hands
<1>1. CASE step[i].at < Len(package.payloads)
  <2>1. PICK goes : goes = [at |-> step[i].at + 1, todo |-> "create"]
    OBVIOUS
  <2>2. step' = [step EXCEPT ![i] = goes]
    BY <1>1, <2>1 DEF NextPayload, GoTo
  <2>3. goes.todo \notin Hands
    BY <2>1 DEF Hands
  <2> QED
    BY <2>2, <2>3
<1>2. CASE ~(step[i].at < Len(package.payloads))
  <2>1. Rest(i)
    BY <1>2 DEF NextPayload
  <2> QED
    BY <2>1, RestGoes
<1> QED
  BY <1>1, <1>2

LEMMA RestingMoves ==
    ASSUME TransferInv, RecordsInv, NEW i \in Importers, package.payloads # <<>>,
           CallImport(i) \/ PlanPayload(i) \/ SkipPayload(i) \/ StopImport(i)
    PROVE  RecordsInv' /\ RecordsStay
<1>1. Ordered(package.payloads)
  BY DEF TransferInv
<1>2. UNCHANGED <<package, target, tOrder>>
  BY DEF CallImport, PlanPayload, SkipPayload, StopImport
<1>3. \E goes : step' = [step EXCEPT ![i] = goes] /\ goes.todo \notin Hands
  <2>1. CASE CallImport(i)
    <3>1. CASE Importable
      <4>1. GoTo(i, 1, "plan")
        BY <2>1, <3>1 DEF CallImport
      <4> QED
        BY <4>1, GoesTo DEF Hands
    <3>2. CASE ~Importable
      <4>1. step' = [step EXCEPT ![i] = step[i]]
        BY <2>1, <3>2 DEF CallImport, TransferInv
      <4>2. step[i].todo = "plan"
        BY <2>1 DEF CallImport, TransferInv, StepInv
      <4> QED
        BY <4>1, <4>2 DEF Hands
    <3> QED
      BY <3>1, <3>2
  <2>2. CASE PlanPayload(i)
    <3>1. CASE target[At(i)] \in {"other", "torn"}
      BY <2>2, <3>1, RestGoes DEF PlanPayload
    <3>2. CASE target[At(i)] \notin {"other", "torn"} /\ step[i].at < Len(package.payloads)
      <4>1. GoTo(i, step[i].at + 1, "plan")
        BY <2>2, <3>2 DEF PlanPayload
      <4> QED
        BY <4>1, GoesTo DEF Hands
    <3>3. CASE target[At(i)] \notin {"other", "torn"} /\ ~(step[i].at < Len(package.payloads))
      <4>1. GoTo(i, 1, "create")
        BY <2>2, <3>3 DEF PlanPayload
      <4> QED
        BY <4>1, GoesTo DEF Hands
    <3> QED
      BY <3>1, <3>2, <3>3
  <2>3. CASE SkipPayload(i)
    BY <2>3, NextPayloadGoes DEF SkipPayload
  <2>4. CASE StopImport(i)
    BY <2>4, RestGoes DEF StopImport
  <2> QED
    BY <2>1, <2>2, <2>3, <2>4
<1> QED
  BY <1>1, <1>2, <1>3, HandsRest DEF RecordsStay

LEMMA CreateMoves ==
    ASSUME TransferInv, RecordsInv, NEW i \in Importers, step[i].at > 0, CreatePayload(i)
    PROVE  RecordsInv' /\ RecordsStay
<1>0. /\ Ordered(package.payloads) /\ target \in [Payloads -> FileStates] /\ At(i) \in Payloads
      /\ package.payloads # <<>>
  BY Busy, Places
<1>1. CASE target[At(i)] # "none"
  <2>1. Rest(i) /\ UNCHANGED <<package, target, tOrder>>
    BY <1>1 DEF CreatePayload
  <2> QED
    BY <1>0, <2>1, HandsRest DEF Rest, Resting, Hands, RecordsStay
<1>2. CASE target[At(i)] = "none"
  <2>1. PICK goes : goes = [at |-> step[i].at, todo |-> "fill"]
    OBVIOUS
  <2>2. /\ target' = [target EXCEPT ![At(i)] = "torn"] /\ step' = [step EXCEPT ![i] = goes]
        /\ package' = package /\ tOrder' = tOrder
    BY <1>2, <2>1 DEF CreatePayload, GoTo
  <2>3. target'[At(i)] = "torn" /\ \A f \in Payloads : f # At(i) => target'[f] = target[f]
    BY <1>0, <2>2
  <2>4. ASSUME NEW j \in Importers, step[j].todo \in Hands PROVE At(j) # At(i) /\ At(j) \in Payloads
    <3>1. step[j].at > 0
      BY <2>4 DEF TransferInv, StepInv, Hands
    <3>2. target[At(j)] = "torn" \/ target[At(j)] = "same"
      BY <2>4 DEF TransferInv, StepInv, RecordsInv, HandInv, Hands
    <3> QED
      BY <1>2, <3>1, <3>2, Busy
  <2>5. \A j \in Importers : j # i /\ step[j].todo = "fill" => target'[At(j)] = "torn"
    BY <2>3, <2>4 DEF RecordsInv, HandInv, Hands
  <2>6. IndexInv'
    <3>1. \A d \in ToSet(tOrder) : target'[Decision(d)] = "same"
      BY <1>0, <1>2, <2>3 DEF RecordsInv, IndexInv
    <3> QED
      BY <1>0, <2>2, <3>1 DEF RecordsInv, IndexInv, Payloads
  <2>7. RecordsStay
    BY <1>0, <1>2, <2>3 DEF RecordsStay
  <2>8. \A d \in ToSet(tOrder') : d \in ToSet(tOrder)
    BY <2>2
  <2> QED
    BY <1>0, <2>1, <2>2, <2>3, <2>4, <2>5, <2>6, <2>7, <2>8, HandsMove
<1> QED
  BY <1>1, <1>2

LEMMA FillMoves ==
    ASSUME TransferInv, RecordsInv, NEW i \in Importers, step[i].at > 0, FillPayload(i)
    PROVE  RecordsInv' /\ RecordsStay
<1>0. /\ Ordered(package.payloads) /\ target \in [Payloads -> FileStates] /\ At(i) \in Payloads
      /\ package.payloads # <<>>
  BY Busy, Places
<1>1. target' = [target EXCEPT ![At(i)] = "same"] /\ package' = package /\ tOrder' = tOrder /\ step[i].todo = "fill"
  BY DEF FillPayload
<1>2. target[At(i)] = "torn"
  BY <1>1 DEF RecordsInv, HandInv
<1>3. target'[At(i)] = "same" /\ \A f \in Payloads : f # At(i) => target'[f] = target[f]
  BY <1>0, <1>1
<1>4. ASSUME NEW j \in Importers, j # i, step[j].todo \in Hands PROVE At(j) # At(i) /\ At(j) \in Payloads
  <2>1. step[j].at > 0
    BY <1>4 DEF TransferInv, StepInv, Hands
  <2> QED
    BY <1>1, <1>4, <2>1, Busy DEF RecordsInv, HandInv, Hands
<1>5. \A j \in Importers : j # i /\ step[j].todo = "fill" => target'[At(j)] = "torn"
  BY <1>3, <1>4 DEF RecordsInv, HandInv, Hands
<1>6. IndexInv'
  <2>1. \A d \in ToSet(tOrder) : target'[Decision(d)] = "same"
    BY <1>0, <1>3 DEF RecordsInv, IndexInv
  <2> QED
    BY <1>0, <1>1, <2>1 DEF RecordsInv, IndexInv, Payloads
<1>7. RecordsStay
  BY <1>0, <1>2, <1>3 DEF RecordsStay
<1>8. \A d \in ToSet(tOrder') : d \in ToSet(tOrder)
  BY <1>1
<1>9. CASE IsDecision(At(i))
  <2>1. PICK goes : goes = [at |-> step[i].at, todo |-> "append"]
    OBVIOUS
  <2>2. step' = [step EXCEPT ![i] = goes]
    BY <1>9, <2>1 DEF FillPayload, GoTo
  <2>3. At(i)[2] \notin ToSet(tOrder')
    <3>1. At(i) = Decision(At(i)[2])
      BY <1>0, <1>9 DEF RecordsInv, PackageInv
    <3> QED
      BY <1>0, <1>1, <1>2, <3>1 DEF RecordsInv, IndexInv
  <2> QED
    BY <1>0, <1>1, <1>4, <1>5, <1>6, <1>7, <1>8, <1>9, <2>1, <2>2, <2>3, HandsMove
<1>10. CASE ~IsDecision(At(i))
  <2>1. PICK goes : step' = [step EXCEPT ![i] = goes] /\ goes.todo \notin Hands
    BY <1>10, NextPayloadGoes DEF FillPayload
  <2> QED
    BY <1>0, <1>1, <1>5, <1>6, <1>7, <1>8, <2>1, HandsMove DEF Hands
<1> QED
  BY <1>9, <1>10

LEMMA AppendMoves ==
    ASSUME TransferInv, RecordsInv, NEW i \in Importers, step[i].at > 0, AppendPayload(i)
    PROVE  RecordsInv' /\ RecordsStay
<1>0. /\ Ordered(package.payloads) /\ target \in [Payloads -> FileStates] /\ At(i) \in Payloads
      /\ package.payloads # <<>>
  BY Busy, Places
<1>1. PICK d : d = At(i)[2]
  OBVIOUS
<1>2. /\ tOrder' = Append(tOrder, d) /\ UNCHANGED <<package, target>> /\ step[i].todo = "append"
  BY <1>1 DEF AppendPayload
<1>3. At(i) = Decision(d) /\ d \notin ToSet(tOrder) /\ target[At(i)] = "same"
  BY <1>0, <1>1, <1>2 DEF RecordsInv, HandInv, PackageInv, TransferInv, StepInv
<1> DEFINE Ids == ToSet(tOrder) \cup {d}
           n == Len(tOrder)
<1>4. tOrder \in Seq(Ids) /\ d \in Ids
  BY <1>0 DEF RecordsInv, IndexInv
<1> HIDE DEF Ids
<1>5. /\ tOrder' \in Seq(Ids) /\ Len(tOrder') = n + 1 /\ n \in Nat
      /\ \A m \in 1..(n + 1) : tOrder'[m] = IF m <= n THEN tOrder[m] ELSE d
      /\ DOMAIN tOrder = 1..n /\ DOMAIN tOrder' = 1..(n + 1)
  BY <1>2, <1>4, AppendProperties, LenProperties
<1>6. ToSet(tOrder') = Ids
  <2>1. ToSet(tOrder') = {tOrder'[m] : m \in 1..(n + 1)} /\ ToSet(tOrder) = {tOrder[m] : m \in 1..n}
    BY <1>5 DEF ToSet
  <2> QED
    BY <1>5, <2>1 DEF Ids
<1>7. IndexInv'
  <2>1. \A e \in ToSet(tOrder') : Decision(e) \in Payloads' /\ target'[Decision(e)] = "same"
    BY <1>0, <1>2, <1>3, <1>6 DEF RecordsInv, IndexInv, Ids, Payloads
  <2>2. \A m \in 1..n : tOrder[m] # d
    BY <1>3, <1>5 DEF ToSet
  <2>3. ASSUME NEW k \in 1..(n + 1), NEW m \in 1..(n + 1), tOrder'[k] = tOrder'[m] PROVE k = m
    <3>1. CASE k <= n /\ m <= n
      BY <1>0, <1>5, <2>3, <3>1 DEF RecordsInv, IndexInv
    <3>2. CASE k <= n /\ m = n + 1
      BY <1>5, <2>2, <2>3, <3>2
    <3>3. CASE k = n + 1 /\ m <= n
      BY <1>5, <2>2, <2>3, <3>3
    <3> QED
      BY <1>5, <3>1, <3>2, <3>3
  <2> QED
    BY <1>5, <1>6, <2>1, <2>3 DEF IndexInv
<1>8. PICK goes : step' = [step EXCEPT ![i] = goes] /\ goes.todo \notin Hands
  BY NextPayloadGoes DEF AppendPayload
<1>9. \A j \in Importers : j # i /\ step[j].todo = "fill" => target'[At(j)] = "torn"
  BY <1>2 DEF RecordsInv, HandInv
<1>10. \A e \in ToSet(tOrder') : e \in ToSet(tOrder) \/ (step[i].todo = "append" /\ e = At(i)[2])
  BY <1>1, <1>2, <1>6 DEF Ids
<1> QED
  BY <1>0, <1>2, <1>7, <1>8, <1>9, <1>10, HandsMove DEF Hands, RecordsStay

\* The export puts a package of different payloads into an empty hand, and the
\* index names what the target has already.
LEMMA ExportMoves ==
    ASSUME TransferInv, RecordsInv, Export
    PROVE  RecordsInv' /\ RecordsStay /\ package'.payloads # <<>>
<1>1. PICK refs \in SUBSET DOMAIN sources, refused \in BOOLEAN :
         \E payloads \in PathOrders(refs) :
             /\ package' = [payloads |-> payloads, refused |-> refused]
             /\ tOrder' \in SetToSeqs({d \in DOMAIN decisions : Decision(d) \in ToSet(payloads)
                                                                /\ target'[Decision(d)] = "same"})
  BY DEF Export
<1>2. PICK payloads \in PathOrders(refs) :
         /\ package' = [payloads |-> payloads, refused |-> refused]
         /\ tOrder' \in SetToSeqs({d \in DOMAIN decisions : Decision(d) \in ToSet(payloads)
                                                            /\ target'[Decision(d)] = "same"})
  BY <1>1
<1> DEFINE Listed == {d \in DOMAIN decisions : Decision(d) \in ToSet(payloads) /\ target'[Decision(d)] = "same"}
<1>3. IsFiniteSet(DOMAIN sources) /\ IsFiniteSet(DOMAIN decisions)
  BY DEF TransferInv
<1>4. package'.payloads = payloads /\ Payloads' = ToSet(payloads)
  BY <1>2 DEF Payloads
<1>5. Differ(payloads) /\ \A f \in ToSet(payloads) : IsDecision(f) => f = Decision(f[2])
  BY <1>3, PathOrdersDiffer
<1>6. PackageInv'
  BY <1>4, <1>5 DEF PackageInv, Differ
<1>7. Ordered(payloads)
  BY <1>3, PathOrdersAreOrdered
<1>8. payloads # <<>>
  <2>1. Len(payloads) >= 1
    BY <1>7 DEF Ordered
  <2> QED
    BY <2>1
<1>9. IsFiniteSet(Listed) /\ tOrder' \in SetToSeqs(Listed)
  BY <1>2, <1>3, FS_Subset
<1>10. tOrder' \in Seq(Listed) /\ Differ(tOrder') /\ \A n \in 1..Len(tOrder') : tOrder'[n] \in Listed
  <2> HIDE DEF Listed
  <2> QED
    BY <1>9, Enumerated
<1>11. DOMAIN tOrder' = 1..Len(tOrder') /\ Len(tOrder') \in Nat
  BY <1>10, LenProperties
<1>12. tOrder' \in Seq(ToSet(tOrder'))
  <2>1. tOrder' \in [1..Len(tOrder') -> ToSet(tOrder')]
    BY <1>10, <1>11, LenProperties DEF ToSet
  <2> QED
    BY <1>11, <2>1, SequenceOf
<1>13. \A d \in ToSet(tOrder') : d \in Listed
  BY <1>10, <1>11 DEF ToSet
<1>14. IndexInv'
  BY <1>4, <1>10, <1>11, <1>12, <1>13 DEF IndexInv, Differ
<1>15. ASSUME NEW i \in Importers PROVE HandInv(i)'
  <2>1. \A j \in Importers : step'[j].todo = "plan"
    BY NobodyImports DEF Export
  <2> QED
    BY <2>1 DEF HandInv
<1>16. RecordsStay
  BY DEF Export, RecordsInv, RecordsStay
<1> QED
  BY <1>4, <1>6, <1>8, <1>14, <1>15, <1>16 DEF RecordsInv

\* Nothing of the package or the target moves.
LEMMA StillKeeps ==
    ASSUME RecordsInv, UNCHANGED packageVars
    PROVE  RecordsInv' /\ RecordsStay
<1>1. UNCHANGED <<package, target, tOrder, step>>
  BY DEF packageVars
<1>2. \A i \in Importers : HandInv(i)'
  BY <1>1 DEF RecordsInv, HandInv, At
<1> QED
  BY <1>1, <1>2 DEF RecordsInv, PackageInv, IndexInv, Payloads, RecordsStay

LEMMA RecordsNext ==
    ASSUME TransferInv, RecordsInv, [PackageNext]_allVars
    PROVE  RecordsInv' /\ RecordsStay
<1>1. ASSUME NEW i \in Importers, step[i].todo # "plan" PROVE step[i].at > 0 /\ package.payloads # <<>>
  <2>1. step[i].at > 0
    BY <1>1, PastItsPlan
  <2> QED
    BY <2>1, Busy, Places
<1>2. CASE UNCHANGED packageVars
  BY <1>2, StillKeeps
<1>3. CASE Export
  BY <1>3, ExportMoves
<1>4. ASSUME NEW i \in Importers, CallImport(i) PROVE RecordsInv' /\ RecordsStay
  <2>1. package.payloads # <<>>
    BY <1>4 DEF CallImport
  <2> QED
    BY <1>4, <2>1, RestingMoves
<1>5. ASSUME NEW i \in Importers, PlanPayload(i) PROVE RecordsInv' /\ RecordsStay
  <2>1. package.payloads # <<>>
    BY <1>5, Busy, Places DEF PlanPayload
  <2> QED
    BY <1>5, <2>1, RestingMoves
<1>6. ASSUME NEW i \in Importers, SkipPayload(i) PROVE RecordsInv' /\ RecordsStay
  <2>1. step[i].todo # "plan"
    BY <1>6 DEF SkipPayload
  <2> QED
    BY <1>1, <1>6, <2>1, RestingMoves
<1>7. ASSUME NEW i \in Importers, CreatePayload(i) PROVE RecordsInv' /\ RecordsStay
  <2>1. step[i].todo # "plan"
    BY <1>7 DEF CreatePayload
  <2> QED
    BY <1>1, <1>7, <2>1, CreateMoves
<1>8. ASSUME NEW i \in Importers, FillPayload(i) PROVE RecordsInv' /\ RecordsStay
  <2>1. step[i].todo # "plan"
    BY <1>8 DEF FillPayload
  <2> QED
    BY <1>1, <1>8, <2>1, FillMoves
<1>9. ASSUME NEW i \in Importers, AppendPayload(i) PROVE RecordsInv' /\ RecordsStay
  <2>1. step[i].todo # "plan"
    BY <1>9 DEF AppendPayload
  <2> QED
    BY <1>1, <1>9, <2>1, AppendMoves
<1>10. ASSUME NEW i \in Importers, StopImport(i) PROVE RecordsInv' /\ RecordsStay
  <2>1. step[i].todo # "plan"
    BY <1>10 DEF StopImport
  <2> QED
    BY <1>1, <1>10, <2>1, RestingMoves
<1>11. CASE UNCHANGED allVars
  BY <1>11, StillKeeps DEF allVars, packageVars
<1> QED
  BY <1>2, <1>3, <1>4, <1>5, <1>6, <1>7, <1>8, <1>9, <1>10, <1>11 DEF PackageNext

\* What a call has created and not filled is its own, and the target's index
\* names, once, decisions that are there (writeSourceRegistrationDecision,
\* src/src/authority/store.ts, writes the record before it appends the id).
THEOREM RecordsInvariant == PackageSpec => []RecordsInv
<1>1. PackageInit => RecordsInv
  <2> SUFFICES ASSUME PackageInit PROVE RecordsInv
    OBVIOUS
  <2>1. /\ package.payloads = <<>> /\ target = <<>> /\ tOrder = <<>>
        /\ \A i \in Importers : step[i].todo = "plan"
    BY DEF PackageInit, Resting
  <2>2. Len(package.payloads) = 0 /\ Payloads = {}
    BY <2>1 DEF Payloads, ToSet
  <2> QED
    BY <2>1, <2>2 DEF RecordsInv, PackageInv, HandInv
<1>2. TransferInv /\ RecordsInv /\ [PackageNext]_allVars => RecordsInv'
  BY RecordsNext
<1> QED
  BY <1>1, <1>2, TransferInvariant, PTL DEF PackageSpec

IndexedOnce == \A m, n \in DOMAIN tOrder : tOrder[m] = tOrder[n] => m = n

\* An import never changes or removes a record the target has, and indexes a
\* decision once: importPackage creates exclusively, however stale its plan.
THEOREM RecordsAlwaysKept == PackageSpec => ImportKeepsRecords
<1>1. RecordsInv => IndexedOnce
  <2> SUFFICES ASSUME RecordsInv PROVE IndexedOnce
    OBVIOUS
  <2>1. CASE package.payloads = <<>>
    BY <2>1 DEF RecordsInv, IndexedOnce
  <2>2. CASE package.payloads # <<>>
    BY <2>2 DEF RecordsInv, IndexInv, IndexedOnce
  <2> QED
    BY <2>1, <2>2
<1>2. TransferInv /\ RecordsInv /\ [PackageNext]_allVars =>
          RecordsInv' /\ \A f \in DOMAIN target : target[f] \in {"same", "other"} => target'[f] = target[f]
  BY RecordsNext DEF RecordsStay
<1>3. RecordsInv' => IndexedOnce'
  BY <1>1, PTL
<1>4. TransferInv /\ RecordsInv /\ [PackageNext]_allVars =>
          [/\ \A f \in DOMAIN target : target[f] \in {"same", "other"} => target'[f] = target[f]
           /\ \A m, n \in DOMAIN tOrder' : tOrder'[m] = tOrder'[n] => m = n]_allVars
  BY <1>2, <1>3 DEF IndexedOnce
<1> QED
  BY <1>4, TransferInvariant, RecordsInvariant, PTL DEF PackageSpec, ImportKeepsRecords

-----------------------------------------------------------------------------
(* Who gets through, step by step. *)

\* Only a create touches a path that was empty.
EmptyStays == \A f \in Payloads : target[f] = "none" => target'[f] = "none"

LEMMA BehindStays ==
    ASSUME NEW j \in Importers, BehindInv(j), StepInv(j), Ordered(package.payloads), package' = package,
           SameStays, EmptyStays, target' \in [Payloads -> FileStates],
           plan'[j] = plan[j] \/ plan'[j] = <<>>
    PROVE  BehindInv(j)'
<1>1. CASE plan'[j] = <<>>
  <2>1. Len(plan'[j]) = 0
    BY <1>1
  <2> QED
    BY <2>1 DEF BehindInv
<1>2. CASE plan'[j] = plan[j]
  <2>1. Len(plan[j]) \in Nat /\ Len(package.payloads) \in Nat /\ Len(plan[j]) <= Len(package.payloads)
    BY Places, LenProperties DEF StepInv
  <2>2. \A n \in 1..Len(package.payloads) : package.payloads[n] \in Payloads
    BY Places
  <2> SUFFICES ASSUME NEW n \in 1..Len(plan[j]), plan[j][n] = "create",
                      target'[package.payloads[n]] # "none",
                      NEW m \in 1..Len(package.payloads), m < n
               PROVE  target'[package.payloads[m]] = "same"
    BY <1>2 DEF BehindInv
  <2>3. n \in 1..Len(package.payloads)
    BY <2>1
  <2>4. target[package.payloads[n]] # "none"
    BY <2>2, <2>3 DEF EmptyStays
  <2>5. target[package.payloads[m]] = "same"
    BY <2>4 DEF BehindInv
  <2> QED
    BY <2>2, <2>5 DEF SameStays
<1> QED
  BY <1>1, <1>2

LEMMA AheadStays ==
    ASSUME NEW j \in Importers, Ahead(j), Ordered(package.payloads), package' = package, EmptyStays,
           step'[j] = step[j], plan'[j] = plan[j]
    PROVE  Ahead(j)'
BY Places DEF Ahead, EmptyStays

\* A step of importer i that creates nothing.
LEMMA RaceMoves ==
    ASSUME TransferInv, RaceInv, NEW i \in Importers, Ordered(package.payloads), package' = package,
           NEW goes, step' = [step EXCEPT ![i] = goes],
           NEW plans, plan' = [plan EXCEPT ![i] = plans], plans = plan[i] \/ plans = <<>>,
           target' \in [Payloads -> FileStates], SameStays, EmptyStays,
           imports' \in [made : Nat, planned : Nat, stopped : Nat],
           imports'.planned = imports.planned,
           imports'.stopped = 0 => imports.stopped = 0,
           imports.planned = 0 => goes.todo = "plan",
           imports'.stopped = 0 => Whole' \/ ~Ahead(i) \/ Ahead(i)'
    PROVE  RaceInv'
<1>1. /\ step'[i] = goes /\ plan'[i] = plans
      /\ \A j \in Importers : j # i => step'[j] = step[j] /\ plan'[j] = plan[j]
  BY DEF TransferInv
<1>2. ASSUME NEW j \in Importers PROVE BehindInv(j)'
  <2>1. StepInv(j) /\ BehindInv(j)
    BY DEF TransferInv, RaceInv
  <2>2. plan'[j] = plan[j] \/ plan'[j] = <<>>
    BY <1>1
  <2> QED
    BY <2>1, <2>2, BehindStays
<1>3. ASSUME imports'.planned = 0, NEW j \in Importers
      PROVE  /\ step'[j].todo = "plan"
             /\ \A n \in 1..Len(plan'[j]) : plan'[j][n] = "create" => target'[package.payloads[n]] = "none"
  <2>1. step'[j].todo = "plan"
    BY <1>1, <1>3 DEF RaceInv
  <2>2. CASE plan'[j] = <<>>
    <3>1. Len(plan'[j]) = 0
      BY <2>2
    <3> QED
      BY <2>1, <3>1
  <2>3. CASE plan'[j] = plan[j]
    <3>1. StepInv(j) /\ Len(package.payloads) \in Nat
      BY Places DEF TransferInv
    <3>2. Len(plan[j]) \in Nat /\ Len(plan[j]) <= Len(package.payloads)
      BY <3>1, LenProperties DEF StepInv
    <3>3. \A n \in 1..Len(plan[j]) : package.payloads[n] \in Payloads
      BY <3>1, <3>2, Places
    <3>4. \A n \in 1..Len(plan[j]) : plan[j][n] = "create" => target[package.payloads[n]] = "none"
      BY <1>3 DEF RaceInv
    <3> QED
      BY <2>1, <2>3, <3>3, <3>4 DEF EmptyStays
  <2> QED
    BY <1>1, <2>2, <2>3
<1>4. ASSUME imports'.planned > 0, imports'.stopped = 0 PROVE Whole' \/ \E j \in Importers : Ahead(j)'
  <2>1. Whole \/ \E j \in Importers : Ahead(j)
    BY <1>4 DEF RaceInv
  <2>2. CASE Whole
    BY <2>2 DEF Whole, SameStays, Payloads
  <2>3. ASSUME NEW j \in Importers, Ahead(j) PROVE Whole' \/ \E k \in Importers : Ahead(k)'
    <3>1. CASE j = i
      BY <1>4, <2>3, <3>1
    <3>2. CASE j # i
      BY <1>1, <2>3, <3>2, AheadStays
    <3> QED
      BY <3>1, <3>2
  <2> QED
    BY <2>1, <2>2, <2>3
<1>5. package'.payloads # <<>>
  BY Places
<1> QED
  BY <1>2, <1>3, <1>4, <1>5 DEF RaceInv

\* When a payload is there the call stays ahead, or was the last one and is through.
LEMMA NextPayloadRaces ==
    ASSUME TransferInv, RaceInv, NEW i \in Importers, step[i].at > 0, step[i].todo # "plan", NextPayload(i),
           package' = package, imports' = imports,
           target' \in [Payloads -> FileStates], SameStays, EmptyStays, target'[At(i)] = "same"
    PROVE  RaceInv'
<1> DEFINE last == Len(package.payloads)
<1>0. /\ Ordered(package.payloads) /\ StepInv(i)
      /\ step[i].at \in 1..last /\ last \in Nat
  BY Busy
<1>1. \A n \in 1..last : package.payloads[n] \in Payloads
  BY <1>0, Places
<1>2. imports.planned # 0
  BY DEF RaceInv
<1>3. imports' \in [made : Nat, planned : Nat, stopped : Nat]
  BY DEF RaceInv
<1>4. CASE step[i].at < last
  <2>1. PICK goes : goes = [at |-> step[i].at + 1, todo |-> "create"]
    OBVIOUS
  <2>2. step' = [step EXCEPT ![i] = goes] /\ plan' = [plan EXCEPT ![i] = plan[i]]
    BY <1>4, <2>1 DEF NextPayload, GoTo, TransferInv
  <2>3. step'[i] = goes /\ plan'[i] = plan[i]
    BY <2>2 DEF TransferInv
  <2>4. ASSUME Ahead(i) PROVE Ahead(i)'
    <3>1. ASSUME NEW n \in 1..last, n > step[i].at, plan[i][n] = "create" PROVE target'[package.payloads[n]] = "none"
      BY <1>1, <2>4, <3>1 DEF Ahead, EmptyStays
    <3>2. \A n \in 1..last : n >= step[i].at + 1 => n > step[i].at
      BY <1>0
    <3> QED
      BY <1>0, <2>1, <2>3, <3>1, <3>2 DEF Ahead
  <2> QED
    BY <1>0, <1>2, <1>3, <2>2, <2>4, RaceMoves
<1>5. CASE ~(step[i].at < last)
  <2>1. PICK goes : goes = Resting
    OBVIOUS
  <2>2. step' = [step EXCEPT ![i] = goes] /\ plan' = [plan EXCEPT ![i] = <<>>]
    BY <1>5, <2>1 DEF NextPayload, Rest
  <2>3. ASSUME NEW f \in Payloads PROVE target'[f] = "same"
    <3>1. PICK n \in 1..last : package.payloads[n] = f
      BY <1>0, Places
    <3>2. CASE n = step[i].at
      BY <3>1, <3>2 DEF At
    <3>3. CASE n # step[i].at
      <4>1. n < step[i].at
        BY <1>0, <1>5, <3>3
      <4> QED
        BY <1>0, <3>1, <4>1 DEF StepInv, SameStays
    <3> QED
      BY <3>2, <3>3
  <2>4. Whole'
    BY <2>3 DEF Whole, Payloads
  <2> QED
    BY <1>0, <1>2, <1>3, <2>2, <2>4, RaceMoves
<1> QED
  BY <1>4, <1>5

LEMMA CallRaces ==
    ASSUME TransferInv, RaceInv, NEW i \in Importers, CallImport(i)
    PROVE  RaceInv'
<1>0. Ordered(package.payloads) /\ target \in [Payloads -> FileStates]
  BY DEF CallImport, TransferInv
<1>1. package' = package /\ target' = target /\ plan' = [plan EXCEPT ![i] = plan[i]]
  BY DEF CallImport, TransferInv
<1>2. /\ imports' \in [made : Nat, planned : Nat, stopped : Nat]
      /\ imports'.planned = imports.planned /\ imports'.stopped = imports.stopped
  BY DEF CallImport, RaceInv
<1>3. step[i].todo = "plan"
  BY DEF CallImport, TransferInv, StepInv
<1>4. PICK goes : goes = IF Importable THEN [at |-> 1, todo |-> "plan"] ELSE step[i]
  OBVIOUS
<1>5. step' = [step EXCEPT ![i] = goes]
  BY <1>4 DEF CallImport, GoTo, TransferInv
<1>6. goes.todo = "plan"
  BY <1>3, <1>4
<1>7. ~Ahead(i) /\ SameStays /\ EmptyStays
  BY <1>1, <1>3 DEF Ahead, SameStays, EmptyStays
<1> QED
  BY <1>0, <1>1, <1>2, <1>5, <1>6, <1>7, RaceMoves

\* The call ends and was not the one to get through.
LEMMA RestRaces ==
    ASSUME TransferInv, RaceInv, NEW i \in Importers, step[i].at > 0, Rest(i), ~Ahead(i) \/ imports'.stopped > 0,
           package' = package, target' = target,
           imports' \in [made : Nat, planned : Nat, stopped : Nat],
           imports'.planned = imports.planned, imports'.stopped = 0 => imports.stopped = 0
    PROVE  RaceInv'
<1>0. Ordered(package.payloads) /\ target \in [Payloads -> FileStates]
  BY Busy
<1>1. PICK goes : goes = Resting
  OBVIOUS
<1>2. /\ step' = [step EXCEPT ![i] = goes] /\ plan' = [plan EXCEPT ![i] = <<>>]
      /\ goes.todo = "plan"
  BY <1>1 DEF Rest, Resting
<1>3. SameStays /\ EmptyStays
  BY DEF SameStays, EmptyStays
<1>4. imports'.stopped = 0 => ~Ahead(i)
  OBVIOUS
<1>5. PICK plans : plans = <<>>
  OBVIOUS
<1>6. plan' = [plan EXCEPT ![i] = plans] /\ (plans = plan[i] \/ plans = <<>>)
  BY <1>2, <1>5
<1>7. target' \in [Payloads -> FileStates] /\ (imports.planned = 0 => goes.todo = "plan")
  BY <1>0, <1>2
<1>8. imports'.stopped = 0 => Whole' \/ ~Ahead(i) \/ Ahead(i)'
  BY <1>4
<1> QED
  BY <1>0, <1>2, <1>3, <1>6, <1>7, <1>8, RaceMoves

LEMMA PlanRaces ==
    ASSUME TransferInv, RaceInv, NEW i \in Importers, PlanPayload(i)
    PROVE  RaceInv'
<1> DEFINE last == Len(package.payloads)
<1>0. /\ Ordered(package.payloads) /\ StepInv(i) /\ target \in [Payloads -> FileStates] /\ At(i) \in Payloads
      /\ step[i].at \in 1..last /\ last \in Nat
      /\ plan[i] \in Seq(Effects) /\ Len(plan[i]) \in Nat
      /\ step[i].todo = "plan" /\ Len(plan[i]) = step[i].at - 1
  BY Busy DEF PlanPayload, StepInv
<1>1. package' = package /\ target' = target /\ imports \in [made : Nat, planned : Nat, stopped : Nat]
  BY DEF PlanPayload, RaceInv
<1>2. ~Ahead(i)
  BY <1>0 DEF Ahead
<1>3. CASE target[At(i)] \in {"other", "torn"}
  BY <1>0, <1>1, <1>2, <1>3, RestRaces DEF PlanPayload
<1>4. CASE target[At(i)] \notin {"other", "torn"}
  <2>1. PICK effect \in Effects : effect = IF target[At(i)] = "same" THEN "exists_same" ELSE "create"
    BY DEF Effects
  <2>2. plan' = [plan EXCEPT ![i] = Append(plan[i], effect)]
    BY <1>4, <2>1 DEF PlanPayload
  <2>3. /\ plan'[i] = Append(plan[i], effect)
        /\ \A j \in Importers : j # i => plan'[j] = plan[j]
    BY <2>2 DEF TransferInv
  <2>4. /\ Len(plan'[i]) = step[i].at
        /\ \A m \in 1..step[i].at : plan'[i][m] = IF m < step[i].at THEN plan[i][m] ELSE effect
    BY <1>0, <2>3, AppendProperties
  <2>5. effect = "create" => target[At(i)] = "none"
    BY <1>0, <1>4, <2>1 DEF FileStates
  <2>6. ASSUME NEW j \in Importers PROVE BehindInv(j)'
    <3>1. CASE j # i
      BY <1>1, <2>3, <3>1 DEF RaceInv, BehindInv
    <3>2. CASE j = i
      <4> SUFFICES ASSUME NEW n \in 1..step[i].at, plan'[i][n] = "create",
                          target[package.payloads[n]] # "none",
                          NEW m \in 1..last, m < n
                   PROVE  target[package.payloads[m]] = "same"
        BY <1>1, <2>4, <3>2 DEF BehindInv
      <4>1. n < step[i].at
        BY <1>0, <2>4, <2>5 DEF At
      <4>2. n \in 1..Len(plan[i]) /\ plan[i][n] = "create"
        BY <1>0, <2>4, <4>1
      <4> QED
        BY <4>2 DEF RaceInv, BehindInv
    <3> QED
      BY <3>1, <3>2
  <2>7. imports.planned = 0 =>
            \A j \in Importers : \A n \in 1..Len(plan'[j]) : plan'[j][n] = "create" => target[package.payloads[n]] = "none"
    <3> SUFFICES ASSUME imports.planned = 0, NEW j \in Importers, NEW n \in 1..Len(plan'[j]), plan'[j][n] = "create"
                 PROVE  target[package.payloads[n]] = "none"
      OBVIOUS
    <3>1. CASE j # i
      BY <2>3, <3>1 DEF RaceInv
    <3>2. CASE j = i /\ n < step[i].at
      <4>1. n \in 1..Len(plan[i]) /\ plan[i][n] = "create"
        BY <1>0, <2>4, <3>2
      <4> QED
        BY <4>1 DEF RaceInv
    <3>3. CASE j = i /\ n = step[i].at
      BY <1>0, <2>4, <2>5, <3>3 DEF At
    <3> QED
      BY <1>0, <2>4, <3>1, <3>2, <3>3
  <2>8. ASSUME imports.planned > 0, imports.stopped = 0,
               \A j \in Importers : j # i => step'[j] = step[j]
        PROVE  Whole' \/ \E j \in Importers : Ahead(j)'
    <3>1. Whole \/ \E j \in Importers : Ahead(j)
      BY <2>8 DEF RaceInv
    <3>2. CASE Whole
      BY <1>1, <3>2 DEF Whole, Payloads
    <3>3. ASSUME NEW j \in Importers, Ahead(j) PROVE Ahead(j)'
      <4>1. j # i
        BY <1>2, <3>3
      <4> QED
        BY <1>1, <2>3, <2>8, <3>3, <4>1 DEF Ahead
    <3> QED
      BY <3>1, <3>2, <3>3
  <2>9. package'.payloads # <<>>
    BY <1>0, <1>1, Places
  <2>10. CASE step[i].at < last
    <3>1. PICK goes : goes = [at |-> step[i].at + 1, todo |-> "plan"]
      OBVIOUS
    <3>2. step' = [step EXCEPT ![i] = goes] /\ imports' = imports
      BY <1>4, <2>10, <3>1 DEF PlanPayload, GoTo
    <3>3. step'[i] = goes /\ \A j \in Importers : j # i => step'[j] = step[j]
      BY <3>2 DEF TransferInv
    <3>4. imports'.planned = 0 => \A j \in Importers : step'[j].todo = "plan"
      BY <3>1, <3>2, <3>3 DEF RaceInv
    <3> QED
      BY <1>1, <2>6, <2>7, <2>8, <2>9, <3>2, <3>3, <3>4 DEF RaceInv
  <2>11. CASE ~(step[i].at < last)
    <3>1. PICK goes : goes = [at |-> 1, todo |-> "create"]
      OBVIOUS
    <3>2. step' = [step EXCEPT ![i] = goes] /\ imports' = [imports EXCEPT !.planned = @ + 1]
      BY <1>4, <2>11, <3>1 DEF PlanPayload, GoTo
    <3>3. step'[i] = goes /\ \A j \in Importers : j # i => step'[j] = step[j]
      BY <3>2 DEF TransferInv
    <3>4. /\ imports' \in [made : Nat, planned : Nat, stopped : Nat]
          /\ imports'.planned = imports.planned + 1 /\ imports'.stopped = imports.stopped
      BY <1>1, <3>2
    <3>5. imports'.planned > 0
      BY <1>1, <3>4
    <3>6. step[i].at = last
      BY <1>0, <2>11
    <3>7. ASSUME imports.planned = 0 PROVE Ahead(i)'
      <4>1. \A n \in 1..last : plan'[i][n] = "create" => target[package.payloads[n]] = "none"
        BY <2>4, <2>7, <3>6, <3>7
      <4> QED
        BY <1>1, <3>1, <3>3, <4>1 DEF Ahead
    <3>8. imports'.stopped = 0 => Whole' \/ \E j \in Importers : Ahead(j)'
      BY <1>1, <2>8, <3>3, <3>4, <3>7
    <3> QED
      BY <2>6, <2>9, <3>4, <3>5, <3>8 DEF RaceInv
  <2> QED
    BY <2>10, <2>11
<1> QED
  BY <1>3, <1>4

LEMMA SkipRaces ==
    ASSUME TransferInv, RaceInv, NEW i \in Importers, step[i].at > 0, SkipPayload(i)
    PROVE  RaceInv'
<1>0. /\ StepInv(i) /\ target \in [Payloads -> FileStates]
      /\ step[i].at \in 1..Len(package.payloads)
  BY Busy
<1>1. package' = package /\ target' = target /\ imports' = imports /\ step[i].todo # "plan"
  BY DEF SkipPayload
<1>2. target[At(i)] = "same"
  BY <1>0 DEF SkipPayload, StepInv, At
<1>3. SameStays /\ EmptyStays
  BY <1>1 DEF SameStays, EmptyStays
<1> QED
  BY <1>0, <1>1, <1>2, <1>3, NextPayloadRaces DEF SkipPayload

LEMMA AppendRaces ==
    ASSUME TransferInv, RaceInv, NEW i \in Importers, step[i].at > 0, AppendPayload(i)
    PROVE  RaceInv'
<1>0. StepInv(i) /\ target \in [Payloads -> FileStates]
  BY Busy
<1>1. package' = package /\ target' = target /\ imports' = imports /\ step[i].todo # "plan"
  BY DEF AppendPayload
<1>2. target[At(i)] = "same"
  BY <1>0 DEF AppendPayload, StepInv
<1>3. SameStays /\ EmptyStays
  BY <1>1 DEF SameStays, EmptyStays
<1> QED
  BY <1>0, <1>1, <1>2, <1>3, NextPayloadRaces DEF AppendPayload

LEMMA StopRaces ==
    ASSUME TransferInv, RaceInv, NEW i \in Importers, step[i].at > 0, StopImport(i)
    PROVE  RaceInv'
<1>1. /\ imports' \in [made : Nat, planned : Nat, stopped : Nat]
      /\ imports'.planned = imports.planned /\ imports'.stopped > 0
  BY DEF StopImport, RaceInv
<1> QED
  BY <1>1, RestRaces DEF StopImport

LEMMA FillRaces ==
    ASSUME TransferInv, RecordsInv, RaceInv, NEW i \in Importers, step[i].at > 0, FillPayload(i)
    PROVE  RaceInv'
<1>0. /\ Ordered(package.payloads) /\ target \in [Payloads -> FileStates] /\ At(i) \in Payloads
      /\ Len(package.payloads) \in Nat /\ step[i].at \in 1..Len(package.payloads)
  BY Busy
<1>1. /\ target' = [target EXCEPT ![At(i)] = "same"] /\ package' = package /\ imports' = imports
      /\ step[i].todo = "fill" /\ target[At(i)] = "torn"
  BY DEF FillPayload, RecordsInv, HandInv
<1>2. /\ target' \in [Payloads -> FileStates] /\ SameStays /\ EmptyStays /\ target'[At(i)] = "same"
  BY <1>0, <1>1 DEF FileStates, SameStays, EmptyStays
<1>3. CASE ~IsDecision(At(i))
  BY <1>1, <1>2, <1>3, NextPayloadRaces DEF FillPayload
<1>4. CASE IsDecision(At(i))
  <2>1. PICK goes : goes = [at |-> step[i].at, todo |-> "append"]
    OBVIOUS
  <2>2. step' = [step EXCEPT ![i] = goes] /\ plan' = [plan EXCEPT ![i] = plan[i]]
    BY <1>4, <2>1 DEF FillPayload, GoTo, TransferInv
  <2>3. step'[i] = goes /\ plan'[i] = plan[i]
    BY <2>2 DEF TransferInv
  <2>4. ASSUME Ahead(i) PROVE Ahead(i)'
    <3>1. \A n \in 1..Len(package.payloads) : package.payloads[n] \in Payloads
      BY <1>0, Places
    <3>2. \A n \in 1..Len(package.payloads) : n > step[i].at /\ plan[i][n] = "create" => target'[package.payloads[n]] = "none"
      BY <1>2, <2>4, <3>1 DEF Ahead, EmptyStays
    <3> QED
      BY <1>1, <2>1, <2>3, <3>2 DEF Ahead
  <2>5. imports.planned # 0 /\ imports \in [made : Nat, planned : Nat, stopped : Nat]
    BY <1>1 DEF RaceInv
  <2> QED
    BY <1>0, <1>1, <1>2, <2>2, <2>4, <2>5, RaceMoves
<1> QED
  BY <1>3, <1>4

\* The call that creates a payload finds nothing behind it: who had created a
\* later one would have had this one.
LEMMA CreateRaces ==
    ASSUME TransferInv, RecordsInv, RaceInv, NEW i \in Importers, step[i].at > 0, CreatePayload(i)
    PROVE  RaceInv'
<1> DEFINE last == Len(package.payloads)
           a == step[i].at
<1>0. /\ Ordered(package.payloads) /\ target \in [Payloads -> FileStates] /\ At(i) \in Payloads
      /\ last \in Nat /\ a \in 1..last /\ StepInv(i) /\ Len(plan[i]) = last
  BY Busy DEF CreatePayload, StepInv
<1>1. /\ package' = package /\ imports' = imports /\ step[i].todo = "create" /\ plan[i][a] = "create"
      /\ imports \in [made : Nat, planned : Nat, stopped : Nat] /\ imports.planned # 0
  BY DEF CreatePayload, RaceInv
<1>2. \A n \in 1..last : package.payloads[n] \in Payloads
  BY <1>0, Places
<1>3. CASE target[At(i)] # "none"
  <2>1. ~Ahead(i)
    BY <1>0, <1>1, <1>3 DEF Ahead, At
  <2> QED
    BY <1>0, <1>1, <1>3, <2>1, RestRaces DEF CreatePayload
<1>4. CASE target[At(i)] = "none"
  <2>1. PICK goes : goes = [at |-> a, todo |-> "fill"]
    OBVIOUS
  <2>2. /\ target' = [target EXCEPT ![At(i)] = "torn"] /\ step' = [step EXCEPT ![i] = goes] /\ plan' = plan
    BY <1>4, <2>1 DEF CreatePayload, GoTo
  <2>3. step'[i] = goes
    BY <2>2 DEF TransferInv
  <2>4. /\ \A f \in Payloads : f # At(i) => target'[f] = target[f]
        /\ \A f \in Payloads : target[f] = "same" => target'[f] = "same"
    BY <1>0, <1>4, <2>2
  <2>5. \A n \in 1..last : n # a => package.payloads[n] # At(i)
    BY <1>0 DEF RecordsInv, PackageInv, At
  <2>6. ASSUME NEW n \in 1..last, n > a, plan[i][n] = "create" PROVE target'[package.payloads[n]] = "none"
    <3>1. target[package.payloads[n]] = "none"
      <4> SUFFICES ASSUME target[package.payloads[n]] # "none" PROVE FALSE
        OBVIOUS
      <4>1. BehindInv(i)
        BY DEF RaceInv
      <4>2. target[package.payloads[a]] = "same"
        BY <1>0, <2>6, <4>1 DEF BehindInv
      <4> QED
        BY <1>4, <4>2 DEF At
    <3>2. n # a
      BY <1>0, <2>6
    <3> QED
      BY <1>2, <2>4, <2>5, <3>1, <3>2
  <2>7. Ahead(i)'
    <3>1. \A n \in 1..last : (n > a \/ (n = a /\ goes.todo = "create")) /\ plan[i][n] = "create"
              => target'[package.payloads[n]] = "none"
      BY <2>1, <2>6
    <3> QED
      BY <1>1, <2>1, <2>2, <2>3, <3>1 DEF Ahead
  <2>8. ASSUME NEW j \in Importers PROVE BehindInv(j)'
    <3>1. StepInv(j) /\ BehindInv(j)
      BY DEF TransferInv, RaceInv
    <3>2. Len(plan[j]) \in Nat /\ Len(plan[j]) <= last
      BY <3>1, LenProperties DEF StepInv
    <3> SUFFICES ASSUME NEW n \in 1..Len(plan[j]), plan[j][n] = "create",
                        target'[package.payloads[n]] # "none",
                        NEW m \in 1..last, m < n
                 PROVE  target'[package.payloads[m]] = "same"
      BY <1>1, <2>2 DEF BehindInv
    <3>3. n \in 1..last
      BY <1>0, <3>2
    <3>4. target[package.payloads[m]] = "same"
      <4>1. CASE n = a
        BY <1>0, <1>1, <4>1 DEF StepInv
      <4>2. CASE n # a
        <5>1. target[package.payloads[n]] # "none"
          BY <1>2, <2>4, <2>5, <3>3, <4>2
        <5> QED
          BY <3>1, <5>1 DEF BehindInv
      <4> QED
        BY <4>1, <4>2
    <3> QED
      BY <1>2, <2>4, <3>4
  <2>9. package'.payloads # <<>>
    BY <1>0, <1>1, Places
  <2> QED
    BY <1>1, <2>7, <2>8, <2>9 DEF RaceInv
<1> QED
  BY <1>3, <1>4

\* Before the export nobody has planned anything.
LEMMA ExportRaces ==
    ASSUME TransferInv, RaceInv, Export, package'.payloads # <<>>
    PROVE  RaceInv'
<1>1. \A i \in Importers : step[i].todo = "plan" /\ plan[i] = <<>> /\ Len(plan[i]) = 0
  <2>1. ASSUME NEW i \in Importers PROVE step[i].todo = "plan" /\ plan[i] = <<>>
    BY NobodyImports DEF Export
  <2> QED
    BY <2>1
<1>2. imports' = imports /\ imports.planned = 0 /\ plan' = plan /\ step' = step
  BY DEF Export, RaceInv
<1>3. \A i \in Importers : BehindInv(i)'
  BY <1>1, <1>2 DEF BehindInv
<1> QED
  BY <1>1, <1>2, <1>3 DEF RaceInv

LEMMA StillRaces ==
    ASSUME RaceInv, UNCHANGED packageVars
    PROVE  RaceInv'
<1>1. UNCHANGED <<package, target, step, plan, imports>>
  BY DEF packageVars
<1>2. \A i \in Importers : BehindInv(i)' /\ (Ahead(i) => Ahead(i)')
  BY <1>1 DEF RaceInv, BehindInv, Ahead
<1>3. Whole => Whole'
  BY <1>1 DEF Whole, Payloads
<1> QED
  BY <1>1, <1>2, <1>3 DEF RaceInv

LEMMA RaceNext ==
    ASSUME TransferInv, RecordsInv, RaceInv, [PackageNext]_allVars
    PROVE  RaceInv'
<1>1. ASSUME NEW i \in Importers, step[i].todo # "plan" PROVE step[i].at > 0
  BY <1>1, PastItsPlan
<1>2. CASE UNCHANGED packageVars
  BY <1>2, StillRaces
<1>3. CASE Export
  BY <1>3, ExportMoves, ExportRaces
<1>4. ASSUME NEW i \in Importers, CallImport(i) \/ PlanPayload(i) PROVE RaceInv'
  BY <1>4, CallRaces, PlanRaces
<1>5. ASSUME NEW i \in Importers,
             SkipPayload(i) \/ CreatePayload(i) \/ FillPayload(i) \/ AppendPayload(i) \/ StopImport(i)
      PROVE  RaceInv'
  <2>1. step[i].at > 0
    BY <1>1, <1>5 DEF SkipPayload, CreatePayload, FillPayload, AppendPayload, StopImport
  <2> QED
    BY <1>5, <2>1, SkipRaces, CreateRaces, FillRaces, AppendRaces, StopRaces
<1>6. CASE UNCHANGED allVars
  BY <1>6, StillRaces DEF allVars, packageVars
<1> QED
  BY <1>2, <1>3, <1>4, <1>5, <1>6 DEF PackageNext

\* As long as no import was stopped, one that is past its plan has been
\* through or has nothing in its way.
THEOREM RaceInvariant == PackageSpec => []RaceInv
<1>1. PackageInit => RaceInv
  <2> SUFFICES ASSUME PackageInit PROVE RaceInv
    OBVIOUS
  <2>1. /\ imports = [made |-> 0, planned |-> 0, stopped |-> 0]
        /\ \A i \in Importers : step[i].todo = "plan" /\ plan[i] = <<>> /\ Len(plan[i]) = 0
    BY DEF PackageInit, Resting
  <2> QED
    BY <2>1 DEF RaceInv, BehindInv
<1>2. TransferInv /\ RecordsInv /\ RaceInv /\ [PackageNext]_allVars => RaceInv'
  BY RaceNext
<1> QED
  BY <1>1, <1>2, TransferInvariant, RecordsInvariant, PTL DEF PackageSpec

\* Imports that race refuse each other's files, and yet, unless one was
\* stopped, when all have ended one that got past its plan has completed
\* (importPackage, src/src/portable-package/runtime.ts).
THEOREM ImportsNeverDefeatEachOther == PackageSpec => []ImportsDoNotDefeatEachOther
<1>1. RaceInv => ImportsDoNotDefeatEachOther
  BY DEF RaceInv, ImportsDoNotDefeatEachOther, Ahead, Resting
<1> QED
  BY <1>1, RaceInvariant, PTL

=============================================================================
