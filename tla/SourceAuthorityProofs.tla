----------------------- MODULE SourceAuthorityProofs -----------------------
(***************************************************************************)
(* Proofs about SourceAuthority, for every set of processes, sources and   *)
(* profiles and any number of revisions and decisions.  Source revisions   *)
(* are numbered without a lock, and yet none is lost, none changes, and    *)
(* none is skipped; the decisions are replayed in an order that respects   *)
(* which of them had returned, and what is authoritative follows from it.  *)
(***************************************************************************)
EXTENDS SourceAuthority, FiniteSetTheorems, SequenceTheorems, TLAPS

Numbers(id) == {n \in Nat : <<id, n>> \in DOMAIN sources}

\* The revisions of every source are 1 to some number.
Gapless ==
    /\ DOMAIN sources \subseteq SourceIds \X Nat
    /\ \A id \in SourceIds : \E k \in Nat : Numbers(id) = 1..k

\* What a process is about to write follows a revision that exists, or is the
\* first; others may have written it, or later ones, in the meantime.
PendingSource(p) ==
    /\ doing[p].ref \in SourceIds \X Nat
    /\ doing[p].ref[2] >= 1
    /\ doing[p].ref[2] > 1 => <<doing[p].ref[1], doing[p].ref[2] - 1>> \in DOMAIN sources

RevisionsInv ==
    /\ pc \in [Procs -> {"idle", "source", "decision", "append"}]
    /\ doing = [p \in Procs |-> doing[p]]
    /\ Gapless
    /\ \A p \in Procs : pc[p] = "source" => PendingSource(p)

\* A step on the files of the sources: they stay what they are.
Grow ==
    \A r \in DOMAIN sources : r \in DOMAIN sources' /\ sources'[r] = sources[r]

-----------------------------------------------------------------------------
\* The number after the highest is one more than the count.
LEMMA NextFollows ==
    ASSUME Gapless, NEW id \in SourceIds
    PROVE  /\ NextRevision(id) \in Nat
           /\ NextRevision(id) >= 1
           /\ NextRevision(id) > 1 => <<id, NextRevision(id) - 1>> \in DOMAIN sources
<1> DEFINE mine == {r \in DOMAIN sources : r[1] = id}
<1>1. PICK k \in Nat : Numbers(id) = 1..k
  BY DEF Gapless
<1> DEFINE f == [n \in 1..k |-> <<id, n>>]
<1>2. \A n \in 1..k : <<id, n>> \in DOMAIN sources
  BY <1>1 DEF Numbers
<1>3. \A r \in mine : r = <<id, r[2]>> /\ r[2] \in 1..k
  <2> TAKE r \in mine
  <2>1. r \in SourceIds \X Nat /\ r[1] = id
    BY DEF Gapless
  <2>2. r = <<id, r[2]>> /\ r[2] \in Nat
    BY <2>1
  <2>3. r[2] \in Numbers(id)
    BY <2>2 DEF Numbers
  <2> QED
    BY <1>1, <2>2, <2>3
<1>4. f \in [1..k -> mine]
  BY <1>2
<1>5. f \in Injection(1..k, mine)
  BY <1>4 DEF Injection, IsInjective
<1>6. f \in Surjection(1..k, mine)
  BY <1>3, <1>4 DEF Surjection
<1>7. IsFiniteSet(1..k) /\ Cardinality(1..k) = k
  BY FS_Interval
<1>8. Cardinality(mine) = k
  BY <1>5, <1>6, <1>7, FS_Surjection
<1>9. NextRevision(id) = k + 1
  BY <1>8 DEF NextRevision
<1> QED
  BY <1>2, <1>9

\* What was about to be written still is, when sources only grow.
LEMMA PendingStays ==
    ASSUME NEW p \in Procs, PendingSource(p), Grow, doing'[p] = doing[p]
    PROVE  PendingSource(p)'
BY DEF PendingSource, Grow

LEMMA BeginKeeps ==
    ASSUME RevisionsInv, NEW p \in Procs, BeginSource(p)
    PROVE  RevisionsInv' /\ Grow
<1>1. PICK id \in SourceIds :
         doing' = [doing EXCEPT ![p] = [kind |-> "source", ref |-> <<id, NextRevision(id)>>]]
  BY DEF BeginSource
<1>2. sources' = sources /\ pc' = [pc EXCEPT ![p] = "source"]
  BY DEF BeginSource, Go
<1>3. doing'[p].ref = <<id, NextRevision(id)>>
  BY <1>1 DEF RevisionsInv
<1>4. PendingSource(p)'
  BY <1>2, <1>3, NextFollows DEF RevisionsInv, PendingSource
<1>5. Gapless' /\ Grow
  BY <1>2 DEF RevisionsInv, Gapless, Numbers, Grow
<1>6. ASSUME NEW q \in Procs, pc'[q] = "source" PROVE PendingSource(q)'
  <2>1. CASE q # p
    BY <1>1, <1>2, <1>5, <1>6, <2>1, PendingStays DEF RevisionsInv
  <2> QED
    BY <1>4, <2>1
<1> QED
  BY <1>1, <1>2, <1>5, <1>6 DEF RevisionsInv

\* A process that ends has nothing to write.
LEMMA OthersKeep ==
    ASSUME RevisionsInv, NEW p \in Procs, NEW step \in {"idle", "decision", "append"},
           pc' = [pc EXCEPT ![p] = step],
           NEW job, doing' = [doing EXCEPT ![p] = job],
           Grow, Gapless'
    PROVE  RevisionsInv'
<1>1. ASSUME NEW q \in Procs, pc'[q] = "source" PROVE PendingSource(q)'
  <2>1. q # p /\ pc[q] = "source" /\ doing'[q] = doing[q]
    BY <1>1 DEF RevisionsInv
  <2> QED
    BY <2>1, PendingStays DEF RevisionsInv
<1> QED
  BY <1>1 DEF RevisionsInv

\* The file is created with the number that follows, or the call fails.
LEMMA WriteKeeps ==
    ASSUME RevisionsInv, NEW p \in Procs, WriteSource(p)
    PROVE  RevisionsInv' /\ Grow
<1> DEFINE ref == doing[p].ref
<1>1. PendingSource(p)
  BY DEF RevisionsInv, WriteSource
<1>2. CASE ref \in DOMAIN sources
  <2>1. sources' = sources
    BY <1>2 DEF WriteSource
  <2>2. Gapless' /\ Grow
    BY <2>1 DEF RevisionsInv, Gapless, Numbers, Grow
  <2> QED
    BY <2>2, OthersKeep DEF WriteSource, Ends, Go
<1>3. CASE ref \notin DOMAIN sources
  <2>1. PICK new : sources' = With(sources, ref, new)
    BY <1>3 DEF WriteSource
  <2>2. DOMAIN sources' = DOMAIN sources \cup {ref}
    BY <2>1 DEF With
  <2>3. Grow
    BY <1>3, <2>1, <2>2 DEF Grow, With
  <2>4. DOMAIN sources' \subseteq SourceIds \X Nat
    BY <1>1, <2>2 DEF PendingSource, RevisionsInv, Gapless
  <2>5. ASSUME NEW id \in SourceIds PROVE \E k \in Nat : Numbers(id)' = 1..k
    <3>1. PICK k \in Nat : Numbers(id) = 1..k
      BY DEF RevisionsInv, Gapless
    <3>2. CASE id # ref[1]
      <4>1. Numbers(id)' = Numbers(id)
        BY <1>1, <2>2, <3>2 DEF Numbers, PendingSource
      <4> QED
        BY <3>1, <4>1
    <3>3. CASE id = ref[1]
      <4>1. ref = <<id, ref[2]>> /\ ref[2] \in Nat /\ ref[2] >= 1
        BY <1>1, <3>3 DEF PendingSource
      <4>2. Numbers(id)' = Numbers(id) \cup {ref[2]}
        BY <2>2, <4>1 DEF Numbers
      <4>3. ref[2] \notin 1..k
        BY <1>3, <3>1, <4>1 DEF Numbers
      <4>4. ref[2] > 1 => ref[2] - 1 \in Numbers(id)
        BY <1>1, <3>3, <4>1 DEF Numbers, PendingSource
      <4>5. ref[2] = k + 1
        BY <3>1, <4>1, <4>3, <4>4
      <4>6. Numbers(id)' = 1..(k + 1)
        BY <3>1, <4>2, <4>5
      <4> QED
        BY <4>6
    <3> QED
      BY <3>2, <3>3
  <2>6. Gapless'
    BY <2>4, <2>5 DEF Gapless
  <2> QED
    BY <2>3, <2>6, OthersKeep DEF WriteSource, Ends, Go
<1> QED
  BY <1>2, <1>3

\* The steps of a decision leave the sources alone.
LEMMA DecisionsKeep ==
    ASSUME RevisionsInv, NEW p \in Procs, UNCHANGED sources,
           NEW step \in {"idle", "decision", "append"}, pc' = [pc EXCEPT ![p] = step],
           NEW job, doing' = [doing EXCEPT ![p] = job]
    PROVE  RevisionsInv' /\ Grow
<1>1. Gapless' /\ Grow
  BY DEF RevisionsInv, Gapless, Numbers, Grow
<1> QED
  BY <1>1, OthersKeep

LEMMA NextKeeps ==
    ASSUME RevisionsInv, [Next]_vars
    PROVE  RevisionsInv' /\ Grow
<1>1. ASSUME NEW p \in Procs, BeginSource(p) PROVE RevisionsInv' /\ Grow
  BY <1>1, BeginKeeps
<1>2. ASSUME NEW p \in Procs, WriteSource(p) PROVE RevisionsInv' /\ Grow
  BY <1>2, WriteKeeps
<1>3. ASSUME NEW p \in Procs, NEW ref, NEW outcome, NEW override, NEW supersedes, NEW now,
             Decide(p, ref, outcome, override, supersedes, now)
      PROVE RevisionsInv' /\ Grow
  BY <1>3, DecisionsKeep DEF Decide, Go
<1>4. ASSUME NEW p \in Procs, WriteDecision(p) PROVE RevisionsInv' /\ Grow
  <2>1. doing' = [doing EXCEPT ![p] = doing[p]]
    BY <1>4 DEF WriteDecision, RevisionsInv
  <2> QED
    BY <1>4, <2>1, DecisionsKeep DEF WriteDecision, Go
<1>5. ASSUME NEW p \in Procs, AppendDecision(p) \/ Crash(p) PROVE RevisionsInv' /\ Grow
  BY <1>5, DecisionsKeep DEF AppendDecision, Crash, Ends, Go
<1>6. CASE UNCHANGED vars
  <2>1. Gapless' /\ Grow /\ \A p \in Procs : PendingSource(p) => PendingSource(p)'
    BY <1>6 DEF vars, RevisionsInv, Gapless, Numbers, PendingSource, Grow
  <2> QED
    BY <1>6, <2>1 DEF vars, RevisionsInv
<1> QED
  BY <1>1, <1>2, <1>3, <1>4, <1>5, <1>6 DEF Next

-----------------------------------------------------------------------------
\* The revisions of a source that exist are 1 to some number, and what is about
\* to be written follows one of them (sourceRecord, nextSourceRevision).
THEOREM RevisionsInvariant == Spec => []RevisionsInv
<1>1. Init => RevisionsInv
  <2> SUFFICES ASSUME Init PROVE RevisionsInv
    OBVIOUS
  <2>1. DOMAIN sources = {}
    BY DEF Init
  <2>2. \A id \in SourceIds : Numbers(id) = 1..0
    BY <2>1 DEF Numbers
  <2>3. Gapless
    BY <2>1, <2>2 DEF Gapless
  <2> QED
    BY <2>3 DEF Init, RevisionsInv
<1>2. RevisionsInv /\ [Next]_vars => RevisionsInv'
  BY NextKeeps
<1> QED
  BY <1>1, <1>2, PTL DEF Spec

\* No step changes or loses a revision, or leaves a gap behind, although
\* processes number theirs from listings that may be stale when they write.
THEOREM RevisionsAlwaysKept == Spec => RevisionsAreKept
<1>1. ASSUME RevisionsInv, RevisionsInv', [Next]_vars
      PROVE  /\ \A r \in DOMAIN sources : r \in DOMAIN sources' /\ sources'[r] = sources[r]
             /\ \A r \in DOMAIN sources' : r[2] > 1 => <<r[1], r[2] - 1>> \in DOMAIN sources'
  <2>1. Grow
    BY <1>1, NextKeeps
  <2>2. ASSUME NEW r \in DOMAIN sources', r[2] > 1
        PROVE  <<r[1], r[2] - 1>> \in DOMAIN sources'
    <3>1. r \in SourceIds \X Nat
      BY <1>1 DEF RevisionsInv, Gapless
    <3>2. PICK k \in Nat : Numbers(r[1])' = 1..k
      BY <1>1, <3>1 DEF RevisionsInv, Gapless
    <3>3. r[2] \in Numbers(r[1])'
      BY <3>1 DEF Numbers
    <3>4. r[2] - 1 \in Numbers(r[1])'
      BY <2>2, <3>1, <3>2, <3>3
    <3> QED
      BY <3>4 DEF Numbers
  <2> QED
    BY <2>1, <2>2 DEF Grow
<1> QED
  BY <1>1, RevisionsInvariant, PTL DEF Spec, RevisionsAreKept

-----------------------------------------------------------------------------
(* The decisions: what their records say, in which order they are          *)
(* replayed, and what the check for scope conflicts leaves behind.         *)

\* What an acceptance that was checked found: every earlier acceptance that
\* overlaps it and was effective is superseded by it, or was undone already.
Undone(d, ref) ==
    \E e \in DOMAIN decisions :
        Place(d) < Place(e) /\ Withdraws(e, ref, Superseded(decisions[e].ref))

Cleared(record) ==
    record.outcome = "accepted" /\ ~record.override =>
        \A d \in record.after :
            LET ref == decisions[d].ref
            IN  /\ decisions[d].outcome = "accepted"
                /\ ref[1] # record.ref[1]
                /\ Overlap(ref, record.ref)
                /\ Effective(ref, record.now)
                => ref \in Superseded(record.ref) \/ Undone(d, ref)

RecordInv(record) ==
    /\ record \in DecisionRecord
    /\ record.ref \in DOMAIN sources
    /\ record.after \subseteq Returned
    /\ Cleared(record)

\* What is on disk.
SourcesInv ==
    /\ IsFiniteSet(DOMAIN sources)
    /\ DOMAIN sources \subseteq Refs
    /\ \A r \in DOMAIN sources : sources[r] \in SourceRecord

OrderInv ==
    /\ DOMAIN decisions \subseteq DecisionIds
    /\ order \in Seq(DOMAIN decisions)
    /\ \A m, n \in DOMAIN order : order[m] = order[n] => m = n

\* What a process is about to write.
JobInv(p) ==
    /\ pc[p] = "source" => doing[p].ref \in Refs
    /\ pc[p] = "decision" =>
           doing[p].id \in DecisionIds \ DOMAIN decisions /\ RecordInv(doing[p].record)
    /\ pc[p] = "append" => doing[p].id \in DOMAIN decisions \ Returned

Deciding == {p \in Procs : pc[p] = "decision"}

\* Nobody else has the same id, and the ids in use are 1 to some number.
IdsInv ==
    /\ \A p, q \in Procs :
           pc[p] \in {"decision", "append"} /\ pc[q] \in {"decision", "append"} /\ p # q
               => doing[p].id # doing[q].id
    /\ \E k \in Nat : DOMAIN decisions \cup {doing[p].id : p \in Deciding} = 1..k

AuthorityInv ==
    /\ SourcesInv
    /\ OrderInv
    /\ \A d \in DOMAIN decisions : RecordInv(decisions[d])
    /\ \A p \in Procs : JobInv(p)
    /\ IdsInv
    /\ ReplayKeepsReturnOrder

\* Places in the replay: the index first, in its order, then the rest.
Listing ==
    /\ Len(order) \in Nat
    /\ DOMAIN order = 1..Len(order)
    /\ Returned \subseteq DOMAIN decisions
    /\ \A n \in 1..Len(order) : order[n] \in Returned /\ Place(order[n]) = n
    /\ \A d \in Returned : Place(d) \in 1..Len(order) /\ order[Place(d)] = d
    /\ \A d \in DOMAIN decisions : d \notin Returned => Place(d) = Len(order) + d
    /\ \A d \in DOMAIN decisions : d \notin Returned => Place(d) > Len(order)
    /\ \A d \in DOMAIN decisions : Place(d) \in Nat

\* What the definition of a place amounts to.
LEMMA Places == OrderInv => Listing
<1> SUFFICES ASSUME OrderInv PROVE Listing
  OBVIOUS
<1>1. Len(order) \in Nat /\ DOMAIN order = 1..Len(order) /\ \A n \in 1..Len(order) : order[n] \in DOMAIN decisions
  BY LenProperties, ElementOfSeq DEF OrderInv
<1>2. \A n \in 1..Len(order) : order[n] \in Returned
  BY <1>1 DEF Returned, ToSet
<1>3. \A d \in Returned : \E n \in 1..Len(order) : order[n] = d
  BY <1>1 DEF Returned, ToSet
<1>4. ASSUME NEW n \in 1..Len(order) PROVE Place(order[n]) = n
  <2>1. {m \in DOMAIN order : order[m] = order[n]} = {n}
    BY <1>1 DEF OrderInv
  <2>2. Min({n}) = n
    BY <1>1 DEF Min
  <2>3. Indexed(order[n]) = n
    BY <2>1, <2>2 DEF Indexed
  <2> QED
    BY <1>2, <2>3 DEF Place
<1>5. \A d \in Returned : Place(d) \in 1..Len(order) /\ order[Place(d)] = d
  BY <1>3, <1>4
<1>6. \A d \in DOMAIN decisions : d \notin Returned => Place(d) = Len(order) + d
  BY DEF Place
<1>7. \A d \in DOMAIN decisions : d \in Nat /\ d >= 1
  BY DEF OrderInv, DecisionIds
<1>8. Returned \subseteq DOMAIN decisions
  BY <1>1, <1>3
<1>9. \A d \in DOMAIN decisions : Place(d) \in Nat
  BY <1>1, <1>5, <1>6, <1>7
<1> QED
  BY <1>1, <1>2, <1>4, <1>5, <1>6, <1>7, <1>8, <1>9 DEF Listing

\* The replay is a linear order.
LEMMA PlacesDiffer ==
    ASSUME OrderInv, NEW d \in DOMAIN decisions, NEW e \in DOMAIN decisions, d # e
    PROVE  Place(d) < Place(e) \/ Place(e) < Place(d)
<1>1. Place(d) \in Nat /\ Place(e) \in Nat /\ Len(order) \in Nat /\ d \in Nat /\ e \in Nat
  BY Places DEF Listing, OrderInv, DecisionIds
<1>2. Place(d) # Place(e)
  <2>1. CASE d \in Returned /\ e \in Returned
    BY <2>1, Places DEF Listing
  <2>2. CASE d \in Returned /\ e \notin Returned
    BY <1>1, <2>2, Places DEF Listing
  <2>3. CASE d \notin Returned /\ e \in Returned
    BY <1>1, <2>3, Places DEF Listing
  <2>4. CASE d \notin Returned /\ e \notin Returned
    BY <1>1, <2>4, Places DEF Listing
  <2> QED
    BY <2>1, <2>2, <2>3, <2>4
<1> QED
  BY <1>1, <1>2

\* A step on the files of the decisions: they stay, and what comes after
\* something in the index keeps coming after it.
DecisionsGrow ==
    /\ \A d \in DOMAIN decisions : d \in DOMAIN decisions' /\ decisions'[d] = decisions[d]
    /\ Returned \subseteq Returned'
    /\ \A d \in Returned, e \in DOMAIN decisions : Place(d) < Place(e) => Place(d)' < Place(e)'

\* The second write of a decision: it gets the last place of the index.
LEMMA AppendGrows ==
    ASSUME OrderInv, NEW id \in DOMAIN decisions \ Returned,
           order' = Append(order, id), decisions' = decisions
    PROVE  OrderInv' /\ DecisionsGrow /\ Returned' = Returned \cup {id}
<1> DEFINE n == Len(order)
<1>1. n \in Nat /\ Len(order') = n + 1 /\ order' \in Seq(DOMAIN decisions) /\ DOMAIN order' = 1..(n + 1)
  BY AppendProperties, LenProperties DEF OrderInv
<1>2. \A m \in 1..(n + 1) : order'[m] = IF m <= n THEN order[m] ELSE id
  BY <1>1, AppendProperties DEF OrderInv
<1>3. DOMAIN order = 1..n /\ \A m \in 1..n : order[m] \in Returned
  BY Places DEF Listing
<1>4. OrderInv'
  <2>1. ASSUME NEW a \in 1..(n + 1), NEW b \in 1..(n + 1), order'[a] = order'[b] PROVE a = b
    <3>1. CASE a <= n /\ b <= n
      BY <1>1, <1>2, <1>3, <2>1, <3>1 DEF OrderInv
    <3>2. CASE a = n + 1 /\ b <= n
      BY <1>1, <1>2, <1>3, <2>1, <3>2
    <3>3. CASE a <= n /\ b = n + 1
      BY <1>1, <1>2, <1>3, <2>1, <3>3
    <3> QED
      BY <1>1, <3>1, <3>2, <3>3
  <2> QED
    BY <1>1, <2>1 DEF OrderInv
<1>5. Returned' = Returned \cup {id}
  <2>1. Returned' = {order'[m] : m \in 1..(n + 1)} /\ Returned = {order[m] : m \in 1..n}
    BY <1>1, <1>3 DEF Returned, ToSet
  <2> QED
    BY <1>1, <1>2, <1>3, <2>1
<1>6. Listing /\ Listing'
  BY <1>4, Places, PTL
<1>7. ASSUME NEW d \in Returned PROVE Place(d)' = Place(d) /\ Place(d) \in 1..n
  <2>1. Place(d) \in 1..n /\ order[Place(d)] = d
    BY <1>6 DEF Listing
  <2>2. order'[Place(d)] = d /\ d \in Returned'
    BY <1>1, <1>2, <1>5, <2>1
  <2>3. Place(d)' \in 1..(n + 1) /\ order'[Place(d)'] = d
    BY <1>1, <1>6, <2>2 DEF Listing
  <2> QED
    BY <1>1, <1>4, <2>1, <2>2, <2>3 DEF OrderInv
<1>8. ASSUME NEW d \in Returned, NEW e \in DOMAIN decisions, Place(d) < Place(e)
      PROVE  Place(d)' < Place(e)'
  <2>1. Place(d)' = Place(d) /\ Place(d) \in 1..n
    BY <1>7
  <2>2. CASE e \in Returned
    BY <1>7, <1>8, <2>1, <2>2
  <2>3. CASE e = id
    <3>1. order'[n + 1] = id
      BY <1>1, <1>2
    <3>2. Place(id)' = n + 1
      BY <1>1, <1>6, <3>1 DEF Listing
    <3> QED
      BY <1>1, <2>1, <2>3, <3>2
  <2>4. CASE e \notin Returned /\ e # id
    <3>1. e \in DOMAIN decisions' /\ e \notin Returned'
      BY <1>5, <2>4
    <3>2. Place(e)' > n + 1
      BY <1>1, <1>6, <3>1 DEF Listing
    <3>3. Place(e)' \in Nat
      BY <1>6, <3>1 DEF Listing
    <3> QED
      BY <1>1, <2>1, <3>2, <3>3
  <2> QED
    BY <2>2, <2>3, <2>4
<1> QED
  BY <1>4, <1>5, <1>8 DEF DecisionsGrow

\* The first write: the decision comes after everything indexed.
LEMMA WriteGrows ==
    ASSUME OrderInv, NEW id \in DecisionIds \ DOMAIN decisions,
           NEW record, decisions' = With(decisions, id, record), order' = order
    PROVE  /\ OrderInv' /\ DecisionsGrow /\ Returned' = Returned
           /\ DOMAIN decisions' = DOMAIN decisions \cup {id} /\ decisions'[id] = record
<1>1. DOMAIN decisions' = DOMAIN decisions \cup {id} /\ decisions'[id] = record
  BY DEF With
<1>2. \A d \in DOMAIN decisions : decisions'[d] = decisions[d]
  BY DEF With
<1>3. order \in Seq(DOMAIN decisions')
  BY <1>1 DEF OrderInv
<1>4. OrderInv'
  BY <1>1, <1>3 DEF OrderInv
<1>5. \A d : Place(d)' = Place(d)
  BY DEF Place, Indexed, Returned
<1> QED
  BY <1>1, <1>2, <1>4, <1>5 DEF DecisionsGrow, Returned

\* When files only grow, what a source supersedes does too.
LEMMA ChainGrows ==
    ASSUME Grow, NEW ref
    PROVE  Chain(ref) \subseteq Chain(ref)'
<1>1. SupersededRefs \subseteq SupersededRefs'
  BY DEF SupersededRefs, Grow
<1>2. ASSUME NEW r \in Chain(ref), NEW C \in SUBSET SupersededRefs', ClosedUnder(ref, C)'
      PROVE  r \in C
  <2> DEFINE D == C \cap SupersededRefs
  <2>1. ASSUME NEW s \in (D \cup {ref}) \cap DOMAIN sources
        PROVE  sources[s].supersedes \in D \cup {None}
    <3>1. s \in (C \cup {ref}) \cap DOMAIN sources' /\ sources'[s] = sources[s]
      BY <2>1 DEF Grow
    <3>2. sources[s].supersedes \in C \cup {None}
      BY <1>2, <3>1 DEF ClosedUnder
    <3> QED
      BY <3>2 DEF SupersededRefs
  <2>2. ClosedUnder(ref, D) /\ D \in SUBSET SupersededRefs
    BY <2>1 DEF ClosedUnder
  <2> QED
    BY <1>2, <2>2 DEF Chain
<1> QED
  BY <1>1, <1>2 DEF Chain

\* What a revision supersedes it keeps superseding.
LEMMA SupersededGrows ==
    ASSUME Grow, DecisionsGrow, NEW ref
    PROVE  Superseded(ref) \subseteq Superseded(ref)'
<1>1. AcceptedOnce \subseteq AcceptedOnce'
  BY DEF AcceptedOnce, Acceptances, Grow, DecisionsGrow
<1>2. Siblings(ref, AcceptedOnce) \subseteq Siblings(ref, AcceptedOnce)'
  BY <1>1 DEF Siblings
<1> QED
  BY <1>2, ChainGrows DEF Superseded

\* What a decision takes out it takes out for ever.
LEMMA WithdrawsStays ==
    ASSUME Grow, DecisionsGrow, NEW d \in DOMAIN decisions, NEW r,
           Withdraws(d, r, Superseded(decisions[d].ref))
    PROVE  Withdraws(d, r, Superseded(decisions[d].ref))'
<1>1. decisions'[d] = decisions[d] /\ d \in DOMAIN decisions'
  BY DEF DecisionsGrow
<1>2. CASE r \in SupersededByDecision(d)
  <2>1. r \in SupersededByDecision(d)'
    BY <1>1, <1>2 DEF SupersededByDecision, DecisionsGrow
  <2> QED
    BY <2>1 DEF Withdraws
<1>3. CASE decisions[d].outcome = "accepted" /\ decisions[d].ref \in DOMAIN sources /\ r \in Superseded(decisions[d].ref)
  <2>1. r \in Superseded(decisions[d].ref)'
    <3>1. PICK ref : ref = decisions[d].ref
      OBVIOUS
    <3>2. r \in Superseded(ref)'
      BY <1>3, <3>1, SupersededGrows
    <3> QED
      BY <1>1, <3>1, <3>2
  <2> QED
    BY <1>1, <1>3, <2>1 DEF Withdraws, Grow
<1>4. CASE decisions[d].outcome \in {"rejected", "superseded", "revoked"} /\ r = decisions[d].ref
  BY <1>1, <1>4 DEF Withdraws
<1> QED
  BY <1>2, <1>3, <1>4 DEF Withdraws

\* An acceptance that something later took back stays taken back.
LEMMA UndoneStays ==
    ASSUME Grow, DecisionsGrow, NEW d \in Returned, NEW ref, Undone(d, ref)
    PROVE  Undone(d, ref)'
<1>1. PICK e \in DOMAIN decisions : Place(d) < Place(e) /\ Withdraws(e, ref, Superseded(decisions[e].ref))
  BY DEF Undone
<1>2. e \in DOMAIN decisions' /\ Place(d)' < Place(e)'
  BY <1>1 DEF DecisionsGrow
<1>3. Withdraws(e, ref, Superseded(decisions[e].ref))'
  BY <1>1, WithdrawsStays
<1> QED
  BY <1>2, <1>3 DEF Undone

\* What a decision relied on when it was checked stays true.
LEMMA RecordStays ==
    ASSUME Grow, DecisionsGrow, OrderInv, NEW record, RecordInv(record),
           \A d \in DOMAIN decisions : decisions[d].ref \in DOMAIN sources
    PROVE  RecordInv(record)'
<1>1. record.ref \in DOMAIN sources' /\ sources'[record.ref] = sources[record.ref]
  BY DEF RecordInv, Grow
<1>2. record.after \subseteq Returned'
  BY DEF RecordInv, DecisionsGrow
<1>3. Cleared(record)'
  <2> SUFFICES ASSUME record.outcome = "accepted" /\ ~record.override, NEW d \in record.after,
                      decisions'[d].outcome = "accepted",
                      decisions'[d].ref[1] # record.ref[1],
                      Overlap(decisions[d].ref, record.ref)',
                      Effective(decisions[d].ref, record.now)'
               PROVE  decisions'[d].ref \in Superseded(record.ref)' \/ Undone(d, decisions[d].ref)'
    BY DEF Cleared
  <2>1. d \in Returned /\ d \in DOMAIN decisions /\ decisions'[d] = decisions[d]
    BY Places DEF Listing, RecordInv, DecisionsGrow
  <2> DEFINE ref == decisions[d].ref
  <2>2. ref \in DOMAIN sources /\ sources'[ref] = sources[ref]
    BY <2>1 DEF Grow
  <2>3. Overlap(ref, record.ref) /\ Effective(ref, record.now)
    BY <1>1, <2>1, <2>2 DEF Overlap, Effective, RecordInv, Grow
  <2>4. ref \in Superseded(record.ref) \/ Undone(d, ref)
    BY <2>1, <2>3 DEF RecordInv, Cleared
  <2>5. CASE ref \in Superseded(record.ref)
    BY <2>1, <2>5, SupersededGrows
  <2>6. CASE Undone(d, ref)
    <3>1. PICK r : r = ref
      OBVIOUS
    <3>2. Undone(d, r)'
      BY <2>1, <2>6, <3>1, UndoneStays
    <3> QED
      BY <2>1, <3>1, <3>2
  <2> QED
    BY <2>4, <2>5, <2>6
<1> QED
  BY <1>1, <1>2, <1>3 DEF RecordInv

-----------------------------------------------------------------------------
(* Ids and numbers. *)

\* A new decision gets the number after all that are in use.
LEMMA NextDecisionIsNew ==
    ASSUME AuthorityInv
    PROVE  \E k \in Nat : /\ DOMAIN decisions \cup {doing[p].id : p \in Deciding} = 1..k
                          /\ NextDecision = k + 1
<1> DEFINE Ids == {doing[p].id : p \in Deciding}
           f == [n \in Ids |-> CHOOSE p \in Deciding : doing[p].id = n]
<1>1. PICK k \in Nat : DOMAIN decisions \cup Ids = 1..k
  BY DEF AuthorityInv, IdsInv
<1>2. DOMAIN decisions \cap Ids = {}
  BY DEF AuthorityInv, JobInv, Deciding
<1>3. IsFiniteSet(1..k) /\ Cardinality(1..k) = k
  BY FS_Interval
<1>4. IsFiniteSet(Ids) /\ IsFiniteSet(DOMAIN decisions)
  <2>1. Ids \subseteq 1..k /\ DOMAIN decisions \subseteq 1..k
    BY <1>1
  <2> QED
    BY <1>3, <2>1, FS_Subset
<1>5. \A p \in Deciding : doing[p].id \in Ids /\ f[doing[p].id] = p
  <2> TAKE p \in Deciding
  <2>1. \A q \in Deciding : doing[q].id = doing[p].id => q = p
    BY DEF AuthorityInv, IdsInv, Deciding
  <2> QED
    BY <2>1
<1>6. \A n \in Ids : f[n] \in Deciding /\ doing[f[n]].id = n
  OBVIOUS
<1> HIDE DEF f
<1>7. f \in [Ids -> Deciding]
  BY <1>6 DEF f
<1>8. f \in Surjection(Ids, Deciding) /\ f \in Injection(Ids, Deciding)
  BY <1>5, <1>6, <1>7 DEF Surjection, Injection, IsInjective
<1> HIDE DEF Ids
<1>9. Cardinality(Deciding) = Cardinality(Ids)
  BY <1>4, <1>8, FS_Surjection
<1>10. Cardinality(DOMAIN decisions \cup Ids) = Cardinality(DOMAIN decisions) + Cardinality(Ids)
  <2>1. Cardinality(DOMAIN decisions \cap Ids) = 0
    BY <1>2, FS_EmptySet
  <2>2. Cardinality(DOMAIN decisions) \in Nat /\ Cardinality(Ids) \in Nat
    BY <1>4, FS_CardinalityType
  <2>3. Cardinality(DOMAIN decisions \cup Ids)
           = Cardinality(DOMAIN decisions) + Cardinality(Ids) - Cardinality(DOMAIN decisions \cap Ids)
    BY <1>4, FS_Union
  <2> QED
    BY <2>1, <2>2, <2>3
<1>11. NextDecision = k + 1
  BY <1>1, <1>3, <1>9, <1>10 DEF NextDecision, Deciding
<1> QED
  BY <1>1, <1>11 DEF Ids

\* There is room for the revision that is numbered.
LEMMA NextRevisionFits ==
    ASSUME RevisionsInv, SourcesInv, Cardinality(DOMAIN sources) < MaxSources, NEW id \in SourceIds
    PROVE  <<id, NextRevision(id)>> \in Refs
<1> DEFINE mine == {r \in DOMAIN sources : r[1] = id}
<1>1. IsFiniteSet(DOMAIN sources) /\ mine \subseteq DOMAIN sources
  BY DEF SourcesInv
<1>2. IsFiniteSet(mine) /\ Cardinality(mine) <= Cardinality(DOMAIN sources)
  BY <1>1, FS_Subset
<1>3. Cardinality(mine) \in Nat /\ Cardinality(DOMAIN sources) \in Nat
  BY <1>1, <1>2, FS_CardinalityType
<1>4. MaxSources \in Nat
  BY AuthorityBoundsAssumption
<1> QED
  BY <1>2, <1>3, <1>4 DEF NextRevision, Refs

-----------------------------------------------------------------------------
(* The steps. *)

\* Only p's decision becomes a file, or an entry of the index.
Only(p) ==
    /\ \A d \in DOMAIN decisions' : d \in DOMAIN decisions \/ (pc[p] = "decision" /\ d = doing[p].id)
    /\ \A d \in Returned' : d \in Returned \/ (pc[p] = "append" /\ d = doing[p].id)

\* A step of p leaves alone what q is about to write.
LEMMA OthersJobs ==
    ASSUME AuthorityInv, NEW p \in Procs, NEW q \in Procs, q # p, Grow, DecisionsGrow, Only(p),
           pc'[q] = pc[q], doing'[q] = doing[q]
    PROVE  JobInv(q)'
<1>1. JobInv(q) /\ OrderInv
  BY DEF AuthorityInv
<1>2. ASSUME pc[q] = "decision" PROVE RecordInv(doing[q].record)'
  <2>1. PICK record : record = doing[q].record
    OBVIOUS
  <2>2. RecordInv(record)
    BY <1>1, <1>2, <2>1 DEF JobInv
  <2>3. RecordInv(record)'
    BY <1>1, <2>2, RecordStays DEF AuthorityInv, RecordInv
  <2> QED
    BY <2>1, <2>3
<1>3. pc[q] = "decision" => doing[q].id \notin DOMAIN decisions'
  BY <1>1 DEF AuthorityInv, IdsInv, JobInv, Only
<1>4. pc[q] = "append" => doing[q].id \in DOMAIN decisions' /\ doing[q].id \notin Returned'
  BY <1>1 DEF AuthorityInv, IdsInv, JobInv, Only, DecisionsGrow
<1> QED
  BY <1>1, <1>2, <1>3, <1>4 DEF JobInv

\* The files and the replay, when one record at most is added that is sound.
LEMMA FilesKeep ==
    ASSUME AuthorityInv, Grow, DecisionsGrow, OrderInv', SourcesInv',
           \A d \in DOMAIN decisions' : d \in DOMAIN decisions
               \/ (d \notin Returned' /\ RecordInv(decisions'[d]))
    PROVE  /\ \A d \in DOMAIN decisions' : RecordInv(decisions[d])'
           /\ ReplayKeepsReturnOrder'
<1>1. ASSUME NEW d \in DOMAIN decisions' PROVE RecordInv(decisions[d])'
  <2>1. PICK record : record = decisions'[d]
    OBVIOUS
  <2>2. RecordInv(record)
    BY <2>1 DEF AuthorityInv, DecisionsGrow
  <2>3. RecordInv(record)'
    BY <2>2, RecordStays DEF AuthorityInv, RecordInv
  <2> QED
    BY <2>1, <2>3
<1>2. Listing'
  BY Places, PTL
<1>3. ASSUME NEW d \in DOMAIN decisions', NEW e \in DOMAIN decisions', d \in decisions'[e].after
      PROVE  Place(d)' < Place(e)'
  <2>1. d \in Returned
    BY <1>3 DEF AuthorityInv, RecordInv, DecisionsGrow
  <2>2. CASE e \in DOMAIN decisions
    <3>1. d \in DOMAIN decisions /\ decisions'[e] = decisions[e]
      BY <2>1, <2>2, Places DEF AuthorityInv, Listing, DecisionsGrow
    <3>2. Place(d) < Place(e)
      BY <1>3, <2>2, <3>1 DEF AuthorityInv, ReplayKeepsReturnOrder
    <3> QED
      BY <2>1, <2>2, <3>2 DEF DecisionsGrow
  <2>3. CASE e \notin DOMAIN decisions
    <3>1. e \notin Returned' /\ d \in Returned'
      BY <2>1, <2>3 DEF DecisionsGrow
    <3>2. Place(e)' > Len(order') /\ Place(d)' \in 1..Len(order') /\ Place(e)' \in Nat /\ Len(order') \in Nat
      BY <1>2, <3>1 DEF Listing
    <3> QED
      BY <3>2
  <2> QED
    BY <2>2, <2>3
<1> QED
  BY <1>1, <1>3 DEF ReplayKeepsReturnOrder

\* The invariant, from what a step does to the files and to p's own work.
LEMMA StepKeeps ==
    ASSUME AuthorityInv, RevisionsInv, NEW p \in Procs, Grow, DecisionsGrow, Only(p), OrderInv', SourcesInv',
           NEW at, pc' = [pc EXCEPT ![p] = at], NEW job, doing' = [doing EXCEPT ![p] = job],
           JobInv(p)', IdsInv',
           \A d \in DOMAIN decisions' : d \in DOMAIN decisions
               \/ (d \notin Returned' /\ RecordInv(decisions'[d]))
    PROVE  AuthorityInv'
<1>1. /\ \A d \in DOMAIN decisions' : RecordInv(decisions[d])'
      /\ ReplayKeepsReturnOrder'
  BY FilesKeep
<1>2. ASSUME NEW q \in Procs PROVE JobInv(q)'
  <2>1. CASE q # p
    <3>1. pc'[q] = pc[q] /\ doing'[q] = doing[q]
      BY <2>1 DEF RevisionsInv
    <3> QED
      BY <2>1, <3>1, OthersJobs
  <2> QED
    BY <2>1
<1> QED
  BY <1>1, <1>2 DEF AuthorityInv

\* A step that leaves the decisions and their index alone.
LEMMA QuietFiles ==
    ASSUME OrderInv, NEW p, decisions' = decisions, order' = order
    PROVE  OrderInv' /\ DecisionsGrow /\ Only(p) /\ Returned' = Returned
<1>1. \A d : Place(d)' = Place(d)
  BY DEF Place, Indexed, Returned
<1> QED
  BY <1>1 DEF OrderInv, DecisionsGrow, Only, Returned

\* A process that takes no id, and keeps none but perhaps one that is used.
LEMMA IdsStay ==
    ASSUME AuthorityInv, RevisionsInv, NEW p \in Procs, pc[p] # "decision", DOMAIN decisions' = DOMAIN decisions,
           NEW at \in {"idle", "source"}, pc' = [pc EXCEPT ![p] = at],
           NEW job, doing' = [doing EXCEPT ![p] = job]
    PROVE  IdsInv'
<1>1. \A q \in Procs : q # p => pc'[q] = pc[q] /\ doing'[q] = doing[q]
  BY DEF RevisionsInv
<1>2. pc'[p] = at
  BY DEF RevisionsInv
<1>3. Deciding' = Deciding /\ \A q \in Deciding : doing'[q] = doing[q]
  BY <1>1, <1>2 DEF Deciding
<1>4. {doing'[q].id : q \in Deciding'} = {doing[q].id : q \in Deciding}
  BY <1>3
<1>5. \E k \in Nat : DOMAIN decisions' \cup {doing'[q].id : q \in Deciding'} = 1..k
  <2>1. PICK k \in Nat : DOMAIN decisions \cup {doing[q].id : q \in Deciding} = 1..k
    BY DEF AuthorityInv, IdsInv
  <2> QED
    BY <1>4, <2>1
<1>6. \A q, r \in Procs :
         pc'[q] \in {"decision", "append"} /\ pc'[r] \in {"decision", "append"} /\ q # r
             => doing'[q].id # doing'[r].id
  <2>1. \A q \in Procs : pc'[q] \in {"decision", "append"} => q # p
    BY <1>2
  <2> QED
    BY <1>1, <2>1 DEF AuthorityInv, IdsInv
<1> QED
  BY <1>5, <1>6 DEF IdsInv

LEMMA BeginKeepsAuthority ==
    ASSUME AuthorityInv, RevisionsInv, NEW p \in Procs, BeginSource(p)
    PROVE  AuthorityInv'
<1>1. PICK id \in SourceIds :
         doing' = [doing EXCEPT ![p] = [kind |-> "source", ref |-> <<id, NextRevision(id)>>]]
  BY DEF BeginSource
<1>2. /\ UNCHANGED <<sources, decisions, order>> /\ pc' = [pc EXCEPT ![p] = "source"]
      /\ pc[p] = "idle" /\ Cardinality(DOMAIN sources) < MaxSources
  BY DEF BeginSource, Go
<1>3. doing'[p].ref = <<id, NextRevision(id)>> /\ pc'[p] = "source"
  BY <1>1, <1>2 DEF RevisionsInv
<1>4. JobInv(p)'
  BY <1>2, <1>3, NextRevisionFits DEF JobInv, AuthorityInv, Refs
<1>5. Grow /\ SourcesInv'
  BY <1>2, BeginKeeps DEF AuthorityInv, SourcesInv
<1>6. IdsInv'
  BY <1>1, <1>2, IdsStay
<1> QED
  BY <1>1, <1>2, <1>4, <1>5, <1>6, QuietFiles, StepKeeps DEF AuthorityInv

LEMMA WriteKeepsAuthority ==
    ASSUME AuthorityInv, RevisionsInv, NEW p \in Procs, WriteSource(p)
    PROVE  AuthorityInv'
<1>1. PICK new \in SourceRecord :
         sources' = IF doing[p].ref \in DOMAIN sources THEN sources ELSE With(sources, doing[p].ref, new)
  BY DEF WriteSource
<1>2. /\ UNCHANGED <<decisions, order>> /\ pc[p] = "source"
      /\ pc' = [pc EXCEPT ![p] = "idle"] /\ doing' = [doing EXCEPT ![p] = Idle]
  BY DEF WriteSource, Ends, Go
<1>3. Grow
  BY WriteKeeps
<1>4. SourcesInv'
  <2>1. SourcesInv /\ doing[p].ref \in Refs
    BY <1>2 DEF AuthorityInv, JobInv
  <2>2. CASE doing[p].ref \in DOMAIN sources
    BY <1>1, <2>1, <2>2 DEF SourcesInv, Refs, SourceRecord
  <2>3. CASE doing[p].ref \notin DOMAIN sources
    <3>1. /\ DOMAIN sources' = DOMAIN sources \cup {doing[p].ref}
          /\ sources'[doing[p].ref] = new
      BY <1>1, <2>3 DEF With
    <3>2. IsFiniteSet(DOMAIN sources')
      BY <2>1, <3>1, FS_AddElement DEF SourcesInv
    <3> QED
      BY <1>1, <1>3, <2>1, <3>1, <3>2 DEF SourcesInv, Grow
  <2> QED
    BY <2>2, <2>3
<1>5. IdsInv'
  BY <1>2, IdsStay
<1>6. JobInv(p)'
  BY <1>2 DEF JobInv, RevisionsInv
<1> QED
  BY <1>2, <1>3, <1>4, <1>5, <1>6, QuietFiles, StepKeeps DEF AuthorityInv

\* The check has looked at every source that is authoritative.
LEMMA CheckClears ==
    ASSUME AuthorityInv, NEW record,
           record.after = Returned,
           record.outcome = "accepted" /\ ~record.override => ~ScopeConflict(record.ref, record.now)
    PROVE  Cleared(record)
<1> SUFFICES ASSUME record.outcome = "accepted" /\ ~record.override, NEW d \in Returned,
                    decisions[d].outcome = "accepted",
                    decisions[d].ref[1] # record.ref[1],
                    Overlap(decisions[d].ref, record.ref),
                    Effective(decisions[d].ref, record.now),
                    decisions[d].ref \notin Superseded(record.ref)
             PROVE  Undone(d, decisions[d].ref)
  BY DEF Cleared
<1> DEFINE ref == decisions[d].ref
<1>1. d \in DOMAIN decisions
  BY Places DEF AuthorityInv, Listing
<1>2. ref \in DOMAIN sources /\ d \in Acceptances(ref)
  BY <1>1 DEF AuthorityInv, RecordInv, Acceptances
<1>3. ref \notin Current(record.now)
  BY DEF ScopeConflict
<1>4. ref \notin Replayed(Superseded)
  BY <1>3 DEF Current, Accepted
<1>5. \E e \in DOMAIN decisions : Place(d) < Place(e) /\ Withdraws(e, ref, Superseded(decisions[e].ref))
  BY <1>2, <1>4 DEF Replayed
<1> QED
  BY <1>5 DEF Undone

LEMMA DecideKeepsAuthority ==
    ASSUME AuthorityInv, RevisionsInv, NEW p \in Procs, NEW ref \in DOMAIN sources, NEW outcome \in Outcomes,
           NEW override \in BOOLEAN, NEW supersedes \in DOMAIN decisions \cup {None}, NEW now \in 0..MaxClock,
           Decide(p, ref, outcome, override, supersedes, now)
    PROVE  AuthorityInv'
<1>0. PICK record : record = [ref |-> ref, outcome |-> outcome, supersedes |-> supersedes,
                              override |-> override, now |-> now, after |-> Returned]
  OBVIOUS
<1> DEFINE job == [kind |-> "decision", id |-> NextDecision, record |-> record]
<1>1. /\ UNCHANGED <<sources, decisions, order>> /\ pc[p] = "idle"
      /\ pc' = [pc EXCEPT ![p] = "decision"] /\ doing' = [doing EXCEPT ![p] = job]
      /\ NextDecision \in DecisionIds
      /\ outcome = "accepted" /\ ~override => ~ScopeConflict(ref, now)
  BY <1>0 DEF Decide, Go
<1>2. /\ Grow /\ SourcesInv'
      /\ OrderInv' /\ DecisionsGrow /\ Only(p) /\ Returned' = Returned
  BY <1>1, QuietFiles DEF AuthorityInv, SourcesInv, Grow, Refs, SourceRecord
<1>3. PICK k \in Nat : DOMAIN decisions \cup {doing[q].id : q \in Deciding} = 1..k /\ NextDecision = k + 1
  BY NextDecisionIsNew
<1>4. NextDecision \notin DOMAIN decisions /\ \A q \in Deciding : doing[q].id # NextDecision
  BY <1>3
<1>5. RecordInv(record)
  <2>1. Cleared(record)
    BY <1>0, <1>1, CheckClears
  <2>2. record \in DecisionRecord
    BY <1>0, Places DEF AuthorityInv, OrderInv, Listing, DecisionRecord, SourcesInv
  <2>3. record.ref \in DOMAIN sources /\ record.after \subseteq Returned
    BY <1>0
  <2> QED
    BY <2>1, <2>2, <2>3 DEF RecordInv
<1>6. /\ doing'[p].id = NextDecision /\ doing'[p].record = record
      /\ pc'[p] = "decision"
  BY <1>1 DEF RevisionsInv
<1>7. RecordInv(record)'
  BY <1>2, <1>5, RecordStays DEF AuthorityInv, RecordInv
<1>8. JobInv(p)'
  BY <1>1, <1>4, <1>6, <1>7 DEF JobInv, DecisionIds
<1>9. IdsInv'
  <2>1. \A q \in Procs : q # p => pc'[q] = pc[q] /\ doing'[q] = doing[q]
    BY <1>1 DEF RevisionsInv
  <2>2. \A q \in Procs : pc[q] = "append" => doing[q].id # NextDecision
    BY <1>4 DEF AuthorityInv, JobInv
  <2>3. \A q \in Procs : pc[q] \in {"decision", "append"} => doing[q].id # NextDecision
    BY <1>4, <2>2 DEF Deciding
  <2>4. Deciding' = Deciding \cup {p} /\ p \notin Deciding
    BY <1>1, <1>6, <2>1 DEF Deciding
  <2>5. {doing'[q].id : q \in Deciding'} = {doing[q].id : q \in Deciding} \cup {NextDecision}
    BY <1>6, <2>1, <2>4 DEF Deciding
  <2>6. DOMAIN decisions' \cup {doing'[q].id : q \in Deciding'} = 1..(k + 1)
    <3>1. 1..(k + 1) = (1..k) \cup {k + 1}
      OBVIOUS
    <3> QED
      BY <1>1, <1>3, <2>5, <3>1
  <2>7. \A q, r \in Procs :
           pc'[q] \in {"decision", "append"} /\ pc'[r] \in {"decision", "append"} /\ q # r
               => doing'[q].id # doing'[r].id
    BY <1>6, <2>1, <2>3 DEF AuthorityInv, IdsInv
  <2> QED
    BY <2>6, <2>7 DEF IdsInv
<1> QED
  BY <1>1, <1>2, <1>8, <1>9, StepKeeps

LEMMA FileKeepsAuthority ==
    ASSUME AuthorityInv, RevisionsInv, NEW p \in Procs, WriteDecision(p)
    PROVE  AuthorityInv'
<1>1. PICK id, record : id = doing[p].id /\ record = doing[p].record
  OBVIOUS
<1>2. /\ decisions' = With(decisions, id, record)
      /\ UNCHANGED <<sources, order, doing>> /\ pc[p] = "decision" /\ pc' = [pc EXCEPT ![p] = "append"]
  BY <1>1 DEF WriteDecision, Go
<1>3. id \in DecisionIds \ DOMAIN decisions /\ RecordInv(record)
  BY <1>1, <1>2 DEF AuthorityInv, JobInv
<1>4. /\ OrderInv' /\ DecisionsGrow /\ Returned' = Returned
      /\ DOMAIN decisions' = DOMAIN decisions \cup {id} /\ decisions'[id] = record
  BY <1>2, <1>3, WriteGrows DEF AuthorityInv
<1>5. Grow /\ SourcesInv'
  BY <1>2 DEF AuthorityInv, SourcesInv, Grow, Refs, SourceRecord
<1>6. Only(p)
  BY <1>1, <1>2, <1>4 DEF Only
<1>7. pc'[p] = "append" /\ \A q \in Procs : q # p => pc'[q] = pc[q]
  BY <1>2 DEF RevisionsInv
<1>8. id \notin Returned
  BY <1>3, Places DEF AuthorityInv, Listing
<1>9. JobInv(p)'
  BY <1>1, <1>2, <1>4, <1>7, <1>8 DEF JobInv
<1>10. IdsInv'
  <2>1. PICK k \in Nat : DOMAIN decisions \cup {doing[q].id : q \in Deciding} = 1..k
    BY DEF AuthorityInv, IdsInv
  <2>2. Deciding = Deciding' \cup {p}
    BY <1>2, <1>7 DEF Deciding
  <2>3. {doing[q].id : q \in Deciding} = {doing[q].id : q \in Deciding'} \cup {id}
    BY <1>1, <2>2
  <2>4. DOMAIN decisions' \cup {doing'[q].id : q \in Deciding'} = 1..k
    BY <1>2, <1>4, <2>1, <2>3
  <2>5. \A q \in Procs : pc'[q] \in {"decision", "append"} => pc[q] \in {"decision", "append"}
    BY <1>2, <1>7
  <2>6. \A q, r \in Procs :
           pc'[q] \in {"decision", "append"} /\ pc'[r] \in {"decision", "append"} /\ q # r
               => doing'[q].id # doing'[r].id
    BY <1>2, <2>5 DEF AuthorityInv, IdsInv
  <2> QED
    BY <2>4, <2>6 DEF IdsInv
<1>11. doing' = [doing EXCEPT ![p] = doing[p]]
  BY <1>2 DEF RevisionsInv
<1> QED
  BY <1>2, <1>3, <1>4, <1>5, <1>6, <1>8, <1>9, <1>10, <1>11, StepKeeps

LEMMA EndKeepsAuthority ==
    ASSUME AuthorityInv, RevisionsInv, NEW p \in Procs, AppendDecision(p) \/ Crash(p)
    PROVE  AuthorityInv'
<1>1. /\ UNCHANGED <<sources, decisions>> /\ pc[p] = "append"
      /\ pc' = [pc EXCEPT ![p] = "idle"] /\ doing' = [doing EXCEPT ![p] = Idle]
  BY DEF AppendDecision, Crash, Ends, Go
<1>2. Grow /\ SourcesInv'
  BY <1>1 DEF AuthorityInv, SourcesInv, Grow, Refs, SourceRecord
<1>3. OrderInv' /\ DecisionsGrow /\ Only(p)
  <2>1. CASE AppendDecision(p)
    <3>1. PICK id : id = doing[p].id
      OBVIOUS
    <3>2. id \in DOMAIN decisions \ Returned /\ order' = Append(order, id)
      BY <1>1, <2>1, <3>1 DEF AuthorityInv, JobInv, AppendDecision
    <3>3. OrderInv' /\ DecisionsGrow /\ Returned' = Returned \cup {id}
      BY <1>1, <3>2, AppendGrows DEF AuthorityInv
    <3> QED
      BY <1>1, <3>1, <3>3 DEF Only
  <2>2. CASE Crash(p)
    BY <1>1, <2>2, QuietFiles DEF AuthorityInv, Crash
  <2> QED
    BY <2>1, <2>2
<1>4. JobInv(p)'
  BY <1>1 DEF JobInv, RevisionsInv
<1>5. IdsInv'
  BY <1>1, IdsStay
<1> QED
  BY <1>1, <1>2, <1>3, <1>4, <1>5, StepKeeps

LEMMA RestKeepsAuthority ==
    ASSUME AuthorityInv, UNCHANGED vars
    PROVE  AuthorityInv'
<1>1. /\ sources' = sources /\ decisions' = decisions /\ order' = order
      /\ pc' = pc /\ doing' = doing
  BY DEF vars
<1>2. \A d : Place(d)' = Place(d)
  BY <1>1 DEF Place, Indexed, Returned
<1>3. Grow /\ DecisionsGrow /\ OrderInv' /\ SourcesInv' /\ Returned' = Returned
  BY <1>1, <1>2 DEF Grow, DecisionsGrow, AuthorityInv, OrderInv, SourcesInv, Refs, SourceRecord, Returned
<1>4. /\ \A d \in DOMAIN decisions' : RecordInv(decisions[d])'
      /\ ReplayKeepsReturnOrder'
  BY <1>1, <1>3, FilesKeep
<1>5. ASSUME NEW p \in Procs, pc[p] = "decision" PROVE RecordInv(doing[p].record)'
  <2>1. PICK record : record = doing[p].record
    OBVIOUS
  <2>2. RecordInv(record)
    BY <1>5, <2>1 DEF AuthorityInv, JobInv
  <2>3. RecordInv(record)'
    BY <1>3, <2>2, RecordStays DEF AuthorityInv, RecordInv
  <2> QED
    BY <1>1, <2>1, <2>3
<1>6. \A p \in Procs : JobInv(p)'
  BY <1>1, <1>3, <1>5 DEF AuthorityInv, JobInv
<1>7. IdsInv'
  BY <1>1 DEF AuthorityInv, IdsInv, Deciding
<1> QED
  BY <1>3, <1>4, <1>6, <1>7 DEF AuthorityInv

LEMMA NextKeepsAuthority ==
    ASSUME AuthorityInv, RevisionsInv, [Next]_vars
    PROVE  AuthorityInv'
<1>1. ASSUME NEW p \in Procs, BeginSource(p) PROVE AuthorityInv'
  BY <1>1, BeginKeepsAuthority
<1>2. ASSUME NEW p \in Procs, WriteSource(p) PROVE AuthorityInv'
  BY <1>2, WriteKeepsAuthority
<1>3. ASSUME NEW p \in Procs, NEW ref \in DOMAIN sources, NEW outcome \in Outcomes,
             NEW override \in BOOLEAN, NEW supersedes \in DOMAIN decisions \cup {None}, NEW now \in 0..MaxClock,
             Decide(p, ref, outcome, override, supersedes, now)
      PROVE AuthorityInv'
  BY <1>3, DecideKeepsAuthority
<1>4. ASSUME NEW p \in Procs, WriteDecision(p) PROVE AuthorityInv'
  BY <1>4, FileKeepsAuthority
<1>5. ASSUME NEW p \in Procs, AppendDecision(p) \/ Crash(p) PROVE AuthorityInv'
  BY <1>5, EndKeepsAuthority
<1>6. CASE UNCHANGED vars
  BY <1>6, RestKeepsAuthority
<1> QED
  BY <1>1, <1>2, <1>3, <1>4, <1>5, <1>6 DEF Next

\* What the files and the processes keep between them: ids and index entries
\* are nobody else's, a decision is replayed after what had returned when it
\* began, and what a check once looked at is superseded or stays undone.
THEOREM AuthorityInvariant == Spec => []AuthorityInv
<1>1. Init => AuthorityInv
  <2> SUFFICES ASSUME Init PROVE AuthorityInv
    OBVIOUS
  <2>1. DOMAIN sources = {} /\ DOMAIN decisions = {} /\ order = <<>>
    BY DEF Init
  <2>2. SourcesInv
    BY <2>1, FS_EmptySet DEF SourcesInv
  <2>3. OrderInv
    BY <2>1 DEF OrderInv
  <2>4. \A p \in Procs : pc[p] = "idle"
    BY DEF Init
  <2>5. IdsInv
    <3>1. Deciding = {}
      BY <2>4 DEF Deciding
    <3>2. DOMAIN decisions \cup {doing[p].id : p \in Deciding} = 1..0
      BY <2>1, <3>1
    <3> QED
      BY <2>4, <3>2 DEF IdsInv
  <2> QED
    BY <2>1, <2>2, <2>3, <2>4, <2>5 DEF AuthorityInv, JobInv, ReplayKeepsReturnOrder
<1>2. AuthorityInv /\ RevisionsInv /\ [Next]_vars => AuthorityInv'
  BY NextKeepsAuthority
<1> QED
  BY <1>1, <1>2, RevisionsInvariant, PTL DEF Spec

-----------------------------------------------------------------------------
(* What a reader wants to know of the authority of sources.                *)

\* Who is authoritative was accepted and never taken out since.
LEMMA AcceptedBy ==
    ASSUME NEW r \in Accepted
    PROVE  /\ r \in DOMAIN sources
           /\ \E d \in Acceptances(r) : \A e \in DOMAIN decisions :
                  Place(d) < Place(e) => ~Withdraws(e, r, Superseded(decisions[e].ref))
BY DEF Accepted, Replayed

\* Of two revisions that were accepted at different places the replay keeps the
\* later one: accepting it takes out what it supersedes.
LEMMA LaterTakesOut ==
    ASSUME NEW r \in DOMAIN sources, NEW s \in DOMAIN sources, r # s, r[1] = s[1],
           NEW d \in Acceptances(r), NEW e \in Acceptances(s)
    PROVE  Withdraws(e, r, Superseded(decisions[e].ref))
<1>1. decisions[e].ref = s /\ decisions[e].outcome = "accepted"
  BY DEF Acceptances
<1>2. r \in Siblings(s, AcceptedOnce)
  BY DEF Siblings, AcceptedOnce
<1> QED
  BY <1>1, <1>2 DEF Withdraws, Superseded

\* A source never has two authoritative revisions (currentAcceptedRefs and
\* refsSupersededBySource, src/src/authority/runtime.ts).
THEOREM OneRevisionAlways == Spec => []OneRevisionPerSource
<1>1. AuthorityInv => OneRevisionPerSource
  <2> SUFFICES ASSUME AuthorityInv, NEW r \in Accepted, NEW s \in Accepted, r[1] = s[1], r # s
               PROVE  FALSE
    BY DEF OneRevisionPerSource
  <2>1. PICK d \in Acceptances(r) : \A e \in DOMAIN decisions :
           Place(d) < Place(e) => ~Withdraws(e, r, Superseded(decisions[e].ref))
    BY AcceptedBy
  <2>2. PICK e \in Acceptances(s) : \A x \in DOMAIN decisions :
           Place(e) < Place(x) => ~Withdraws(x, s, Superseded(decisions[x].ref))
    BY AcceptedBy
  <2>3. r \in DOMAIN sources /\ s \in DOMAIN sources
    BY AcceptedBy
  <2>4. d \in DOMAIN decisions /\ e \in DOMAIN decisions /\ d # e
    BY DEF Acceptances
  <2>5. Place(d) < Place(e) \/ Place(e) < Place(d)
    BY <2>4, PlacesDiffer DEF AuthorityInv
  <2>6. /\ Withdraws(e, r, Superseded(decisions[e].ref))
        /\ Withdraws(d, s, Superseded(decisions[d].ref))
    BY <2>3, LaterTakesOut
  <2> QED
    BY <2>1, <2>2, <2>4, <2>5, <2>6
<1> QED
  BY <1>1, AuthorityInvariant, PTL

\* The replay never puts a decision before one that had returned when it began,
\* although the index is written in a second step that a crash may leave out.
THEOREM ReplayAlwaysKeepsOrder == Spec => []ReplayKeepsReturnOrder
<1>1. AuthorityInv => ReplayKeepsReturnOrder
  BY DEF AuthorityInv
<1> QED
  BY <1>1, AuthorityInvariant, PTL

\* The second implementation of the replay, in the read models, which takes
\* every registered revision of a source for superseded, gives the same.
THEOREM ViewAlwaysAgrees == Spec => []ViewAgrees
<1>1. ASSUME NEW r \in DOMAIN sources, NEW d \in Acceptances(r), NEW e \in DOMAIN decisions
      PROVE  Withdraws(e, r, Superseded(decisions[e].ref))
                 <=> Withdraws(e, r, SupersededInView(decisions[e].ref))
  <2>1. r \in AcceptedOnce
    BY DEF AcceptedOnce
  <2>2. r \in Superseded(decisions[e].ref) <=> r \in SupersededInView(decisions[e].ref)
    BY <2>1 DEF Superseded, SupersededInView, Siblings
  <2> QED
    BY <2>2 DEF Withdraws
<1>2. ViewAgrees
  BY <1>1 DEF ViewAgrees, AcceptedInView, Accepted, Replayed
<1> QED
  BY <1>2, PTL

\* Two sources are authoritative for one point only by an override, a race, or
\* because the earlier one was not effective when the later one was accepted:
\* what assertNoAuthorityScopeConflict found is not lost between two writes.
THEOREM ConflictsAlwaysExplained == Spec => []ConflictsAreExplained
<1>1. ASSUME AuthorityInv, NEW r \in Accepted, NEW s \in Accepted, r[1] # s[1], Overlap(r, s),
             NEW d \in Acceptances(r), NEW e \in Acceptances(s),
             \A x \in DOMAIN decisions :
                 Place(d) < Place(x) => ~Withdraws(x, r, Superseded(decisions[x].ref)),
             Place(d) < Place(e)
      PROVE  Explained(d, e)
  <2>1. /\ decisions[d].ref = r /\ decisions[d].outcome = "accepted" /\ d \in DOMAIN decisions
        /\ decisions[e].ref = s /\ decisions[e].outcome = "accepted" /\ e \in DOMAIN decisions
    BY DEF Acceptances
  <2> SUFFICES ASSUME ~decisions[e].override, d \in decisions[e].after, Effective(r, decisions[e].now)
               PROVE  FALSE
    <3>1. e \notin decisions[d].after
      <4>1. Place(d) \in Nat /\ Place(e) \in Nat
        BY <1>1, <2>1, Places DEF AuthorityInv, Listing
      <4> QED
        BY <1>1, <2>1, <4>1 DEF AuthorityInv, ReplayKeepsReturnOrder
    <3> QED
      BY <2>1, <3>1 DEF Explained
  <2>2. r \in Superseded(s) \/ Undone(d, r)
    BY <1>1, <2>1 DEF AuthorityInv, RecordInv, Cleared
  <2>3. CASE r \in Superseded(s)
    <3>1. s \in DOMAIN sources
      BY <1>1, AcceptedBy
    <3>2. Withdraws(e, r, Superseded(decisions[e].ref))
      BY <2>1, <2>3, <3>1 DEF Withdraws
    <3> QED
      BY <1>1, <2>1, <3>2
  <2>4. CASE Undone(d, r)
    BY <1>1, <2>4 DEF Undone
  <2> QED
    BY <2>2, <2>3, <2>4
<1>2. AuthorityInv => ConflictsAreExplained
  <2> SUFFICES ASSUME AuthorityInv, NEW r \in Accepted, NEW s \in Accepted, r[1] # s[1], Overlap(r, s)
               PROVE  \E d \in Acceptances(r), e \in Acceptances(s) : Explained(d, e)
    BY DEF ConflictsAreExplained
  <2>1. PICK d \in Acceptances(r) : \A x \in DOMAIN decisions :
           Place(d) < Place(x) => ~Withdraws(x, r, Superseded(decisions[x].ref))
    BY AcceptedBy
  <2>2. PICK e \in Acceptances(s) : \A x \in DOMAIN decisions :
           Place(e) < Place(x) => ~Withdraws(x, s, Superseded(decisions[x].ref))
    BY AcceptedBy
  <2>3. d \in DOMAIN decisions /\ e \in DOMAIN decisions /\ d # e
    BY DEF Acceptances
  <2>4. Place(d) < Place(e) \/ Place(e) < Place(d)
    BY <2>3, PlacesDiffer DEF AuthorityInv
  <2>5. CASE Place(d) < Place(e)
    BY <1>1, <2>1, <2>5
  <2>6. CASE Place(e) < Place(d)
    <3>1. Overlap(s, r)
      BY DEF Overlap
    <3>2. Explained(e, d)
      BY <1>1, <2>2, <2>6, <3>1
    <3> QED
      BY <3>2 DEF Explained
  <2> QED
    BY <2>4, <2>5, <2>6
<1> QED
  BY <1>2, AuthorityInvariant, PTL

\* Files, index and calls hold what the code puts there: no revision or decision
\* beyond the bounds, and no entry of the index without its record.
THEOREM AuthorityTypeCorrect == Spec => []TypeOK
<1>1. AuthorityInv /\ RevisionsInv => TypeOK
  BY DEF AuthorityInv, SourcesInv, OrderInv, RecordInv, RevisionsInv, TypeOK
<1> QED
  BY <1>1, AuthorityInvariant, RevisionsInvariant, PTL

=========================
