-------------------------- MODULE GuiBridgeProofs --------------------------
(***************************************************************************)
(* Proofs about GuiBridge, for every set of paths, contents and clients,   *)
(* every capacity of the preview maps and every number of previews: an     *)
(* approval is good for one commit, and the bridge over the runtime        *)
(* commits what was approved.                                              *)
(***************************************************************************)
EXTENDS GuiBridge, FiniteSetTheorems, SequenceTheorems, WellFoundedInduction, TLAPS

Open(c) == calls[c] # NoCall

\* What a restore can be requested of, and what a preview of it can list.
Requests ==
    [kind : {"tree"}, source : 1..Current] \cup [kind : {"node"}, source : Contents, path : Targets]

SyncStored(s) == s.binding.previous_head \in 1..Current

RestoreStored(s) ==
    /\ s.reference \in Requests
    /\ s.overwrite \in BOOLEAN
    /\ s.binding.source_ref = <<s.reference.kind, s.reference.source>>
    /\ s.reference.kind = "node" => DOMAIN s.binding.path_effects \subseteq {s.reference.path}

HistoryInv == Current >= 1 /\ origin \in Seq(Tokens \cup {0}) /\ Len(origin) = Current

ReadingInv ==
    /\ \/ reading = NoReading
       \/ reading \in [operation : {"sync"}, head : 1..Current]
       \/ reading \in [operation : {"restore"}, head : 1..Current, reference : Requests, overwrite : BOOLEAN]
    /\ reading # NoReading => issued < MaxPlans

CallInv(c) ==
    Open(c) =>
        \/ calls[c].operation = "sync" /\ SyncStored(calls[c].stored)
        \/ /\ calls[c].operation = "restore"
           /\ RestoreStored(calls[c].stored)
           /\ calls[c].reference \in Requests
           /\ calls[c].overwrite \in OverwriteChoices

PlansInv ==
    /\ \A s \in syncPlans : SyncStored(s)
    /\ \A s \in restorePlans : RestoreStored(s)
    /\ calls = [c \in Clients |-> calls[c]]
    /\ \A c \in Clients : CallInv(c)

\* Wherever a token is, in a map, with a call or behind a commit, it is there alone.
TokenInv ==
    /\ \A s \in syncPlans, r \in restorePlans : s.token # r.token
    /\ \A c \in Clients, s \in syncPlans \cup restorePlans : Open(c) => calls[c].stored.token # s.token
    /\ \A c, d \in Clients : Open(c) /\ Open(d) /\ calls[c].stored.token = calls[d].stored.token => c = d
    /\ \A k \in 1..Current, s \in syncPlans \cup restorePlans : origin[k] # s.token
    /\ \A k \in 1..Current, c \in Clients : Open(c) => origin[k] # calls[c].stored.token
    /\ ApprovalSpentOnce

BridgeInv == TypeOK /\ HistoryInv /\ ReadingInv /\ PlansInv /\ TokenInv

-----------------------------------------------------------------------------
(* Previews. *)

LEMMA TreesType ==
    ASSUME TypeOK
    PROVE  \A k \in 1..Current : trees[k] \in Tree
BY DEF TypeOK, Current

LEMMA ReferencesAreRequests ==
    ASSUME TypeOK
    PROVE  References \subseteq Requests
<1>1. ASSUME NEW k \in 1..Current, NEW q \in Paths, trees[k][q] # NoFile PROVE trees[k][q] \in Contents
  <2>1. trees[k] \in Tree
    BY DEF TypeOK, Current
  <2> QED
    BY <1>1, <2>1 DEF Tree
<1>2. ASSUME NEW k \in 1..Current PROVE TreeReference(k) \in Requests
  BY DEF TreeReference, Requests
<1>3. ASSUME NEW p \in Targets, NEW c \in {trees[k][q] : k \in 1..Current, q \in Paths} \ {NoFile}
      PROVE  NodeReference(p, c) \in Requests
  <2>1. c \in Contents
    BY <1>1
  <2> QED
    BY <2>1 DEF NodeReference, Requests
<1> QED
  BY <1>2, <1>3 DEF References

\* What a preview says of its reference.
LEMMA PreviewOf ==
    ASSUME NEW r \in Requests, NEW h, NEW found
    PROVE  /\ RestorePreview(r, h, found).source_ref = <<r.kind, r.source>>
           /\ RestorePreview(r, h, found).current_head = h
           /\ r.kind = "node" => DOMAIN RestorePreview(r, h, found).path_effects \subseteq {r.path}
<1>1. r.kind = "node" => DOMAIN Goal(r) = {r.path}
  BY DEF Goal
<1> QED
  BY <1>1 DEF RestorePreview

LEMMA GoalType ==
    ASSUME TypeOK, NEW r \in Requests
    PROVE  /\ DOMAIN Goal(r) \subseteq Paths
           /\ \A p \in DOMAIN Goal(r) : Goal(r)[p] \in Contents \cup {NoFile}
           /\ r.kind \in {"tree", "node"}
           /\ r.kind = "tree" => r.source \in 1..Current /\ DOMAIN Goal(r) = Paths
           /\ r.kind = "node" => DOMAIN Goal(r) = {r.path} /\ Goal(r)[r.path] = r.source
<1>1. CASE r \in [kind : {"tree"}, source : 1..Current]
  <2>1. r.kind = "tree" /\ trees[r.source] \in Tree /\ r.source \in 1..Current
    BY <1>1 DEF TypeOK, Current
  <2> QED
    BY <2>1 DEF Goal, Tree
<1>2. CASE r \in [kind : {"node"}, source : Contents, path : Targets]
  BY <1>2, TargetsAssumption DEF Goal
<1> QED
  BY <1>1, <1>2 DEF Requests

LEMMA RestoredType ==
    ASSUME TypeOK, HistoryInv, NEW r \in Requests
    PROVE  RestoredTree(r) \in Tree /\ RestoredFiles(r) \in Tree
<1>1. work \in Tree
  BY DEF TypeOK
<1>2. RestoredFiles(r) \in Tree
  BY <1>1, GoalType DEF RestoredFiles, Tree
<1>3. RestoredTree(r) \in Tree
  <2>1. CASE r.kind = "tree"
    <3>1. trees[r.source] \in Tree
      BY <2>1, GoalType, TreesType
    <3> QED
      BY <2>1, <3>1 DEF RestoredTree
  <2>2. CASE r.kind = "node"
    <3>1. r.path \in Paths /\ r.source \in Contents \cup {NoFile}
      BY <2>2, GoalType
    <3> QED
      BY <1>1, <2>2, <3>1 DEF RestoredTree, Tree
  <2> QED
    BY <2>1, <2>2, GoalType
<1> QED
  BY <1>2, <1>3

-----------------------------------------------------------------------------
(* The maps of stored previews. *)

\* Of previews with different tokens there is an oldest one.
LEMMA OldestPlan ==
    ASSUME NEW plans, plans # {}, \A s \in plans : s.token \in Nat
    PROVE  \E s \in plans : \A q \in plans : s.token <= q.token
<1> DEFINE R == {ss \in Nat \X Nat : ss[1] < ss[2]}
           T == {s.token : s \in plans}
<1>1. IsWellFoundedOn(R, Nat)
  BY NatLessThanWellFounded, Zenon DEF OpToRel
<1>2. T \subseteq Nat /\ T # {}
  OBVIOUS
<1>3. PICK x \in T : \A y \in T : ~ (<<y, x>> \in R)
  <2> HIDE DEF R, T
  <2> QED
    BY <1>1, <1>2, WFMin
<1>4. \A y \in T : x <= y
  <2> TAKE y \in T
  <2>1. x \in Nat /\ y \in Nat /\ <<y, x>> \notin R
    BY <1>2, <1>3
  <2> QED
    BY <2>1
<1> QED
  BY <1>3, <1>4

LEMMA StoreKeeps ==
    ASSUME NEW plans, IsPreviewMap(plans), issued \in Nat, issued' = issued + 1,
           NEW stored, stored.token = issued + 1
    PROVE  /\ IsPreviewMap(Store(plans, stored))'
           /\ Store(plans, stored) \subseteq plans \cup {stored}
<1> DEFINE all == plans \cup {stored}
<1>1. /\ \A s \in all : s.token \in 1..(issued + 1)
      /\ \A s1, s2 \in all : s1.token = s2.token => s1 = s2
      /\ stored \notin plans
  BY DEF IsPreviewMap, Tokens
<1>2. IsFiniteSet(all) /\ Cardinality(all) = Cardinality(plans) + 1 /\ Cardinality(plans) \in Nat
  BY <1>1, FS_AddElement, FS_CardinalityType DEF IsPreviewMap
<1>3. CASE Cardinality(all) <= Capacity
  <2>1. Store(plans, stored) = all
    BY <1>2, <1>3, CapacityAssumption DEF Store
  <2> QED
    BY <1>1, <1>2, <1>3, <2>1 DEF IsPreviewMap, Tokens
<1>4. CASE Cardinality(all) > Capacity
  <2> DEFINE kept == {s \in all : \E older \in all : older.token < s.token}
  <2>1. Store(plans, stored) = kept
    BY <1>4 DEF Store
  <2>2. PICK oldest \in all : \A q \in all : oldest.token <= q.token
    <3>1. \A s \in all : s.token \in Nat
      BY <1>1
    <3> HIDE DEF all
    <3> QED
      BY <3>1, OldestPlan DEF all
  <2>3. oldest \notin kept /\ kept \subseteq all \ {oldest}
    BY <1>1, <2>2
  <2>4. IsFiniteSet(all \ {oldest}) /\ Cardinality(all \ {oldest}) = Cardinality(plans)
    <3>1. oldest \in all
      BY <2>2
    <3> HIDE DEF all
    <3>2. IsFiniteSet(all \ {oldest}) /\ Cardinality(all \ {oldest}) = Cardinality(all) - 1
      BY <1>2, <3>1, FS_RemoveElement
    <3> QED
      BY <1>2, <3>2
  <2>5. IsFiniteSet(kept) /\ Cardinality(kept) <= Cardinality(plans)
    BY <2>3, <2>4, FS_Subset
  <2>6. Cardinality(kept) <= Capacity /\ Cardinality(kept) \in Nat
    BY <1>2, <2>5, CapacityAssumption, FS_CardinalityType DEF IsPreviewMap
  <2> QED
    BY <1>1, <2>1, <2>5, <2>6 DEF IsPreviewMap, Tokens
<1> QED
  BY <1>2, <1>3, <1>4, CapacityAssumption

\* A map that lost entries is a map, also when tokens are issued since.
LEMMA FewerPlans ==
    ASSUME NEW plans, IsPreviewMap(plans), issued \in Nat, issued' \in Nat, issued <= issued',
           NEW fewer, fewer \subseteq plans
    PROVE  IsPreviewMap(fewer)'
<1>1. IsFiniteSet(fewer) /\ Cardinality(fewer) <= Cardinality(plans)
  BY FS_Subset DEF IsPreviewMap
<1>2. Cardinality(fewer) \in Nat /\ Cardinality(plans) \in Nat
  BY <1>1, FS_CardinalityType DEF IsPreviewMap
<1> QED
  BY <1>1, <1>2, CapacityAssumption DEF IsPreviewMap, Tokens

-----------------------------------------------------------------------------
(* What stays true when the history and the tokens grow. *)

Grows ==
    /\ Current \in Nat /\ Current' \in Nat /\ Current <= Current'
    /\ issued \in Nat /\ issued' \in Nat /\ issued <= issued'
    /\ backend' = backend

LEMMA StillStored ==
    ASSUME Grows
    PROVE  /\ Requests \subseteq Requests'
           /\ \A s : SyncStored(s) => SyncStored(s)'
           /\ \A s : RestoreStored(s) => RestoreStored(s)'
           /\ OverwriteChoices' = OverwriteChoices
<1>1. 1..Current \subseteq 1..Current'
  BY DEF Grows
<1>2. Requests \subseteq Requests'
  BY <1>1 DEF Requests
<1>3. OverwriteChoices' = OverwriteChoices
  BY DEF Grows, OverwriteChoices
<1> QED
  BY <1>1, <1>2, <1>3 DEF SyncStored, RestoreStored

LEMMA StillReading ==
    ASSUME Grows, ReadingInv, reading' = reading, issued' = issued
    PROVE  ReadingInv'
BY StillStored DEF Grows, ReadingInv

LEMMA StillCalled ==
    ASSUME Grows, PlansInv, NEW c \in Clients, calls'[c] = calls[c]
    PROVE  CallInv(c)'
BY StillStored DEF PlansInv, CallInv, Open

\* A commit by approval of token, or by nobody's (0).
LEMMA CommitHistory ==
    ASSUME TypeOK, HistoryInv, NEW tree \in Tree, NEW files \in Tree, NEW token \in Tokens \cup {0},
           Commit(tree, files, token), issued' = issued
    PROVE  /\ trees' \in Seq(Tree) /\ work' \in Tree
           /\ Current' = Current + 1 /\ Current \in Nat
           /\ HistoryInv' /\ origin' \in [1..Len(trees') -> Tokens' \cup {0}]
           /\ \A k \in 1..Current' : origin'[k] = IF k <= Current THEN origin[k] ELSE token
<1>1. trees \in Seq(Tree) /\ origin \in Seq(Tokens \cup {0}) /\ Len(origin) = Len(trees) /\ Len(trees) >= 1
      /\ Len(trees) \in Nat
  BY DEF TypeOK, HistoryInv, Current
<1>2. trees' \in Seq(Tree) /\ Len(trees') = Len(trees) + 1
  BY <1>1, AppendProperties DEF Commit
<1>3. /\ origin' \in Seq(Tokens \cup {0}) /\ Len(origin') = Len(trees) + 1
      /\ \A k \in 1..Len(trees) : origin'[k] = origin[k]
      /\ origin'[Len(trees) + 1] = token
  BY <1>1, AppendProperties DEF Commit
<1>4. Tokens' = Tokens
  BY DEF Tokens
<1>5. origin' \in [1..Len(trees') -> Tokens' \cup {0}]
  BY <1>2, <1>3, <1>4, LenProperties
<1>6. \A k \in 1..Current' : origin'[k] = IF k <= Current THEN origin[k] ELSE token
  BY <1>1, <1>2, <1>3 DEF Current
<1> QED
  BY <1>1, <1>2, <1>3, <1>4, <1>5, <1>6 DEF HistoryInv, Current, Commit

-----------------------------------------------------------------------------
(* Tokens. *)

LEMMA TokensPositive ==
    ASSUME TypeOK
    PROVE  /\ \A s \in syncPlans \cup restorePlans : s.token \in Nat /\ s.token # 0 /\ s.token <= issued
           /\ \A c \in Clients : Open(c) => calls[c].stored.token \in 1..issued
           /\ \A k \in 1..Current : origin[k] \in 0..issued
           /\ issued \in Nat
BY BoundsAssumption DEF TypeOK, IsPreviewMap, Tokens, Open, Current

\* Nothing is previewed or approved, and nothing is committed by approval.
LEMMA QuietTokens ==
    ASSUME TypeOK, TokenInv,
           syncPlans' \subseteq syncPlans, restorePlans' \subseteq restorePlans,
           \A c \in Clients : calls'[c] = calls[c] \/ ~Open(c)',
           Current \in Nat, Current' \in Nat,
           \A k \in 1..Current' : origin'[k] = 0 \/ (k \in 1..Current /\ origin'[k] = origin[k]),
           Len(origin) = Current, Len(origin') = Current'
    PROVE  TokenInv'
<1>1. \A c \in Clients : Open(c)' => Open(c) /\ calls'[c] = calls[c]
  BY DEF Open
<1>2. ApprovalSpentOnce'
  BY DEF TokenInv, ApprovalSpentOnce
<1>3. \A k \in 1..Current', s \in syncPlans' \cup restorePlans' : origin'[k] # s.token
  BY TokensPositive DEF TokenInv
<1>4. \A k \in 1..Current', c \in Clients : Open(c)' => origin'[k] # calls'[c].stored.token
  BY <1>1, TokensPositive DEF TokenInv
<1>5. \A c, d \in Clients : Open(c)' /\ Open(d)' /\ calls'[c].stored.token = calls'[d].stored.token => c = d
  BY <1>1 DEF TokenInv
<1>6. \A c \in Clients, s \in syncPlans' \cup restorePlans' : Open(c)' => calls'[c].stored.token # s.token
  BY <1>1 DEF TokenInv
<1>7. \A s \in syncPlans', r \in restorePlans' : s.token # r.token
  BY DEF TokenInv
<1> QED
  BY <1>2, <1>3, <1>4, <1>5, <1>6, <1>7 DEF TokenInv

\* A preview gets a token that is nowhere else.
LEMMA PreviewTokens ==
    ASSUME TypeOK, TokenInv, NEW stored, stored.token = issued + 1,
           \/ syncPlans' \subseteq syncPlans \cup {stored} /\ restorePlans' = restorePlans
           \/ restorePlans' \subseteq restorePlans \cup {stored} /\ syncPlans' = syncPlans,
           UNCHANGED <<calls, origin, trees>>
    PROVE  TokenInv'
<1>1. \A c \in Clients : Open(c)' = Open(c)
  BY DEF Open
<1>2. ApprovalSpentOnce' /\ Current' = Current
  BY DEF TokenInv, ApprovalSpentOnce, Current
<1>3. \A s \in syncPlans' \cup restorePlans' : s \in syncPlans \cup restorePlans \/ s = stored
  OBVIOUS
<1>4. \A k \in 1..Current', s \in syncPlans' \cup restorePlans' : origin'[k] # s.token
  BY <1>2, <1>3, TokensPositive DEF TokenInv
<1>5. \A c \in Clients, s \in syncPlans' \cup restorePlans' : Open(c)' => calls'[c].stored.token # s.token
  BY <1>1, <1>3, TokensPositive DEF TokenInv
<1>6. \A s \in syncPlans', r \in restorePlans' : s.token # r.token
  BY TokensPositive DEF TokenInv
<1> QED
  BY <1>1, <1>2, <1>4, <1>5, <1>6 DEF TokenInv

\* An approval takes the token from its map to the call.
LEMMA ApprovalTokens ==
    ASSUME TypeOK, TokenInv, PlansInv, NEW c \in Clients, ~Open(c), NEW stored, NEW call,
           call.stored = stored, calls' = [calls EXCEPT ![c] = call],
           \/ stored \in syncPlans /\ syncPlans' = Without(syncPlans, stored.token) /\ restorePlans' = restorePlans
           \/ /\ stored \in restorePlans /\ restorePlans' = Without(restorePlans, stored.token)
              /\ syncPlans' = syncPlans,
           UNCHANGED <<origin, trees>>
    PROVE  TokenInv'
<1>1. calls'[c] = call /\ \A d \in Clients \ {c} : calls'[d] = calls[d] /\ Open(d)' = Open(d)
  BY DEF PlansInv, Open
<1>2. ApprovalSpentOnce' /\ Current' = Current
  BY DEF TokenInv, ApprovalSpentOnce, Current
<1>3. /\ syncPlans' \subseteq syncPlans /\ restorePlans' \subseteq restorePlans
      /\ \A s \in syncPlans' \cup restorePlans' : s.token # stored.token
  BY DEF Without, TokenInv
<1>4. stored \in syncPlans \cup restorePlans
  OBVIOUS
<1>5. \A k \in 1..Current', s \in syncPlans' \cup restorePlans' : origin'[k] # s.token
  BY <1>2, <1>3 DEF TokenInv
<1>6. \A d \in Clients, s \in syncPlans' \cup restorePlans' : Open(d)' => calls'[d].stored.token # s.token
  BY <1>1, <1>3 DEF TokenInv
<1>7. \A d, e \in Clients : Open(d)' /\ Open(e)' /\ calls'[d].stored.token = calls'[e].stored.token => d = e
  BY <1>1, <1>4 DEF TokenInv
<1>8. \A k \in 1..Current', d \in Clients : Open(d)' => origin'[k] # calls'[d].stored.token
  BY <1>1, <1>2, <1>4 DEF TokenInv
<1>9. \A s \in syncPlans', r \in restorePlans' : s.token # r.token
  BY <1>3 DEF TokenInv
<1> QED
  BY <1>2, <1>5, <1>6, <1>7, <1>8, <1>9 DEF TokenInv

\* The commit takes it from the call to the history.
LEMMA CommitTokens ==
    ASSUME TypeOK, TokenInv, PlansInv, NEW c \in Clients, Open(c), calls' = [calls EXCEPT ![c] = NoCall],
           Current \in Nat, Current' = Current + 1, Len(origin) = Current, Len(origin') = Current',
           \A k \in 1..Current' : origin'[k] = IF k <= Current THEN origin[k] ELSE calls[c].stored.token,
           UNCHANGED <<syncPlans, restorePlans>>
    PROVE  TokenInv'
<1> DEFINE token == calls[c].stored.token
<1>1. ~Open(c)' /\ \A d \in Clients \ {c} : calls'[d] = calls[d] /\ Open(d)' = Open(d)
  BY DEF PlansInv, Open
<1>2. \A k \in 1..Current' : (k \in 1..Current /\ origin'[k] = origin[k]) \/ (k = Current' /\ origin'[k] = token)
  OBVIOUS
<1>3. \A k \in 1..Current : origin[k] # token
  BY DEF TokenInv
<1>4. ApprovalSpentOnce'
  <2> SUFFICES ASSUME NEW j \in 1..Current', NEW k \in 1..Current', origin'[j] = origin'[k], origin'[j] # 0
               PROVE  j = k
    BY DEF ApprovalSpentOnce
  <2> QED
    BY <1>2, <1>3 DEF TokenInv, ApprovalSpentOnce
<1>5. \A k \in 1..Current', s \in syncPlans \cup restorePlans : origin'[k] # s.token
  BY <1>2 DEF TokenInv
<1>6. \A k \in 1..Current', d \in Clients : Open(d)' => origin'[k] # calls'[d].stored.token
  BY <1>1, <1>2 DEF TokenInv
<1>7. \A d, e \in Clients : Open(d)' /\ Open(e)' /\ calls'[d].stored.token = calls'[e].stored.token => d = e
  BY <1>1 DEF TokenInv
<1>8. \A d \in Clients, s \in syncPlans \cup restorePlans : Open(d)' => calls'[d].stored.token # s.token
  BY <1>1 DEF TokenInv
<1> QED
  BY <1>4, <1>5, <1>6, <1>7, <1>8 DEF TokenInv

-----------------------------------------------------------------------------
(* Each step keeps the invariant. *)

LEMMA BridgeFacts ==
    ASSUME BridgeInv
    PROVE  /\ Current \in Nat /\ issued \in Nat /\ Len(origin) = Current
           /\ issued' = issued /\ trees' = trees /\ backend' = backend => Grows
BY BoundsAssumption DEF BridgeInv, TypeOK, HistoryInv, Current, Grows

LEMMA EditKeeps ==
    ASSUME BridgeInv, Outside, Edit
    PROVE  BridgeInv'
<1>1. /\ work' \in Tree
      /\ UNCHANGED <<backend, trees, origin, reading, syncPlans, restorePlans, issued, calls>>
      /\ outside' \in 0..MaxOutside
  BY BoundsAssumption DEF Outside, Edit, BridgeInv, TypeOK, Tree
<1>2. Grows /\ TypeOK /\ HistoryInv /\ ReadingInv /\ PlansInv /\ TokenInv
  BY <1>1, BridgeFacts DEF BridgeInv
<1>3. TypeOK'
  BY <1>1, <1>2 DEF TypeOK, Current, Tokens, IsPreviewMap, Tree
<1>4. HistoryInv' /\ ReadingInv'
  BY <1>1, <1>2, StillReading DEF HistoryInv, Current, Tokens
<1>5. PlansInv'
  BY <1>1, <1>2, StillStored, StillCalled DEF PlansInv
<1>6. TokenInv'
  BY <1>1, <1>2 DEF TokenInv, ApprovalSpentOnce, Open, Current
<1> QED
  BY <1>3, <1>4, <1>5, <1>6 DEF BridgeInv

\* A commit, with what it leaves alone.
LEMMA CommitKeeps ==
    ASSUME BridgeInv, NEW tree \in Tree, NEW files \in Tree, NEW token \in Tokens \cup {0},
           Commit(tree, files, token), outside' \in 0..MaxOutside,
           calls' = [c \in Clients |-> calls'[c]], \A c \in Clients : calls'[c] = calls[c] \/ ~Open(c)',
           UNCHANGED <<backend, reading, syncPlans, restorePlans, issued>>
    PROVE  TypeOK' /\ HistoryInv' /\ ReadingInv' /\ PlansInv'
<1>1. TypeOK /\ HistoryInv /\ ReadingInv /\ PlansInv /\ Current \in Nat /\ issued \in Nat
  BY BridgeFacts DEF BridgeInv
<1>2. /\ trees' \in Seq(Tree) /\ work' \in Tree
      /\ Current' = Current + 1
      /\ HistoryInv' /\ origin' \in [1..Len(trees') -> Tokens' \cup {0}]
  BY <1>1, CommitHistory
<1>3. Grows
  BY <1>1, <1>2 DEF Grows
<1>4. /\ IsPreviewMap(syncPlans)' /\ IsPreviewMap(restorePlans)'
      /\ reading' # NoReading => reading'.operation \in {"sync", "restore"} /\ reading'.head \in 1..Current'
      /\ \A c \in Clients : calls'[c] # NoCall => calls'[c].stored.token \in Tokens'
  <2>1. Tokens' = Tokens
    BY DEF Tokens
  <2>2. IsPreviewMap(syncPlans)' /\ IsPreviewMap(restorePlans)'
    BY <1>1, <2>1 DEF TypeOK, IsPreviewMap
  <2>3. reading' # NoReading => reading'.operation \in {"sync", "restore"} /\ reading'.head \in 1..Current'
    BY <1>1, <1>2 DEF TypeOK
  <2>4. \A c \in Clients : calls'[c] # NoCall => calls'[c].stored.token \in Tokens'
    BY <1>1, <2>1 DEF TypeOK, Open
  <2> QED
    BY <2>2, <2>3, <2>4
<1>5. TypeOK'
  BY <1>1, <1>2, <1>4 DEF TypeOK, Tree
<1>6. ReadingInv'
  BY <1>1, <1>3, StillReading
<1>7. PlansInv'
  <2>1. \A c \in Clients : CallInv(c)'
    BY <1>1, <1>3, StillCalled DEF CallInv
  <2> QED
    BY <1>1, <1>3, <2>1, StillStored DEF PlansInv
<1> QED
  BY <1>2, <1>5, <1>6, <1>7

LEMMA CliKeeps ==
    ASSUME BridgeInv, Outside, CliSync \/ CliRestore
    PROVE  BridgeInv'
<1>1. PICK tree \in Tree, files \in Tree : Commit(tree, files, 0)
  <2>1. CASE CliSync
    BY <2>1 DEF CliSync, BridgeInv, TypeOK
  <2>2. CASE CliRestore
    <3>1. PICK k \in 1..Current : Commit(trees[k], RestoredFiles(TreeReference(k)), 0)
      BY <2>2 DEF CliRestore
    <3>2. TreeReference(k) \in Requests
      BY DEF TreeReference, Requests
    <3>3. trees[k] \in Tree /\ RestoredFiles(TreeReference(k)) \in Tree
      BY <3>2, TreesType, RestoredType DEF BridgeInv
    <3> QED
      BY <3>1, <3>3
  <2> QED
    BY <2>1, <2>2
<1>2. /\ UNCHANGED <<backend, reading, syncPlans, restorePlans, issued, calls>>
      /\ outside' \in 0..MaxOutside
  BY BoundsAssumption DEF Outside, BridgeInv, TypeOK
<1>3. calls' = [c \in Clients |-> calls'[c]]
  BY <1>2 DEF BridgeInv, PlansInv
<1>4. TypeOK' /\ HistoryInv' /\ ReadingInv' /\ PlansInv'
  BY <1>1, <1>2, <1>3, CommitKeeps
<1>5. TokenInv'
  <2>1. /\ Current \in Nat /\ Current' \in Nat /\ Len(origin) = Current /\ Len(origin') = Current'
        /\ \A k \in 1..Current' : origin'[k] = 0 \/ (k \in 1..Current /\ origin'[k] = origin[k])
    BY <1>1, <1>2, <1>4, CommitHistory, BridgeFacts DEF BridgeInv, HistoryInv
  <2> QED
    BY <1>2, <2>1, QuietTokens DEF BridgeInv
<1> QED
  BY <1>4, <1>5 DEF BridgeInv

\* A preview is stored: the invariant holds but for what the stored preview says.
LEMMA StoringKeeps ==
    ASSUME BridgeInv, reading # NoReading, reading' = NoReading, issued' = issued + 1,
           NEW stored, stored.token = issued + 1,
           \/ syncPlans' = Store(syncPlans, stored) /\ restorePlans' = restorePlans
           \/ restorePlans' = Store(restorePlans, stored) /\ syncPlans' = syncPlans,
           UNCHANGED <<backend, work, trees, origin, calls, outside>>
    PROVE  /\ TypeOK' /\ HistoryInv' /\ ReadingInv' /\ TokenInv'
           /\ \A c \in Clients : CallInv(c)'
           /\ Grows /\ Current' = Current
           /\ \/ syncPlans' \subseteq syncPlans \cup {stored} /\ restorePlans' = restorePlans
              \/ restorePlans' \subseteq restorePlans \cup {stored} /\ syncPlans' = syncPlans
<1>1. TypeOK /\ HistoryInv /\ ReadingInv /\ PlansInv /\ TokenInv /\ Current \in Nat /\ issued \in Nat
  BY BridgeFacts DEF BridgeInv
<1>2. Grows /\ Current' = Current
  BY <1>1 DEF Grows, Current
<1>3. issued' \in 0..MaxPlans
  BY <1>1, BoundsAssumption DEF ReadingInv
<1>4. IsPreviewMap(syncPlans) /\ IsPreviewMap(restorePlans)
  BY <1>1 DEF TypeOK
<1>5. /\ \/ syncPlans' \subseteq syncPlans \cup {stored} /\ restorePlans' = restorePlans
         \/ restorePlans' \subseteq restorePlans \cup {stored} /\ syncPlans' = syncPlans
      /\ IsPreviewMap(syncPlans)' /\ IsPreviewMap(restorePlans)'
  <2>1. issued' \in Nat /\ issued <= issued'
    BY <1>1
  <2>2. CASE syncPlans' = Store(syncPlans, stored) /\ restorePlans' = restorePlans
    <3>1. ASSUME NEW plans, plans = syncPlans
          PROVE  IsPreviewMap(Store(plans, stored))' /\ Store(plans, stored) \subseteq plans \cup {stored}
      BY <1>1, <1>4, <3>1, StoreKeeps
    <3>3. IsPreviewMap(syncPlans)' /\ syncPlans' \subseteq syncPlans \cup {stored}
      BY <2>2, <3>1 DEF IsPreviewMap, Tokens
    <3>2. IsPreviewMap(restorePlans)'
      BY <1>1, <1>4, <2>1, <2>2, FewerPlans
    <3> QED
      BY <2>2, <3>2, <3>3
  <2>3. CASE restorePlans' = Store(restorePlans, stored) /\ syncPlans' = syncPlans
    <3>1. ASSUME NEW plans, plans = restorePlans
          PROVE  IsPreviewMap(Store(plans, stored))' /\ Store(plans, stored) \subseteq plans \cup {stored}
      BY <1>1, <1>4, <3>1, StoreKeeps
    <3>3. IsPreviewMap(restorePlans)' /\ restorePlans' \subseteq restorePlans \cup {stored}
      BY <2>3, <3>1 DEF IsPreviewMap, Tokens
    <3>2. IsPreviewMap(syncPlans)'
      BY <1>1, <1>4, <2>1, <2>3, FewerPlans
    <3> QED
      BY <2>3, <3>2, <3>3
  <2> QED
    BY <2>2, <2>3
<1>6. Tokens \subseteq Tokens'
  BY <1>1 DEF Tokens
<1>7. HistoryInv' /\ ReadingInv'
  <2>1. origin \in Seq(Tokens' \cup {0})
    <3>1. origin \in Seq(Tokens \cup {0}) /\ Len(origin) = Current
      BY <1>1 DEF HistoryInv
    <3> QED
      BY <1>6, <3>1, LenProperties, ElementOfSeq, SeqDef
  <2> QED
    BY <1>1, <1>2, <2>1 DEF HistoryInv, ReadingInv
<1>8. TypeOK'
  <2>1. origin' \in [1..Len(trees') -> Tokens' \cup {0}]
    BY <1>1, <1>6 DEF TypeOK
  <2>2. \A c \in Clients : calls'[c] # NoCall => calls'[c].stored.token \in Tokens'
    BY <1>1, <1>6 DEF TypeOK
  <2> QED
    BY <1>1, <1>3, <1>5, <2>1, <2>2 DEF TypeOK, Tree
<1>9. TokenInv'
  BY <1>1, <1>5, PreviewTokens
<1>10. \A c \in Clients : CallInv(c)'
  BY <1>1, <1>2, StillCalled
<1> QED
  BY <1>2, <1>5, <1>7, <1>8, <1>9, <1>10

LEMMA StoreSyncPlanKeeps ==
    ASSUME BridgeInv, StoreSyncPlan
    PROVE  BridgeInv'
<1> DEFINE stored == [token |-> issued + 1, binding |-> SyncPreview(reading.head, work)]
<1>1. /\ issued' = issued + 1 /\ syncPlans' = Store(syncPlans, stored) /\ reading' = NoReading
      /\ reading # NoReading /\ stored.token = issued + 1 /\ restorePlans' = restorePlans
      /\ UNCHANGED <<backend, work, trees, origin, calls, outside>>
  BY DEF StoreSyncPlan, NoReading
<1>2. SyncStored(stored)
  BY <1>1 DEF BridgeInv, TypeOK, SyncStored, SyncPreview
<1>3. /\ TypeOK' /\ HistoryInv' /\ ReadingInv' /\ TokenInv'
      /\ \A c \in Clients : CallInv(c)'
      /\ Grows /\ Current' = Current
      /\ \/ syncPlans' \subseteq syncPlans \cup {stored} /\ restorePlans' = restorePlans
         \/ restorePlans' \subseteq restorePlans \cup {stored} /\ syncPlans' = syncPlans
  <2> HIDE DEF stored
  <2> QED
    BY <1>1, StoringKeeps
<1>4. syncPlans' \subseteq syncPlans \cup {stored}
  <2> HIDE DEF stored
  <2> QED
    BY <1>1, <1>3
<1>5. PlansInv'
  <2>1. \A s \in syncPlans' : SyncStored(s)'
    <3> HIDE DEF stored
    <3> QED
      BY <1>2, <1>3, <1>4, StillStored DEF BridgeInv, PlansInv
  <2>2. \A s \in restorePlans' : RestoreStored(s)'
    BY <1>1, <1>3, StillStored DEF BridgeInv, PlansInv
  <2> QED
    BY <1>1, <1>3, <2>1, <2>2 DEF BridgeInv, PlansInv
<1> QED
  BY <1>3, <1>5 DEF BridgeInv

LEMMA StoreRestorePlanKeeps ==
    ASSUME BridgeInv, StoreRestorePlan
    PROVE  BridgeInv'
<1> DEFINE stored == [token     |-> issued + 1,
                      binding   |-> RestorePreview(reading.reference, reading.head, work),
                      reference |-> reading.reference,
                      overwrite |-> reading.overwrite]
<1>1. /\ issued' = issued + 1 /\ restorePlans' = Store(restorePlans, stored) /\ reading' = NoReading
      /\ reading # NoReading /\ stored.token = issued + 1 /\ syncPlans' = syncPlans
      /\ reading.operation = "restore"
      /\ UNCHANGED <<backend, work, trees, origin, calls, outside>>
  BY DEF StoreRestorePlan, NoReading
<1>2. RestoreStored(stored)
  <2>1. reading.reference \in Requests /\ reading.overwrite \in BOOLEAN
    BY <1>1 DEF BridgeInv, ReadingInv
  <2>2. stored.reference = reading.reference /\ stored.overwrite = reading.overwrite
        /\ stored.binding = RestorePreview(reading.reference, reading.head, work)
    OBVIOUS
  <2> HIDE DEF stored
  <2> QED
    BY <2>1, <2>2, PreviewOf DEF RestoreStored
<1> HIDE DEF stored
<1>3. /\ TypeOK' /\ HistoryInv' /\ ReadingInv' /\ TokenInv'
      /\ \A c \in Clients : CallInv(c)'
      /\ Grows /\ Current' = Current
      /\ \/ syncPlans' \subseteq syncPlans \cup {stored} /\ restorePlans' = restorePlans
         \/ restorePlans' \subseteq restorePlans \cup {stored} /\ syncPlans' = syncPlans
  BY <1>1, StoringKeeps
<1>4. PlansInv'
  <2>1. \A s \in restorePlans' : RestoreStored(s)'
    BY <1>1, <1>2, <1>3, StillStored DEF BridgeInv, PlansInv
  <2>2. \A s \in syncPlans' : SyncStored(s)'
    BY <1>1, <1>3, StillStored DEF BridgeInv, PlansInv
  <2> QED
    BY <1>1, <1>3, <2>1, <2>2 DEF BridgeInv, PlansInv
<1> QED
  BY <1>3, <1>4 DEF BridgeInv

LEMMA PreviewKeeps ==
    ASSUME BridgeInv, Preview
    PROVE  BridgeInv'
<1>1. TypeOK /\ HistoryInv /\ ReadingInv /\ PlansInv /\ TokenInv /\ Current \in Nat /\ issued \in Nat
  BY BridgeFacts DEF BridgeInv
<1>2. CASE BeginPreview
  <2>1. UNCHANGED <<backend, work, trees, origin, syncPlans, restorePlans, issued, calls, outside>>
    BY <1>2 DEF BeginPreview
  <2>2. Grows /\ Current \in 1..Current
    BY <1>1, <2>1, BridgeFacts DEF HistoryInv
  <2>3. /\ ReadingInv'
        /\ reading'.operation \in {"sync", "restore"} /\ reading'.head \in 1..Current
    <3>0. issued' < MaxPlans
      BY <1>2 DEF BeginPreview
    <3>1. CASE reading' = [operation |-> "sync", head |-> Current]
      BY <2>1, <2>2, <3>0, <3>1 DEF ReadingInv, Current
    <3>2. CASE \E r \in References, overwrite \in BOOLEAN :
                  reading' = [operation |-> "restore", head |-> Current, reference |-> r, overwrite |-> overwrite]
      <4>1. PICK r \in Requests, overwrite \in BOOLEAN :
              reading' = [operation |-> "restore", head |-> Current, reference |-> r, overwrite |-> overwrite]
        BY <1>1, <3>2, ReferencesAreRequests
      <4>2. r \in Requests' /\ Current' = Current
        BY <2>1, <2>2, StillStored DEF Current
      <4> QED
        BY <2>2, <3>0, <4>1, <4>2 DEF ReadingInv
    <3> QED
      BY <1>2, <3>1, <3>2 DEF BeginPreview
  <2>4. TypeOK'
    BY <1>1, <2>1, <2>3 DEF TypeOK, Current, Tokens, IsPreviewMap, Tree
  <2>5. HistoryInv' /\ TokenInv'
    BY <1>1, <2>1 DEF HistoryInv, TokenInv, ApprovalSpentOnce, Open, Current, Tokens
  <2>6. PlansInv'
    BY <1>1, <2>1, <2>2, StillStored, StillCalled DEF PlansInv
  <2> QED
    BY <2>3, <2>4, <2>5, <2>6 DEF BridgeInv
<1>3. CASE StoreSyncPlan
  BY <1>3, StoreSyncPlanKeeps
<1>4. CASE StoreRestorePlan
  BY <1>4, StoreRestorePlanKeeps
<1> QED
  BY <1>2, <1>3, <1>4 DEF Preview

\* Previews and calls go; nothing else changes.
LEMMA QuietKeeps ==
    ASSUME BridgeInv, syncPlans' \subseteq syncPlans, restorePlans' \subseteq restorePlans,
           calls' = [c \in Clients |-> calls'[c]], \A c \in Clients : calls'[c] = calls[c] \/ ~Open(c)',
           UNCHANGED <<backend, work, trees, origin, reading, issued, outside>>
    PROVE  BridgeInv'
<1>1. TypeOK /\ HistoryInv /\ ReadingInv /\ PlansInv /\ TokenInv /\ Current \in Nat /\ issued \in Nat /\ Grows
  BY BridgeFacts DEF BridgeInv
<1>2. Current' = Current /\ Tokens' = Tokens
  BY DEF Current, Tokens
<1>3. IsPreviewMap(syncPlans)' /\ IsPreviewMap(restorePlans)'
  <2>1. ASSUME NEW plans, IsPreviewMap(plans), NEW fewer, fewer \subseteq plans
        PROVE  IsPreviewMap(fewer)'
    BY <1>1, <2>1, FewerPlans
  <2>2. ASSUME NEW fewer, fewer \subseteq syncPlans \/ fewer \subseteq restorePlans
        PROVE  IsPreviewMap(fewer)'
    BY <1>1, <2>1, <2>2 DEF TypeOK
  <2> QED
    BY <2>2 DEF IsPreviewMap, Tokens
<1>4. TypeOK'
  <2>1. \A c \in Clients : calls'[c] # NoCall => calls'[c].stored.token \in Tokens'
    BY <1>1, <1>2 DEF TypeOK, Open
  <2> QED
    BY <1>1, <1>2, <1>3, <2>1 DEF TypeOK, Tree
<1>5. HistoryInv' /\ ReadingInv'
  BY <1>1, <1>2, StillReading DEF HistoryInv
<1>6. PlansInv'
  <2>1. \A c \in Clients : CallInv(c)'
    BY <1>1, StillCalled DEF CallInv
  <2> QED
    BY <1>1, <2>1, StillStored DEF PlansInv
<1>7. TokenInv'
  <2>1. Len(origin) = Current /\ Len(origin') = Current'
    BY <1>1, <1>2 DEF HistoryInv
  <2> QED
    BY <1>1, <1>2, <2>1, QuietTokens
<1> QED
  BY <1>4, <1>5, <1>6, <1>7 DEF BridgeInv

\* A client's call, as it comes out of the request.
Approved(call) ==
    \/ call.operation = "sync" /\ SyncStored(call.stored)
    \/ /\ call.operation = "restore"
       /\ RestoreStored(call.stored)
       /\ call.reference \in Requests
       /\ call.overwrite \in OverwriteChoices

\* A preview becomes a call.
LEMMA ApprovalKeeps ==
    ASSUME BridgeInv, NEW c \in Clients, ~Open(c), NEW stored, NEW call,
           call.stored = stored, Approved(call), calls' = [calls EXCEPT ![c] = call],
           \/ stored \in syncPlans /\ syncPlans' = Without(syncPlans, stored.token) /\ restorePlans' = restorePlans
           \/ /\ stored \in restorePlans /\ restorePlans' = Without(restorePlans, stored.token)
              /\ syncPlans' = syncPlans,
           UNCHANGED <<backend, work, trees, origin, reading, issued, outside>>
    PROVE  BridgeInv'
<1>1. TypeOK /\ HistoryInv /\ ReadingInv /\ PlansInv /\ TokenInv /\ Current \in Nat /\ issued \in Nat /\ Grows
  BY BridgeFacts DEF BridgeInv
<1>2. Current' = Current /\ Tokens' = Tokens
  BY DEF Current, Tokens
<1>3. calls'[c] = call /\ calls' = [d \in Clients |-> calls'[d]] /\ \A d \in Clients \ {c} : calls'[d] = calls[d]
  BY <1>1 DEF PlansInv
<1>4. syncPlans' \subseteq syncPlans /\ restorePlans' \subseteq restorePlans /\ stored.token \in Tokens
  BY <1>1 DEF Without, TypeOK, IsPreviewMap
<1>5. TypeOK'
  <2>1. ASSUME NEW fewer, fewer \subseteq syncPlans \/ fewer \subseteq restorePlans
        PROVE  IsPreviewMap(fewer)'
    BY <1>1, <2>1, FewerPlans DEF TypeOK
  <2>2. IsPreviewMap(syncPlans)' /\ IsPreviewMap(restorePlans)'
    BY <1>4, <2>1 DEF IsPreviewMap, Tokens
  <2>3. \A d \in Clients : calls'[d] # NoCall => calls'[d].stored.token \in Tokens'
    BY <1>1, <1>2, <1>3, <1>4 DEF TypeOK
  <2> QED
    BY <1>1, <1>2, <2>2, <2>3 DEF TypeOK, Tree
<1>6. HistoryInv' /\ ReadingInv'
  BY <1>1, <1>2, StillReading DEF HistoryInv
<1>7. PlansInv'
  <2>1. \A d \in Clients \ {c} : CallInv(d)'
    BY <1>1, <1>3, StillCalled
  <2>2. CallInv(c)'
    BY <1>1, <1>3, StillStored DEF CallInv, Approved
  <2> QED
    BY <1>1, <1>3, <1>4, <2>1, <2>2, StillStored DEF PlansInv
<1>8. TokenInv'
  BY <1>1, ApprovalTokens
<1> QED
  BY <1>5, <1>6, <1>7, <1>8 DEF BridgeInv

LEMMA ExecuteSyncKeeps ==
    ASSUME BridgeInv, NEW c \in Clients, ExecuteSync(c)
    PROVE  BridgeInv'
<1>1. PICK s \in syncPlans, sameRoot \in BOOLEAN, expectedHead \in 1..Current :
        /\ syncPlans' = Without(syncPlans, s.token)
        /\ IF sameRoot /\ expectedHead = s.binding.previous_head
           THEN calls' = [calls EXCEPT ![c] = [operation |-> "sync", stored |-> s]]
           ELSE UNCHANGED calls
  BY DEF ExecuteSync
<1>2. ~Open(c) /\ UNCHANGED <<backend, work, trees, origin, reading, restorePlans, issued, outside>>
  BY DEF ExecuteSync, Idle, Open
<1>3. CASE UNCHANGED calls
  <2>1. calls' = [d \in Clients |-> calls'[d]] /\ syncPlans' \subseteq syncPlans
    BY <1>1, <1>3 DEF BridgeInv, PlansInv, Without
  <2> QED
    BY <1>2, <1>3, <2>1, QuietKeeps
<1>4. CASE calls' = [calls EXCEPT ![c] = [operation |-> "sync", stored |-> s]]
  <2>1. Approved([operation |-> "sync", stored |-> s])
    BY DEF Approved, BridgeInv, PlansInv
  <2> QED
    BY <1>1, <1>2, <1>4, <2>1, ApprovalKeeps
<1> QED
  BY <1>1, <1>3, <1>4

LEMMA ExecuteRestoreKeeps ==
    ASSUME BridgeInv, NEW c \in Clients, ExecuteRestore(c)
    PROVE  BridgeInv'
<1>1. PICK s \in restorePlans, sameRoot \in BOOLEAN :
        /\ restorePlans' = Without(restorePlans, s.token)
        /\ IF sameRoot
           THEN \E r \in References, overwrite \in OverwriteChoices :
                    calls' = [calls EXCEPT ![c] = [operation |-> "restore", stored |-> s,
                                                   reference |-> r, overwrite |-> overwrite]]
           ELSE UNCHANGED calls
  BY DEF ExecuteRestore
<1>2. ~Open(c) /\ UNCHANGED <<backend, work, trees, origin, reading, syncPlans, issued, outside>>
  BY DEF ExecuteRestore, Idle, Open
<1>3. CASE UNCHANGED calls
  <2>1. calls' = [d \in Clients |-> calls'[d]] /\ restorePlans' \subseteq restorePlans
    BY <1>1, <1>3 DEF BridgeInv, PlansInv, Without
  <2> QED
    BY <1>2, <1>3, <2>1, QuietKeeps
<1>4. ASSUME NEW r \in References, NEW overwrite \in OverwriteChoices,
             calls' = [calls EXCEPT ![c] = [operation |-> "restore", stored |-> s,
                                            reference |-> r, overwrite |-> overwrite]]
      PROVE  BridgeInv'
  <2>1. r \in Requests
    BY ReferencesAreRequests DEF BridgeInv
  <2>2. Approved([operation |-> "restore", stored |-> s, reference |-> r, overwrite |-> overwrite])
    BY <2>1 DEF Approved, BridgeInv, PlansInv
  <2> QED
    BY <1>1, <1>2, <1>4, <2>2, ApprovalKeeps
<1> QED
  BY <1>1, <1>3, <1>4

\* A call ends without a commit.
LEMMA ReturnKeeps ==
    ASSUME BridgeInv, NEW c \in Clients, calls' = [calls EXCEPT ![c] = NoCall],
           UNCHANGED <<backend, work, trees, origin, reading, syncPlans, restorePlans, issued, outside>>
    PROVE  BridgeInv'
<1>1. calls' = [d \in Clients |-> calls'[d]] /\ \A d \in Clients : calls'[d] = calls[d] \/ ~Open(d)'
  BY DEF BridgeInv, PlansInv, Open
<1> QED
  BY <1>1, QuietKeeps

\* A call commits.
LEMMA ApprovedCommitKeeps ==
    ASSUME BridgeInv, NEW c \in Clients, Open(c), NEW tree \in Tree, NEW files \in Tree,
           Commit(tree, files, calls[c].stored.token), calls' = [calls EXCEPT ![c] = NoCall],
           UNCHANGED <<backend, reading, syncPlans, restorePlans, issued, outside>>
    PROVE  BridgeInv'
<1>1. TypeOK /\ HistoryInv /\ PlansInv /\ TokenInv
  BY DEF BridgeInv
<1>2. calls[c].stored.token \in Tokens \cup {0}
  BY <1>1 DEF TypeOK, Open
<1>3. calls' = [d \in Clients |-> calls'[d]] /\ \A d \in Clients : calls'[d] = calls[d] \/ ~Open(d)'
  BY <1>1 DEF PlansInv, Open
<1>4. outside' \in 0..MaxOutside
  BY <1>1 DEF TypeOK
<1>5. TypeOK' /\ HistoryInv' /\ ReadingInv' /\ PlansInv'
  BY <1>2, <1>3, <1>4, CommitKeeps
<1>6. TokenInv'
  <2>1. /\ Current \in Nat /\ Current' = Current + 1
        /\ \A k \in 1..Current' : origin'[k] = IF k <= Current THEN origin[k] ELSE calls[c].stored.token
    BY <1>1, <1>2, CommitHistory
  <2>2. Len(origin) = Current /\ Len(origin') = Current'
    BY <1>1, <1>5 DEF HistoryInv
  <2> QED
    BY <1>1, <2>1, <2>2, CommitTokens
<1> QED
  BY <1>5, <1>6 DEF BridgeInv

LEMMA ApplyKeeps ==
    ASSUME BridgeInv, NEW c \in Clients, ApplySync(c) \/ ApplyRestore(c)
    PROVE  BridgeInv'
<1>1. Open(c) /\ calls' = [calls EXCEPT ![c] = NoCall]
      /\ UNCHANGED <<backend, reading, syncPlans, restorePlans, issued, outside>>
  BY DEF ApplySync, ApplyRestore, Open, NoCall
<1>2. CASE UNCHANGED <<trees, origin, work>>
  BY <1>1, <1>2, ReturnKeeps
<1>3. CASE Commit(work, work, calls[c].stored.token)
  <2>1. work \in Tree
    BY DEF BridgeInv, TypeOK
  <2> QED
    BY <1>1, <1>3, <2>1, ApprovedCommitKeeps
<1>4. CASE /\ calls[c].operation = "restore"
           /\ Commit(RestoredTree(calls[c].reference), RestoredFiles(calls[c].reference), calls[c].stored.token)
  <2>1. calls[c].reference \in Requests
    BY <1>1, <1>4 DEF BridgeInv, PlansInv, CallInv
  <2>2. RestoredTree(calls[c].reference) \in Tree /\ RestoredFiles(calls[c].reference) \in Tree
    BY <2>1, RestoredType DEF BridgeInv
  <2> QED
    BY <1>1, <1>4, <2>2, ApprovedCommitKeeps
<1> QED
  BY <1>2, <1>3, <1>4 DEF ApplySync, ApplyRestore

-----------------------------------------------------------------------------
(* The invariant. *)

LEMMA BridgeInit ==
    ASSUME Init
    PROVE  BridgeInv
<1>1. trees \in Seq(Tree) /\ Len(trees) = 1 /\ origin = <<0>> /\ Len(origin) = 1 /\ Current = 1
  BY DEF Init, Tree, Current
<1>2. TypeOK
  <2>1. IsPreviewMap(syncPlans) /\ IsPreviewMap(restorePlans)
    BY FS_EmptySet, CapacityAssumption DEF Init, IsPreviewMap
  <2> QED
    BY <1>1, <2>1, BoundsAssumption DEF Init, TypeOK, Tree, Tokens
<1>3. HistoryInv /\ ReadingInv
  BY <1>1 DEF Init, HistoryInv, ReadingInv
<1>4. PlansInv
  BY DEF Init, PlansInv, CallInv, Open
<1>5. TokenInv
  BY <1>1 DEF Init, TokenInv, ApprovalSpentOnce, Open
<1> QED
  BY <1>2, <1>3, <1>4, <1>5 DEF BridgeInv

LEMMA BridgeStep ==
    ASSUME BridgeInv, [Next]_vars
    PROVE  BridgeInv'
<1>1. CASE Outside
  BY <1>1, EditKeeps, CliKeeps DEF Outside
<1>2. CASE Preview
  BY <1>2, PreviewKeeps
<1>3. ASSUME NEW c \in Clients, Execute(c)
      PROVE  BridgeInv'
  <2>1. CASE FailCall(c)
    BY <2>1, ReturnKeeps DEF FailCall
  <2> QED
    BY <1>3, <2>1, ExecuteSyncKeeps, ExecuteRestoreKeeps, ApplyKeeps DEF Execute
<1>4. CASE UNCHANGED vars
  BY <1>4, QuietKeeps DEF vars, BridgeInv, PlansInv
<1> QED
  BY <1>1, <1>2, <1>3, <1>4 DEF Next

\* The inductive invariant of the bridge: previews, calls and commits are of the
\* head they name, and a token is in one place only.
THEOREM BridgeInvariant == Spec => []BridgeInv
<1>1. Init => BridgeInv
  BY BridgeInit
<1>2. BridgeInv /\ [Next]_vars => BridgeInv'
  BY BridgeStep
<1> QED
  BY <1>1, <1>2, PTL DEF Spec

\* The maps of previews stay finite and within their limit (100 in
\* src/src/gui/bridge.ts), and all other state keeps its type.
THEOREM BridgeTypeCorrect == Spec => []TypeOK
<1>1. BridgeInv => TypeOK
  BY DEF BridgeInv
<1> QED
  BY <1>1, BridgeInvariant, PTL

\* However often and by however many clients a preview is submitted, one commit at
\* most comes of it: executeSync and executeRestore take the token before they call.
THEOREM ApprovalSpentAtMostOnce == Spec => []ApprovalSpentOnce
<1>1. BridgeInv => ApprovalSpentOnce
  BY DEF BridgeInv, TokenInv
<1> QED
  BY <1>1, BridgeInvariant, PTL

-----------------------------------------------------------------------------
(* What is committed is what was approved. *)

\* Only the call of the client that returns commits.
LEMMA WhoCommits ==
    ASSUME BridgeInv, [Next]_vars, NEW c \in Clients, NEW operation \in {"sync", "restore"},
           Commits(c, operation)
    PROVE  /\ Open(c) /\ backend' = backend /\ calls[c].operation = operation
           /\ operation = "sync" =>
                 SyncAccepted(calls[c].stored) /\ Commit(work, work, calls[c].stored.token)
           /\ operation = "restore" =>
                 /\ RestoreAccepted(calls[c])
                 /\ Commit(RestoredTree(calls[c].reference), RestoredFiles(calls[c].reference),
                           calls[c].stored.token)
<1>1. Open(c) /\ calls'[c] # calls[c] /\ trees' # trees /\ calls[c].operation = operation
  BY DEF Commits, NoCall, Open
<1>2. PICK d \in Clients : ApplySync(d) \/ ApplyRestore(d)
  BY <1>1 DEF Next, Outside, Preview, BeginPreview, StoreSyncPlan, StoreRestorePlan, Execute,
              ExecuteSync, ExecuteRestore, FailCall, vars
<1>3. d = c
  <2>1. calls' = [calls EXCEPT ![d] = NoCall]
    BY <1>2 DEF ApplySync, ApplyRestore
  <2> QED
    BY <1>1, <2>1 DEF BridgeInv, PlansInv
<1> QED
  BY <1>1, <1>2, <1>3 DEF ApplySync, ApplyRestore

\* A path a restore writes is in its preview.
LEMMA RestoredPathIsShown ==
    ASSUME BridgeInv, NEW r \in Requests, NEW p \in Paths, RestoredFiles(r)[p] # work[p]
    PROVE  /\ p \in DOMAIN Goal(r) /\ RestoredFiles(r)[p] = Goal(r)[p]
           /\ r.kind = "node" \/ Goal(r)[p] # HeadTree[p]
           /\ p \in DOMAIN RestorePreview(r, Current, work).path_effects
<1>1. p \in DOMAIN Goal(r) /\ RestoredFiles(r)[p] = Goal(r)[p] /\ (r.kind = "node" \/ Goal(r)[p] # HeadTree[p])
  BY DEF RestoredFiles
<1>2. work[p] # trees[Current][p] \/ Goal(r)[p] # trees[Current][p]
  BY <1>1
<1>3. r.kind = "node" \/ trees[Current][p] # NoFile \/ Goal(r)[p] # NoFile
  BY <1>1 DEF HeadTree
<1> QED
  BY <1>1, <1>2, <1>3 DEF RestorePreview

\* A path whose recorded content a restore changes is in its preview, or among the
\* files the preview says it preserves.
LEMMA RecordedPathIsShown ==
    ASSUME BridgeInv, NEW r \in Requests, NEW p \in Paths, RestoredTree(r)[p] # HeadTree[p]
    PROVE  p \in DOMAIN RestorePreview(r, Current, work).path_effects
                 \cup RestorePreview(r, Current, work).preserved
<1>1. CASE p \in DOMAIN Goal(r) /\ Goal(r)[p] # HeadTree[p]
  BY <1>1, GoalType DEF RestorePreview, HeadTree, BridgeInv
<1>2. CASE ~ (p \in DOMAIN Goal(r) /\ Goal(r)[p] # HeadTree[p])
  <2>1. r.kind = "node" /\ DOMAIN Goal(r) = {r.path} /\ Goal(r)[r.path] = r.source
    BY <1>2, GoalType DEF RestoredTree, Goal, BridgeInv
  <2>2. p # r.path
    BY <1>2, <2>1 DEF RestoredTree, BridgeInv, TypeOK, Tree
  <2>3. work[p] # trees[Current][p] /\ p \notin DOMAIN Goal(r)
    BY <2>1, <2>2 DEF RestoredTree, HeadTree, BridgeInv, TypeOK, Tree
  <2> QED
    BY <2>3 DEF RestorePreview
<1> QED
  BY <1>1, <1>2

\* An unrecorded edit a restore would replace is a conflict of its preview.
LEMMA ReplacedEditIsConflict ==
    ASSUME BridgeInv, NEW r \in Requests, NEW p \in Paths, RestoredFiles(r)[p] # work[p],
           work[p] \notin {HeadTree[p], NoFile}
    PROVE  p \in RestorePreview(r, Current, work).conflicts
<1>1. /\ p \in DOMAIN Goal(r) /\ Goal(r)[p] # work[p]
      /\ r.kind = "node" \/ Goal(r)[p] # HeadTree[p]
      /\ p \in DOMAIN RestorePreview(r, Current, work).path_effects
  BY RestoredPathIsShown
<1>2. Conflict(r.kind, trees[Current][p], Goal(r)[p], work[p])
  <2>1. CASE r.kind = "tree"
    BY <1>1, <2>1 DEF Conflict, TreeConflict, Effect, HeadTree
  <2>2. CASE r.kind # "tree"
    BY <1>1, <2>2 DEF Conflict, NodeConflict, HeadTree
  <2> QED
    BY <2>1, <2>2
<1> QED
  BY <1>1, <1>2 DEF RestorePreview, PathEffect

\* The runtime commits the candidate and the head the client saw.
THEOREM SyncIsBound == Spec => BoundSyncAsApproved
<1>1. BridgeInv /\ [Next]_vars =>
        \A c \in Clients : backend = "runtime" /\ Commits(c, "sync") =>
            /\ Last(trees') = calls[c].stored.binding.files
            /\ Current = calls[c].stored.binding.previous_head
  <2> SUFFICES ASSUME BridgeInv, [Next]_vars, NEW c \in Clients, backend = "runtime", Commits(c, "sync")
               PROVE  /\ Last(trees') = calls[c].stored.binding.files
                      /\ Current = calls[c].stored.binding.previous_head
    OBVIOUS
  <2>1. SyncAccepted(calls[c].stored) /\ Commit(work, work, calls[c].stored.token)
    BY WhoCommits
  <2>2. Last(trees') = work
    BY <2>1, AppendProperties DEF BridgeInv, TypeOK, Commit, Last
  <2> QED
    BY <2>1, <2>2 DEF SyncAccepted
<1> QED
  BY <1>1, BridgeInvariant, PTL DEF Spec, BoundSyncAsApproved

\* The runtime's bindings (source reference, head, path effects, conflicts) are enough
\* for a restore to write the paths the client saw, with what it saw, and no others.
THEOREM RestoreIsBound == Spec => BoundRestoreAsApproved
<1>1. BridgeInv /\ [Next]_vars =>
        \A c \in Clients : backend = "runtime" /\ Commits(c, "restore") =>
            LET shown == calls[c].stored.binding
                goal  == Goal(calls[c].stored.reference)
            IN  \A p \in Paths :
                   /\ work'[p] # work[p] => p \in DOMAIN shown.path_effects /\ work'[p] = goal[p]
                   /\ Last(trees')[p] # HeadTree[p] =>
                          p \in DOMAIN shown.path_effects \cup shown.preserved
  <2> SUFFICES ASSUME BridgeInv, [Next]_vars, NEW c \in Clients, backend = "runtime", Commits(c, "restore"),
                      NEW p \in Paths
               PROVE  /\ work'[p] # work[p] => /\ p \in DOMAIN calls[c].stored.binding.path_effects
                                               /\ work'[p] = Goal(calls[c].stored.reference)[p]
                      /\ Last(trees')[p] # HeadTree[p] =>
                             p \in DOMAIN calls[c].stored.binding.path_effects
                                     \cup calls[c].stored.binding.preserved
    OBVIOUS
  <2> DEFINE r == calls[c].reference
             seen == calls[c].stored.reference
             shown == calls[c].stored.binding
  <2>1. /\ Open(c) /\ calls[c].operation = "restore"
        /\ RestoreAccepted(calls[c])
        /\ Commit(RestoredTree(r), RestoredFiles(r), calls[c].stored.token)
    BY WhoCommits
  <2>2. r \in Requests /\ seen \in Requests /\ RestoreStored(calls[c].stored)
    BY <2>1 DEF BridgeInv, PlansInv, CallInv, RestoreStored
  <2>3. shown = RestorePreview(r, Current, work)
    BY <2>1 DEF RestoreAccepted
  <2>4. <<r.kind, r.source>> = <<seen.kind, seen.source>>
    BY <2>2, <2>3, PreviewOf DEF RestoreStored
  <2>5. work' = RestoredFiles(r) /\ Last(trees') = RestoredTree(r)
    BY <2>1, AppendProperties DEF BridgeInv, TypeOK, Commit, Last
  <2>6. ASSUME work'[p] # work[p]
        PROVE  p \in DOMAIN shown.path_effects /\ work'[p] = Goal(seen)[p]
    <3>1. p \in DOMAIN shown.path_effects /\ p \in DOMAIN Goal(r) /\ work'[p] = Goal(r)[p]
      BY <2>2, <2>3, <2>5, <2>6, RestoredPathIsShown
    <3>2. Goal(seen)[p] = Goal(r)[p]
      <4>1. CASE r.kind = "tree"
        BY <2>4, <4>1 DEF Goal
      <4>2. CASE r.kind = "node"
        <5>1. seen.kind = "node" /\ seen.source = r.source
          BY <2>4, <4>2
        <5>2. p = seen.path
          BY <2>2, <3>1, <5>1 DEF RestoreStored
        <5>3. Goal(r)[r.path] = r.source /\ DOMAIN Goal(r) = {r.path} /\ Goal(seen)[seen.path] = seen.source
          BY <2>2, <4>2, <5>1, GoalType DEF BridgeInv
        <5> QED
          BY <3>1, <5>1, <5>2, <5>3
      <4> QED
        BY <2>2, <4>1, <4>2, GoalType DEF BridgeInv
    <3> QED
      BY <3>1, <3>2
  <2>7. ASSUME Last(trees')[p] # HeadTree[p]
        PROVE  p \in DOMAIN shown.path_effects \cup shown.preserved
    BY <2>2, <2>3, <2>5, <2>7, RecordedPathIsShown
  <2> QED
    BY <2>6, <2>7
<1> QED
  BY <1>1, BridgeInvariant, PTL DEF Spec, BoundRestoreAsApproved

\* Neither bridge replaces an unrecorded edit that the preview did not name as a
\* conflict, or without the overwrite choice: the one over the service never can.
THEOREM EditsAreReplacedByConsent == Spec => ConsentCoversConflicts
<1>1. BridgeInv /\ [Next]_vars =>
        \A c \in Clients : Commits(c, "restore") =>
            \A p \in Paths : work'[p] # work[p] /\ work[p] \notin {HeadTree[p], NoFile} =>
                p \in calls[c].stored.binding.conflicts /\ calls[c].stored.overwrite
  <2> SUFFICES ASSUME BridgeInv, [Next]_vars, NEW c \in Clients, Commits(c, "restore"), NEW p \in Paths,
                      work'[p] # work[p], work[p] \notin {HeadTree[p], NoFile}
               PROVE  p \in calls[c].stored.binding.conflicts /\ calls[c].stored.overwrite
    OBVIOUS
  <2> DEFINE r == calls[c].reference
  <2>1. /\ Open(c) /\ calls[c].operation = "restore"
        /\ RestoreAccepted(calls[c])
        /\ Commit(RestoredTree(r), RestoredFiles(r), calls[c].stored.token)
    BY WhoCommits
  <2>2. r \in Requests /\ calls[c].overwrite \in OverwriteChoices
    BY <2>1 DEF BridgeInv, PlansInv, CallInv
  <2>3. p \in RestorePreview(r, Current, work).conflicts
    BY <2>1, <2>2, ReplacedEditIsConflict DEF Commit
  <2>4. calls[c].overwrite
    BY <2>1, <2>3 DEF RestoreAccepted
  <2>5. backend = "runtime"
    BY <2>2, <2>4 DEF OverwriteChoices, BridgeInv, TypeOK
  <2> QED
    BY <2>1, <2>3, <2>4, <2>5 DEF RestoreAccepted
<1> QED
  BY <1>1, BridgeInvariant, PTL DEF Spec, ConsentCoversConflicts
=============================================================================
