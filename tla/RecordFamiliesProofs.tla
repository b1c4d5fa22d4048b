------------------------ MODULE RecordFamiliesProofs ------------------------
(***************************************************************************)
(* Proofs about RecordFamilies, beside syncs and walks of the read models, *)
(* for every set of callers, of subjects and of submissions and any number *)
(* of calls, crashes included.                                             *)
(***************************************************************************)
EXTENDS ReadModelPages, FiniteSetTheorems, SequenceTheorems, WellFoundedInduction, TLAPS

Names == Submissions \cup ({"id"} \X Nat)

Kinds == {"workflow", "artifact", "event", "claim", "decision", "manifest", "regeneration",
          "reuse", "proposal", "correspondence", "intake"}

Record ==
    [kind : Kinds, created : Nat, refs : SUBSET Names,
     about : Subjects \cup {None}, status : {"open", "accepted"}]

File == [filled : BOOLEAN, record : Record]
Job  == [name : Names, record : Record]

\* Between its checks and the creation of its file a call holds a record that
\* is on no disk.
Pending(p) == pc[p] \in {"propose", "open"}

TypeInv ==
    /\ calls \in Nat
    /\ files \in [DOMAIN files -> File]
    /\ pc \in [Callers -> {"idle", "propose", "open", "fill", "correspond"}]
    /\ doing \in [Callers -> Job \cup {Idle}]
    /\ \A p \in Callers : pc[p] # "idle" => doing[p] \in Job

\* Only intake names its file for what is in it.
Named(name, record) ==
    IF record.kind = "intake" THEN name \in Submissions ELSE name = <<"id", record.created>>

FilledIn(fs, r) == r \in DOMAIN fs /\ fs[r].filled

\* What a record refers to was there before it; what evidence is a duplicate
\* of has the same content and is no duplicate.
RefersTo(fs, name, record, r) ==
    /\ FilledIn(fs, r)
    /\ fs[r].record.created < record.created
    /\ record.kind = "intake" =>
           r[1] = name[1] /\ fs[r].record.kind = "intake" /\ fs[r].record.refs = {}

Sound(fs, count, name, record) ==
    /\ Named(name, record)
    /\ record.created \in 1..count
    /\ \A r \in record.refs : RefersTo(fs, name, record, r)

FilesInv == \A n \in DOMAIN files : Sound(files, calls, n, files[n].record)

CallInv(p) ==
    /\ Pending(p) => Sound(files, calls, doing[p].name, doing[p].record)
    /\ pc[p] = "fill" => doing[p].name \in DOMAIN files
                         /\ files[doing[p].name].record = doing[p].record
    /\ pc[p] = "correspond" => FilledIn(files, doing[p].name)

CallsInv == \A p \in Callers : CallInv(p)

\* Creation times tell records apart, on disk and before.
Apart(fs) == \A m, n \in DOMAIN fs : fs[m].record.created = fs[n].record.created => m = n

TimesInv ==
    /\ Apart(files)
    /\ \A p \in Callers : Pending(p) =>
           /\ \A n \in DOMAIN files : files[n].record.created # doing[p].record.created
           /\ \A q \in Callers : Pending(q) /\ doing[q].record.created = doing[p].record.created => q = p

RecordsInv ==
    /\ TypeInv
    /\ FilesInv
    /\ CallsInv
    /\ TimesInv
    /\ IntakeAgrees

\* What any step does to the files.
Grows(fs, gs) ==
    \A n \in DOMAIN fs :
        n \in DOMAIN gs /\ gs[n].record = fs[n].record /\ (fs[n].filled => gs[n].filled)

-----------------------------------------------------------------------------
(* Files stay what they are. *)

\* A sound record stays sound while files are created and filled.
LEMMA SoundStays ==
    ASSUME NEW fs, NEW gs, NEW m \in Nat, NEW k \in Nat, m <= k, Grows(fs, gs),
           NEW name, NEW record, Sound(fs, m, name, record)
    PROVE  Sound(gs, k, name, record)
<1>1. record.created \in 1..k
  BY DEF Sound
<1>2. ASSUME NEW r \in record.refs PROVE RefersTo(gs, name, record, r)
  <2>1. RefersTo(fs, name, record, r)
    BY DEF Sound
  <2>2. r \in DOMAIN gs /\ gs[r].record = fs[r].record /\ gs[r].filled
    BY <2>1 DEF RefersTo, FilledIn, Grows
  <2> QED BY <2>1, <2>2 DEF RefersTo, FilledIn
<1> QED BY <1>1, <1>2 DEF Sound

\* Creating a file: the file of its own that listings fail on.
LEMMA Created ==
    ASSUME NEW fs, fs \in [DOMAIN fs -> File], NEW name \in Names \ DOMAIN fs, NEW record \in Record,
           NEW gs,
           gs = [n \in DOMAIN fs \cup {name} |->
                    IF n = name THEN [filled |-> FALSE, record |-> record] ELSE fs[n]]
    PROVE  /\ gs \in [DOMAIN gs -> File]
           /\ DOMAIN gs = DOMAIN fs \cup {name}
           /\ gs[name] = [filled |-> FALSE, record |-> record]
           /\ \A n \in DOMAIN fs : gs[n] = fs[n]
           /\ Grows(fs, gs)
<1> DEFINE new == [filled |-> FALSE, record |-> record]
<1>2. DOMAIN gs = DOMAIN fs \cup {name}
  OBVIOUS
<1>3. new \in File
  BY DEF File
<1>4. gs[name] = new /\ \A n \in DOMAIN fs : gs[n] = fs[n]
  OBVIOUS
<1>5. gs \in [DOMAIN gs -> File]
  <2> HIDE DEF new
  <2> QED BY <1>2, <1>3, <1>4
<1> QED BY <1>2, <1>4, <1>5 DEF Grows

\* Filling a file.
FillIn(fs, name) == [fs EXCEPT ![name].filled = TRUE]

LEMMA FilledUp ==
    ASSUME NEW fs, fs \in [DOMAIN fs -> File], NEW name \in DOMAIN fs,
           NEW gs, gs = FillIn(fs, name)
    PROVE  /\ gs \in [DOMAIN gs -> File]
           /\ DOMAIN gs = DOMAIN fs
           /\ gs[name].filled
           /\ \A n \in DOMAIN fs : gs[n].record = fs[n].record
           /\ \A n \in DOMAIN fs \ {name} : gs[n] = fs[n]
           /\ Grows(fs, gs)
<1>1. DOMAIN gs = DOMAIN fs
  BY DEF FillIn
<1>2. fs[name] \in File
  OBVIOUS
<1>3. gs[name] = [fs[name] EXCEPT !.filled = TRUE]
  BY DEF FillIn
<1>4. gs[name] \in File /\ gs[name].filled /\ gs[name].record = fs[name].record
  BY <1>2, <1>3, Zenon DEF File
<1>5. \A n \in DOMAIN fs \ {name} : gs[n] = fs[n]
  BY DEF FillIn
<1>6. gs \in [DOMAIN gs -> File]
  BY <1>1, <1>4, <1>5 DEF FillIn
<1> QED BY <1>1, <1>4, <1>5, <1>6 DEF Grows

-----------------------------------------------------------------------------
(* The calls. *)

\* The record a call has when its checks are passed, at the next time.
Fit(name, record) ==
    /\ name \in Names
    /\ record \in Record
    /\ record.created = calls + 1
    /\ Named(name, record)
    /\ \A r \in record.refs : RefersTo(files, name, record, r)

\* A caller that is left alone keeps its part of the invariant.
LEMMA OthersKeep ==
    ASSUME RecordsInv, NEW p \in Callers, CallInv(p),
           pc'[p] = pc[p], doing'[p] = doing[p],
           calls' \in Nat, calls <= calls', Grows(files, files')
    PROVE  CallInv(p)'
<1>1. calls \in Nat
  BY DEF RecordsInv, TypeInv
<1>2. Pending(p) => Sound(files', calls', doing[p].name, doing[p].record)
  BY <1>1, SoundStays DEF CallInv
<1>3. pc[p] = "fill" => doing[p].name \in DOMAIN files'
                        /\ files'[doing[p].name].record = doing[p].record
  BY DEF CallInv, Grows
<1>4. pc[p] = "correspond" => FilledIn(files', doing[p].name)
  BY DEF CallInv, Grows, FilledIn
<1> QED BY <1>2, <1>3, <1>4 DEF CallInv, Pending

\* A call that begins: its time is later than all others.
LEMMA PreparesKeeps ==
    ASSUME RecordsInv, NEW p \in Callers, NEW name, NEW record, NEW step \in {"propose", "open"},
           Fit(name, record), Prepares(p, name, record, step), UNCHANGED answers
    PROVE  RecordsInv'
<1> USE DEF Prepares
<1>0. calls \in Nat /\ calls' = calls + 1 /\ files' = files /\ Grows(files, files')
  BY DEF RecordsInv, TypeInv, Grows
<1>1. TypeInv'
  BY DEF RecordsInv, TypeInv, Fit, Job
<1>2. FilesInv'
  <2> SUFFICES ASSUME NEW n \in DOMAIN files PROVE Sound(files, calls', n, files[n].record)
    BY <1>0 DEF FilesInv
  <2> QED BY <1>0, SoundStays DEF RecordsInv, FilesInv
<1>3. pc'[p] = step /\ doing'[p] = [name |-> name, record |-> record]
  BY DEF RecordsInv, TypeInv
<1>4. ASSUME NEW q \in Callers, q # p PROVE pc'[q] = pc[q] /\ doing'[q] = doing[q]
  BY <1>4 DEF RecordsInv, TypeInv
<1>5. CallsInv'
  <2> SUFFICES ASSUME NEW q \in Callers PROVE CallInv(q)'
    BY DEF CallsInv
  <2>1. CASE q = p
    <3>1. Sound(files, calls', name, record)
      BY <1>0 DEF Fit, Sound
    <3> QED BY <2>1, <1>0, <1>3, <3>1 DEF CallInv, Pending
  <2>2. CASE q # p
    BY <2>2, <1>0, <1>4, OthersKeep DEF RecordsInv, CallsInv
  <2> QED BY <2>1, <2>2
<1>6. TimesInv'
  <2>1. \A n \in DOMAIN files : files[n].record.created \in 1..calls
    BY DEF RecordsInv, FilesInv, Sound
  <2>2. \A q \in Callers : Pending(q) => doing[q].record.created \in 1..calls
    BY DEF RecordsInv, CallsInv, CallInv, Sound
  <2>3. doing'[p].record.created = calls + 1
    BY <1>3 DEF Fit
  <2>4. \A q \in Callers \ {p} : (Pending(q)' <=> Pending(q)) /\ doing'[q] = doing[q]
    BY <1>4 DEF Pending
  <2>5. Apart(files)'
    BY <1>0 DEF RecordsInv, TimesInv
  <2> SUFFICES ASSUME NEW q \in Callers, Pending(q)'
               PROVE  /\ \A n \in DOMAIN files : files[n].record.created # doing'[q].record.created
                      /\ \A r \in Callers : Pending(r)' /\ doing'[r].record.created = doing'[q].record.created
                             => r = q
    BY <1>0, <2>5 DEF TimesInv
  <2>6. CASE q = p
    BY <2>6, <1>0, <2>1, <2>2, <2>3, <2>4
  <2>7. CASE q # p
    BY <2>7, <1>0, <2>2, <2>3, <2>4 DEF RecordsInv, TimesInv
  <2> QED BY <2>6, <2>7
<1>7. IntakeAgrees'
  BY DEF RecordsInv, IntakeAgrees, Filled
<1> QED BY <1>1, <1>2, <1>5, <1>6, <1>7 DEF RecordsInv

\* What can be looked up.
LEMMA OnDisk ==
    ASSUME RecordsInv, NEW n \in DOMAIN files
    PROVE  n \in Names /\ files[n].record \in Record /\ files[n].record.created <= calls
<1>1. files[n].record \in Record
  BY DEF RecordsInv, TypeInv, File
<1>2. files[n].record.created \in Nat
  BY <1>1 DEF Record
<1>3. Sound(files, calls, n, files[n].record)
  BY DEF RecordsInv, FilesInv
<1>4. n \in Names
  BY <1>2, <1>3 DEF Sound, Named, Names
<1>5. calls \in Nat
  BY DEF RecordsInv, TypeInv
<1> QED BY <1>1, <1>2, <1>3, <1>4, <1>5 DEF Sound

LEMMA KnownIsFilled ==
    ASSUME NEW kind, NEW w \in Known(kind)
    PROVE  Filled(w) /\ files[w].record.kind = kind
BY DEF Known, Readable, OfKind, Filled

LEMMA NewIsRecord ==
    ASSUME RecordsInv, NEW kind \in Kinds, NEW refs, \A r \in refs : Filled(r)
    PROVE  /\ New(kind, refs) \in Record
           /\ New(kind, refs).kind = kind
           /\ New(kind, refs).refs = refs
           /\ New(kind, refs).created = calls + 1
<1>1. refs \subseteq Names
  BY OnDisk DEF Filled
<1>2. calls \in Nat
  BY DEF RecordsInv, TypeInv
<1> QED BY <1>1, <1>2 DEF New, Record

\* A call of any family but intake, whose references were looked up.
LEMMA CallKeeps ==
    ASSUME RecordsInv, NEW p \in Callers, NEW record \in Record,
           record.kind # "intake", record.created = calls + 1, \A r \in record.refs : Filled(r),
           NEW step \in {"open"}, Prepares(p, <<"id", calls + 1>>, record, step), UNCHANGED answers
    PROVE  RecordsInv'
<1>1. calls \in Nat
  BY DEF RecordsInv, TypeInv
<1>2. ASSUME NEW r \in record.refs PROVE RefersTo(files, <<"id", calls + 1>>, record, r)
  <2>1. FilledIn(files, r)
    BY DEF Filled, FilledIn
  <2>2. files[r].record.created <= calls /\ files[r].record.created \in Nat
    BY <2>1, OnDisk DEF FilledIn, Record
  <2> QED BY <1>1, <2>1, <2>2 DEF RefersTo
<1>3. Fit(<<"id", calls + 1>>, record)
  BY <1>1, <1>2 DEF Fit, Names, Named
<1> QED BY <1>3, PreparesKeeps

LEMMA WorkflowKeeps ==
    ASSUME RecordsInv, NEW p \in Callers, RecordWorkflow(p)
    PROVE  RecordsInv'
<1>0. calls \in Nat
  BY DEF RecordsInv, TypeInv
<1>1. CASE Call(p, WorkflowRecord)
  <2>1. WorkflowRecord \in Record /\ WorkflowRecord.kind = "workflow" /\ WorkflowRecord.refs = {}
        /\ WorkflowRecord.created = calls + 1
    BY NewIsRecord DEF Kinds, WorkflowRecord
  <2> QED BY <1>1, <2>1, CallKeeps DEF Call
<1>2. ASSUME NEW w \in Known("workflow"), NEW output \in Subjects, Call(p, OutputTransition(w, output))
      PROVE  RecordsInv'
  <2> DEFINE new == New("workflow", {w})  next == OutputTransition(w, output)
  <2>1. Filled(w) /\ files[w].record \in Record
    BY KnownIsFilled, OnDisk DEF Filled
  <2>2. new \in Record /\ new.kind = "workflow" /\ new.refs = {w} /\ new.created = calls + 1
    BY <2>1, NewIsRecord DEF Kinds
  <2>3. next \in Record /\ next.kind = "workflow" /\ next.refs = {w} /\ next.created = calls + 1
    BY <2>1, <2>2 DEF OutputTransition, Record
  <2> QED BY <1>2, <2>1, <2>3, CallKeeps DEF Call
<1>3. ASSUME NEW w \in Known("workflow"), NEW status \in {"open", "accepted"},
             Call(p, StateTransition(w, status))
      PROVE  RecordsInv'
  <2> DEFINE new == New("workflow", {w})  next == StateTransition(w, status)
  <2>1. Filled(w) /\ files[w].record \in Record
    BY KnownIsFilled, OnDisk DEF Filled
  <2>2. new \in Record /\ new.kind = "workflow" /\ new.refs = {w} /\ new.created = calls + 1
    BY <2>1, NewIsRecord DEF Kinds
  <2>3. next \in Record /\ next.kind = "workflow" /\ next.refs = {w} /\ next.created = calls + 1
    BY <2>1, <2>2 DEF StateTransition, Record
  <2> QED BY <1>3, <2>1, <2>3, CallKeeps DEF Call
<1>4. ASSUME NEW w \in Known("workflow"), Call(p, VirtualArtifact(w)) PROVE RecordsInv'
  <2>1. Filled(w)
    BY KnownIsFilled
  <2>2. VirtualArtifact(w) \in Record /\ VirtualArtifact(w).kind = "artifact"
        /\ VirtualArtifact(w).refs = {w} /\ VirtualArtifact(w).created = calls + 1
    BY <2>1, NewIsRecord DEF Kinds, VirtualArtifact
  <2> QED BY <1>4, <2>1, <2>2, CallKeeps DEF Call
<1>5. ASSUME NEW a \in Known("artifact"), Call(p, MaterializationEvent(a)) PROVE RecordsInv'
  <2>1. Filled(a)
    BY KnownIsFilled
  <2>2. MaterializationEvent(a) \in Record /\ MaterializationEvent(a).kind = "event"
        /\ MaterializationEvent(a).refs = {a} /\ MaterializationEvent(a).created = calls + 1
    BY <2>1, NewIsRecord DEF Kinds, MaterializationEvent
  <2> QED BY <1>5, <2>1, <2>2, CallKeeps DEF Call
<1> QED BY <1>1, <1>2, <1>3, <1>4, <1>5 DEF RecordWorkflow

LEMMA SemanticsKeeps ==
    ASSUME RecordsInv, NEW p \in Callers, RecordSemantics(p)
    PROVE  RecordsInv'
<1>1. CASE Call(p, Claim)
  <2>1. Claim \in Record /\ Claim.kind = "claim" /\ Claim.refs = {} /\ Claim.created = calls + 1
    BY NewIsRecord DEF Kinds, Claim
  <2> QED BY <1>1, <2>1, CallKeeps DEF Call
<1>2. ASSUME NEW superseded, superseded \in {{}} \cup {{d} : d \in Known("decision")},
             Call(p, Decision(superseded))
      PROVE  RecordsInv'
  <2>1. \A r \in superseded : Filled(r)
    BY <1>2, KnownIsFilled
  <2>2. Decision(superseded) \in Record /\ Decision(superseded).kind = "decision"
        /\ Decision(superseded).refs = superseded /\ Decision(superseded).created = calls + 1
    BY <2>1, NewIsRecord DEF Kinds, Decision
  <2> QED BY <1>2, <2>1, <2>2, CallKeeps DEF Call
<1> QED BY <1>1, <1>2 DEF RecordSemantics

LEMMA ManifestKeeps ==
    ASSUME RecordsInv, NEW p \in Callers, RecordManifest(p)
    PROVE  RecordsInv'
<1>1. PICK key \in Subjects, status \in {"open", "accepted"} : Call(p, ManifestRevision(key, status))
  BY DEF RecordManifest
<1> DEFINE new == New("manifest", {})  next == ManifestRevision(key, status)
<1>2. new \in Record /\ new.kind = "manifest" /\ new.refs = {} /\ new.created = calls + 1
  BY NewIsRecord DEF Kinds
<1>3. next \in Record /\ next.kind = "manifest" /\ next.refs = {} /\ next.created = calls + 1
  BY <1>2 DEF ManifestRevision, Record
<1> QED BY <1>1, <1>3, CallKeeps DEF Call

LEMMA ReproductionKeeps ==
    ASSUME RecordsInv, NEW p \in Callers, RecordReproduction(p)
    PROVE  RecordsInv'
<1>1. PICK w \in Known("workflow") :
        \/ Call(p, RegenerationAttempt(w))
        \/ \E m \in Known("manifest"), output \in {{}} \cup {{o} : o \in Known("workflow")},
              stage \in {"proposed", "running", "completed"}, gate \in BOOLEAN :
                 ReuseAllowed(stage, gate, output) /\ Call(p, ReuseResult(w, m, output, stage))
  BY DEF RecordReproduction
<1>2. Filled(w)
  BY KnownIsFilled
<1>3. CASE Call(p, RegenerationAttempt(w))
  <2>1. RegenerationAttempt(w) \in Record /\ RegenerationAttempt(w).kind = "regeneration"
        /\ RegenerationAttempt(w).refs = {w} /\ RegenerationAttempt(w).created = calls + 1
    BY <1>2, NewIsRecord DEF Kinds, RegenerationAttempt
  <2> QED BY <1>2, <1>3, <2>1, CallKeeps DEF Call
<1>4. ASSUME NEW m \in Known("manifest"), NEW output, output \in {{}} \cup {{o} : o \in Known("workflow")},
             NEW stage, Call(p, ReuseResult(w, m, output, stage))
      PROVE  RecordsInv'
  <2> DEFINE refs == {w, m} \cup output  new == New("reuse", refs)  next == ReuseResult(w, m, output, stage)
  <2>1. \A r \in refs : Filled(r)
    BY <1>2, <1>4, KnownIsFilled
  <2>2. new \in Record /\ new.kind = "reuse" /\ new.refs = refs /\ new.created = calls + 1
    BY <2>1, NewIsRecord DEF Kinds
  <2>3. next \in Record /\ next.kind = "reuse" /\ next.refs = refs /\ next.created = calls + 1
    BY <2>2 DEF ReuseResult, Record
  <2> QED BY <1>4, <2>1, <2>3, CallKeeps DEF Call
<1> QED BY <1>1, <1>3, <1>4

LEMMA ProposeKeeps ==
    ASSUME RecordsInv, NEW p \in Callers, ProposeCorrespondence(p)
    PROVE  RecordsInv'
<1> DEFINE new == New("proposal", {})
<1>1. new \in Record /\ new.kind = "proposal" /\ new.refs = {} /\ new.created = calls + 1
  BY NewIsRecord DEF Kinds
<1> QED BY <1>1, CallKeeps DEF Call, ProposeCorrespondence

LEMMA CorrespondKeeps ==
    ASSUME RecordsInv, NEW p \in Callers, Correspond(p)
    PROVE  RecordsInv'
<1> DEFINE refs == {doing[p].name}  new == New("correspondence", refs)
<1>1. \A r \in refs : Filled(r)
  BY DEF RecordsInv, CallsInv, CallInv, FilledIn, Filled, Correspond
<1>2. new \in Record /\ new.kind = "correspondence" /\ new.refs = refs /\ new.created = calls + 1
  BY <1>1, NewIsRecord DEF Kinds
<1> HIDE DEF new
<1>3. Prepares(p, <<"id", calls + 1>>, new, "open") /\ UNCHANGED answers
  BY DEF Correspond, new
<1> QED BY <1>1, <1>2, <1>3, CallKeeps

\* The first record of a content is no duplicate, and all its files can be read.
LEMMA IntakeKeeps ==
    ASSUME RecordsInv, NEW p \in Callers, NEW s \in Submissions, NEW quarantined \in BOOLEAN,
           IntakeNew(p, s, quarantined)
    PROVE  RecordsInv'
<1> DEFINE new == Intake(s)
<1>1. ASSUME NEW r \in DuplicateOf(s)
      PROVE  /\ FilledIn(files, r) /\ files[r].record.kind = "intake" /\ r[1] = s[1]
             /\ \A m \in SameContent(s) : m = r \/ Earlier(r, m)
  BY DEF DuplicateOf, SameContent, OfKind, IntakeNew, Readable, FilledIn
<1>2. ASSUME NEW r \in DuplicateOf(s), NEW q \in files[r].record.refs PROVE FALSE
  <2>1. RefersTo(files, r, files[r].record, q)
    BY <1>1 DEF RecordsInv, FilesInv, Sound, FilledIn
  <2>2. q \in SameContent(s) /\ files[q].record.created < files[r].record.created
    BY <1>1, <2>1 DEF RefersTo, FilledIn, SameContent, OfKind
  <2>3. files[q].record.created \in Nat /\ files[r].record.created \in Nat
    BY <1>1, <2>1, OnDisk DEF RefersTo, FilledIn, Record
  <2> QED BY <1>1, <2>2, <2>3 DEF Earlier
<1>3. new \in Record /\ new.kind = "intake" /\ new.refs = DuplicateOf(s) /\ new.created = calls + 1
  <2>1. \A r \in DuplicateOf(s) : Filled(r)
    BY <1>1 DEF Filled, FilledIn
  <2> QED BY <2>1, NewIsRecord DEF Kinds, Intake
<1>4. ASSUME NEW r \in new.refs PROVE RefersTo(files, s, new, r)
  <2>1. FilledIn(files, r) /\ files[r].record.kind = "intake" /\ r[1] = s[1]
    BY <1>1, <1>3
  <2>2. files[r].record.refs = {}
    BY <1>2, <1>3
  <2>3. files[r].record.created <= calls /\ files[r].record.created \in Nat /\ calls \in Nat
    BY <2>1, OnDisk DEF FilledIn, Record, RecordsInv, TypeInv
  <2> QED BY <1>3, <2>1, <2>2, <2>3 DEF RefersTo
<1> HIDE DEF new
<1>5. Fit(s, new)
  BY <1>3, <1>4 DEF Fit, Named, Names
<1>6. PICK step \in {"propose", "open"} : Prepares(p, s, new, step) /\ UNCHANGED answers
  BY DEF IntakeNew, new
<1> QED BY <1>5, <1>6, PreparesKeeps

-----------------------------------------------------------------------------
(* The steps of a call that has begun. *)

\* A caller that ends, or goes on to create its file, while the files stay.
LEMMA QuietKeeps ==
    ASSUME RecordsInv, NEW p \in Callers, UNCHANGED <<files, calls>>, IntakeAgrees',
           \/ Ends(p)
           \/ pc[p] = "propose" /\ Go(p, "open")
           \/ UNCHANGED <<pc, doing>>
    PROVE  RecordsInv'
<1>0. calls \in Nat /\ Grows(files, files')
  BY DEF RecordsInv, TypeInv, Grows
<1>1. TypeInv'
  BY DEF RecordsInv, TypeInv, Ends, Go
<1>2. FilesInv'
  BY DEF RecordsInv, FilesInv
<1>3. \A q \in Callers : Pending(q)' => Pending(q) /\ doing'[q] = doing[q]
  BY DEF RecordsInv, TypeInv, Ends, Go, Pending
<1>4. CallsInv'
  <2> SUFFICES ASSUME NEW q \in Callers PROVE CallInv(q)'
    BY DEF CallsInv
  <2>1. CallInv(q)
    BY DEF RecordsInv, CallsInv
  <2>2. pc'[q] \in {"fill", "correspond"} => pc'[q] = pc[q] /\ doing'[q] = doing[q]
    BY DEF RecordsInv, TypeInv, Ends, Go
  <2> QED BY <1>3, <2>1, <2>2 DEF CallInv
<1>5. TimesInv'
  BY <1>3 DEF RecordsInv, TimesInv
<1> QED BY <1>1, <1>2, <1>4, <1>5 DEF RecordsInv

\* Two calls that race for a name are two intakes of the same submission.
LEMMA RacedKeeps ==
    ASSUME RecordsInv, NEW p \in Callers, IntakeRaced(p)
    PROVE  RecordsInv'
<1> DEFINE name == doing[p].name
<1>1. name \in DOMAIN files /\ Sound(files, calls, name, doing[p].record) /\ Pending(p)
  BY DEF IntakeRaced, RecordsInv, CallsInv, CallInv, Pending
<1>2. Sound(files, calls, name, files[name].record)
  BY <1>1 DEF RecordsInv, FilesInv
<1>3. files[name].record.created # doing[p].record.created
  BY <1>1 DEF RecordsInv, TimesInv
<1>4. files[name].record.kind = "intake"
  <2>1. CASE doing[p].record.kind = "intake"
    BY <1>1, <1>2, <2>1, SubmissionsAssumption DEF Sound, Named
  <2>2. CASE doing[p].record.kind # "intake"
    BY <1>1, <1>2, <1>3, <2>2, SubmissionsAssumption DEF Sound, Named
  <2> QED BY <2>1, <2>2
<1>5. Readable("intake") => Filled(name)
  BY <1>1, <1>4 DEF Readable, OfKind, Filled
<1>6. IntakeAgrees'
  BY <1>5 DEF IntakeRaced, Answer, RecordsInv, IntakeAgrees, Filled
<1> QED BY <1>6, QuietKeeps DEF IntakeRaced

LEMMA CreateKeeps ==
    ASSUME RecordsInv, NEW p \in Callers, CreateFile(p)
    PROVE  RecordsInv'
<1> DEFINE name == doing[p].name  record == doing[p].record
<1>0. calls \in Nat /\ calls' = calls /\ answers' = answers /\ doing' = doing
  BY DEF RecordsInv, TypeInv, CreateFile, Go
<1>1. doing[p] \in Job /\ Pending(p)
  BY DEF RecordsInv, TypeInv, CreateFile, Pending
<1>2. name \in Names \ DOMAIN files /\ record \in Record
  BY <1>1 DEF Job, CreateFile
<1>3. /\ files' \in [DOMAIN files' -> File]
      /\ DOMAIN files' = DOMAIN files \cup {name}
      /\ files'[name] = [filled |-> FALSE, record |-> record]
      /\ \A n \in DOMAIN files : files'[n] = files[n]
      /\ Grows(files, files')
  <2>1. files \in [DOMAIN files -> File]
    BY DEF RecordsInv, TypeInv
  <2>2. files' = [n \in DOMAIN files \cup {name} |->
                    IF n = name THEN [filled |-> FALSE, record |-> record] ELSE files[n]]
    BY DEF CreateFile, With
  <2> QED BY <1>2, <2>1, <2>2, Created
<1>4. pc' = [pc EXCEPT ![p] = "fill"]
  BY DEF CreateFile, Go
<1>5. TypeInv'
  BY <1>0, <1>1, <1>3, <1>4 DEF RecordsInv, TypeInv
<1>6. Sound(files, calls, name, record)
  BY <1>1 DEF RecordsInv, CallsInv, CallInv
<1>7. FilesInv'
  <2> SUFFICES ASSUME NEW n \in DOMAIN files' PROVE Sound(files', calls, n, files'[n].record)
    BY <1>0 DEF FilesInv
  <2>1. CASE n = name
    BY <2>1, <1>0, <1>3, <1>6, SoundStays
  <2>2. CASE n # name
    BY <2>2, <1>0, <1>3, SoundStays DEF RecordsInv, FilesInv
  <2> QED BY <2>1, <2>2
<1>8. CallsInv'
  <2> SUFFICES ASSUME NEW q \in Callers PROVE CallInv(q)'
    BY DEF CallsInv
  <2>1. CASE q = p
    <3>1. pc'[p] = "fill"
      BY <1>4 DEF RecordsInv, TypeInv
    <3> QED BY <2>1, <3>1, <1>0, <1>3 DEF CallInv, Pending
  <2>2. CASE q # p
    <3>1. pc'[q] = pc[q]
      BY <2>2, <1>4 DEF RecordsInv, TypeInv
    <3> QED BY <3>1, <1>0, <1>3, OthersKeep DEF RecordsInv, CallsInv
  <2> QED BY <2>1, <2>2
<1>9. TimesInv'
  <2>1. \A n \in DOMAIN files : files'[n].record = files[n].record
                                /\ files[n].record.created # record.created
    BY <1>1, <1>3 DEF RecordsInv, TimesInv
  <2>2. files'[name].record = record
    BY <1>3
  <2>3. Apart(files)'
    BY <1>3, <2>1, <2>2 DEF RecordsInv, TimesInv, Apart
  <2>4. \A q \in Callers : Pending(q)' => Pending(q) /\ q # p
    BY <1>4 DEF RecordsInv, TypeInv, Pending
  <2> QED BY <1>0, <1>1, <1>3, <2>1, <2>2, <2>3, <2>4 DEF RecordsInv, TimesInv
<1>10. IntakeAgrees'
  BY <1>0, <1>3 DEF RecordsInv, IntakeAgrees, Filled, Grows
<1> QED BY <1>5, <1>7, <1>8, <1>9, <1>10 DEF RecordsInv

LEMMA FillKeeps ==
    ASSUME RecordsInv, NEW p \in Callers, FillFile(p)
    PROVE  RecordsInv'
<1> DEFINE name == doing[p].name
<1>0. calls \in Nat /\ calls' = calls
  BY DEF RecordsInv, TypeInv, FillFile
<1>1. name \in DOMAIN files /\ files[name].record = doing[p].record
  BY DEF RecordsInv, CallsInv, CallInv, FillFile
<1>2. /\ files' \in [DOMAIN files' -> File]
      /\ DOMAIN files' = DOMAIN files
      /\ files'[name].filled
      /\ \A n \in DOMAIN files : files'[n].record = files[n].record
      /\ Grows(files, files')
  <2>1. files \in [DOMAIN files -> File]
    BY DEF RecordsInv, TypeInv
  <2>2. files' = FillIn(files, name)
    BY DEF FillFile, FillIn
  <2> QED BY <1>1, <2>1, <2>2, FilledUp
<1>3. \/ pc' = [pc EXCEPT ![p] = "idle"] /\ doing' = [doing EXCEPT ![p] = Idle]
      \/ pc' = [pc EXCEPT ![p] = "correspond"] /\ doing' = doing
  BY DEF FillFile, Go, Ends
<1>4. TypeInv'
  BY <1>0, <1>2, <1>3 DEF RecordsInv, TypeInv, FillFile
<1>5. FilesInv'
  BY <1>0, <1>2, SoundStays DEF RecordsInv, FilesInv
<1>6. CallsInv'
  <2> SUFFICES ASSUME NEW q \in Callers PROVE CallInv(q)'
    BY DEF CallsInv
  <2>1. CASE q = p
    <3>1. \/ pc'[p] = "idle"
          \/ pc'[p] = "correspond" /\ doing'[p] = doing[p]
      BY <1>3 DEF RecordsInv, TypeInv
    <3> QED BY <2>1, <3>1, <1>1, <1>2 DEF CallInv, Pending, FilledIn
  <2>2. CASE q # p
    <3>1. pc'[q] = pc[q] /\ doing'[q] = doing[q]
      BY <2>2, <1>3 DEF RecordsInv, TypeInv
    <3> QED BY <3>1, <1>0, <1>2, OthersKeep DEF RecordsInv, CallsInv
  <2> QED BY <2>1, <2>2
<1>7. TimesInv'
  <2>1. \A q \in Callers : Pending(q)' => Pending(q) /\ doing'[q] = doing[q]
    BY <1>3 DEF RecordsInv, TypeInv, Pending
  <2> QED BY <1>2, <2>1 DEF RecordsInv, TimesInv, Apart
<1>8. IntakeAgrees'
  <2>1. answers' \subseteq answers \cup {<<name, doing[p].record.created>>}
    BY DEF FillFile
  <2> QED BY <2>1, <1>1, <1>2 DEF RecordsInv, IntakeAgrees, Filled, Grows
<1> QED BY <1>4, <1>5, <1>6, <1>7, <1>8 DEF RecordsInv

-----------------------------------------------------------------------------
(* The invariant. *)

LEMMA RecordStep ==
    ASSUME RecordsInv, [RecordNext]_vars
    PROVE  RecordsInv'
<1>1. CASE UNCHANGED vars
  <2>1. IntakeAgrees'
    BY <1>1 DEF vars, RecordsInv, IntakeAgrees, Filled
  <2> QED BY <1>1, <2>1 DEF vars, RecordsInv, TypeInv, FilesInv, CallsInv, CallInv, TimesInv, Pending
<1>2. ASSUME NEW p \in Callers, Calls(p) PROVE RecordsInv'
  <2>1. CASE RecordWorkflow(p)
    BY <2>1, WorkflowKeeps
  <2>2. CASE RecordSemantics(p)
    BY <2>2, SemanticsKeeps
  <2>3. CASE RecordManifest(p)
    BY <2>3, ManifestKeeps
  <2>4. CASE RecordReproduction(p)
    BY <2>4, ReproductionKeeps
  <2>5. CASE ProposeCorrespondence(p)
    BY <2>5, ProposeKeeps
  <2>6. ASSUME NEW s \in Submissions, IntakeKnown(p, s) PROVE RecordsInv'
    <3>1. IntakeAgrees'
      BY <2>6 DEF IntakeKnown, Answer, RecordsInv, IntakeAgrees, Filled
    <3> QED BY <2>6, <3>1, QuietKeeps DEF IntakeKnown
  <2>7. ASSUME NEW s \in Submissions, NEW quarantined \in BOOLEAN, IntakeNew(p, s, quarantined)
        PROVE  RecordsInv'
    BY <2>7, IntakeKeeps
  <2> QED BY <1>2, <2>1, <2>2, <2>3, <2>4, <2>5, <2>6, <2>7 DEF Calls
<1>3. ASSUME NEW p \in Callers, Steps(p) PROVE RecordsInv'
  <2>1. CASE IntakePropose(p)
    <3>1. IntakeAgrees'
      BY <2>1 DEF IntakePropose, RecordsInv, IntakeAgrees, Filled
    <3> QED BY <2>1, <3>1, QuietKeeps DEF IntakePropose
  <2>2. CASE IntakeRaced(p)
    BY <2>2, RacedKeeps
  <2>3. CASE Correspond(p)
    BY <2>3, CorrespondKeeps
  <2>4. CASE CreateFile(p)
    BY <2>4, CreateKeeps
  <2>5. CASE FillFile(p)
    BY <2>5, FillKeeps
  <2> QED BY <1>3, <2>1, <2>2, <2>3, <2>4, <2>5 DEF Steps
<1>4. ASSUME NEW p \in Callers, Crash(p) PROVE RecordsInv'
  <2>1. IntakeAgrees'
    BY <1>4 DEF Crash, RecordsInv, IntakeAgrees, Filled
  <2> QED BY <1>4, <2>1, QuietKeeps DEF Crash
<1> QED BY <1>1, <1>2, <1>3, <1>4 DEF RecordNext

LEMMA MoveHeadKeeps ==
    ASSUME RecordsInv, MoveHead
    PROVE  RecordsInv'
<1>1. /\ calls \in Nat /\ calls' = calls + 1 /\ Grows(files, files')
      /\ UNCHANGED <<files, answers, pc, doing>>
  BY DEF MoveHead, RecordsInv, TypeInv, Grows
<1>2. FilesInv'
  <2> SUFFICES ASSUME NEW n \in DOMAIN files PROVE Sound(files, calls', n, files[n].record)
    BY <1>1 DEF FilesInv
  <2> QED BY <1>1, SoundStays DEF RecordsInv, FilesInv
<1>3. CallsInv'
  <2> SUFFICES ASSUME NEW q \in Callers PROVE CallInv(q)'
    BY DEF CallsInv
  <2> QED BY <1>1, OthersKeep DEF RecordsInv, CallsInv
<1>4. IntakeAgrees'
  BY <1>1 DEF RecordsInv, IntakeAgrees, Filled
<1> QED BY <1>1, <1>2, <1>3, <1>4 DEF RecordsInv, TypeInv, TimesInv, Pending

\* The inductive invariant of the record families, for any number of callers,
\* submissions and calls, crashes included, beside moves of the head.
THEOREM RecordsInvariant == PageSpec => []RecordsInv
<1>1. PageInit => RecordsInv
  <2> SUFFICES ASSUME Init PROVE RecordsInv
    BY DEF PageInit
  <2>1. DOMAIN files = {} /\ calls = 0 /\ answers = {} /\ \A p \in Callers : pc[p] = "idle"
    BY DEF Init
  <2>2. TypeInv
    BY <2>1 DEF Init, TypeInv
  <2> QED BY <2>1, <2>2 DEF RecordsInv, FilesInv, CallsInv, CallInv, TimesInv, Apart, Pending, IntakeAgrees
<1>2. RecordsInv /\ [PageNext]_pageVars => RecordsInv'
  <2> SUFFICES ASSUME RecordsInv, [PageNext]_pageVars PROVE RecordsInv'
    OBVIOUS
  <2>1. MoveHead \/ [RecordNext]_vars
    BY DEF PageNext, pageVars, BeginWalk, ReadPage, EndWalk
  <2> QED BY <2>1, RecordStep, MoveHeadKeeps
<1> QED BY <1>1, <1>2, PTL DEF PageSpec

\* A record that can be read refers only to records that can be read and are
\* older, wherever a call is overtaken or stops (core/immutable-record-store.ts).
THEOREM ReferencesAlwaysResolve == PageSpec => []ReferencesResolve
<1>1. RecordsInv => ReferencesResolve
  BY DEF RecordsInv, FilesInv, Sound, RefersTo, FilledIn, ReferencesResolve, Filled, Earlier
<1> QED BY <1>1, RecordsInvariant, PTL

\* Calls of intake that submit the same content from the same origin agree on
\* the record, although the exclusive create is the only thing that orders
\* them (evidence/runtime.ts, intake).
THEOREM IntakeAlwaysAgrees == PageSpec => []IntakeAgrees
<1>1. RecordsInv => IntakeAgrees
  BY DEF RecordsInv
<1> QED BY <1>1, RecordsInvariant, PTL

\* No evidence is a duplicate of a duplicate, although two intakes of one
\* content may each find no other (evidence/runtime.ts, existingByDigest).
THEOREM DuplicatesAlwaysFlat == PageSpec => []DuplicatesAreFlat
<1>1. RecordsInv => DuplicatesAreFlat
  <2> SUFFICES ASSUME RecordsInv, NEW s \in Submissions, Filled(s), NEW d \in files[s].record.refs
               PROVE  d[1] = s[1] /\ files[d].record.refs = {}
    BY DEF DuplicatesAreFlat
  <2>1. Sound(files, calls, s, files[s].record)
    BY DEF RecordsInv, FilesInv, Filled
  <2>2. files[s].record.kind = "intake"
    BY <2>1, SubmissionsAssumption DEF Sound, Named
  <2> QED BY <2>1, <2>2 DEF Sound, RefersTo
<1> QED BY <1>1, RecordsInvariant, PTL

-----------------------------------------------------------------------------
(* Manifest heads. *)

AcceptedIn(fs, key) ==
    {n \in DOMAIN fs : /\ fs[n].record.kind = "manifest" /\ fs[n].filled
                       /\ fs[n].record.about = key /\ fs[n].record.status = "accepted"}

HeadIn(fs, key) ==
    {n \in AcceptedIn(fs, key) :
        \A m \in AcceptedIn(fs, key) : m = n \/ fs[m].record.created < fs[n].record.created}

LEMMA HeadIsHeadIn ==
    ASSUME NEW key
    PROVE  ManifestHead(key) = HeadIn(files, key) /\ ManifestHead(key)' = HeadIn(files', key)
BY DEF ManifestHead, HeadIn, AcceptedIn, OfKind, Earlier

\* When at most one more file can be read, a head gives way to nothing or to
\* a later accepted revision.
LEMMA HeadMoves ==
    ASSUME NEW fs, NEW gs, Grows(fs, gs), Apart(gs), NEW x, NEW key,
           \A n \in DOMAIN gs : gs[n].record.created \in Nat,
           \A n \in DOMAIN gs : gs[n].filled => n = x \/ FilledIn(fs, n),
           NEW n \in HeadIn(fs, key)
    PROVE  /\ HeadIn(gs, key) # {}
           /\ \A m \in HeadIn(gs, key) :
                  gs[m].record.status = "accepted" /\ gs[m].record.created >= fs[n].record.created
<1>1. /\ n \in AcceptedIn(gs, key) /\ gs[n].record = fs[n].record
      /\ gs[n].record.created \in Nat
  BY DEF HeadIn, AcceptedIn, Grows
<1>2. ASSUME NEW k \in AcceptedIn(gs, key), k # x, k # n
      PROVE  gs[k].record.created < gs[n].record.created
  <2>1. k \in AcceptedIn(fs, key) /\ fs[k].record = gs[k].record
    BY <1>2 DEF AcceptedIn, FilledIn, Grows
  <2> QED BY <1>1, <1>2, <2>1 DEF HeadIn
<1>3. HeadIn(gs, key) # {}
  <2>1. CASE x \in AcceptedIn(gs, key) /\ gs[n].record.created < gs[x].record.created
    <3>1. \A k \in AcceptedIn(gs, key) : k = x \/ gs[k].record.created < gs[x].record.created
      BY <1>1, <1>2, <2>1 DEF AcceptedIn
    <3>2. x \in HeadIn(gs, key)
      BY <2>1, <3>1 DEF HeadIn
    <3> QED BY <3>2
  <2>2. CASE ~(x \in AcceptedIn(gs, key) /\ gs[n].record.created < gs[x].record.created)
    <3>1. x \in AcceptedIn(gs, key) => x = n \/ gs[x].record.created < gs[n].record.created
      BY <1>1, <2>2 DEF AcceptedIn, Apart
    <3>2. n \in HeadIn(gs, key)
      BY <1>1, <1>2, <3>1 DEF HeadIn
    <3> QED BY <3>2
  <2> QED BY <2>1, <2>2
<1>4. ASSUME NEW m \in HeadIn(gs, key)
      PROVE  gs[m].record.status = "accepted" /\ gs[m].record.created >= fs[n].record.created
  BY <1>1 DEF HeadIn, AcceptedIn
<1> QED BY <1>3, <1>4

\* One step makes at most one more file readable.
LEMMA OneFileAtATime ==
    ASSUME RecordsInv, MoveHead \/ [RecordNext]_vars
    PROVE  /\ Grows(files, files')
           /\ \E x : \A n \in DOMAIN files' : files'[n].filled => n = x \/ FilledIn(files, n)
<1>0. files \in [DOMAIN files -> File]
  BY DEF RecordsInv, TypeInv
<1>1. CASE UNCHANGED files
  BY <1>1 DEF Grows, FilledIn
<1>2. ASSUME NEW p \in Callers, CreateFile(p)
      PROVE  /\ Grows(files, files')
             /\ \A n \in DOMAIN files' : files'[n].filled => n = doing[p].name \/ FilledIn(files, n)
  <2>1. doing[p].name \in Names \ DOMAIN files /\ doing[p].record \in Record
    BY <1>2 DEF CreateFile, RecordsInv, TypeInv, Job
  <2>2. files' = [n \in DOMAIN files \cup {doing[p].name} |->
                    IF n = doing[p].name THEN [filled |-> FALSE, record |-> doing[p].record] ELSE files[n]]
    BY <1>2 DEF CreateFile, With
  <2> QED BY <1>0, <2>1, <2>2, Created DEF FilledIn
<1>3. ASSUME NEW p \in Callers, FillFile(p)
      PROVE  /\ Grows(files, files')
             /\ \A n \in DOMAIN files' : files'[n].filled => n = doing[p].name \/ FilledIn(files, n)
  <2>1. doing[p].name \in DOMAIN files
    BY <1>3 DEF FillFile, RecordsInv, CallsInv, CallInv
  <2>2. files' = FillIn(files, doing[p].name)
    BY <1>3 DEF FillFile, FillIn
  <2>3. /\ DOMAIN files' = DOMAIN files /\ Grows(files, files')
        /\ \A n \in DOMAIN files \ {doing[p].name} : files'[n] = files[n]
    BY <1>0, <2>1, <2>2, FilledUp
  <2> QED BY <2>3 DEF FilledIn
<1>4. MoveHead \/ [RecordNext]_vars =>
          UNCHANGED files \/ \E p \in Callers : CreateFile(p) \/ FillFile(p)
  BY DEF MoveHead, vars, RecordNext, Calls, Steps, Crash, RecordWorkflow, RecordSemantics, RecordManifest,
         RecordReproduction, ProposeCorrespondence, Call, Prepares, IntakeKnown, IntakeNew,
         IntakePropose, IntakeRaced, Correspond
<1> QED BY <1>1, <1>2, <1>3, <1>4

\* AD-024: the accepted head of a key only gives way to a later accepted
\* revision, although heads are derived from a listing and drafts, torn files
\* and late writers fill in between (projections/runtime.ts, manifestHeads).
THEOREM HeadsAlwaysStayAccepted == PageSpec => HeadsStayAccepted
<1> DEFINE A == \A key \in Subjects : \A n \in ManifestHead(key) :
                  /\ ManifestHead(key)' # {}
                  /\ \A m \in ManifestHead(key)' :
                        files'[m].record.status = "accepted"
                        /\ files'[m].record.created >= files[n].record.created
<1>1. RecordsInv /\ RecordsInv' /\ [PageNext]_pageVars => [A]_vars
  <2> SUFFICES ASSUME RecordsInv, RecordsInv', [PageNext]_pageVars,
                      NEW key \in Subjects, NEW n \in ManifestHead(key)
               PROVE  /\ ManifestHead(key)' # {}
                      /\ \A m \in ManifestHead(key)' :
                            files'[m].record.status = "accepted"
                            /\ files'[m].record.created >= files[n].record.created
    OBVIOUS
  <2>1. MoveHead \/ [RecordNext]_vars
    BY DEF PageNext, pageVars, BeginWalk, ReadPage, EndWalk
  <2>2. PICK x : \A f \in DOMAIN files' : files'[f].filled => f = x \/ FilledIn(files, f)
    BY <2>1, OneFileAtATime
  <2>3. Grows(files, files')
    BY <2>1, OneFileAtATime
  <2>4. Apart(files') /\ \A f \in DOMAIN files' : files'[f].record.created \in Nat
    BY DEF RecordsInv, TimesInv, TypeInv, File, Record
  <2>5. n \in HeadIn(files, key) /\ ManifestHead(key)' = HeadIn(files', key)
    BY HeadIsHeadIn
  <2> QED BY <2>2, <2>3, <2>4, <2>5, HeadMoves
<1> QED BY <1>1, RecordsInvariant, PTL DEF PageSpec, HeadsStayAccepted

-----------------------------------------------------------------------------
(***************************************************************************)
(* Walks.  What the client has seen is not past its cursor, and what it is *)
(* owed has been seen or is past it; of the head tree this holds as long   *)
(* as the cursor is of that tree, which is never a later one, and as the   *)
(* names of files sort one way.                                            *)
(***************************************************************************)

ItemsOf(c) == Nat \X (IF c = "tree" THEN Paths ELSE {0})

Reached(x) == x \in walk.seen \/ PastCursor(x, walk.cursor)

WalkType ==
    /\ tree = [created |-> tree.created, paths |-> tree.paths]
    /\ tree.created \in 0..calls
    /\ tree.paths \subseteq Paths
    /\ walk = [on |-> walk.on, cursor |-> walk.cursor, ended |-> walk.ended,
               seen |-> walk.seen, owed |-> walk.owed, repeated |-> walk.repeated]
    /\ walk.on \in Collections \cup {None}
    /\ walk.cursor \in ItemsOf(walk.on) \cup {None}
    /\ walk.seen \subseteq ItemsOf(walk.on)

SeenInv ==
    /\ ~walk.repeated
    /\ walk.ended => walk.owed \subseteq walk.seen
    /\ ~walk.ended => \A x \in walk.seen : ~PastCursor(x, walk.cursor)

OwedInv ==
    ~walk.ended /\ walk.on \notin {"tree", None} =>
        \A x \in walk.owed : x \in Items(walk.on) /\ Reached(x)

TreeOwedInv ==
    ~walk.ended /\ walk.on = "tree" /\ walk.cursor # None =>
        /\ walk.cursor[1] <= tree.created
        /\ walk.cursor[1] = tree.created => \A x \in Items("tree") : Reached(x)

\* The page comparison and the listing put what is walked in one order.
OneOrder == walk.on = "tree" => OrdersAgree

OwedOrSeen == SeenInv /\ OwedInv /\ TreeOwedInv

WalkInv == WalkType /\ (OneOrder => OwedOrSeen)

\* Every nonempty set of numbers has a least one.
LEMMA NatLeast ==
    ASSUME NEW T, T \subseteq Nat, T # {}
    PROVE  \E x \in T : \A y \in T : x <= y
<1> DEFINE R == {ss \in Nat \X Nat : ss[1] < ss[2]}
<1>1. IsWellFoundedOn(R, Nat)
  BY NatLessThanWellFounded, Zenon DEF OpToRel
<1>2. PICK x \in T : \A y \in T : ~ (<<y, x>> \in R)
  <2> HIDE DEF R
  <2> QED BY <1>1, WFMin
<1>3. ASSUME NEW y \in T PROVE x <= y
  <2>1. x \in Nat /\ y \in Nat /\ <<y, x>> \notin R
    BY <1>2
  <2> QED BY <2>1
<1> QED BY <1>3

\* A page is the beginning of the sorted list, and has a last item.
LEMMA PageIs ==
    ASSUME NEW after, IsFiniteSet(after), after \subseteq Nat \X Nat
    PROVE  /\ FirstItems(after) \subseteq after
           /\ \A x \in FirstItems(after), y \in after : SortedBefore(y, x) => y \in FirstItems(after)
           /\ FirstItems(after) # after =>
                  /\ LastItem(FirstItems(after)) \in FirstItems(after)
                  /\ \A y \in FirstItems(after) :
                         y = LastItem(FirstItems(after)) \/ SortedBefore(y, LastItem(FirstItems(after)))
<1> DEFINE Before(x) == {y \in after : SortedBefore(y, x)}
           Count(x) == Cardinality(Before(x))
<1>0. \A x \in after : x = <<x[1], x[2]>> /\ x[1] \in Nat /\ x[2] \in Nat
  OBVIOUS
<1>1. PICK page : page = FirstItems(after)
  OBVIOUS
<1>2. page \subseteq after /\ \A x \in after : x \in page <=> Count(x) < Limit
  BY <1>1 DEF FirstItems
<1>3. ASSUME NEW x \in after PROVE IsFiniteSet(Before(x)) /\ Count(x) \in Nat
  <2>1. Before(x) \in SUBSET after
    OBVIOUS
  <2> HIDE DEF Before
  <2> QED BY <2>1, FS_Subset, FS_CardinalityType
<1>4. ASSUME NEW x \in after, NEW y \in after, SortedBefore(y, x) PROVE Count(y) < Count(x)
  <2>1. Before(y) \in SUBSET Before(x)
    <3> SUFFICES ASSUME NEW z \in after, SortedBefore(z, y) PROVE SortedBefore(z, x)
      OBVIOUS
    <3> QED BY <1>0, <1>4 DEF SortedBefore
  <2>2. y \in Before(x) /\ y \notin Before(y)
    BY <1>0, <1>4 DEF SortedBefore
  <2>3. Count(y) \in Nat /\ Count(x) \in Nat /\ IsFiniteSet(Before(x))
    BY <1>3
  <2> HIDE DEF Before
  <2>4. Cardinality(Before(y)) <= Cardinality(Before(x)) /\ Cardinality(Before(y)) # Cardinality(Before(x))
    BY <2>1, <2>2, <2>3, FS_Subset
  <2> QED BY <2>3, <2>4
<1>5. \A x \in page, y \in after : SortedBefore(y, x) => y \in page
  <2> SUFFICES ASSUME NEW x \in page, NEW y \in after, SortedBefore(y, x) PROVE y \in page
    OBVIOUS
  <2>1. Count(y) < Count(x) /\ Count(x) < Limit /\ Count(y) \in Nat /\ Count(x) \in Nat
    BY <1>2, <1>3, <1>4
  <2> HIDE DEF Count
  <2> QED BY <1>2, <2>1, LimitAssumption
<1>6. ASSUME page # after PROVE page # {}
  <2>1. PICK z \in after : TRUE
    BY <1>2, <1>6
  <2> DEFINE T == {Count(x) : x \in after}
  <2>2. T \subseteq Nat /\ T # {}
    <3> HIDE DEF Count
    <3> QED BY <1>3, <2>1
  <2>3. PICK least \in T : \A k \in T : least <= k
    <3> HIDE DEF T
    <3> QED BY <2>2, NatLeast
  <2>4. PICK x \in after : Count(x) = least
    OBVIOUS
  <2>5. ASSUME NEW y \in after, SortedBefore(y, x) PROVE FALSE
    <3>1. Count(y) < Count(x) /\ Count(y) \in Nat /\ Count(x) \in Nat /\ Count(y) \in T
      BY <1>3, <1>4, <2>5
    <3>2. Count(x) <= Count(y)
      BY <2>3, <2>4, <3>1
    <3> HIDE DEF Count
    <3> QED BY <3>1, <3>2
  <2>6. Before(x) = {}
    BY <2>5
  <2>7. Count(x) = 0
    <3> HIDE DEF Before
    <3> QED BY <2>6, FS_EmptySet
  <2> QED BY <1>2, <2>7, LimitAssumption
<1>7. ASSUME page # {} PROVE \E x \in page : \A y \in page : y = x \/ SortedBefore(y, x)
  <2> DEFINE T == {Limit - Count(x) : x \in page}
  <2>1. \A x \in page : Count(x) \in Nat /\ Limit - Count(x) \in Nat
    <3> SUFFICES ASSUME NEW x \in page PROVE Count(x) \in Nat /\ Limit - Count(x) \in Nat
      OBVIOUS
    <3>1. Count(x) \in Nat /\ Count(x) < Limit
      BY <1>2, <1>3
    <3> HIDE DEF Count
    <3> QED BY <3>1, LimitAssumption
  <2>2. T \subseteq Nat /\ T # {}
    <3> HIDE DEF Count
    <3> QED BY <1>7, <2>1
  <2>3. PICK least \in T : \A k \in T : least <= k
    <3> HIDE DEF T
    <3> QED BY <2>2, NatLeast
  <2>4. PICK x \in page : least = Limit - Count(x)
    OBVIOUS
  <2>5. ASSUME NEW y \in page PROVE y = x \/ SortedBefore(y, x)
    <3>1. ~SortedBefore(x, y)
      <4> SUFFICES ASSUME SortedBefore(x, y) PROVE FALSE
        OBVIOUS
      <4>1. Count(x) < Count(y) /\ Limit - Count(y) \in T
        BY <1>2, <1>4
      <4>2. Limit - Count(x) <= Limit - Count(y) /\ Count(x) \in Nat /\ Count(y) \in Nat
        BY <2>1, <2>3, <2>4, <4>1
      <4> HIDE DEF Count
      <4> QED BY <4>1, <4>2, LimitAssumption
    <3> QED BY <1>0, <1>2, <3>1 DEF SortedBefore
  <2> QED BY <2>5
<1>8. page # after => /\ LastItem(page) \in page
                      /\ \A y \in page : y = LastItem(page) \/ SortedBefore(y, LastItem(page))
  BY <1>6, <1>7 DEF LastItem
<1> HIDE DEF Count
<1> QED BY <1>1, <1>2, <1>5, <1>8

\* The paths of a tree have places.
LEMMA PathsAre ==
    Paths = 1..Len(CodeUnits) /\ Len(CodeUnits) \in Nat /\ \A p \in Paths : CodeUnits[p] \in Nat \ {0}
<1>1. Len(CodeUnits) \in Nat /\ DOMAIN CodeUnits = 1..Len(CodeUnits)
  BY CodeUnitsAssumption, LenProperties
<1>2. \A p \in 1..Len(CodeUnits) : CodeUnits[p] \in Nat \ {0}
  BY CodeUnitsAssumption, ElementOfSeq
<1> QED BY <1>1, <1>2 DEF Paths

\* What is past a cursor comes after it.
LEMMA PastIs ==
    ASSUME NEW c, c = "tree" => OrdersAgree, NEW x \in ItemsOf(c), NEW y \in ItemsOf(c)
    PROVE  PastCursor(y, x) <=> SortedBefore(x, y)
<1>1. x # None /\ x[1] \in Nat /\ y[1] \in Nat /\ x[2] \in Nat /\ y[2] \in Nat
  BY NoCursorAssumption, PathsAre DEF ItemsOf
<1>2. CodeUnit(y[2]) > CodeUnit(x[2]) <=> x[2] < y[2]
  <2>1. CASE c = "tree"
    <3>1. PICK p \in Paths, q \in Paths : p = x[2] /\ q = y[2]
      BY <2>1 DEF ItemsOf
    <3>2. CodeUnits[p] \in Nat /\ CodeUnits[q] \in Nat /\ p \in Nat \ {0} /\ q \in Nat \ {0}
      BY PathsAre
    <3>3. p < q => CodeUnits[p] < CodeUnits[q]
      BY <2>1 DEF OrdersAgree
    <3>4. q < p => CodeUnits[q] < CodeUnits[p]
      BY <2>1 DEF OrdersAgree
    <3>5. CodeUnits[q] > CodeUnits[p] <=> p < q
      BY <3>2, <3>3, <3>4
    <3>6. CodeUnit(p) = CodeUnits[p] /\ CodeUnit(q) = CodeUnits[q]
      BY <3>2 DEF CodeUnit
    <3> QED BY <3>1, <3>5, <3>6
  <2>2. CASE c # "tree"
    BY <2>2 DEF ItemsOf, CodeUnit
  <2> QED BY <2>1, <2>2
<1> QED BY <1>1, <1>2 DEF PastCursor, SortedBefore

\* A listing is finite, and of one kind.
LEMMA ItemsAre ==
    ASSUME RecordsInv, WalkType, NEW c
    PROVE  /\ Items(c) \subseteq ItemsOf(c)
           /\ IsFiniteSet(Items(c))
           /\ c = "tree" => \A x \in Items(c) : x[1] = tree.created
<1>0. calls \in Nat /\ tree.created \in Nat /\ tree.created <= calls /\ tree.paths \subseteq Paths
  BY DEF RecordsInv, TypeInv, WalkType
<1>1. Items(c) \subseteq ItemsOf(c) /\ Items(c) \subseteq (0..calls) \X (0..Len(CodeUnits))
  <2>1. CASE c = "tree"
    <3>1. Items(c) = {<<tree.created, p>> : p \in tree.paths}
      BY <2>1 DEF Items, TreeItem
    <3> QED BY <1>0, <2>1, <3>1, PathsAre DEF ItemsOf
  <2>2. CASE c # "tree"
    <3>1. Items(c) = {<<files[n].record.created, 0>> : n \in OfKind(c)}
      BY <2>2 DEF Items, RecordItem
    <3>2. \A n \in OfKind(c) : files[n].record.created \in Nat /\ files[n].record.created <= calls
      BY OnDisk DEF OfKind, Record
    <3> QED BY <1>0, <2>2, <3>1, <3>2, PathsAre DEF ItemsOf
  <2> QED BY <2>1, <2>2
<1>2. IsFiniteSet((0..calls) \X (0..Len(CodeUnits)))
  <2>1. PICK N \in Nat : N = Len(CodeUnits)
    BY PathsAre
  <2>2. IsFiniteSet(0..calls) /\ IsFiniteSet(0..N)
    BY <1>0, FS_Interval
  <2>3. IsFiniteSet((0..calls) \X (0..N))
    BY <2>2, FS_Product
  <2> QED BY <2>1, <2>3
<1>3. IsFiniteSet(Items(c))
  BY <1>1, <1>2, FS_Subset
<1>4. c = "tree" => \A x \in Items(c) : x[1] = tree.created
  BY DEF Items, TreeItem
<1> QED BY <1>1, <1>3, <1>4

\* A page shows what it is owed or leaves it past the cursor.
LEMMA PageKeeps ==
    ASSUME RecordsInv, WalkInv, ReadPage
    PROVE  WalkInv'
<1> DEFINE c == walk.on
           cursor == walk.cursor
           after == AfterCursor(c, cursor)
           page == FirstItems(after)
           last == LastItem(page)
<1>0. /\ WalkType
      /\ c # None /\ c \in Collections /\ ~walk.ended
      /\ UNCHANGED <<vars, tree>>
  BY DEF WalkInv, WalkType, ReadPage
<1>1. walk' = [on       |-> c,
               cursor   |-> IF page # after THEN last ELSE cursor,
               ended    |-> page = after,
               seen     |-> walk.seen \cup page,
               owed     |-> IF c = "tree" THEN Items(c) ELSE walk.owed,
               repeated |-> walk.repeated \/ walk.seen \cap page # {}]
  BY <1>0 DEF ReadPage, WalkType
<1>2. Items(c) \subseteq ItemsOf(c) /\ IsFiniteSet(Items(c)) /\ (c = "tree" => \A x \in Items(c) : x[1] = tree.created)
  BY <1>0, ItemsAre
<1>3. /\ after \subseteq Items(c) /\ IsFiniteSet(after) /\ after \subseteq ItemsOf(c) /\ after \subseteq Nat \X Nat
      /\ \A x \in Items(c) : x \in after <=> PastCursor(x, cursor)
  <2>1. after \subseteq Items(c) /\ \A x \in Items(c) : x \in after <=> PastCursor(x, cursor)
    BY DEF AfterCursor
  <2>2. ItemsOf(c) \subseteq Nat \X Nat
    BY PathsAre DEF ItemsOf
  <2> HIDE DEF after
  <2> QED BY <1>2, <2>1, <2>2, FS_Subset
<1>4. /\ page \subseteq after
      /\ \A x \in page, y \in after : SortedBefore(y, x) => y \in page
      /\ page # after => last \in page /\ \A y \in page : y = last \/ SortedBefore(y, last)
  <2> HIDE DEF after
  <2> QED BY <1>3, PageIs
<1> HIDE DEF page, last, after
<1>5. \A x \in ItemsOf(c) : x = <<x[1], x[2]>> /\ x[1] \in Nat /\ x[2] \in Nat
  BY PathsAre DEF ItemsOf
<1>6. cursor \in ItemsOf(c) \cup {None} /\ walk.seen \subseteq ItemsOf(c)
  BY <1>0 DEF WalkType
<1>7. WalkType'
  BY <1>0, <1>1, <1>3, <1>4, <1>6 DEF WalkType, ItemsOf, vars, Paths
<1>8. SUFFICES ASSUME OneOrder, OwedOrSeen PROVE OwedOrSeen'
  BY <1>1, <1>7 DEF WalkInv, OneOrder, OrdersAgree, Paths
<1>9. SeenInv /\ OwedInv /\ TreeOwedInv /\ (c = "tree" => OrdersAgree)
  BY <1>8 DEF OneOrder, OwedOrSeen
<1>10. \A x, y \in ItemsOf(c) : PastCursor(y, x) <=> SortedBefore(x, y)
  BY <1>0, <1>9, PastIs
<1>11. \A x \in walk.seen : ~PastCursor(x, cursor)
  BY <1>0, <1>9 DEF SeenInv
<1>12. cursor = None => walk.seen = {}
  BY <1>11 DEF PastCursor
<1>13. ASSUME NEW x \in Items(c), x \in after, x \notin page, page # after PROVE PastCursor(x, last)
  <2>1. ~SortedBefore(x, last) /\ x # last /\ x \in ItemsOf(c) /\ last \in ItemsOf(c)
    BY <1>3, <1>4, <1>13
  <2>2. SortedBefore(last, x)
    BY <1>5, <2>1 DEF SortedBefore
  <2> QED BY <1>10, <2>1, <2>2
<1>14. SeenInv'
  <2>1. walk.seen \cap page = {}
    BY <1>3, <1>4, <1>6, <1>11
  <2>2. ~walk'.repeated
    BY <1>0, <1>9, <1>1, <2>1 DEF SeenInv
  <2>3. ASSUME page = after PROVE walk'.owed \subseteq walk'.seen
    <3>1. CASE c = "tree"
      <4> SUFFICES ASSUME NEW x \in Items(c), ~PastCursor(x, cursor) PROVE x \in walk.seen
        BY <1>1, <1>3, <2>3, <3>1
      <4>1. cursor # None /\ cursor \in ItemsOf(c)
        BY <1>6, <1>11 DEF PastCursor
      <4>2. cursor[1] <= tree.created /\ x[1] = tree.created /\ cursor[1] \in Nat /\ x[1] \in Nat
        BY <1>0, <1>9, <1>2, <1>5, <3>1, <4>1 DEF TreeOwedInv
      <4>3. cursor[1] = tree.created
        BY <4>1, <4>2 DEF PastCursor
      <4> QED BY <1>0, <1>9, <3>1, <4>1, <4>3 DEF TreeOwedInv, Reached
    <3>2. CASE c # "tree"
      <4> SUFFICES ASSUME NEW x \in walk.owed PROVE x \in walk.seen \cup page
        BY <1>1, <3>2
      <4>1. x \in Items(c) /\ Reached(x)
        BY <1>0, <1>9, <3>2 DEF OwedInv
      <4> QED BY <1>3, <2>3, <4>1 DEF Reached
    <3> QED BY <3>1, <3>2
  <2>4. ASSUME page # after, NEW x \in walk.seen \cup page PROVE ~PastCursor(x, last)
    <3>1. last \in ItemsOf(c) /\ last \in after /\ PastCursor(last, cursor)
      BY <1>3, <1>4, <2>4
    <3>2. x \in ItemsOf(c)
      BY <1>3, <1>4, <1>6, <1>11
    <3>3. CASE x \in page
      <4>1. x = last \/ SortedBefore(x, last)
        BY <1>4, <2>4, <3>3
      <4>2. ~SortedBefore(last, x)
        BY <1>5, <3>1, <3>2, <4>1 DEF SortedBefore
      <4> QED BY <1>10, <3>1, <3>2, <4>2
    <3>4. CASE x \in walk.seen
      <4>1. cursor \in ItemsOf(c) /\ ~PastCursor(x, cursor)
        BY <1>6, <1>11, <1>12, <3>4
      <4>2. SortedBefore(cursor, last) /\ ~SortedBefore(cursor, x)
        BY <1>10, <3>1, <3>2, <4>1
      <4>3. ~SortedBefore(last, x)
        BY <1>5, <3>1, <3>2, <4>1, <4>2 DEF SortedBefore
      <4> QED BY <1>10, <3>1, <3>2, <4>3
    <3> QED BY <2>4, <3>3, <3>4
  <2> QED BY <1>1, <2>2, <2>3, <2>4 DEF SeenInv
<1>15. \A k : Items(k)' = Items(k)
  BY <1>0, <1>9 DEF vars, Items, TreeItem, RecordItem, OfKind
<1>16. OwedInv'
  <2> SUFFICES ASSUME page # after, c # "tree", NEW x \in walk.owed
               PROVE  x \in Items(c) /\ (x \in walk.seen \cup page \/ PastCursor(x, last))
    BY <1>1, <1>15 DEF OwedInv, Reached
  <2>1. x \in Items(c) /\ Reached(x)
    BY <1>0, <1>9 DEF OwedInv
  <2> QED BY <1>3, <1>13, <2>1 DEF Reached
<1>17. TreeOwedInv'
  <2> SUFFICES ASSUME page # after, c = "tree"
               PROVE  /\ last[1] <= tree.created
                      /\ \A x \in Items("tree") : x \in walk.seen \cup page \/ PastCursor(x, last)
    BY <1>0, <1>9, <1>1, <1>15 DEF TreeOwedInv, Reached
  <2>1. last[1] = tree.created /\ tree.created \in Nat
    BY <1>2, <1>3, <1>4, <1>0, <1>9 DEF WalkType
  <2>2. ASSUME NEW x \in Items(c) PROVE x \in walk.seen \cup page \/ PastCursor(x, last)
    <3>1. CASE PastCursor(x, cursor)
      BY <1>3, <1>13, <3>1
    <3>2. CASE ~PastCursor(x, cursor)
      <4>1. cursor # None /\ cursor \in ItemsOf(c)
        BY <1>6, <1>11, <3>2 DEF PastCursor
      <4>2. cursor[1] <= tree.created /\ x[1] = tree.created /\ cursor[1] \in Nat /\ x[1] \in Nat
        BY <1>0, <1>9, <1>2, <1>5, <4>1 DEF TreeOwedInv
      <4>3. cursor[1] = tree.created
        BY <3>2, <4>1, <4>2 DEF PastCursor
      <4> QED BY <1>0, <1>9, <3>2, <4>1, <4>3 DEF TreeOwedInv, Reached
    <3> QED BY <3>1, <3>2
  <2> QED BY <2>1, <2>2
<1> QED BY <1>14, <1>16, <1>17 DEF OwedOrSeen

\* The number of calls grows, and with it the times of records and trees.
LEMMA CallsGrow ==
    ASSUME RecordsInv, [RecordNext]_vars
    PROVE  calls' \in {calls, calls + 1}
BY DEF vars, RecordNext, Calls, Steps, Crash, RecordWorkflow, RecordSemantics, RecordManifest,
       RecordReproduction, ProposeCorrespondence, Call, Prepares, IntakeKnown, IntakeNew,
       IntakePropose, IntakeRaced, Correspond, CreateFile, FillFile

\* Records that are written in between, or a head that moves, take nothing away.
LEMMA WalkKept ==
    ASSUME RecordsInv, WalkInv, UNCHANGED walk,
           MoveHead \/ ([RecordNext]_vars /\ UNCHANGED tree)
    PROVE  WalkInv'
<1>0. WalkType /\ calls \in Nat
  BY DEF WalkInv, RecordsInv, TypeInv
<1>1. Grows(files, files')
  BY OneFileAtATime
<1>2. WalkType'
  <2>1. CASE MoveHead
    <3>1. PICK paths \in SUBSET Paths : tree' = [created |-> calls + 1, paths |-> paths] /\ calls' = calls + 1
      BY <2>1 DEF MoveHead
    <3> QED BY <1>0, <3>1 DEF WalkType, ItemsOf, Paths
  <2>2. CASE [RecordNext]_vars /\ UNCHANGED tree
    BY <1>0, <2>2, CallsGrow DEF WalkType, ItemsOf, Paths
  <2> QED BY <2>1, <2>2
<1>3. SUFFICES ASSUME SeenInv, OwedInv, TreeOwedInv PROVE SeenInv' /\ OwedInv' /\ TreeOwedInv'
  BY <1>2 DEF WalkInv, OneOrder, OwedOrSeen, OrdersAgree, Paths
<1>4. OwedInv'
  <2> SUFFICES ASSUME NEW c, c # "tree", NEW x \in Items(c) PROVE x \in Items(c)'
    BY <1>3 DEF OwedInv, Reached
  <2>1. PICK n \in OfKind(c) : x = <<files[n].record.created, 0>>
    BY DEF Items, RecordItem
  <2>2. n \in OfKind(c)' /\ files'[n].record = files[n].record
    BY <1>1, <2>1 DEF OfKind, Grows
  <2> QED BY <2>1, <2>2 DEF Items, RecordItem
<1>5. TreeOwedInv'
  <2>1. CASE MoveHead
    <3>1. PICK paths \in SUBSET Paths : tree' = [created |-> calls + 1, paths |-> paths]
      BY <2>1 DEF MoveHead
    <3> SUFFICES ASSUME ~walk.ended, walk.on = "tree", walk.cursor # None
                 PROVE  walk.cursor[1] <= tree'.created /\ walk.cursor[1] # tree'.created
      BY <3>1 DEF TreeOwedInv
    <3>2. walk.cursor[1] \in Nat /\ walk.cursor[1] <= tree.created /\ tree.created <= calls /\ tree.created \in Nat
      BY <1>0, <1>3 DEF WalkType, ItemsOf, TreeOwedInv
    <3> QED BY <1>0, <3>1, <3>2
  <2>2. CASE UNCHANGED tree
    BY <1>3, <2>2 DEF TreeOwedInv, Items, TreeItem, Reached
  <2> QED BY <2>1, <2>2
<1> QED BY <1>3, <1>4, <1>5 DEF SeenInv

\* A walk begins owed everything there is, and ends owed nothing.
LEMMA WalkTurns ==
    ASSUME RecordsInv, WalkInv, EndWalk \/ \E c \in Collections : BeginWalk(c)
    PROVE  WalkInv'
<1>0. /\ UNCHANGED <<vars, tree>>
      /\ \E c \in Collections \cup {None} : \E owed \in {{}, Items(c)} :
             walk' = [on |-> c, cursor |-> None, ended |-> FALSE, seen |-> {}, owed |-> owed, repeated |-> FALSE]
  <2>1. CASE EndWalk
    BY <2>1 DEF EndWalk, NoWalk
  <2>2. ASSUME NEW c \in Collections, BeginWalk(c)
        PROVE  /\ UNCHANGED <<vars, tree>>
               /\ walk' = [on |-> c, cursor |-> None, ended |-> FALSE, seen |-> {}, owed |-> Items(c), repeated |-> FALSE]
    BY <2>2 DEF BeginWalk, NoWalk
  <2> QED BY <2>1, <2>2
<1>1. WalkType'
  BY <1>0 DEF WalkInv, WalkType, vars, ItemsOf
<1>2. SeenInv' /\ TreeOwedInv'
  BY <1>0 DEF SeenInv, TreeOwedInv
<1>3. OwedInv'
  <2>1. Items(walk'.on) = Items(walk.on)'
    BY <1>0 DEF vars, Items, TreeItem, RecordItem, OfKind
  <2> QED BY <1>0, <2>1 DEF OwedInv, Reached, PastCursor
<1> QED BY <1>1, <1>2, <1>3 DEF WalkInv, OwedOrSeen

\* The invariant of a walk, while records are written and the head moves.
THEOREM WalkInvariant ==
    PageSpec => []WalkInv
<1>1. PageInit => WalkInv
  BY DEF PageInit, Init, NoWalk, WalkInv, WalkType, OwedOrSeen, SeenInv, OwedInv, TreeOwedInv, ItemsOf
<1>2. RecordsInv /\ WalkInv /\ [PageNext]_pageVars => WalkInv'
  <2> SUFFICES ASSUME RecordsInv, WalkInv, [PageNext]_pageVars PROVE WalkInv'
    OBVIOUS
  <2>1. CASE ReadPage
    BY <2>1, PageKeeps
  <2>2. CASE MoveHead \/ (RecordNext /\ UNCHANGED <<tree, walk>>) \/ UNCHANGED pageVars
    BY <2>2, WalkKept DEF MoveHead, pageVars
  <2>3. CASE EndWalk \/ \E c \in Collections : BeginWalk(c)
    BY <2>3, WalkTurns
  <2> QED BY <2>1, <2>2, <2>3 DEF PageNext
<1> QED BY <1>1, <1>2, RecordsInvariant, PTL DEF PageSpec

\* A walk page by page shows every record there was when it began, every entry
\* of the tree it ended on and nothing twice (read-models/runtime.ts, pageItems),
\* the walk of a tree as long as its names sort by code units as localeCompare
\* sorts them.
THEOREM WalksAlwaysComplete ==
    PageSpec => []WalkIsComplete
<1>1. WalkInv => WalkIsComplete
  BY DEF WalkInv, OneOrder, OwedOrSeen, SeenInv, WalkIsComplete
<1> QED BY <1>1, WalkInvariant, PTL

=============================================================================
