---------------------- MODULE PatternAnnotationsProofs ----------------------
(***************************************************************************)
(* Proofs about PatternAnnotations, for every set of operators, patterns   *)
(* and artifacts, every bound on a history and however many requests end   *)
(* without an answer: no review that was acknowledged is lost, each stands *)
(* on what its operator had seen, the chains of records never dangle, and  *)
(* the manifest and the records implement AnnotationRegister.              *)
(***************************************************************************)
EXTENDS PatternAnnotations, SequenceTheorems, TLAPS

\* The steps that are taken under the lock.
Inside == {"locked", "open", "written", "saved"}

HoldersExclude == \A c \in Operators : pc[c] \in Inside => lock = c

\* What a form shows is a beginning of what the manifest holds.
FormsSaw ==
    \A c \in Operators : form[c] # None =>
        /\ form[c].handle \in Active[form[c].artifact]
        /\ IsPrefix(form[c].saw, History[form[c].handle])

\* What a request relies on at its steps.
RequestKnows(c) ==
    /\ pc[c] \notin {"idle", "looking"} => form[c] \in Form
    /\ pc[c] = "reading" => patterns[c] \in Artifacts
    /\ pc[c] \in {"waiting"} \cup Inside => snapshot[c] \in Artifacts
    /\ pc[c] \in {"open", "written", "saved"} =>
          loaded[c] \in [Handles -> Seq(Review)] /\ snapshot[c] = form[c].artifact
    /\ pc[c] \in {"open", "written"} =>
          manifest = loaded[c] /\ \A h \in Handles : WithinBound(manifest[h])
    /\ pc[c] \in {"written", "saved"} => loaded[c][Handle(c)] = form[c].saw
    /\ pc[c] = "written" => RecordOf(Handle(c), Extended(c)) \in objects
    /\ pc[c] = "saved" => manifest = [loaded[c] EXCEPT ![Handle(c)] = Extended(c)]

RequestsKnow == \A c \in Operators : RequestKnows(c)

AnnotationInv ==
    /\ TypeOK /\ HoldersExclude /\ RequestsKnow /\ FormsSaw
    /\ NothingDangles /\ AcksAreKept /\ BuiltOnWhatWasSeen

-----------------------------------------------------------------------------
(* Prefixes.                                                               *)

LEMMA PrefixOfItself ==
    ASSUME NEW S, NEW s \in Seq(S)
    PROVE  IsPrefix(s, s)
BY LenProperties DEF IsPrefix

LEMMA EmptyIsPrefix ==
    ASSUME NEW S, NEW s \in Seq(S)
    PROVE  IsPrefix(<<>>, s)
<1>1. Len(<<>>) = 0 /\ Len(s) \in Nat  BY LenProperties
<1>2. SubSeq(<<>>, 1, 0) = <<>> /\ SubSeq(s, 1, 0) = <<>>  BY SubSeqEmpty
<1> QED  BY <1>1, <1>2 DEF IsPrefix

LEMMA EqualLengthPrefix ==
    ASSUME NEW S, NEW s \in Seq(S), NEW t \in Seq(S), IsPrefix(s, t), Len(s) = Len(t)
    PROVE  s = t
BY SubSeqFull DEF IsPrefix

LEMMA AppendedPart ==
    ASSUME NEW S, NEW s \in Seq(S), NEW e \in S, NEW n \in 0 .. Len(s)
    PROVE  SubSeq(Append(s, e), 1, n) = SubSeq(s, 1, n)
<1>0. Len(s) \in Nat /\ <<e>> \in Seq(S)  BY LenProperties, SMT
<1>1. CASE n = 0
  BY <1>1, SubSeqEmpty
<1>2. CASE n # 0
  <2>1. n \in 1 .. Len(s) /\ 1 \in 1 .. Len(s)  BY <1>0, <1>2
  <2>2. Append(s, e) = s \o <<e>>  BY AppendIsConcat
  <2> QED  BY <1>0, <2>1, <2>2, SubSeqOfConcat1
<1> QED  BY <1>1, <1>2

LEMMA PrefixOfAppended ==
    ASSUME NEW S, NEW s \in Seq(S), NEW t \in Seq(S), NEW e \in S, IsPrefix(s, t)
    PROVE  IsPrefix(s, Append(t, e))
<1>1. Len(s) \in Nat /\ Len(t) \in Nat /\ Len(s) <= Len(t)  BY LenProperties DEF IsPrefix
<1>2. Len(Append(t, e)) = Len(t) + 1  BY AppendProperties
<1>3. SubSeq(Append(t, e), 1, Len(s)) = SubSeq(t, 1, Len(s))  BY <1>1, AppendedPart
<1> QED  BY <1>1, <1>2, <1>3 DEF IsPrefix

\* A chain of records is prolonged by the record of its next review.
LEMMA UnbrokenAppended ==
    ASSUME NEW h, NEW s \in Seq(Review), NEW r \in Review,
           Unbroken(h, s), RecordOf(h, Append(s, r)) \in objects
    PROVE  Unbroken(h, Append(s, r))
<1>1. Len(s) \in Nat /\ Append(s, r) \in Seq(Review) /\ Len(Append(s, r)) = Len(s) + 1
  BY LenProperties, AppendProperties
<1>2. ASSUME NEW n \in 1 .. Len(s) + 1
      PROVE  RecordOf(h, SubSeq(Append(s, r), 1, n)) \in objects
  <2>1. CASE n = Len(s) + 1
    BY <2>1, <1>1, SubSeqFull
  <2>2. CASE n # Len(s) + 1
    <3>1. n \in 1 .. Len(s) /\ n \in 0 .. Len(s)  BY <1>1, <2>2
    <3>2. SubSeq(Append(s, r), 1, n) = SubSeq(s, 1, n)  BY <3>1, AppendedPart
    <3> QED  BY <3>1, <3>2 DEF Unbroken
  <2> QED  BY <2>1, <2>2
<1> QED  BY <1>1, <1>2 DEF Unbroken

-----------------------------------------------------------------------------
(* The steps of a request, and what they leave alone.                      *)

\* The steps that neither write nor answer a review.
QuietStep(c) ==
    \/ \E h \in Handles : View(c, h) \/ ViewNothing(c, h)
    \/ MissManifest(c) \/ ReportLoss(c)
    \/ Submit(c) \/ ReadHash(c) \/ NotActive(c) \/ Busy(c) \/ Acquire(c) \/ Refuse(c) \/ Fault(c)

WritingStep(c) == Open(c) \/ WriteObject(c) \/ WriteManifest(c) \/ Acknowledge(c)

LEMMA StepIsQuietOrWriting ==
    ASSUME NEW c \in Operators, Step(c)
    PROVE  QuietStep(c) \/ WritingStep(c)
BY Zenon DEF Step, QuietStep, WritingStep

LEMMA QuietStepKeeps ==
    ASSUME NEW c \in Operators, QuietStep(c)
    PROVE  UNCHANGED <<artifact, manifest, objects, acks>>
BY DEF QuietStep, View, ViewNothing, MissManifest, ReportLoss, Submit, ReadHash, NotActive, Busy,
       Acquire, Refuse, Fault

\* What a step of one operator does to the request of another.
LEMMA OthersUntouched ==
    ASSUME NEW c \in Operators, NEW d \in Operators, d # c, TypeOK, Step(c)
    PROVE  /\ pc'[d] = pc[d] /\ form'[d] = form[d]
           /\ patterns'[d] = patterns[d] /\ snapshot'[d] = snapshot[d] /\ loaded'[d] = loaded[d]
<1>1. CASE \E h \in Handles : View(c, h) \/ ViewNothing(c, h)
  BY <1>1 DEF TypeOK, View, ViewNothing, Fill, Go, local
<1>2. CASE MissManifest(c) \/ ReportLoss(c) \/ Submit(c) \/ ReadHash(c)
  BY <1>2 DEF TypeOK, MissManifest, ReportLoss, Submit, ReadHash, Go, local
<1>3. CASE NotActive(c) \/ Busy(c) \/ Refuse(c)
  BY <1>3 DEF TypeOK, NotActive, Busy, Refuse, Return, Go
<1>4. CASE Acquire(c) \/ Open(c) \/ WriteObject(c) \/ WriteManifest(c)
  BY <1>4 DEF TypeOK, Acquire, Open, WriteObject, WriteManifest, Go, local
<1>5. CASE Acknowledge(c) \/ Fault(c)
  BY <1>5 DEF TypeOK, Acknowledge, Fault, Return, Go
<1> QED  BY <1>1, <1>2, <1>3, <1>4, <1>5, Zenon DEF Step

-----------------------------------------------------------------------------
(* Types.                                                                  *)

LEMMA InitAnnotationInv ==
    ASSUME AnnotationAssumption, Init
    PROVE  AnnotationInv
<1>1. TypeOK  BY DEF Init, TypeOK, Steps, AnnotationAssumption
<1>2. HoldersExclude /\ FormsSaw /\ RequestsKnow
  BY DEF Init, HoldersExclude, FormsSaw, RequestsKnow, RequestKnows, Inside
<1>3. NothingDangles /\ AcksAreKept /\ BuiltOnWhatWasSeen
  BY DEF Init, NothingDangles, AcksAreKept, BuiltOnWhatWasSeen
<1> QED  BY <1>1, <1>2, <1>3 DEF AnnotationInv

LEMMA GenesisType ==
    Genesis \in [Handles -> Seq(Review)]
<1>1. <<>> \in Seq(Review)  BY EmptySeq
<1> QED  BY <1>1 DEF Genesis

LEMMA AnnotationNone ==
    ASSUME AnnotationAssumption
    PROVE  None \notin Operators /\ None \notin Form /\ None \notin [Handles -> Seq(Review)]
BY DEF AnnotationAssumption

\* In a request that has loaded the state, what it adds is well typed.
LEMMA ExtendedType ==
    ASSUME NEW c \in Operators, RequestKnows(c), pc[c] \in {"open", "written", "saved"}
    PROVE  /\ form[c] \in Form /\ Handle(c) \in Handles
           /\ Mine(c) \in Review /\ loaded[c][Handle(c)] \in Seq(Review)
           /\ Extended(c) \in Seq(Review)
           /\ RecordOf(Handle(c), Extended(c)) \in Record
           /\ [loaded[c] EXCEPT ![Handle(c)] = Extended(c)] \in [Handles -> Seq(Review)]
<1>1. form[c] \in Form /\ Handle(c) \in Handles  BY DEF RequestKnows, Form, Handle
<1>2. Mine(c) \in Review  BY DEF RequestKnows, Inside, Mine, Review
<1>3. loaded[c] \in [Handles -> Seq(Review)]  BY DEF RequestKnows
<1>4. Extended(c) \in Seq(Review)  BY <1>1, <1>2, <1>3, AppendProperties DEF Extended
<1> QED  BY <1>1, <1>2, <1>3, <1>4 DEF RecordOf, Record

LEMMA FillTypes ==
    ASSUME AnnotationAssumption, TypeOK, NEW c \in Operators, NEW h \in Handles,
           NEW reviews \in Seq(Review), Fill(c, h, reviews)
    PROVE  form' \in [Operators -> Form \cup {None}]
<1>1. [handle |-> h, saw |-> reviews, artifact |-> artifact] \in Form  BY DEF TypeOK, Form
<1> QED  BY <1>1 DEF TypeOK, Fill

LEMMA ReturnTypes ==
    ASSUME TypeOK, NEW c \in Operators, Return(c)
    PROVE  /\ pc' \in [Operators -> Steps] /\ lock' \in Operators \cup {None}
           /\ patterns' \in [Operators -> Artifacts \cup {None}]
           /\ snapshot' \in [Operators -> Artifacts \cup {None}]
           /\ loaded' \in [Operators -> [Handles -> Seq(Review)] \cup {None}]
BY DEF TypeOK, Return, Go, Steps

LEMMA QuietTypes ==
    ASSUME AnnotationAssumption, AnnotationInv, NEW c \in Operators, QuietStep(c)
    PROVE  TypeOK'
<1>0. TypeOK /\ RequestKnows(c)  BY DEF AnnotationInv, RequestsKnow
<1>1. ASSUME NEW h \in Handles, View(c, h)
      PROVE  TypeOK'
  <2>1. manifest[h] \in Seq(Review)  BY <1>0, <1>1 DEF TypeOK, View
  <2>2. form' \in [Operators -> Form \cup {None}]  BY <1>0, <1>1, <2>1, FillTypes DEF View
  <2> QED  BY <1>0, <1>1, <2>2 DEF TypeOK, View, local
<1>2. ASSUME NEW h \in Handles, ViewNothing(c, h)
      PROVE  TypeOK'
  <2>1. <<>> \in Seq(Review)  BY EmptySeq
  <2>2. form' \in [Operators -> Form \cup {None}]  BY <1>0, <1>2, <2>1, FillTypes DEF ViewNothing
  <2> QED  BY <1>0, <1>2, <2>2 DEF TypeOK, ViewNothing, Go, Steps, local
<1>3. CASE MissManifest(c) \/ ReportLoss(c) \/ Acquire(c)
  <2>1. pc' \in [Operators -> Steps] /\ lock' \in Operators \cup {None}
    BY <1>0, <1>3 DEF TypeOK, MissManifest, ReportLoss, Acquire, Go, Steps
  <2> QED  BY <1>0, <1>3, <2>1 DEF TypeOK, MissManifest, ReportLoss, Acquire, local
<1>4. CASE Submit(c)
  <2>1. pc' \in [Operators -> Steps] /\ patterns' \in [Operators -> Artifacts \cup {None}]
    BY <1>0, <1>4 DEF TypeOK, Submit, Go, Steps
  <2> QED  BY <1>0, <1>4, <2>1 DEF TypeOK, Submit
<1>7. CASE ReadHash(c)
  <2>1. pc' \in [Operators -> Steps] /\ snapshot' \in [Operators -> Artifacts \cup {None}]
    BY <1>0, <1>7 DEF TypeOK, ReadHash, Go, Steps
  <2> QED  BY <1>0, <1>7, <2>1 DEF TypeOK, ReadHash
<1>5. CASE NotActive(c) \/ Busy(c) \/ Refuse(c)
  BY <1>0, <1>5, ReturnTypes DEF TypeOK, NotActive, Busy, Refuse
<1>6. CASE Fault(c)
  <2>1. faults' \in 0 .. MaxFaults  BY <1>0, <1>6 DEF TypeOK, Fault, AnnotationAssumption
  <2> QED  BY <1>0, <1>6, <2>1, ReturnTypes DEF TypeOK, Fault
<1> QED  BY <1>1, <1>2, <1>3, <1>4, <1>5, <1>6, <1>7, Zenon DEF QuietStep

LEMMA WritingTypes ==
    ASSUME AnnotationAssumption, AnnotationInv, NEW c \in Operators, WritingStep(c)
    PROVE  TypeOK'
<1>0. TypeOK /\ RequestKnows(c)  BY DEF AnnotationInv, RequestsKnow
<1>1. CASE Open(c)
  <2>1. manifest' \in [Handles -> Seq(Review)]  BY <1>0, <1>1, GenesisType DEF TypeOK, Open
  <2> QED  BY <1>0, <1>1, <2>1 DEF TypeOK, Open, Go, Steps
<1>2. CASE WriteObject(c)
  <2>1. RecordOf(Handle(c), Extended(c)) \in Record  BY <1>0, <1>2, ExtendedType DEF WriteObject
  <2> QED  BY <1>0, <1>2, <2>1 DEF TypeOK, WriteObject, Go, Steps, local
<1>3. CASE WriteManifest(c)
  <2>1. manifest' \in [Handles -> Seq(Review)]  BY <1>0, <1>3, ExtendedType DEF WriteManifest
  <2> QED  BY <1>0, <1>3, <2>1 DEF TypeOK, WriteManifest, Go, Steps, local
<1>4. CASE Acknowledge(c)
  <2>1. form[c] \in Form /\ Extended(c) \in Seq(Review)  BY <1>0, <1>4, ExtendedType DEF Acknowledge
  <2>2. acks' \subseteq Ack  BY <1>0, <1>4, <2>1 DEF TypeOK, Acknowledge, Ack
  <2>3. form' \in [Operators -> Form \cup {None}]  BY <1>0, <1>4 DEF TypeOK, Acknowledge
  <2> QED  BY <1>0, <1>4, <2>2, <2>3, ReturnTypes DEF TypeOK, Acknowledge
<1> QED  BY <1>1, <1>2, <1>3, <1>4 DEF WritingStep

LEMMA DeriveTypes ==
    ASSUME TypeOK, NEW a \in Artifacts, Derive(a)
    PROVE  TypeOK'
BY DEF TypeOK, Derive, local

-----------------------------------------------------------------------------
(* The lock.                                                               *)

LEMMA HoldersExcludeNext ==
    ASSUME AnnotationAssumption, AnnotationInv, NEW c \in Operators, Step(c)
    PROVE  HoldersExclude'
<1>0. TypeOK /\ HoldersExclude  BY DEF AnnotationInv
<1>1. ASSUME NEW d \in Operators, pc'[d] \in Inside, d # c
      PROVE  lock' = d
  <2>1. pc[d] \in Inside /\ lock = d  BY <1>0, <1>1, OthersUntouched DEF HoldersExclude
  <2>2. CASE QuietStep(c)
    <3>1. d # None  BY DEF AnnotationAssumption
    <3> QED
      BY <1>1, <2>1, <2>2, <3>1 DEF QuietStep, View, ViewNothing, MissManifest, ReportLoss, Submit,
         ReadHash, NotActive, Busy, Acquire, Refuse, Fault, Return
  <2>3. CASE WritingStep(c)
    BY <1>1, <2>1, <2>3 DEF WritingStep, Open, WriteObject, WriteManifest, Acknowledge, Return
  <2> QED  BY <2>2, <2>3, StepIsQuietOrWriting
<1>2. ASSUME pc'[c] \in Inside
      PROVE  lock' = c
  <2>1. CASE QuietStep(c)
    BY <1>0, <1>2, <2>1 DEF TypeOK, HoldersExclude, QuietStep, View, ViewNothing, MissManifest, ReportLoss,
       Submit, ReadHash, NotActive, Busy, Acquire, Refuse, Fault, Return, Go, Inside
  <2>2. CASE WritingStep(c)
    BY <1>0, <1>2, <2>2 DEF TypeOK, HoldersExclude, WritingStep, Open, WriteObject, WriteManifest,
       Acknowledge, Return, Go, Inside
  <2> QED  BY <2>1, <2>2, StepIsQuietOrWriting
<1> QED  BY <1>1, <1>2 DEF HoldersExclude

-----------------------------------------------------------------------------
(* What requests know.                                                     *)

\* While one operator writes, no other is inside the lock.
LEMMA WriterIsAlone ==
    ASSUME HoldersExclude, NEW c \in Operators, WritingStep(c), NEW d \in Operators, d # c
    PROVE  pc[d] \notin Inside
BY DEF HoldersExclude, WritingStep, Open, WriteObject, WriteManifest, Acknowledge, Inside

LEMMA RequestsOfOthers ==
    ASSUME AnnotationInv, NEW c \in Operators, Step(c), NEW d \in Operators, d # c
    PROVE  RequestKnows(d)'
<1>0. TypeOK /\ HoldersExclude /\ RequestKnows(d)  BY DEF AnnotationInv, RequestsKnow
<1>1. /\ pc'[d] = pc[d] /\ form'[d] = form[d]
      /\ patterns'[d] = patterns[d] /\ snapshot'[d] = snapshot[d] /\ loaded'[d] = loaded[d]
  BY <1>0, OthersUntouched
<1>2. Handle(d)' = Handle(d) /\ Mine(d)' = Mine(d)  BY <1>1 DEF Handle, Mine
<1>3. Extended(d)' = Extended(d)  BY <1>1, <1>2 DEF Extended
<1>4. CASE UNCHANGED <<manifest, objects>>
  BY <1>0, <1>1, <1>2, <1>3, <1>4 DEF RequestKnows
<1>5. CASE pc[d] \notin Inside
  BY <1>0, <1>1, <1>5 DEF RequestKnows, Inside
<1> QED  BY <1>0, <1>4, <1>5, StepIsQuietOrWriting, QuietStepKeeps, WriterIsAlone

LEMMA RequestAfterQuiet ==
    ASSUME AnnotationAssumption, AnnotationInv, NEW c \in Operators, QuietStep(c)
    PROVE  RequestKnows(c)'
<1>0. TypeOK /\ RequestKnows(c)  BY DEF AnnotationInv, RequestsKnow
<1>1. CASE \/ \E h \in Handles : View(c, h) \/ ViewNothing(c, h)
           \/ MissManifest(c) \/ ReportLoss(c) \/ NotActive(c) \/ Busy(c) \/ Refuse(c) \/ Fault(c)
  <2>1. pc'[c] \in {"idle", "looking"}
    BY <1>0, <1>1 DEF TypeOK, View, ViewNothing, MissManifest, ReportLoss, NotActive, Busy, Refuse,
       Fault, Return, Go
  <2> QED  BY <2>1 DEF RequestKnows, Inside
<1>2. CASE Submit(c)
  <2>1. /\ pc'[c] = "reading" /\ form'[c] = form[c] /\ form[c] \in Form
        /\ patterns'[c] \in Artifacts
    BY <1>0, <1>2 DEF TypeOK, Submit, Go
  <2> QED  BY <2>1 DEF RequestKnows, Inside
<1>3. CASE ReadHash(c)
  <2>1. /\ pc'[c] = "waiting" /\ form'[c] = form[c] /\ form[c] \in Form
        /\ snapshot'[c] \in Artifacts
    BY <1>0, <1>3 DEF TypeOK, ReadHash, Go, RequestKnows
  <2> QED  BY <2>1 DEF RequestKnows, Inside
<1>4. CASE Acquire(c)
  <2>1. /\ pc'[c] = "locked" /\ form'[c] = form[c] /\ form[c] \in Form
        /\ snapshot'[c] = snapshot[c] /\ snapshot[c] \in Artifacts
    BY <1>0, <1>4 DEF TypeOK, Acquire, Go, RequestKnows, local
  <2> QED  BY <2>1 DEF RequestKnows, Inside
<1> QED  BY <1>1, <1>2, <1>3, <1>4, Zenon DEF QuietStep

\* The revision of a form that is accepted is that of what it showed.
LEMMA SameRevisionSame ==
    ASSUME AnnotationAssumption, AnnotationInv, NEW c \in Operators, pc[c] = "open", SameRevision(c)
    PROVE  loaded[c][Handle(c)] = form[c].saw
<1>1. /\ form[c] \in Form /\ loaded[c] \in [Handles -> Seq(Review)] /\ manifest = loaded[c]
      /\ form[c] # None => IsPrefix(form[c].saw, History[form[c].handle])
  BY DEF AnnotationInv, RequestsKnow, RequestKnows, FormsSaw
<1>2. form[c].saw \in Seq(Review) /\ Handle(c) \in Handles  BY <1>1 DEF Form, Handle
<1>3. manifest # None /\ form[c] # None => IsPrefix(form[c].saw, loaded[c][Handle(c)])
  BY <1>1 DEF History, Handle
<1>4. manifest # None /\ form[c] # None
  BY <1>1, AnnotationNone
<1> QED  BY <1>1, <1>2, <1>3, <1>4, EqualLengthPrefix DEF SameRevision

LEMMA RequestAfterWriting ==
    ASSUME AnnotationAssumption, AnnotationInv, NEW c \in Operators, WritingStep(c)
    PROVE  RequestKnows(c)'
<1>0. TypeOK /\ RequestKnows(c)  BY DEF AnnotationInv, RequestsKnow
<1>1. CASE Open(c)
  <2>1. /\ pc'[c] = "open" /\ form'[c] = form[c] /\ form[c] \in Form
        /\ snapshot'[c] = snapshot[c] /\ snapshot[c] \in Artifacts /\ snapshot[c] = form[c].artifact
        /\ loaded'[c] = manifest'
    BY <1>0, <1>1 DEF TypeOK, Open, Go, RequestKnows, Inside, SameSnapshot
  <2>2. manifest' \in [Handles -> Seq(Review)]  BY <1>0, <1>1, GenesisType DEF TypeOK, Open
  <2>3. \A h \in Handles : Len(manifest'[h]) <= MaxHistory
    <3>1. CASE manifest = None
      BY <1>1, <3>1, EmptySeq DEF Open, Genesis, AnnotationAssumption
    <3>2. CASE manifest # None
      BY <1>1, <3>2 DEF Open, Readable, WithinBound
    <3> QED  BY <3>1, <3>2
  <2> QED  BY <2>1, <2>2, <2>3 DEF RequestKnows, Inside, WithinBound
<1>2. CASE WriteObject(c)
  <2>1. /\ pc'[c] = "written" /\ form' = form /\ snapshot' = snapshot /\ loaded' = loaded
        /\ manifest' = manifest /\ pc[c] = "open"
    BY <1>0, <1>2 DEF TypeOK, WriteObject, Go, local
  <2>2. Handle(c)' = Handle(c) /\ Extended(c)' = Extended(c)
    BY <2>1 DEF Handle, Extended, Mine
  <2>3. RecordOf(Handle(c), Extended(c)) \in objects'  BY <1>2 DEF WriteObject
  <2>4. loaded[c][Handle(c)] = form[c].saw  BY <1>2, SameRevisionSame DEF WriteObject
  <2> QED  BY <1>0, <2>1, <2>2, <2>3, <2>4 DEF RequestKnows, Inside
<1>3. CASE WriteManifest(c)
  <2>1. /\ pc'[c] = "saved" /\ form' = form /\ snapshot' = snapshot /\ loaded' = loaded
        /\ manifest' = [loaded[c] EXCEPT ![Handle(c)] = Extended(c)] /\ pc[c] = "written"
    BY <1>0, <1>3 DEF TypeOK, WriteManifest, Go, local
  <2>2. Handle(c)' = Handle(c) /\ Extended(c)' = Extended(c)
    BY <2>1 DEF Handle, Extended, Mine
  <2> QED  BY <1>0, <2>1, <2>2 DEF RequestKnows, Inside
<1>4. CASE Acknowledge(c)
  <2>1. pc'[c] = "idle"  BY <1>0, <1>4 DEF TypeOK, Acknowledge, Return, Go
  <2> QED  BY <2>1 DEF RequestKnows, Inside
<1> QED  BY <1>1, <1>2, <1>3, <1>4 DEF WritingStep

LEMMA RequestsKnowNext ==
    ASSUME AnnotationAssumption, AnnotationInv, NEW c \in Operators, Step(c)
    PROVE  RequestsKnow'
<1>1. ASSUME NEW d \in Operators
      PROVE  RequestKnows(d)'
  BY RequestsOfOthers, RequestAfterQuiet, RequestAfterWriting, StepIsQuietOrWriting
<1> QED  BY <1>1 DEF RequestsKnow

-----------------------------------------------------------------------------
(* The history.                                                            *)

LEMMA HistoryType ==
    ASSUME TypeOK
    PROVE  History \in [Handles -> Seq(Review)]
BY GenesisType DEF TypeOK, History

\* The history changes only where the manifest is written after an object.
LEMMA HistoryChange ==
    ASSUME AnnotationAssumption, AnnotationInv, NEW c \in Operators, Step(c)
    PROVE  \/ History' = History
           \/ /\ WriteManifest(c) /\ History = loaded[c] /\ manifest # None
              /\ History' = [History EXCEPT ![Handle(c)] = Append(@, Mine(c))]
<1>0. TypeOK /\ RequestKnows(c)  BY DEF AnnotationInv, RequestsKnow
<1>1. CASE UNCHANGED manifest
  BY <1>1 DEF History
<1>2. CASE Open(c)
  BY <1>2, GenesisType, AnnotationNone DEF Open, History
<1>3. CASE WriteManifest(c)
  <2>1. manifest = loaded[c] /\ loaded[c] \in [Handles -> Seq(Review)] /\ Handle(c) \in Handles
    BY <1>0, <1>3, ExtendedType DEF WriteManifest, RequestKnows
  <2>2. manifest' \in [Handles -> Seq(Review)]
    BY <1>0, <1>3, ExtendedType DEF WriteManifest
  <2>3. manifest # None /\ manifest' # None  BY <2>1, <2>2, AnnotationNone
  <2>4. History = loaded[c] /\ History' = manifest'  BY <2>1, <2>3 DEF History
  <2> QED  BY <1>3, <2>1, <2>3, <2>4 DEF WriteManifest, Extended
<1>4. UNCHANGED manifest \/ Open(c) \/ WriteManifest(c)
  <2>1. CASE QuietStep(c)  BY <2>1, QuietStepKeeps
  <2>2. CASE WritingStep(c)  BY <2>2 DEF WritingStep, WriteObject, Acknowledge
  <2> QED  BY <2>1, <2>2, StepIsQuietOrWriting
<1> QED  BY <1>1, <1>2, <1>3, <1>4

\* The history is only ever appended to.
LEMMA HistoryGrows ==
    ASSUME AnnotationAssumption, AnnotationInv, NEW c \in Operators, Step(c),
           NEW h \in Handles, NEW s \in Seq(Review), IsPrefix(s, History[h])
    PROVE  IsPrefix(s, History'[h])
<1>0. TypeOK /\ RequestKnows(c)  BY DEF AnnotationInv, RequestsKnow
<1>1. CASE History' = History  BY <1>1
<1>2. CASE /\ WriteManifest(c) /\ History = loaded[c] /\ manifest # None
           /\ History' = [History EXCEPT ![Handle(c)] = Append(@, Mine(c))]
  <2>1. Mine(c) \in Review  BY <1>0, <1>2, ExtendedType DEF WriteManifest
  <2>2. History[h] \in Seq(Review)  BY <1>0, HistoryType
  <2>3. IsPrefix(s, Append(History[h], Mine(c)))  BY <2>1, <2>2, PrefixOfAppended
  <2>4. History'[h] = History[h] \/ History'[h] = Append(History[h], Mine(c))
    BY <1>0, <1>2, HistoryType
  <2> QED  BY <2>3, <2>4
<1> QED  BY <1>1, <1>2, HistoryChange

LEMMA FormsSawNext ==
    ASSUME AnnotationAssumption, AnnotationInv, NEW c \in Operators, Step(c)
    PROVE  FormsSaw'
<1>0. TypeOK /\ FormsSaw  BY DEF AnnotationInv
<1>1. ASSUME NEW d \in Operators, form'[d] = form[d], form[d] # None
      PROVE  /\ form'[d].handle \in Active[form'[d].artifact]
             /\ IsPrefix(form'[d].saw, History'[form'[d].handle])
  <2>1. form[d].saw \in Seq(Review) /\ form[d].handle \in Handles  BY <1>0, <1>1 DEF TypeOK, Form
  <2> QED  BY <1>0, <1>1, <2>1, HistoryGrows DEF FormsSaw
<1>2. CASE \E h \in Handles : View(c, h) \/ ViewNothing(c, h)
  <2>1. PICK h \in Handles : View(c, h) \/ ViewNothing(c, h)  BY <1>2
  <2>2. History' = History /\ History[h] \in Seq(Review)
    BY <1>0, <2>1, HistoryType DEF View, ViewNothing, History
  <2>3. /\ form'[c] = [handle |-> h, saw |-> form'[c].saw, artifact |-> artifact]
        /\ h \in Active[artifact]
    BY <1>0, <2>1 DEF TypeOK, View, ViewNothing, Fill
  <2>4. IsPrefix(form'[c].saw, History[h])
    <3>1. CASE View(c, h)
      <4>1. form'[c].saw = History[h]  BY <1>0, <3>1 DEF TypeOK, View, Fill, History
      <4> QED  BY <2>2, <4>1, PrefixOfItself
    <3>2. CASE ViewNothing(c, h)
      <4>1. form'[c].saw = <<>>  BY <1>0, <3>2 DEF TypeOK, ViewNothing, Fill
      <4> QED  BY <2>2, <4>1, EmptyIsPrefix
    <3> QED  BY <2>1, <3>1, <3>2
  <2>5. \A d \in Operators : d # c => form'[d] = form[d]
    BY <1>0, <2>1 DEF TypeOK, View, ViewNothing, Fill
  <2> QED  BY <1>1, <2>2, <2>3, <2>4, <2>5 DEF FormsSaw
<1>3. CASE Acknowledge(c)
  <2>1. form'[c] = None /\ \A d \in Operators : d # c => form'[d] = form[d]
    BY <1>0, <1>3 DEF TypeOK, Acknowledge
  <2> QED  BY <1>1, <2>1 DEF FormsSaw
<1>4. CASE form' = form
  BY <1>1, <1>4 DEF FormsSaw
<1>5. form' = form \/ Acknowledge(c) \/ \E h \in Handles : View(c, h) \/ ViewNothing(c, h)
  BY DEF Step, MissManifest, ReportLoss, Submit, ReadHash, NotActive, Busy, Acquire, Open, Refuse,
     WriteObject, WriteManifest, Fault
<1> QED  BY <1>2, <1>3, <1>4, <1>5

-----------------------------------------------------------------------------
(* The safety properties.                                                  *)

LEMMA NothingDanglesNext ==
    ASSUME AnnotationAssumption, AnnotationInv, NEW c \in Operators, Step(c)
    PROVE  NothingDangles'
<1>0. TypeOK /\ RequestKnows(c) /\ NothingDangles  BY DEF AnnotationInv, RequestsKnow
<1>1. CASE UNCHANGED <<manifest, objects>>
  BY <1>0, <1>1 DEF NothingDangles, Unbroken
<1>2. CASE Open(c)
  <2>1. CASE manifest # None  BY <1>1, <1>2, <2>1 DEF Open
  <2>2. CASE manifest = None
    <3>1. manifest' = Genesis /\ Genesis # None  BY <1>2, <2>2, GenesisType, AnnotationNone DEF Open
    <3>2. \A h \in Handles : Len(manifest'[h]) = 0  BY <3>1, EmptySeq DEF Genesis
    <3> QED  BY <3>1, <3>2 DEF NothingDangles, Unbroken
  <2> QED  BY <2>1, <2>2
<1>3. CASE WriteObject(c)
  <2>1. manifest' = manifest /\ manifest # None /\ objects \subseteq objects'
    BY <1>0, <1>3, AnnotationNone DEF WriteObject, RequestKnows
  <2> QED  BY <1>0, <2>1 DEF NothingDangles, Unbroken
<1>4. CASE WriteManifest(c)
  <2>1. /\ manifest = loaded[c] /\ objects' = objects
        /\ manifest' = [loaded[c] EXCEPT ![Handle(c)] = Extended(c)]
        /\ RecordOf(Handle(c), Extended(c)) \in objects
    BY <1>0, <1>4 DEF WriteManifest, RequestKnows
  <2>2. /\ Handle(c) \in Handles /\ Mine(c) \in Review /\ loaded[c][Handle(c)] \in Seq(Review)
        /\ loaded[c] \in [Handles -> Seq(Review)] /\ manifest' \in [Handles -> Seq(Review)]
    BY <1>0, <1>4, <2>1, ExtendedType DEF WriteManifest, RequestKnows
  <2>3. manifest # None /\ manifest' # None  BY <2>1, <2>2, AnnotationNone
  <2>4. \A h \in Handles : Unbroken(h, manifest[h])  BY <1>0, <2>3 DEF NothingDangles
  <2>5. Unbroken(Handle(c), Extended(c))
    BY <2>1, <2>2, <2>4, UnbrokenAppended DEF Extended
  <2>6. \A h \in Handles : Unbroken(h, manifest'[h])
    BY <2>1, <2>2, <2>4, <2>5
  <2> QED  BY <2>1, <2>3, <2>6 DEF NothingDangles, Unbroken
<1>5. UNCHANGED <<manifest, objects>> \/ Open(c) \/ WriteObject(c) \/ WriteManifest(c)
  <2>1. CASE QuietStep(c)  BY <2>1, QuietStepKeeps
  <2>2. CASE WritingStep(c)  BY <2>2 DEF WritingStep, Acknowledge
  <2> QED  BY <2>1, <2>2, StepIsQuietOrWriting
<1> QED  BY <1>1, <1>2, <1>3, <1>4, <1>5

LEMMA ManifestStays ==
    ASSUME AnnotationAssumption, AnnotationInv, NEW c \in Operators, Step(c), manifest # None
    PROVE  manifest' # None
<1>0. TypeOK /\ RequestKnows(c)  BY DEF AnnotationInv, RequestsKnow
<1>1. CASE QuietStep(c)  BY <1>1, QuietStepKeeps
<1>2. CASE WriteManifest(c)
  BY <1>0, <1>2, ExtendedType, AnnotationNone DEF WriteManifest
<1>3. CASE Open(c) \/ WriteObject(c) \/ Acknowledge(c)
  BY <1>3 DEF Open, WriteObject, Acknowledge
<1> QED  BY <1>1, <1>2, <1>3, StepIsQuietOrWriting DEF WritingStep

\* What is acknowledged is what the manifest holds at that time.
LEMMA AcknowledgedIsSaved ==
    ASSUME AnnotationAssumption, AnnotationInv, NEW c \in Operators, Acknowledge(c)
    PROVE  /\ manifest # None /\ form[c] \in Form /\ Handle(c) \in Handles
           /\ manifest[Handle(c)] = Extended(c) /\ Extended(c) \in Seq(Review)
           /\ Extended(c) = Append(form[c].saw, [by |-> c, artifact |-> form[c].artifact])
           /\ form[c].handle \in Active[form[c].artifact]
<1>1. /\ form[c] \in Form /\ Handle(c) \in Handles /\ Extended(c) \in Seq(Review)
      /\ loaded[c] \in [Handles -> Seq(Review)]
      /\ [loaded[c] EXCEPT ![Handle(c)] = Extended(c)] \in [Handles -> Seq(Review)]
      /\ manifest = [loaded[c] EXCEPT ![Handle(c)] = Extended(c)]
      /\ loaded[c][Handle(c)] = form[c].saw /\ snapshot[c] = form[c].artifact
  BY ExtendedType DEF AnnotationInv, RequestsKnow, RequestKnows, Acknowledge
<1>2. manifest # None /\ form[c] # None  BY <1>1, AnnotationNone
<1>3. form[c].handle \in Active[form[c].artifact]  BY <1>2 DEF AnnotationInv, FormsSaw
<1> QED  BY <1>1, <1>2, <1>3 DEF Extended, Mine

LEMMA AcksAreKeptNext ==
    ASSUME AnnotationAssumption, AnnotationInv, NEW c \in Operators, Step(c)
    PROVE  AcksAreKept'
<1>0. TypeOK /\ AcksAreKept  BY DEF AnnotationInv
<1>1. ASSUME NEW a \in acks
      PROVE  manifest' # None /\ IsPrefix(a.reviews, manifest'[a.form.handle])
  <2>1. a.reviews \in Seq(Review) /\ a.form.handle \in Handles
    BY <1>0 DEF TypeOK, Ack, Form
  <2>2. manifest # None /\ IsPrefix(a.reviews, History[a.form.handle])
    BY <1>0 DEF AcksAreKept, History
  <2>3. manifest' # None  BY <2>2, ManifestStays
  <2>4. IsPrefix(a.reviews, History'[a.form.handle])  BY <2>1, <2>2, HistoryGrows
  <2> QED  BY <2>3, <2>4 DEF History
<1>2. CASE Acknowledge(c)
  <2>1. /\ acks' = acks \cup {[by |-> c, form |-> form[c], reviews |-> Extended(c)]}
        /\ manifest' = manifest
    BY <1>2 DEF Acknowledge
  <2>2. /\ manifest # None /\ manifest[form[c].handle] = Extended(c)
        /\ IsPrefix(Extended(c), manifest[form[c].handle])
    BY <1>2, AcknowledgedIsSaved, PrefixOfItself DEF Handle
  <2> QED  BY <1>1, <2>1, <2>2 DEF AcksAreKept
<1>3. CASE acks' = acks
  BY <1>1, <1>3 DEF AcksAreKept
<1>4. Acknowledge(c) \/ acks' = acks
  <2>1. CASE QuietStep(c)  BY <2>1, QuietStepKeeps
  <2>2. CASE WritingStep(c)  BY <2>2 DEF WritingStep, Open, WriteObject, WriteManifest
  <2> QED  BY <2>1, <2>2, StepIsQuietOrWriting
<1> QED  BY <1>2, <1>3, <1>4

LEMMA BuiltOnWhatWasSeenNext ==
    ASSUME AnnotationAssumption, AnnotationInv, NEW c \in Operators, Step(c)
    PROVE  BuiltOnWhatWasSeen'
<1>0. BuiltOnWhatWasSeen  BY DEF AnnotationInv
<1>1. CASE Acknowledge(c)
  <2> DEFINE ack == [by |-> c, form |-> form[c], reviews |-> Extended(c)]
  <2>1. acks' = acks \cup {ack}  BY <1>1 DEF Acknowledge
  <2>2. /\ ack.reviews = Append(ack.form.saw, [by |-> ack.by, artifact |-> ack.form.artifact])
        /\ ack.form.handle \in Active[ack.form.artifact]
    BY <1>1, AcknowledgedIsSaved
  <2> QED  BY <1>0, <2>1, <2>2 DEF BuiltOnWhatWasSeen
<1>2. CASE acks' = acks
  BY <1>0, <1>2 DEF BuiltOnWhatWasSeen
<1>3. Acknowledge(c) \/ acks' = acks
  <2>1. CASE QuietStep(c)  BY <2>1, QuietStepKeeps
  <2>2. CASE WritingStep(c)  BY <2>2 DEF WritingStep, Open, WriteObject, WriteManifest
  <2> QED  BY <2>1, <2>2, StepIsQuietOrWriting
<1> QED  BY <1>1, <1>2, <1>3

-----------------------------------------------------------------------------
(* The theorems.                                                           *)

LEMMA AnnotationInvNext ==
    ASSUME AnnotationAssumption, AnnotationInv, [Next]_vars
    PROVE  AnnotationInv'
<1>1. CASE UNCHANGED vars
  <2>1. TypeOK' /\ HoldersExclude' /\ NothingDangles' /\ AcksAreKept' /\ BuiltOnWhatWasSeen'
    BY <1>1 DEF vars, local, AnnotationInv, TypeOK, HoldersExclude, NothingDangles, Unbroken,
       AcksAreKept, BuiltOnWhatWasSeen
  <2>2. FormsSaw' /\ RequestsKnow'
    BY <1>1 DEF vars, local, AnnotationInv, FormsSaw, History, RequestsKnow, RequestKnows, Handle,
       Mine, Extended
  <2> QED  BY <2>1, <2>2 DEF AnnotationInv
<1>2. ASSUME NEW c \in Operators, Step(c)
      PROVE  AnnotationInv'
  <2>1. TypeOK'  BY <1>2, StepIsQuietOrWriting, QuietTypes, WritingTypes
  <2> QED
    BY <1>2, <2>1, HoldersExcludeNext, RequestsKnowNext, FormsSawNext, NothingDanglesNext,
       AcksAreKeptNext, BuiltOnWhatWasSeenNext DEF AnnotationInv
<1>3. ASSUME NEW a \in Artifacts, Derive(a)
      PROVE  AnnotationInv'
  <2>1. TypeOK'  BY <1>3, DeriveTypes DEF AnnotationInv
  <2>2. HoldersExclude' /\ NothingDangles' /\ AcksAreKept' /\ BuiltOnWhatWasSeen'
    BY <1>3 DEF Derive, AnnotationInv, HoldersExclude, NothingDangles, Unbroken,
       AcksAreKept, BuiltOnWhatWasSeen
  <2>3. FormsSaw' /\ RequestsKnow'
    BY <1>3 DEF Derive, local, AnnotationInv, FormsSaw, History, RequestsKnow, RequestKnows, Handle,
       Mine, Extended
  <2> QED  BY <2>1, <2>2, <2>3 DEF AnnotationInv
<1> QED  BY <1>1, <1>2, <1>3 DEF Next

LEMMA AnnotationInvariant ==
    ASSUME AnnotationAssumption
    PROVE  Spec => []AnnotationInv
<1>1. Init => AnnotationInv  BY InitAnnotationInv
<1>2. AnnotationInv /\ [Next]_vars => AnnotationInv'  BY AnnotationInvNext
<1> QED  BY <1>1, <1>2, PTL DEF Spec

\* Every variable of the annotations keeps its type.
THEOREM AnnotationTypeCorrect ==
    ASSUME AnnotationAssumption
    PROVE  Spec => []TypeOK
<1>1. AnnotationInv => TypeOK  BY DEF AnnotationInv
<1> QED  BY <1>1, AnnotationInvariant, PTL

\* Wherever writes end, every record that a manifest names, and every one
\* before it, is there: a crash leaves the old or the new revision readable.
THEOREM ChainsNeverDangle ==
    ASSUME AnnotationAssumption
    PROVE  Spec => []NothingDangles
<1>1. AnnotationInv => NothingDangles  BY DEF AnnotationInv
<1> QED  BY <1>1, AnnotationInvariant, PTL

\* No acknowledged review is lost to another write, of whatever pattern.
THEOREM AcknowledgedReviewsAreKept ==
    ASSUME AnnotationAssumption
    PROVE  Spec => []AcksAreKept
<1>1. AnnotationInv => AcksAreKept  BY DEF AnnotationInv
<1> QED  BY <1>1, AnnotationInvariant, PTL

\* A review that is accepted stands on what its operator had seen, although
\* the patterns, the hash and the manifest are read at three times.
THEOREM ReviewsStandOnWhatWasSeen ==
    ASSUME AnnotationAssumption
    PROVE  Spec => []BuiltOnWhatWasSeen
<1>1. AnnotationInv => BuiltOnWhatWasSeen  BY DEF AnnotationInv
<1> QED  BY <1>1, AnnotationInvariant, PTL

\* The step of LimitFreezes.
LEMMA FrozenStep ==
    ASSUME AnnotationAssumption, AnnotationInv, [Next]_vars, manifest # None,
           NEW h \in Handles, Len(manifest[h]) > MaxHistory
    PROVE  UNCHANGED <<manifest, objects>>
<1>0. TypeOK /\ RequestsKnow  BY DEF AnnotationInv
<1>1. ~WithinBound(manifest[h])
  <2>1. Len(manifest[h]) \in Nat  BY <1>0, LenProperties DEF TypeOK
  <2> QED  BY <2>1 DEF WithinBound, AnnotationAssumption
<1>2. ASSUME NEW c \in Operators, Step(c)
      PROVE  UNCHANGED <<manifest, objects>>
  <2>1. ~Open(c)  BY <1>1 DEF Open, Readable
  <2>2. ~WriteObject(c) /\ ~WriteManifest(c)
    BY <1>0, <1>1 DEF RequestsKnow, RequestKnows, WriteObject, WriteManifest
  <2>3. CASE QuietStep(c)  BY <2>3, QuietStepKeeps
  <2>4. CASE Acknowledge(c)  BY <2>4 DEF Acknowledge
  <2> QED  BY <1>2, <2>1, <2>2, <2>3, <2>4, StepIsQuietOrWriting DEF WritingStep
<1>3. ASSUME NEW a \in Artifacts, Derive(a)
      PROVE  UNCHANGED <<manifest, objects>>
  BY <1>3 DEF Derive
<1> QED  BY <1>2, <1>3 DEF Next, vars

\* One history beyond its bound ends all writing, for whatever pattern.
THEOREM OverlongHistoryFreezes ==
    ASSUME AnnotationAssumption
    PROVE  Spec => LimitFreezes
<1>1. AnnotationInv /\ [Next]_vars =>
         [manifest # None /\ (\E h \in Handles : Len(manifest[h]) > MaxHistory)
              => UNCHANGED <<manifest, objects>>]_vars
  BY FrozenStep
<1> QED  BY <1>1, AnnotationInvariant, PTL DEF Spec, LimitFreezes

-----------------------------------------------------------------------------
(* The annotations implement the register.                                 *)

LEMMA ConfirmStep ==
    ASSUME AnnotationAssumption, AnnotationInv, AnnotationInv', NEW c \in Operators, Acknowledge(c)
    PROVE  Register!Confirm
<1>1. History' = History /\ acks \subseteq acks'
  BY DEF Acknowledge, History
<1>2. Confirmed \subseteq Confirmed'  BY <1>1 DEF Confirmed
<1>3. ASSUME NEW a \in acks'
      PROVE  a.reviews # <<>> /\ IsPrefix(a.reviews, History'[a.form.handle])
  <2>1. a \in Ack /\ a.form \in Form /\ a.by \in Operators
    BY <1>3 DEF AnnotationInv, TypeOK, Ack
  <2>2. a.form.saw \in Seq(Review) /\ [by |-> a.by, artifact |-> a.form.artifact] \in Review
    BY <2>1 DEF Form, Review
  <2>3. a.reviews = Append(a.form.saw, [by |-> a.by, artifact |-> a.form.artifact])
    BY <1>3 DEF AnnotationInv, BuiltOnWhatWasSeen
  <2>4. a.reviews # <<>>  BY <2>2, <2>3, AppendProperties
  <2>5. manifest' # None /\ IsPrefix(a.reviews, manifest'[a.form.handle])
    BY <1>3 DEF AnnotationInv, AcksAreKept
  <2> QED  BY <2>4, <2>5 DEF History
<1>4. \A x \in Confirmed' : x[2] # <<>> /\ IsPrefix(x[2], History'[x[1]])
  BY <1>3 DEF Confirmed
<1> QED  BY <1>1, <1>2, <1>4 DEF Register!Confirm, Register!IsPrefix, IsPrefix

LEMMA AddStep ==
    ASSUME AnnotationAssumption, AnnotationInv, NEW c \in Operators, WriteManifest(c),
           History = loaded[c], manifest # None,
           History' = [History EXCEPT ![Handle(c)] = Append(@, Mine(c))]
    PROVE  Register!Next
<1>1. RequestKnows(c)  BY DEF AnnotationInv, RequestsKnow
<1>2. Handle(c) \in Handles /\ Mine(c) \in Review  BY <1>1, ExtendedType DEF WriteManifest
<1>3. \A g \in Handles : Len(History[g]) <= MaxHistory
  BY <1>1 DEF RequestKnows, WriteManifest, WithinBound
<1>4. Confirmed' = Confirmed  BY DEF WriteManifest, Confirmed
<1>5. Register!Add(Handle(c), Mine(c))  BY <1>3, <1>4 DEF Register!Add
<1> QED  BY <1>2, <1>5 DEF Register!Next

LEMMA RegisterStep ==
    ASSUME AnnotationAssumption, AnnotationInv, AnnotationInv', [Next]_vars
    PROVE  [Register!Next]_<<History, Confirmed>>
<1>1. CASE UNCHANGED <<manifest, acks>>
  BY <1>1 DEF History, Confirmed
<1>2. ASSUME NEW c \in Operators, Step(c)
      PROVE  [Register!Next]_<<History, Confirmed>>
  <2>1. CASE QuietStep(c)  BY <1>1, <2>1, QuietStepKeeps
  <2>2. CASE Acknowledge(c)  BY <2>2, ConfirmStep DEF Register!Next
  <2>3. CASE WriteManifest(c)
    <3>1. CASE History' = History
      BY <2>3, <3>1 DEF WriteManifest, Confirmed
    <3>2. CASE History' # History
      BY <1>2, <2>3, <3>2, HistoryChange, AddStep
    <3> QED  BY <3>1, <3>2
  <2>4. CASE Open(c) \/ WriteObject(c)
    <3>1. History' = History  BY <1>2, <2>4, HistoryChange DEF Open, WriteObject, WriteManifest
    <3> QED  BY <2>4, <3>1 DEF Open, WriteObject, Confirmed
  <2> QED  BY <1>2, <2>1, <2>2, <2>3, <2>4, StepIsQuietOrWriting DEF WritingStep
<1>3. ASSUME NEW a \in Artifacts, Derive(a)
      PROVE  UNCHANGED <<manifest, acks>>
  BY <1>3 DEF Derive
<1> QED  BY <1>1, <1>2, <1>3 DEF Next, vars

\* The manifest, the records, the lock and the requests of pattern-annotations
\* implement a register of append-only histories.
THEOREM AnnotationsKeepRegister ==
    ASSUME AnnotationAssumption
    PROVE  Spec => RegisterSpec
<1>1. Init => Register!Init
  BY DEF Init, Register!Init, History, Genesis, Confirmed
<1>2. AnnotationInv /\ AnnotationInv' /\ [Next]_vars => [Register!Next]_<<History, Confirmed>>
  BY RegisterStep
<1> QED  BY <1>1, <1>2, AnnotationInvariant, PTL DEF Spec, RegisterSpec, Register!Spec

=============================================================================
