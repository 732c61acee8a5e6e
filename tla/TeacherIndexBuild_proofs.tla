---------------------- MODULE TeacherIndexBuild_proofs ----------------------
(***************************************************************************)
(* What a build of the teacher index leaves, for any dataset, batch size,  *)
(* teachers and number of builds, interrupts and kills.                    *)
(*                                                                         *)
(* One teacher: while a build runs, every line is of its teacher, since it *)
(* starts with an empty file or with one it loaded.  Completeness: unless  *)
(* a request failed or a line was broken, which the exit code and the      *)
(* final load report, every key is in the file, in flight, or still to be  *)
(* read from the dataset.  Resuming: no key is written twice.              *)
(***************************************************************************)
EXTENDS TeacherIndexBuild, SequenceTheorems, TLAPS

Building == pc # "exited"

LinesOfTeacher == \A i \in DOMAIN lines : lines[i].teacher = args.teacher

SomeLineBroken == \E i \in DOMAIN lines : ~lines[i].whole

Covered ==
  \A k \in DatasetKeys :
    k \in LoadedKeys \/ k \in batch \/ (k \in pending /\ k \notin SubmittedKeys)

IndexInv ==
  /\ TypeOK
  /\ OneTeacherPerIndex
  /\ ExitZeroServesTraining
  /\ exit = "ok" => ~Building
  /\ ended \/ lines # <<>>
  /\ Building => LinesOfTeacher /\ (failed \/ SomeLineBroken \/ Covered)
  /\ pc = "validate" => batch = {} /\ (pending = {} \/ cursor > Len(Dataset))

LEMMA DatasetFacts ==
  /\ Len(Dataset) \in Nat
  /\ \A i \in 1..Len(Dataset) : Dataset[i] \in DatasetKeys
  /\ \A k \in DatasetKeys : \E i \in 1..Len(Dataset) : Dataset[i] = k
BY TeacherIndexAssumption, LenProperties DEF DatasetKeys, Range

LEMMA InitIndex == Init => IndexInv
<1> SUFFICES ASSUME Init PROVE IndexInv
    OBVIOUS
<1>1. lines = <<>> /\ lines \in Seq(Line)
    BY DEF Init
<1>2. TypeOK
  <2>1. 1 \in 1..(Len(Dataset) + 1)
      BY DatasetFacts
  <2> QED BY <1>1, <2>1 DEF Init, TypeOK
<1> QED BY <1>1, <1>2 DEF Init, IndexInv, OneTeacherPerIndex, ExitZeroServesTraining, Building

LEMMA StartIndex ==
  ASSUME IndexInv, NEW a \in Arguments, StartBuild(a)
  PROVE  IndexInv'
<1>1. /\ Accepted(a) /\ args' = a /\ exit' = "none" /\ cursor' = 1 /\ batch' = {}
      /\ pc' \in {"validate", "collect"} /\ failed' = FALSE
      /\ pc' = "validate" => pending' = {}
      /\ lines' = IF a.mode # "resume" THEN <<>> ELSE lines
      /\ pending' = DatasetKeys \ (IF a.mode = "resume" THEN LoadedKeys ELSE {})
    BY DEF StartBuild, Launch, Truncates
<1>e. ended' \in BOOLEAN /\ (ended' \/ lines' # <<>>)
  <2>1. ended' = (ended \/ a.mode # "resume")
      BY DEF StartBuild, Truncates
  <2>2. ended' \in BOOLEAN
      BY <2>1, Zenon
  <2>3. ended \/ a.mode # "resume" => ended'
      BY <2>1, Zenon
  <2> QED BY <1>1, <2>2, <2>3 DEF IndexInv
<1>2. TypeOK'
  <2>1. lines' \in Seq(Line)
      BY <1>1 DEF IndexInv, TypeOK
  <2>2. builds' \in Nat /\ kills' \in Nat
      BY DEF IndexInv, TypeOK, StartBuild, Launch
  <2>3. pending' \subseteq DatasetKeys /\ 1 \in 1..(Len(Dataset) + 1)
      BY <1>1, DatasetFacts
  <2> QED BY <1>1, <1>e, <2>1, <2>2, <2>3 DEF TypeOK
<1>3. \A i \in DOMAIN lines' : lines'[i].teacher = a.teacher
  <2>1. CASE a.mode = "resume"
      BY <1>1, <2>1 DEF Accepted, Loads, FromTeacher
  <2>2. CASE a.mode # "resume"
      BY <1>1, <2>2
  <2> QED BY <2>1, <2>2
<1>4. Covered'
  <2> SUFFICES ASSUME NEW k \in DatasetKeys
               PROVE  k \in LoadedKeys' \/ (k \in pending' /\ k \notin SubmittedKeys')
      BY DEF Covered
  <2>1. SubmittedKeys' = {}
      BY <1>1 DEF SubmittedKeys
  <2>2. a.mode = "resume" => LoadedKeys' = LoadedKeys
      BY <1>1 DEF LoadedKeys
  <2> QED BY <1>1, <2>1, <2>2
<1> QED BY <1>1, <1>e, <1>2, <1>3, <1>4
        DEF IndexInv, Building, LinesOfTeacher, OneTeacherPerIndex, ExitZeroServesTraining

LEMMA CollectIndex ==
  ASSUME IndexInv, CollectRecord
  PROVE  IndexInv'
<1>1. /\ pc = "collect" /\ cursor <= Len(Dataset) /\ cursor' = cursor + 1
      /\ batch' = batch \cup {k \in {Dataset[cursor]} : IsMissing(k)}
      /\ pc' \in {"process", "collect"}
      /\ UNCHANGED <<lines, ended, args, exit, pending, failed, builds, kills>>
    BY DEF CollectRecord, file
<1>2. cursor \in 1..Len(Dataset) /\ cursor' \in 1..(Len(Dataset) + 1)
    BY <1>1, DatasetFacts DEF IndexInv, TypeOK
<1>3. TypeOK'
    BY <1>1, <1>2, DatasetFacts DEF IndexInv, TypeOK
<1>4. SubmittedKeys' = SubmittedKeys \cup {Dataset[cursor]}
    BY <1>1, <1>2, DatasetFacts DEF SubmittedKeys
<1>5. Covered => Covered'
    BY <1>1, <1>4 DEF Covered, LoadedKeys, IsMissing
<1> QED BY <1>1, <1>3, <1>5
        DEF IndexInv, Building, LinesOfTeacher, SomeLineBroken, OneTeacherPerIndex,
            ExitZeroServesTraining

\* What a write leaves of the file, whole, cut or joined to an unended line.
LEMMA AppendFacts ==
  ASSUME IndexInv, Building, NEW k \in DatasetKeys, NEW whole \in BOOLEAN,
         AppendRow(k, whole), UNCHANGED args
  PROVE  /\ lines' \in Seq(Line) /\ lines' # <<>>
         /\ LinesOfTeacher'
         /\ SomeLineBroken => SomeLineBroken'
         /\ LoadedKeys \subseteq LoadedKeys'
         /\ whole => SomeLineBroken' \/ k \in LoadedKeys'
<1> DEFINE row == [key |-> k, teacher |-> args.teacher, answers |-> args.answers,
                   whole |-> whole]
           last == Len(lines)
<1>1. lines \in Seq(Line) /\ last \in Nat /\ DOMAIN lines = 1..last
    BY LenProperties DEF IndexInv, TypeOK
<1>2. CASE ended
  <2>1. row \in Line
      BY DEF IndexInv, TypeOK, Arguments, Line
  <2>2. lines' = Append(lines, row)
      BY <1>2 DEF AppendRow
  <2>3. /\ lines' \in Seq(Line) /\ DOMAIN lines' = 1..(last + 1)
        /\ lines'[last + 1] = row /\ \A i \in 1..last : lines'[i] = lines[i]
      BY <1>1, <2>1, <2>2, AppendProperties, LenProperties
  <2>4. LinesOfTeacher'
      BY <1>1, <2>3 DEF IndexInv, LinesOfTeacher
  <2>5. SomeLineBroken => SomeLineBroken'
      BY <1>1, <2>3 DEF SomeLineBroken
  <2>6. LoadedKeys \subseteq LoadedKeys' /\ k \in LoadedKeys'
      BY <1>1, <2>3 DEF LoadedKeys
  <2>7. lines' # <<>>
      BY <1>1, <2>2, AppendProperties
  <2> QED BY <2>3, <2>4, <2>5, <2>6, <2>7
<1>3. CASE ~ended
  <2>1. lines' = [lines EXCEPT ![last] = [lines[last] EXCEPT !.whole = FALSE]]
      BY <1>3 DEF AppendRow
  <2>2. last \in 1..last /\ lines # <<>>
      BY <1>1, <1>3, EmptySeq DEF IndexInv
  <2>3. lines[last] \in Line
      BY <1>1, <2>2
  <2>4. [lines[last] EXCEPT !.whole = FALSE] \in Line
      BY <2>3 DEF Line
  <2>5. lines' \in Seq(Line) /\ Len(lines') = last /\ DOMAIN lines' = 1..last
      BY <1>1, <2>1, <2>2, <2>4, ExceptSeq
  <2>6. \A i \in 1..last : /\ lines'[i].teacher = lines[i].teacher
                            /\ lines'[i].key = lines[i].key
      BY <1>1, <2>1, <2>3 DEF Line
  <2>7. ~lines'[last].whole
      BY <1>1, <2>1, <2>2, <2>3 DEF Line
  <2> QED BY <1>1, <2>2, <2>5, <2>6, <2>7
          DEF IndexInv, LinesOfTeacher, SomeLineBroken, LoadedKeys
<1> QED BY <1>2, <1>3

LEMMA WriteIndex ==
  ASSUME IndexInv, NEW k \in batch, WriteRow(k) \/ RecordFailure(k)
  PROVE  IndexInv'
<1>1. /\ pc = "process" /\ batch' = batch \ {k} /\ pc' \in {"process", "collect"}
      /\ UNCHANGED <<args, exit, pending, cursor, builds, kills>>
    BY DEF WriteRow, RecordFailure, FutureDone
<1>2. k \in DatasetKeys /\ exit # "ok" /\ Building /\ SubmittedKeys' = SubmittedKeys
    BY <1>1 DEF IndexInv, TypeOK, Building, SubmittedKeys
<1>3. CASE WriteRow(k)
  <2>1. AppendRow(k, TRUE) /\ ended' = TRUE /\ failed' = failed
      BY <1>3 DEF WriteRow
  <2>2. /\ lines' \in Seq(Line) /\ lines' # <<>> /\ LinesOfTeacher'
        /\ SomeLineBroken => SomeLineBroken'
        /\ LoadedKeys \subseteq LoadedKeys'
        /\ SomeLineBroken' \/ k \in LoadedKeys'
      BY <1>1, <1>2, <2>1, AppendFacts
  <2>3. TypeOK'
      BY <1>1, <2>1, <2>2 DEF IndexInv, TypeOK
  <2>4. Covered => SomeLineBroken' \/ Covered'
      BY <1>1, <1>2, <2>2 DEF Covered
  <2> QED BY <1>1, <1>2, <2>1, <2>2, <2>3, <2>4
          DEF IndexInv, Building, LinesOfTeacher, OneTeacherPerIndex, ExitZeroServesTraining
<1>4. CASE RecordFailure(k)
  <2>1. failed' = TRUE /\ UNCHANGED <<lines, ended>>
      BY <1>4 DEF RecordFailure, file
  <2>2. TypeOK'
      BY <1>1, <2>1 DEF IndexInv, TypeOK
  <2> QED BY <1>1, <1>2, <2>1, <2>2
          DEF IndexInv, Building, LinesOfTeacher, OneTeacherPerIndex, ExitZeroServesTraining
<1> QED BY <1>3, <1>4

LEMMA KillIndex ==
  ASSUME IndexInv, Kill
  PROVE  IndexInv'
<1>1. /\ Building /\ pc' = "exited" /\ exit' = "killed" /\ kills' = kills + 1
      /\ UNCHANGED <<args, pending, cursor, batch, failed, builds>>
    BY DEF Kill, Building
<1>2. /\ lines' \in Seq(Line)
      /\ ended' \in BOOLEAN
      /\ (ended' \/ lines' # <<>>)
      /\ LinesOfTeacher'
  <2>1. CASE UNCHANGED file
      BY <1>1, <2>1 DEF file, IndexInv, TypeOK, LinesOfTeacher
  <2>2. CASE ~(UNCHANGED file)
    <3>1. PICK k \in batch, whole \in BOOLEAN : AppendRow(k, whole) /\ ended' = FALSE
        BY <2>2 DEF Kill
    <3>2. k \in DatasetKeys
        BY DEF IndexInv, TypeOK
    <3> QED BY <1>1, <3>1, <3>2, AppendFacts
  <2> QED BY <2>1, <2>2
<1>3. TypeOK'
  <2>1. lines' \in Seq(Line) /\ ended' \in BOOLEAN
      BY <1>2, Zenon
  <2> QED BY <1>1, <2>1 DEF IndexInv, TypeOK
<1> QED BY <1>1, <1>2, <1>3
        DEF IndexInv, Building, LinesOfTeacher, OneTeacherPerIndex, ExitZeroServesTraining

\* Where the file is complete: the dataset is read, and nothing is in flight.
LEMMA ValidateIndex ==
  ASSUME IndexInv, Validate
  PROVE  IndexInv'
<1>1. /\ pc = "validate" /\ pc' = "exited"
      /\ exit' = IF Loads(args) THEN ExitCode ELSE "raised"
      /\ UNCHANGED <<lines, ended, args, pending, cursor, batch, failed, builds, kills>>
    BY DEF Validate, file
<1>2. TypeOK'
  <2>1. exit' \in {"ok", "someFailed", "raised"}
      BY <1>1 DEF ExitCode
  <2> QED BY <1>1, <2>1 DEF IndexInv, TypeOK
<1>3. ASSUME exit' = "ok" PROVE Loads(args) /\ DatasetKeys \subseteq LoadedKeys
  <2>1. Loads(args) /\ ~failed
      BY <1>1, <1>3 DEF ExitCode
  <2>2. Covered
      BY <1>1, <2>1 DEF IndexInv, Building, Loads, SomeLineBroken
  <2>3. cursor > Len(Dataset) => DatasetKeys \subseteq SubmittedKeys
    <3> SUFFICES ASSUME cursor > Len(Dataset), NEW k \in DatasetKeys PROVE k \in SubmittedKeys
        OBVIOUS
    <3>1. PICK i \in 1..Len(Dataset) : Dataset[i] = k
        BY DatasetFacts
    <3>2. i \in 1..(cursor - 1)
        BY <3>1, DatasetFacts DEF IndexInv, TypeOK
    <3> QED BY <3>1, <3>2 DEF SubmittedKeys
  <2> QED BY <1>1, <2>1, <2>2, <2>3 DEF IndexInv, Covered
<1>4. ExitZeroServesTraining'
    BY <1>1, <1>3 DEF ExitZeroServesTraining, Loads, LoadedKeys
<1> QED BY <1>1, <1>2, <1>4 DEF IndexInv, Building, OneTeacherPerIndex

\* What leaves the file, the teacher and the plan of the build alone.
LEMMA OtherIndex ==
  ASSUME IndexInv,
         \/ \E a \in Arguments : RefuseBuild(a)
         \/ DatasetEnds \/ Interrupt \/ UNCHANGED vars
  PROVE  IndexInv'
<1>1. CASE \E a \in Arguments : RefuseBuild(a)
  <2>1. /\ pc = "exited" /\ pc' = "exited" /\ exit' = "raised" /\ args' \in Arguments
        /\ builds' = builds + 1
        /\ UNCHANGED <<lines, ended, pending, cursor, batch, failed, kills>>
      BY <1>1 DEF RefuseBuild, Launch, file
  <2>2. TypeOK'
      BY <2>1 DEF IndexInv, TypeOK
  <2> QED BY <2>1, <2>2 DEF IndexInv, Building, OneTeacherPerIndex, ExitZeroServesTraining
<1>2. CASE DatasetEnds
  <2>1. /\ pc = "collect" /\ cursor > Len(Dataset)
        /\ pc' = IF batch = {} THEN "validate" ELSE "process"
        /\ UNCHANGED <<lines, ended, args, exit, pending, cursor, batch, failed, builds, kills>>
      BY <1>2 DEF DatasetEnds, file
  <2>2. TypeOK'
      BY <2>1 DEF IndexInv, TypeOK
  <2> QED BY <2>1, <2>2
          DEF IndexInv, Building, LinesOfTeacher, SomeLineBroken, Covered, LoadedKeys,
              SubmittedKeys, OneTeacherPerIndex, ExitZeroServesTraining
<1>3. CASE Interrupt
  <2>1. /\ pc' = "exited" /\ exit' = "interrupted"
        /\ UNCHANGED <<lines, ended, args, pending, cursor, batch, failed, builds, kills>>
      BY <1>3 DEF Interrupt, file
  <2>2. TypeOK'
      BY <2>1 DEF IndexInv, TypeOK
  <2> QED BY <2>1, <2>2 DEF IndexInv, Building, OneTeacherPerIndex, ExitZeroServesTraining
<1>4. CASE UNCHANGED vars
    BY <1>4 DEF vars, file, IndexInv, TypeOK, Building, LinesOfTeacher, SomeLineBroken,
                Covered, LoadedKeys, SubmittedKeys, OneTeacherPerIndex,
                ExitZeroServesTraining, Loads
<1> QED BY <1>1, <1>2, <1>3, <1>4

LEMMA IndexAlways == Spec => []IndexInv
<1>1. IndexInv /\ [Next]_vars => IndexInv'
    BY StartIndex, CollectIndex, WriteIndex, KillIndex, ValidateIndex, OtherIndex DEF Next
<1> QED BY InitIndex, <1>1, PTL DEF Spec

\* build_teacher_index.py with --resume: no file ever mixes two teachers.
THEOREM OneTeacher == Spec => []OneTeacherPerIndex
<1>1. IndexInv => OneTeacherPerIndex
    BY DEF IndexInv
<1> QED BY <1>1, IndexAlways, PTL

\* main's exit code: with 0, training finds an answer for every prompt.
THEOREM ExitZeroIsComplete == Spec => []ExitZeroServesTraining
<1>1. IndexInv => ExitZeroServesTraining
    BY DEF IndexInv
<1> QED BY <1>1, IndexAlways, PTL

-----------------------------------------------------------------------------
(***************************************************************************)
(* What can be resumed.  While no build was killed, the file always loads  *)
(* for the build that writes it: what is in flight or still to be read is  *)
(* not in the file, so that no key is written twice.                       *)
(***************************************************************************)

NotWrittenTwice ==
  /\ batch \subseteq SubmittedKeys
  /\ \A k \in LoadedKeys : k \notin batch /\ (k \in pending => k \in SubmittedKeys)

ResumeInv ==
  kills = 0 =>
    /\ ended
    /\ Building => Loads(args) /\ NotWrittenTwice
    /\ InterruptedBuildResumes

LEMMA StartResumes ==
  ASSUME IndexInv, ResumeInv, NEW a \in Arguments, StartBuild(a)
  PROVE  ResumeInv'
<1> SUFFICES ASSUME kills' = 0 PROVE ended' /\ Loads(args)' /\ NotWrittenTwice'
    BY DEF ResumeInv, InterruptedBuildResumes
<1>1. /\ Accepted(a) /\ args' = a /\ cursor' = 1 /\ batch' = {} /\ kills = 0
      /\ lines' = IF a.mode # "resume" THEN <<>> ELSE lines
      /\ pending' = DatasetKeys \ (IF a.mode = "resume" THEN LoadedKeys ELSE {})
    BY DEF StartBuild, Launch, Truncates
<1>2. ended'
  <2>1. ended /\ ended' = (ended \/ Truncates(a))
      BY <1>1 DEF StartBuild, ResumeInv
  <2> QED BY <2>1, Zenon
<1>3. CASE a.mode = "resume"
  <2>1. Loads(a) /\ lines' = lines /\ LoadedKeys' = LoadedKeys
      BY <1>1, <1>3 DEF Accepted, LoadedKeys
  <2> QED BY <1>1, <1>2, <1>3, <2>1 DEF Loads, NotWrittenTwice
<1>4. CASE a.mode # "resume"
  <2>1. lines' = <<>> /\ LoadedKeys' = {}
      BY <1>1, <1>4 DEF LoadedKeys
  <2> QED BY <1>1, <1>2, <2>1 DEF Loads, NotWrittenTwice
<1> QED BY <1>3, <1>4

LEMMA CollectResumes ==
  ASSUME IndexInv, ResumeInv, CollectRecord
  PROVE  ResumeInv'
<1>1. /\ Building /\ cursor <= Len(Dataset) /\ cursor' = cursor + 1
      /\ batch' = batch \cup {k \in {Dataset[cursor]} : IsMissing(k)}
      /\ UNCHANGED <<lines, ended, args, exit, pending, kills>>
    BY DEF CollectRecord, file, Building
<1>2. cursor \in 1..Len(Dataset) /\ cursor' \in 1..(Len(Dataset) + 1)
    BY <1>1, DatasetFacts DEF IndexInv, TypeOK
<1>3. SubmittedKeys' = SubmittedKeys \cup {Dataset[cursor]}
    BY <1>1, <1>2, DatasetFacts DEF SubmittedKeys
<1>4. NotWrittenTwice => NotWrittenTwice'
    BY <1>1, <1>3 DEF NotWrittenTwice, LoadedKeys, IsMissing
<1> QED BY <1>1, <1>4 DEF ResumeInv, Loads, InterruptedBuildResumes

LEMMA WriteResumes ==
  ASSUME IndexInv, ResumeInv, Fragile = {}, NEW k \in batch, WriteRow(k)
  PROVE  ResumeInv'
<1> SUFFICES ASSUME kills' = 0 PROVE ResumeInv'
    BY DEF ResumeInv
<1> DEFINE row == [key |-> k, teacher |-> args.teacher, answers |-> args.answers,
                   whole |-> TRUE]
           last == Len(lines)
<1>1. /\ Building /\ batch' = batch \ {k} /\ kills = 0 /\ ended' = TRUE
      /\ UNCHANGED <<args, exit, pending, cursor>>
    BY DEF WriteRow, FutureDone, Building
<1>2. Loads(args) /\ NotWrittenTwice /\ ended
    BY <1>1 DEF ResumeInv
<1>3. lines' = Append(lines, row)
    BY <1>2 DEF WriteRow, AppendRow
<1>4. k \in DatasetKeys /\ args \in Arguments /\ args.answers \in Nat
    BY TeacherIndexAssumption DEF IndexInv, TypeOK, Arguments
<1>5. /\ lines \in Seq(Line) /\ row \in Line /\ last \in Nat /\ DOMAIN lines = 1..last
    BY <1>4, LenProperties DEF IndexInv, TypeOK, Arguments, Line
<1>6. /\ DOMAIN lines' = 1..(last + 1) /\ lines'[last + 1] = row
      /\ \A i \in 1..last : lines'[i] = lines[i]
    BY <1>3, <1>5, AppendProperties, LenProperties
<1>7. LoadedKeys' = LoadedKeys \cup {k} /\ k \notin LoadedKeys
    BY <1>2, <1>5, <1>6 DEF LoadedKeys, NotWrittenTwice
<1>8. Loads(args)'
  <2>1. \A i \in DOMAIN lines' :
          /\ lines'[i].whole /\ lines'[i].key \notin Fragile
          /\ FromTeacher(lines'[i], args) /\ EnoughAnswers(lines'[i], args)
      BY <1>2, <1>4, <1>5, <1>6 DEF Loads, FromTeacher, EnoughAnswers
  <2>2. \A i, j \in DOMAIN lines' : lines'[i].key = lines'[j].key => i = j
      BY <1>2, <1>5, <1>6, <1>7 DEF Loads, LoadedKeys
  <2> QED BY <1>1, <2>1, <2>2 DEF Loads
<1>9. NotWrittenTwice'
    BY <1>1, <1>2, <1>7 DEF NotWrittenTwice, SubmittedKeys
<1> QED BY <1>1, <1>8, <1>9 DEF ResumeInv, InterruptedBuildResumes

\* The other steps leave the file alone, or kill the build.
LEMMA OtherResumes ==
  ASSUME IndexInv, ResumeInv,
         \/ \E a \in Arguments : RefuseBuild(a)
         \/ \E k \in batch : RecordFailure(k)
         \/ DatasetEnds \/ Interrupt \/ Kill \/ Validate \/ UNCHANGED vars
  PROVE  ResumeInv'
<1> USE DEF ResumeInv, InterruptedBuildResumes, Building, file
<1>1. CASE \E a \in Arguments : RefuseBuild(a)
    BY <1>1 DEF RefuseBuild, Launch
<1>2. CASE \E k \in batch : RecordFailure(k)
    BY <1>2 DEF RecordFailure, FutureDone, Loads, NotWrittenTwice, LoadedKeys, SubmittedKeys
<1>3. CASE DatasetEnds
    BY <1>3 DEF DatasetEnds, Loads, NotWrittenTwice, LoadedKeys, SubmittedKeys
<1>4. CASE Interrupt
    BY <1>4 DEF Interrupt, Loads
<1>5. CASE Kill
  <2>1. kills' = kills + 1 /\ kills \in Nat
      BY <1>5 DEF Kill, IndexInv, TypeOK
  <2> QED BY <2>1
<1>6. CASE Validate
    BY <1>6 DEF Validate, ExitCode, Loads
<1>7. CASE UNCHANGED vars
    BY <1>7 DEF vars, Loads, NotWrittenTwice, LoadedKeys, SubmittedKeys
<1> QED BY <1>1, <1>2, <1>3, <1>4, <1>5, <1>6, <1>7

\* "Interrupted. ... rerun with --resume" is right for answers without a
\* Unicode line separator.
THEOREM InterruptedResumes ==
  ASSUME Fragile = {}
  PROVE  Spec => []InterruptedBuildResumes
<1>1. Init => ResumeInv
    BY DEF Init, ResumeInv, Building, InterruptedBuildResumes
<1>2. IndexInv /\ ResumeInv /\ [Next]_vars => ResumeInv'
    BY StartResumes, CollectResumes, WriteResumes, OtherResumes DEF Next
<1>3. Spec => []ResumeInv
    BY <1>1, <1>2, IndexAlways, PTL DEF Spec
<1>4. IndexInv /\ ResumeInv => InterruptedBuildResumes
  <2> SUFFICES ASSUME ResumeInv PROVE InterruptedBuildResumes
      OBVIOUS
  <2> QED BY DEF ResumeInv, InterruptedBuildResumes
<1> QED BY <1>3, <1>4, IndexAlways, PTL
=============================================================================
