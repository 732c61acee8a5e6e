-------------------------- MODULE TeacherIndexBuild --------------------------
(***************************************************************************)
(* scripts/build_teacher_index.py: the offline index of teacher answers,   *)
(* built over several runs that are interrupted, killed and resumed, and   *)
(* read back by OfflineTeacherIndex.load when training starts.             *)
(*                                                                         *)
(* The index is a file of lines, one row a line.  A row is appended and    *)
(* flushed as soon as its answers arrive, in any order within a batch.  A  *)
(* kill may leave a part of a row, or a row without its newline, to which  *)
(* the next append is joined.  Not modelled: the answers' text, the        *)
(* failures file and two builds at once on one output.                     *)
(***************************************************************************)
EXTENDS Integers, Sequences, FiniteSets, Functions

CONSTANTS
  Dataset,     \* the keys (uid, prompt hash) of the parquet rows, in order
  BatchSize,   \* --batch-size
  Teachers,    \* teacher fingerprints
  Counts,      \* values of --teacher-answer-count
  Fragile,     \* keys whose answers hold a Unicode line separator
  MaxBuilds,   \* bound: builds started
  MaxKills     \* bound: builds killed

ASSUME TeacherIndexAssumption ==
  /\ Dataset \in Seq(Range(Dataset))
  /\ Fragile \subseteq Range(Dataset)
  /\ BatchSize \in Nat \ {0}
  /\ Counts \subseteq Nat \ {0}
  /\ {MaxBuilds, MaxKills} \subseteq Nat

DatasetKeys == Range(Dataset)

Modes == {"fresh", "resume", "overwrite"}

Arguments == [mode : Modes, teacher : Teachers, answers : Counts]

VARIABLES
  lines,    \* disk: the output file
  ended,    \* disk: whether its last line has its newline
  pc,       \* the build's place in main, "exited" between two builds
  args,     \* the command line of the current or last build
  exit,     \* how the last build ended
  pending,  \* pending_keys
  cursor,   \* the dataset row read next
  batch,    \* keys submitted to the executor whose future is not consumed
  failed,   \* result.failed_count > 0
  builds, kills

file == <<lines, ended>>
vars == <<file, pc, args, exit, pending, cursor, batch, failed, builds, kills>>

Line == [key : DatasetKeys, teacher : Teachers, answers : Counts, whole : BOOLEAN]

Init ==
  /\ lines = <<>> /\ ended = TRUE
  /\ pc = "exited" /\ exit = "none"
  /\ args \in Arguments
  /\ pending = {} /\ cursor = 1 /\ batch = {} /\ failed = FALSE
  /\ builds = 0 /\ kills = 0

-----------------------------------------------------------------------------
FromAnyTeacher(line, a) == TRUE   \* mutant: the fingerprint is not compared

\* The hash of the row's teacher_fingerprint is the expected one.
FromTeacher(line, a) == line.teacher = a.teacher

EnoughAnswers(line, a) == line.answers >= a.answers

\* _load_completed_keys.  The file is cut at every line separator, those inside
\* an answer included, and each piece must be a row of this teacher with enough
\* answers; no key may come twice.
Loads(a) ==
  /\ \A i \in DOMAIN lines :
       /\ lines[i].whole /\ lines[i].key \notin Fragile
       /\ FromTeacher(lines[i], a) /\ EnoughAnswers(lines[i], a)
  /\ \A i, j \in DOMAIN lines : lines[i].key = lines[j].key => i = j

LoadedKeys == {lines[i].key : i \in DOMAIN lines}

Accepted(a) ==
  CASE a.mode = "fresh" -> lines = <<>>
    [] a.mode = "resume" -> Loads(a)
    [] a.mode = "overwrite" -> TRUE

Truncates(a) == a.mode # "resume"

Launch(a) ==
  /\ pc = "exited"
  /\ builds < MaxBuilds
  /\ builds' = builds + 1
  /\ args' = a

\* From parse_args to _generate_missing_records.
StartBuild(a) ==
  /\ Launch(a)
  /\ Accepted(a)
  /\ LET completed == IF a.mode = "resume" THEN LoadedKeys ELSE {} IN
       pending' = DatasetKeys \ completed
  /\ lines' = IF Truncates(a) THEN <<>> ELSE lines
  /\ ended' = (ended \/ Truncates(a))
  /\ pc' = IF pending' = {} THEN "validate" ELSE "collect"
  /\ exit' = "none" /\ cursor' = 1 /\ batch' = {} /\ failed' = FALSE
  /\ UNCHANGED kills

RefuseBuild(a) ==
  /\ Launch(a)
  /\ ~Accepted(a)
  /\ exit' = "raised"
  /\ UNCHANGED <<file, pc, pending, cursor, batch, failed, kills>>

-----------------------------------------------------------------------------
SubmittedKeys == {Dataset[i] : i \in 1..(cursor - 1)}

IsPending(k) == k \in pending   \* mutant: submitted_keys is not consulted

IsMissing(k) == k \in pending /\ k \notin SubmittedKeys

CollectRecord ==
  /\ pc = "collect"
  /\ cursor <= Len(Dataset)
  /\ cursor' = cursor + 1
  /\ batch' = batch \cup {k \in {Dataset[cursor]} : IsMissing(k)}
  /\ pc' = IF Cardinality(batch') = BatchSize THEN "process" ELSE "collect"
  /\ UNCHANGED <<file, args, exit, pending, failed, builds, kills>>

DatasetEnds ==
  /\ pc = "collect"
  /\ cursor > Len(Dataset)
  /\ pc' = IF batch = {} THEN "validate" ELSE "process"
  /\ UNCHANGED <<file, args, exit, pending, cursor, batch, failed, builds, kills>>

\* Writes a row, joined to the last line when that has no newline: the two do
\* not parse together.
AppendRow(k, whole) ==
  LET row == [key |-> k, teacher |-> args.teacher, answers |-> args.answers, whole |-> whole]
      last == Len(lines)
  IN  lines' = IF ended THEN Append(lines, row)
               ELSE [lines EXCEPT ![last] = [lines[last] EXCEPT !.whole = FALSE]]

\* _process_record_batch: one completed future.
FutureDone(k) ==
  /\ pc = "process"
  /\ batch' = batch \ {k}
  /\ pc' = IF batch' = {} THEN "collect" ELSE pc
  /\ UNCHANGED <<args, exit, pending, cursor, builds, kills>>

WriteRow(k) ==
  /\ FutureDone(k)
  /\ AppendRow(k, TRUE)
  /\ ended' = TRUE
  /\ UNCHANGED failed

RecordFailure(k) ==
  /\ FutureDone(k)
  /\ failed' = TRUE
  /\ UNCHANGED file

\* An interrupt drops the batch's other rows.  A row being written is flushed
\* when the file is closed, so only whole rows are left.
Interrupt ==
  /\ pc \in {"collect", "process"}
  /\ pc' = "exited" /\ exit' = "interrupted"
  /\ UNCHANGED <<file, args, pending, cursor, batch, failed, builds, kills>>

\* SIGKILL or a full disk: the row being written may be cut, in the middle or
\* before its newline.
Kill ==
  /\ pc # "exited"
  /\ kills < MaxKills
  /\ kills' = kills + 1
  /\ pc' = "exited" /\ exit' = "killed"
  /\ \/ UNCHANGED file
     \/ /\ pc = "process"
        /\ \E k \in batch, whole \in BOOLEAN : AppendRow(k, whole)
        /\ ended' = FALSE
  /\ UNCHANGED <<args, pending, cursor, batch, failed, builds>>

ExitZero == "ok"   \* mutant: failures do not reach the exit code

ExitCode == IF failed THEN "someFailed" ELSE "ok"

\* The index is read back before main returns.
Validate ==
  /\ pc = "validate"
  /\ pc' = "exited"
  /\ exit' = IF Loads(args) THEN ExitCode ELSE "raised"
  /\ UNCHANGED <<file, args, pending, cursor, batch, failed, builds, kills>>

Next ==
  \/ \E a \in Arguments : StartBuild(a) \/ RefuseBuild(a)
  \/ CollectRecord \/ DatasetEnds
  \/ \E k \in batch : WriteRow(k) \/ RecordFailure(k)
  \/ Interrupt \/ Kill
  \/ Validate

Spec == Init /\ [][Next]_vars

-----------------------------------------------------------------------------
TypeOK ==
  /\ lines \in Seq(Line) /\ ended \in BOOLEAN
  /\ pc \in {"exited", "collect", "process", "validate"}
  /\ args \in Arguments
  /\ exit \in {"none", "ok", "someFailed", "interrupted", "killed", "raised"}
  /\ pending \subseteq DatasetKeys /\ batch \subseteq DatasetKeys
  /\ cursor \in 1..(Len(Dataset) + 1)
  /\ failed \in BOOLEAN
  /\ builds \in Nat /\ kills \in Nat

\* A build that exits with 0 left an index that training loads with the same
\* teacher and that answers every prompt of the dataset, whatever the builds
\* before it left behind.
ExitZeroServesTraining ==
  exit = "ok" => Loads(args) /\ DatasetKeys \subseteq LoadedKeys

\* "Interrupted. Completed rows already flushed ...; rerun with --resume": as
\* long as no build was killed, what a build leaves can be resumed.
InterruptedBuildResumes ==
  kills = 0 /\ exit \in {"interrupted", "someFailed"} => Loads(args)

\* No chain of resumed builds mixes the answers of two teachers in one index.
OneTeacherPerIndex ==
  \A i, j \in DOMAIN lines : lines[i].teacher = lines[j].teacher
=============================================================================
