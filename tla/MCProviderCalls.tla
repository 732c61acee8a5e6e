--------------------------- MODULE MCProviderCalls ---------------------------
(***************************************************************************)
(* Constants for checking ProviderCalls: four requests, one of each stage  *)
(* and a second verifier's, so that the heap may have to order by stage    *)
(* and, within a stage, by age; and four threads, two of which may ask for *)
(* the same.                                                               *)
(***************************************************************************)
EXTENDS ProviderCalls

MCFingerprints == {"question", "rubric", "answers 1", "answers 2"}

MCStageOf ==
  [f \in MCFingerprints |->
     CASE f = "question" -> "teacher"
       [] f = "rubric" -> "rubricator"
       [] f \in {"answers 1", "answers 2"} -> "verifier"]

MCCallers == 1 .. 4

MCAsks ==
  << {"question", "answers 1"}, {"rubric"}, {"answers 1"}, {"answers 2"} >>
=============================================================================
