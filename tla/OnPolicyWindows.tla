--------------------------- MODULE OnPolicyWindows ---------------------------
(***************************************************************************)
(* What strict on-policy training promises, with no mention of states,     *)
(* counters or messages: training proceeds in windows, one per parameter   *)
(* version.  A window takes a fixed number of groups, every one under an   *)
(* identifier that is never used again; each group is judged once and      *)
(* trained on once, in either order, the training in batches; and the      *)
(* version advances only when the window is full, all judged and all       *)
(* trained.                                                                *)
(***************************************************************************)
EXTENDS Naturals, FiniteSets

CONSTANTS
  Groups,      (* identifiers a group may be given *)
  WindowSize   (* groups per parameter version *)

VARIABLES
  version,     (* number of windows completed *)
  used,        (* identifiers given out since the start *)
  members,     (* groups of the current window *)
  judged,      (* those whose reward is known *)
  trained      (* those the trainer has taken *)

vars == <<version, used, members, judged, trained>>

Init ==
  /\ version = 0
  /\ used = {}
  /\ members = {}
  /\ judged = {}
  /\ trained = {}

Join(g) ==
  /\ Cardinality(members) < WindowSize
  /\ g \notin used
  /\ used' = used \union {g}
  /\ members' = members \union {g}
  /\ UNCHANGED <<version, judged, trained>>

Judge(g) ==
  /\ g \in members \ judged
  /\ judged' = judged \union {g}
  /\ UNCHANGED <<version, used, members, trained>>

Train(batch) ==
  /\ batch # {}
  /\ trained' = trained \union batch
  /\ UNCHANGED <<version, used, members, judged>>

Advance ==
  /\ Cardinality(members) = WindowSize
  /\ judged = members
  /\ trained = members
  /\ version' = version + 1
  /\ members' = {}
  /\ judged' = {}
  /\ trained' = {}
  /\ UNCHANGED used

Next ==
  \/ \E g \in Groups : Join(g) \/ Judge(g)
  \/ \E batch \in SUBSET (members \ trained) : Train(batch)
  \/ Advance

Spec == Init /\ [][Next]_vars
=============================================================================
