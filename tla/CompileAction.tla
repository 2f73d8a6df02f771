--------------------------- MODULE CompileAction ---------------------------
(***************************************************************************)
(* What Bazel, and the actions that consume its outputs, may assume of one *)
(* compile action.  Rustc is expected to leave everything it emits;        *)
(* RustcMetadata only the crate's metadata, which its consumers compile    *)
(* against while nobody waits for the rest.  An action that succeeded has  *)
(* left what it declared, and nothing writes behind its back afterwards.   *)
(* A failed action promises nothing.                                       *)
(***************************************************************************)
EXTENDS Naturals

VARIABLES
  early,    \* the action is over once the metadata is there
  stage,    \* how far the outputs have come
  verdict   \* "none", "succeeded" or "failed"

vars == <<early, stage, verdict>>

(***************************************************************************)
(* rustc writes the metadata (stages 1, begun, and 2, complete) before the *)
(* rest of what it emits (stages 3 and 4).                                 *)
(***************************************************************************)
MetadataReady == 2
AllReady == 4

Needed == IF early THEN MetadataReady ELSE AllReady

TypeOK ==
  /\ early \in BOOLEAN
  /\ stage \in 0..AllReady
  /\ verdict \in {"none", "succeeded", "failed"}

Init ==
  /\ early \in BOOLEAN
  /\ stage = 0
  /\ verdict = "none"

Produce ==
  /\ verdict # "succeeded"
  /\ stage < AllReady
  /\ stage' = stage + 1
  /\ UNCHANGED <<early, verdict>>

Succeed ==
  /\ verdict = "none"
  /\ stage >= Needed
  /\ verdict' = "succeeded"
  /\ UNCHANGED <<early, stage>>

Fail ==
  /\ verdict = "none"
  /\ verdict' = "failed"
  /\ UNCHANGED <<early, stage>>

Next == Produce \/ Succeed \/ Fail

Spec == Init /\ [][Next]_vars
=============================================================================
