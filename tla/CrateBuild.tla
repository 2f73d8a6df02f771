----------------------------- MODULE CrateBuild -----------------------------
(***************************************************************************)
(* What a build of crates promises, whatever files its actions exchange.   *)
(* A crate is checked once its interface is known to the compiler, and     *)
(* built once its object code exists.  A crate is only ever compiled when  *)
(* the interfaces of all crates it needs are known and the procedural      *)
(* macros among them are built, and linked when all of them are built; and *)
(* then it is rejected for its own source alone.  Pipelining may let a     *)
(* crate that is not linked go ahead of the object code of others, and     *)
(* nothing else.                                                           *)
(***************************************************************************)
CONSTANT Crate

VARIABLES
  needs,    \* the crates the compiler loads for each crate
  macros,   \* the procedural macros
  linked,   \* the crates whose compilation ends in a link
  broken,   \* what the compiler has against each crate's source
  checked,
  built,
  rejected

source == <<needs, macros, linked, broken>>

vars == <<source, checked, built, rejected>>

Init ==
  /\ needs \in [Crate -> SUBSET Crate]
  /\ macros \in SUBSET Crate
  /\ linked \in SUBSET Crate
  /\ broken \in [Crate -> {"never", "check", "codegen"}]
  /\ checked = {}
  /\ built = {}
  /\ rejected = {}

CanCompile(c) ==
  /\ needs[c] \subseteq checked
  /\ needs[c] \intersect macros \subseteq built
  /\ c \in linked => needs[c] \subseteq built

Check(c) ==
  /\ CanCompile(c)
  /\ broken[c] # "check"
  /\ checked' = checked \union {c}
  /\ UNCHANGED <<source, built, rejected>>

\* The interface may become known together with the object code.
Build(c) ==
  /\ CanCompile(c)
  /\ broken[c] = "never"
  /\ checked' = checked \union {c}
  /\ built' = built \union {c}
  /\ UNCHANGED <<source, rejected>>

Reject(c) ==
  /\ CanCompile(c)
  /\ broken[c] # "never"
  /\ rejected' = rejected \union {c}
  /\ UNCHANGED <<source, checked, built>>

Next == \E c \in Crate : Check(c) \/ Build(c) \/ Reject(c)

Spec == Init /\ [][Next]_vars
=============================================================================
