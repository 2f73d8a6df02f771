---------------------------- MODULE MCCargoBazel ----------------------------
(***************************************************************************)
(* Two crates; the listed manifest comes to need the second, or another    *)
(* member's does.                                                          *)
(***************************************************************************)
EXTENDS CargoBazel

MCCrate == {"a", "b"}
MCRootDeps == [v \in 0..1 |-> IF v = 0 THEN {"a"} ELSE {"a", "b"}]
MCMemberDeps == [v \in 0..1 |-> IF v = 0 THEN {} ELSE {"b"}]

Rule(vendor, dryRun, lockfile, given, skip, strip, requests) ==
  [vendor |-> vendor, dryRun |-> dryRun, lockfile |-> lockfile, cargoLock |-> given,
   skip |-> skip, strip |-> strip, requests |-> requests]

Requests == {"no", "workspace", "eager", "b"}

MCSetups ==
  {Rule(FALSE, FALSE, TRUE, TRUE, FALSE, strip, Requests) : strip \in BOOLEAN}
    \union {Rule(FALSE, FALSE, TRUE, TRUE, TRUE, FALSE, {"no", "workspace"}),
            Rule(FALSE, FALSE, FALSE, TRUE, TRUE, TRUE, {"no"}),
            Rule(FALSE, FALSE, FALSE, TRUE, FALSE, FALSE, {"no"}),
            Rule(FALSE, FALSE, TRUE, FALSE, FALSE, FALSE, {"no", "workspace"}),
            Rule(TRUE, FALSE, TRUE, TRUE, FALSE, FALSE, Requests),
            Rule(TRUE, TRUE, FALSE, TRUE, FALSE, FALSE, {"no"})}
=============================================================================
