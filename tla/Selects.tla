------------------------------- MODULE Selects -------------------------------
(***************************************************************************)
(* crate_universe/src/select.rs: values some of which hold under every     *)
(* configuration (common) and some under one only (selects), rendered as   *)
(* Bazel's select().  There are four of them, by what is held: one value   *)
(* (scalars), a list, a set, or a map.                                     *)
(*                                                                         *)
(* selects has an entry for a configuration only where something was       *)
(* inserted.  An absent scalar is the empty sequence, a present one a      *)
(* sequence of one, so that a scalar's entry is never empty either.        *)
(***************************************************************************)
EXTENDS Naturals, Sequences, FiniteSets, Functions, SequencesExt

\* Configuration None: the value is common.
None == "none"

NoSelects == [c \in {} |-> {}]
EmptySet == [common |-> {}, selects |-> NoSelects]
EmptyList == [common |-> <<>>, selects |-> NoSelects]
EmptyMap == [common |-> NoSelects, selects |-> NoSelects]
EmptyScalar == [common |-> <<>>, selects |-> NoSelects]

With(f, x, y) == [z \in DOMAIN f \union {x} |-> IF z = x THEN y ELSE f[z]]
Get(f, x, default) == IF x \in DOMAIN f THEN f[x] ELSE default
Filtered(f, Keep(_)) == Restrict(f, {x \in DOMAIN f : Keep(x)})

(***************************************************************************)
(* insert.  What becomes common is dropped from the configurations, and    *)
(* what is common already is not added to one.                             *)
(***************************************************************************)
InsertScalar(s, value, configuration) ==
  IF configuration = None
  THEN [common |-> <<value>>,
        selects |-> Filtered(s.selects, LAMBDA c : s.selects[c] # <<value>>)]
  ELSE IF s.common = <<value>> THEN s
  ELSE [s EXCEPT !.selects = With(@, configuration, <<value>>)]

InsertList(s, value, configuration) ==
  IF configuration = None
  THEN [s EXCEPT !.common = Append(@, value)]
  ELSE [s EXCEPT !.selects =
          With(@, configuration, Append(Get(@, configuration, <<>>), value))]

\* Mutant: what is common already is added to a configuration too.
InsertSetAnyway(s, value, configuration) ==
  IF configuration = None
  THEN LET rest == [c \in DOMAIN s.selects |-> s.selects[c] \ {value}]
       IN  [common |-> s.common \union {value},
            selects |-> Filtered(rest, LAMBDA c : rest[c] # {})]
  ELSE [s EXCEPT !.selects =
          With(@, configuration, Get(@, configuration, {}) \union {value})]

InsertSet(s, value, configuration) ==
  IF configuration = None
  THEN LET rest == [c \in DOMAIN s.selects |-> s.selects[c] \ {value}]
       IN  [common |-> s.common \union {value},
            selects |-> Filtered(rest, LAMBDA c : rest[c] # {})]
  ELSE IF value \in s.common THEN s
  ELSE [s EXCEPT !.selects =
          With(@, configuration, Get(@, configuration, {}) \union {value})]

\* An entry of a map is a pair of key and value.
InsertMap(s, entry, configuration) ==
  LET key == entry[1]
      rest == [c \in DOMAIN s.selects |-> Restrict(s.selects[c], DOMAIN s.selects[c] \ {key})]
  IN  IF configuration = None
      THEN [common |-> With(s.common, key, entry[2]),
            selects |-> Filtered(rest, LAMBDA c : DOMAIN rest[c] # {})]
      ELSE IF key \in DOMAIN s.common THEN s
      ELSE [s EXCEPT !.selects =
              With(@, configuration, With(Get(@, configuration, NoSelects), key, entry[2]))]

(***************************************************************************)
(* items, as a sequence in some order of the configurations: the common    *)
(* values first, then those of each configuration.                         *)
(***************************************************************************)
ItemsOf(s, Entries(_)) ==
  LET common == Entries(s.common)
      configurations == SetToSeq(DOMAIN s.selects)
      under(c) == LET entries == Entries(s.selects[c])
                  IN  [i \in DOMAIN entries |-> <<c, entries[i]>>]
  IN  [i \in DOMAIN common |-> <<None, common[i]>>]
        \o FlattenSeq([i \in DOMAIN configurations |-> under(configurations[i])])

ListItems(s) == ItemsOf(s, LAMBDA list : list)
ScalarItems(s) == ItemsOf(s, LAMBDA scalar : scalar)
SetItems(s) == ItemsOf(s, LAMBDA set : SetToSeq(set))
MapItems(s) ==
  ItemsOf(s, LAMBDA map : SetToSeq({<<k, map[k]>> : k \in DOMAIN map}))

(***************************************************************************)
(* merge inserts into an empty Select what is common on the left, what is  *)
(* common on the right, and then what is not.                              *)
(***************************************************************************)
MergeOf(lhs, rhs, empty, Items(_), Insert(_, _, _)) ==
  LET l == Items(lhs)
      r == Items(rhs)
      common(items) == SelectSeq(items, LAMBDA item : item[1] = None)
      under(items) == SelectSeq(items, LAMBDA item : item[1] # None)
  IN  FoldLeft(LAMBDA s, item : Insert(s, item[2], item[1]), empty,
               common(l) \o common(r) \o under(l) \o under(r))

MergeScalars(lhs, rhs) == MergeOf(lhs, rhs, EmptyScalar, ScalarItems, InsertScalar)
MergeLists(lhs, rhs) == MergeOf(lhs, rhs, EmptyList, ListItems, InsertList)
MergeSets(lhs, rhs) == MergeOf(lhs, rhs, EmptySet, SetItems, InsertSet)
MergeMaps(lhs, rhs) == MergeOf(lhs, rhs, EmptyMap, MapItems, InsertMap)

\* What a rule sees of a set under a configuration.
SetUnder(s, configuration) == s.common \union Get(s.selects, configuration, {})
=============================================================================
