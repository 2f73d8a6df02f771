---------------------------- MODULE MCLaunchJson ----------------------------
(***************************************************************************)
(* Labels of up to five characters, and small launch.json files, for       *)
(* LaunchJson.                                                             *)
(***************************************************************************)
EXTENDS LaunchJson

AllLetters == {"a"}
InRepos == {"a", "1", "~", "+"}
InPackages == {"a", "1", " ", "+"}

A == <<"/", "/", "a", ":", "a">>
B == <<"/", "/", "a", "/", "1", ":", "a">>
R == <<"@", "a", "+", "/", "/", "a", ":", "1">>
C == <<"@", "@", "a", "~", "/", "/", ":", "a">>

\* What a user calls a configuration: any text, or one the tool may have written.
Short == UNION {[1..n -> {"@", "/", ":", "a", "="}] : n \in 0..5}
Long ==
  {A, B, R, C, <<"@", "a", "/", "/", "a">>, <<"@", "@", "a", "/", "/", "a", "/", "a">>, <<"/", "/", "a", "/", "/", "a">>,
   <<"/", "/", "a", ":", "a", ":", "a">>, <<"/", "/", "a", ":", "a", "/", "/", "a">>, <<"/", "/", "a", "/", ":", "a">>,
   <<"@", "a", "~", "/", "/", "a">>, <<"@", "1", "/", "/", ":", "a">>, <<"/", "/", "a", "~", ":", "a">>,
   <<"@", "@", "@", "a", "/", "/", ":", "a">>, <<"/", "/", " ", ":", "a">>, <<"@", "@", "/", "/", "a", ":", "a">>,
   <<"@", "a", ":", "a", "/", "/", "a">>, <<"/", "/", "a", "/", "a", "/", "1">>}

Own(name) == Configuration(name, <<>>, "user")
Plain(texts) == {Json(<<Own(NameOf(text))>>) : text \in texts}
Mixed ==
  {NoFile, Broken, Bare, Json(<<>>), Json(<<Own(<<"run">>), Own(NameOf(A)), Own(<<"a">>)>>),
   Json(<<Own(NameOf(R)), Own(NameOf(A)), Own(NameOf(A)), Own(NameOf(B))>>)}

EditFile(new) == [kind |-> "file", file |-> new]
EditRules(bins, testRules) == [kind |-> "rules", binaries |-> bins, tests |-> testRules]

Scenario(bins, testRules, launch, changes) == [binaries |-> bins, tests |-> testRules, file |-> launch, edits |-> changes]
AllScenarios ==
  {Scenario({A}, {}, launch, {}) : launch \in Plain(Short \union Long)}
  \union {Scenario({A, R}, {B}, launch, changes) :
            launch \in Mixed,
            changes \in {{}, {EditFile(Broken)}, {EditRules({R}, {A, B})},
                         {EditFile(Json(<<Own(<<"a">>), Own(NameOf(C))>>)), EditRules({A}, {B, C})}}}
  \union {Scenario({}, tst, launch, {EditRules({C}, {})}) : tst \in {{}, {A}}, launch \in Mixed}
==============================================================================
