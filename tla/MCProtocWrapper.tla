--------------------------- MODULE MCProtocWrapper ---------------------------
(***************************************************************************)
(* A crate base and a crate api that depends on it; proto files of no      *)
(* package, of packages with keywords and capitals in their names, of the  *)
(* well known types, and of extensions only.                               *)
(***************************************************************************)
EXTENDS ProtocWrapper

MCRequired ==
  {"--protoc", "--prost_out", "--package_info_output", "--out_librs", "--descriptor_set", "--label"}
MCKeyword == {"type", "mod"}
Case(from, to) == [name \in {"a", "api", "FooBar", "type", "tonic", "google", "protobuf", "Greeter", "Reply",
                             "greeter", "other", "Any"} |-> IF name \in DOMAIN from THEN from[name] ELSE to[name]]
Same == Case(<<>>, [name \in {"a", "api", "FooBar", "type", "tonic", "google", "protobuf", "Greeter", "Reply",
                              "greeter", "other", "Any"} |-> name])
MCSnake == Case([FooBar |-> "foo_bar", Greeter |-> "greeter", Reply |-> "reply", Any |-> "any"], Same)
MCLower == Case([FooBar |-> "foobar", Greeter |-> "greeter", Reply |-> "reply", Any |-> "any"], Same)
MCCamel == Case([a |-> "A", type |-> "Type", other |-> "Other"], Same)

Type(path, kind) == [path |-> path, kind |-> kind]
File(package, types, services, extensions) ==
  [package |-> package, types |-> types, services |-> services, extensions |-> extensions]
Messages == {Type(<<"Greeter">>, "message"), Type(<<"other">>, "enum")}
Nested == {Type(<<"Greeter">>, "message"), Type(<<"Greeter", "Reply">>, "message"),
           Type(<<"Greeter", "type">>, "oneof")}

Sources == {
  <<File(<<"a">>, Messages, TRUE, FALSE)>>, <<File(<<"a">>, {}, TRUE, FALSE)>>,
  <<File(<<"a", "FooBar">>, Messages, TRUE, FALSE), File(<<"a", "type">>, Messages, FALSE, TRUE)>>,
  <<File(<<"a">>, {}, FALSE, TRUE)>>, <<File(<<>>, {}, FALSE, TRUE)>>, <<File(<<"a">>, Nested, FALSE, FALSE)>>,
  <<File(<<"a">>, {}, FALSE, TRUE), File(<<"a", "type">>, {}, FALSE, TRUE)>>,
  <<File(<<"a", "greeter">>, {Type(<<"type">>, "message")}, FALSE, FALSE), File(<<"a">>, Nested, FALSE, FALSE)>>,
  <<File(<<>>, Messages, TRUE, FALSE), File(<<"a">>, {}, FALSE, FALSE)>>, <<File(<<>>, Messages, FALSE, FALSE)>>,
  <<File(<<"google", "protobuf">>, {Type(<<"Any">>, "message")}, FALSE, FALSE), File(<<"a">>, Messages, FALSE, FALSE)>>,
  <<File(<<"a">>, Messages, TRUE, FALSE), File(<<"a", "tonic">>, Messages, TRUE, FALSE)>>}

Flags(flags) == [n \in DOMAIN flags |-> Opt(flags[n], <<>>)]
Needed == Flags(<<"--protoc", "--label", "--out_librs", "--package_info_output">>)
After == Flags(<<"--descriptor_set", "--prost_out">>) \o <<Opt("", <<"a.proto">>), Opt("-I", <<"dir">>)>>
Tonic == Flags(<<"--is_tonic">>)
Arguments(deps) ==
  LET info == <<Opt("--deps_info", deps), Opt("--direct_dep_crate_names", deps)>>
      middle == {info, info \o Flags(<<"--compile_well_known_types", "--rustfmt">>),
                 info \o Tonic, Tonic \o info \o Flags(<<"--plugin">>)}
  IN  {Needed \o m \o After : m \in middle} \union {Needed \o info \o Flags(<<"--is_tonic", "--rustfmt">>)}

Built(crate, dir, given, files, deps) ==
  [crate |-> crate, dir |-> dir, args |-> given, files |-> files, deps |-> ToSet(deps), additional |-> FALSE]
All(sources, crate, deps) ==
  {Built(crate, crate, given, files, deps) : given \in Arguments(deps), files \in sources}
Api == {Built("type", "type", given, <<File(<<"api">>, Messages, TRUE, FALSE)>>, <<"base">>) :
          given \in Arguments(<<"base">>)}

MCBuilds == {
  {<<b, c>> : b \in All(Sources, "base", <<>>), c \in Api},
  {<<b, c>> : b \in All(Sources, "base", <<>>), c \in All(Sources, "base", <<>>)}}
=============================================================================
