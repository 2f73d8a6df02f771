--------------------------- MODULE CargoRegistries ---------------------------
(***************************************************************************)
(* Where the packages of a Cargo.lock are downloaded from                  *)
(* (crate_universe/src/splicing.rs, write_registry_urls_and_feature_map;   *)
(* src/splicing/cargo_config.rs, src/splicing/crate_index_lookup.rs).      *)
(*                                                                         *)
(* A Cargo config has registries, from name to url, and sources, from name *)
(* to a url and the name of a replacement.  A locked package has a source, *)
(* a kind and a url, or none; a checksum, or not; and its index has it, or *)
(* not.                                                                    *)
(***************************************************************************)
EXTENDS Naturals, Sequences, FiniteSets, SequencesExt

CONSTANTS
  CratesIo,   \* the url of the index of crates.io
  NoReplace,  \* a source that is not replaced
  CratesIoIsSparse  \* cargo uses the sparse index of crates.io

\* FromStr for CargoConfig: crates-io is there unless the file says otherwise.
Loaded(config) ==
  [registries |-> [n \in DOMAIN config.registries \union {"crates-io"} |->
                     IF n \in DOMAIN config.registries THEN config.registries[n] ELSE CratesIo],
   sources |-> config.sources]

\* The sources that a url stands for; get_source_from_url takes the first.
SourcesFromUrl(config, url) ==
  LET same == {n \in DOMAIN config.sources : config.sources[n].registry = url}
  IN  IF same = {} /\ url = CratesIo THEN {"crates-io"} \intersect DOMAIN config.sources ELSE same

IndexUrlByName(config, name) ==
  IF name \in DOMAIN config.registries THEN {config.registries[name]}
  ELSE IF name \in DOMAIN config.sources THEN {config.sources[name].registry}
  ELSE {}

\* Mutant: an index is looked for at the url that Cargo.lock names.
ReplacementUrlsIgnored(config, url) == {url}

\* No url: a replacement that the config does not know.
ReplacementUrls(config, url) ==
  LET found == SourcesFromUrl(config, url)
      name == config.sources[CHOOSE n \in found : TRUE].replace
  IN  IF found = {} THEN {url}
      ELSE IF name = NoReplace THEN {url} ELSE IndexUrlByName(config, name)
------------------------------------------------------------------------------
\* index_urls, in their order: of one url, the git index comes first.
Registry == {"registry", "sparse", "local"}
RegistryPackages(lock) == {p \in lock : p.kind \in Registry}

\* The index for a source; none for a kind that is not supported.
IndexFor(urls, kind) ==
  UNION {IF CratesIoIsSparse /\ url = CratesIo THEN {<<"sparse", CratesIo>>}
         ELSE IF kind = "registry" THEN {<<"git", url>>}
         ELSE IF kind = "sparse" THEN {<<"sparse", url>>} ELSE {} : url \in urls}

\* Of two kinds of source with one url, the last to be loaded is the one found.
LastKind(lock, url) ==
  LET kinds == {p.kind : p \in {p \in RegistryPackages(lock) : p.url = url}}
  IN  IF "local" \in kinds THEN "local" ELSE IF "sparse" \in kinds THEN "sparse" ELSE "registry"

Urls(config, p) == IF config = <<>> THEN {p.url} ELSE ReplacementUrls(Loaded(config[1]), p.url)
Loads(config, lock) ==
  \A p \in RegistryPackages(lock) : IndexFor(Urls(config, p), p.kind) # {}

\* get_source_info: without a checksum in Cargo.lock it is taken from the index.
Summed(p) == p.checksum \/ p.indexed
SourceInfos(config, lock) ==
  {<<p.name, CHOOSE index \in IndexFor(Urls(config, p), LastKind(lock, p.url)) : TRUE>> :
     p \in RegistryPackages(lock)}
=============================================================================
