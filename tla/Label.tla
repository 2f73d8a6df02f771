-------------------------------- MODULE Label --------------------------------
(***************************************************************************)
(* The parser for Bazel's labels (util/label/label.rs), and the grammar of *)
(* the labels it is for.  A string is a sequence of characters.            *)
(***************************************************************************)
EXTENDS Naturals, Sequences, FiniteSets, SequencesExt

CONSTANTS
  Letters,     \* is_ascii_alphabetic
  RepoChars,   \* those of a repository's name
  PackageChars \* those of a package's name, without "/"

\* The marks that part a label are in no repository's and in no package's name.
CharsOK ==
  /\ Letters \subseteq RepoChars
  /\ {"/", ":", "@"} \intersect (RepoChars \union PackageChars) = {}

ASSUME CharsAssumption == CharsOK

Error == [ok |-> FALSE]
Relative(name) == [ok |-> TRUE, repo |-> <<>>, package |-> <<>>, relative |-> TRUE, name |-> name]
Absolute(repo, package, name) == [ok |-> TRUE, repo |-> repo, package |-> package, relative |-> FALSE, name |-> name]

From(string, n) == SubSeq(string, n, Len(string))
UpTo(string, n) == SubSeq(string, 1, n)
\* find, 0 when there is none, and rfind.
Slashes(string) == {n \in 1..Len(string) - 1 : string[n] = "/" /\ string[n + 1] = "/"}
First(set) == IF set = {} THEN 0 ELSE CHOOSE n \in set : \A k \in set : n <= k
Colon(string) == First({n \in DOMAIN string : string[n] = ":"})
LastSlash(string) == SelectLastInSeq(string, LAMBDA c : c = "/")
AtSigns(string) == Cardinality({n \in DOMAIN string : \A k \in 1..n : string[k] = "@"})

\* consume_name: what is left is a name with a mark before it; <<>> when nothing is left.
ConsumeName(rest) ==
  LET marked == CASE rest # <<>> /\ rest[1] = ":" -> 1
                  [] IsPrefix(<<"/", "/">>, rest) -> 2
                  [] ~IsPrefix(<<"/", "/">>, rest) /\ rest # <<>> /\ rest[1] = "/" -> 1
                  [] OTHER -> 0
      name   == From(rest, marked + 1)
  IN  IF rest = <<>> THEN [ok |-> TRUE, name |-> <<>>]
      ELSE IF rest = <<":">> \/ (name # <<>> /\ name[1] \in {"/", ":"}) THEN Error
      ELSE [ok |-> TRUE, name |-> name]

\* consume_repository_name: the repository with its "@"s, and what follows it.
ConsumeRepository(string) ==
  LET ats  == AtSigns(string)
      end  == IF Slashes(string) = {} THEN Len(string) ELSE First(Slashes(string)) - 1
      name == SubSeq(string, ats + 1, end)
  IN  IF ats = 0 THEN [ok |-> TRUE, repo |-> <<>>, rest |-> string]
      ELSE IF \/ ats > 2
              \/ name # <<>> /\ (name[1] \notin Letters \/ ~ToSet(name) \subseteq RepoChars)
              \/ ats = 2 /\ name = <<>>
           THEN Error
           ELSE [ok |-> TRUE, repo |-> UpTo(string, end), rest |-> From(string, end + 1)]

\* Mutant: the last "//" may be anywhere.
ConsumePackageAnywhere(input) ==
  LET colon   == Colon(input)
      package == SubSeq(input, 3, IF colon = 0 THEN Len(input) ELSE colon - 1)
      rest    == IF colon = 0 THEN <<>> ELSE From(input, colon)
  IN  IF 1 \notin Slashes(input) THEN Error
      ELSE IF package = <<>> THEN [ok |-> TRUE, package |-> <<>>, rest |-> rest]
      ELSE IF ~ToSet(package) \subseteq PackageChars \union {"/"} \/ Last(package) = "/" THEN Error
      ELSE [ok |-> TRUE, package |-> package,
            rest |-> IF rest # <<>> THEN rest
                     ELSE IF LastSlash(package) = 0 THEN package ELSE From(package, LastSlash(package))]

\* consume_package_name: the package, and the part the name is in.
ConsumePackage(input) ==
  LET colon   == Colon(input)
      package == SubSeq(input, 3, IF colon = 0 THEN Len(input) ELSE colon - 1)
      rest    == IF colon = 0 THEN <<>> ELSE From(input, colon)
  IN  IF Slashes(input) # {1} THEN Error
      ELSE IF package = <<>> THEN [ok |-> TRUE, package |-> <<>>, rest |-> rest]
      ELSE IF ~ToSet(package) \subseteq PackageChars \union {"/"} \/ Last(package) = "/" THEN Error
      ELSE [ok |-> TRUE, package |-> package,
            rest |-> IF rest # <<>> THEN rest
                     ELSE IF LastSlash(package) = 0 THEN package ELSE From(package, LastSlash(package))]

\* name_from_package
NameFromPackage(package) == From(package, LastSlash(package) + 1)

\* Label::analyze, behind the repository.
AnalyzePackage(repo, input) ==
  LET consumed == ConsumePackage(input)
      name     == IF consumed.ok THEN ConsumeName(consumed.rest) ELSE Error
  IN  IF ~name.ok \/ (consumed.package = <<>> /\ name.name = <<>>) THEN Error
      ELSE Absolute(repo, consumed.package,
                    IF name.name = <<>> THEN NameFromPackage(consumed.package) ELSE name.name)

\* Label::analyze
Analyze(string) ==
  IF string = <<>> THEN Error
  ELSE IF string[1] = ":"
  THEN LET name == ConsumeName(string) IN IF name.ok THEN Relative(name.name) ELSE Error
  ELSE LET consumed == ConsumeRepository(string)
       IN  IF ~consumed.ok THEN Error
           ELSE IF consumed.rest # <<>> \/ consumed.repo = <<>> THEN AnalyzePackage(consumed.repo, consumed.rest)
           ELSE LET name == From(consumed.repo, AtSigns(consumed.repo) + 1)
                IN  IF name = <<>> THEN Error ELSE Absolute(consumed.repo, <<>>, name)
------------------------------------------------------------------------------
\* The grammar, from the parts to the string.
IsRepo(repo) ==
  LET name == From(repo, AtSigns(repo) + 1)
  IN  \/ repo \in {<<>>, <<"@">>}
      \/ AtSigns(repo) \in {1, 2} /\ name # <<>> /\ name[1] \in Letters /\ ToSet(name) \subseteq RepoChars
IsPackage(package) ==
  /\ ToSet(package) \subseteq PackageChars \union {"/"}
  /\ package # <<>> => package[1] # "/" /\ Last(package) # "/" /\ Slashes(package) = {}
IsName(name) == name # <<>> /\ name[1] \notin {"/", ":"} /\ Slashes(name) = {}

\* The labels that a string stands for: a relative name; a repository, a package and a
\* name; without its name, that of the package's last part or of the repository.
Denotes(string) ==
  LET n == Len(string)
      Ends(i) == i + 2 <= n /\ string[i + 1] = "/" /\ string[i + 2] = "/"
  IN  {Relative(Tail(s)) : s \in {t \in {string} : t # <<>> /\ t[1] = ":" /\ t # <<":">> /\ t[2] \notin {"/", ":"}}}
      \union {Absolute(UpTo(string, p[1]), SubSeq(string, p[1] + 3, p[2] - 1), From(string, p[2] + 1)) :
                p \in {q \in (0..n) \X (1..n) :
                  /\ Ends(q[1]) /\ IsRepo(UpTo(string, q[1])) /\ q[2] > q[1] + 2 /\ string[q[2]] = ":"
                  /\ IsPackage(SubSeq(string, q[1] + 3, q[2] - 1)) /\ IsName(From(string, q[2] + 1))}}
      \union {Absolute(UpTo(string, i), From(string, i + 3), NameFromPackage(From(string, i + 3))) :
                i \in {k \in 0..n : Ends(k) /\ IsRepo(UpTo(string, k)) /\ k + 2 < n /\ IsPackage(From(string, k + 3))}}
      \union {Absolute(s, <<>>, From(s, AtSigns(s) + 1)) : s \in {t \in {string} : IsRepo(t) /\ t \notin {<<>>, <<"@">>}}}
==============================================================================
