------------------------------ MODULE Resolver ------------------------------
(***************************************************************************)
(* What a specifier of @use, @forward or @import means                     *)
(* (sass-parser/src/resolver.rs), and the specifier that auto-import       *)
(* writes for a file (compute_use_path in sass-lsp/src/code_actions.rs).   *)
(*                                                                         *)
(* A path is the sequence of its components, from the root; a specifier is *)
(* split at its slashes as well, and both may hold "..".  A disk is the    *)
(* set of the files on it, by paths without ".."; directories are always   *)
(* there.                                                                  *)
(***************************************************************************)
EXTENDS Naturals, Sequences, SequencesExt, FiniteSetsExt

CONSTANTS LoadPaths,    \* directories, in the order they were added
          Registered,   \* import aliases as registered: a prefix, and the
                        \* directories it stands for
          NodeModules,  \* whether node_modules directories are searched
          Builtins      \* "sass:math" and so on

ASSUME ResolverConstants ==
    /\ LoadPaths \in Seq(Seq(STRING))
    /\ Registered \in Seq([prefix : Seq(STRING), targets : Seq(Seq(STRING))])
    /\ NodeModules \in BOOLEAN
    /\ Builtins \subseteq STRING

-----------------------------------------------------------------------------
(* Names.                                                                   *)

StartsWith(s, p) == Len(p) <= Len(s) /\ SubSeq(s, 1, Len(p)) = p
EndsWith(s, p) == Len(p) <= Len(s) /\ SubSeq(s, Len(s) - Len(p) + 1, Len(s)) = p
WithoutPrefix(s, p) == IF StartsWith(s, p) THEN SubSeq(s, Len(p) + 1, Len(s)) ELSE s
WithoutSuffix(s, p) == IF EndsWith(s, p) THEN SubSeq(s, 1, Len(s) - Len(p)) ELSE s

Stem(name) ==
    IF EndsWith(name, ".css") THEN WithoutSuffix(name, ".css")
    ELSE WithoutSuffix(WithoutSuffix(name, ".sass"), ".scss")

\* Mutant: a line copied and not changed.
FilesCopied(stem) ==
    <<stem \o ".scss", "_" \o stem \o ".scss", stem \o ".sass", stem \o ".sass">>

\* The files that a name without extension may be, the likelier ones first.
FilesNamed(stem) ==
    <<stem \o ".scss", "_" \o stem \o ".scss", stem \o ".sass", "_" \o stem \o ".sass">>

-----------------------------------------------------------------------------
(* Paths.                                                                   *)

Dots == {".", ".."}

\* What the file system makes of a path.
Normal(path) ==
    IF Range(path) \cap Dots = {} THEN path
    ELSE FoldLeft(LAMBDA p, name : CASE name = "." -> p
                                     [] name = ".." -> IF p = <<>> THEN p ELSE Front(p)
                                     [] OTHER -> Append(p, name),
                  <<>>, path)

Directory(path) == Front(path)

Rest(path, n) == SubSeq(path, n + 1, Len(path))

\* common_prefix_len
CommonPrefix(a, b) ==
    Max({n \in 0 .. Len(a) : n <= Len(b) /\ SubSeq(a, 1, n) = SubSeq(b, 1, n)})

-----------------------------------------------------------------------------
(* Where a specifier is looked for: paths in the order they are tried.      *)

\* resolve_in_dir
InDirectory(dir, spec) ==
    LET stem == IF spec = <<>> THEN "" ELSE Last(spec)
        at == dir \o (IF spec = <<>> THEN <<>> ELSE Front(spec))
        explicit == IF EndsWith(stem, ".scss") \/ EndsWith(stem, ".sass")
                      THEN <<stem, "_" \o stem>> ELSE <<>>
        names == explicit \o FilesNamed(stem)
    IN  IF stem = ".." /\ Len(spec) > 1 THEN <<>>
        ELSE [k \in DOMAIN names |-> Append(at, names[k])]
               \o [k \in 1 .. 4 |-> dir \o Append(spec, FilesNamed("index")[k])]

\* add_import_alias, one after the other: longer prefixes come first.
ImportAliases ==
    FoldLeft(LAMBDA as, a :
               SelectSeq(as, LAMBDA b : Len(b.prefix) >= Len(a.prefix)) \o <<a>>
                 \o SelectSeq(as, LAMBDA b : Len(b.prefix) < Len(a.prefix)),
             <<>>, Registered)

\* The last of the targets that share the longest path with the file.
Closest(targets, dir) ==
    LET shared(k) == CommonPrefix(targets[k], dir)
    IN  targets[Max({k \in DOMAIN targets :
                       \A j \in DOMAIN targets : shared(j) <= shared(k)})]

AliasSearch(alias, spec, base) ==
    LET rest == Rest(spec, Len(alias.prefix))
        targets == IF Len(alias.targets) <= 1 THEN alias.targets
                   ELSE <<Closest(alias.targets, Directory(base))>> \o alias.targets
    IN  FlattenSeq([k \in DOMAIN targets |-> InDirectory(targets[k], rest)])

\* resolve_alias: an alias with one target is the last that is tried.
Aliased(spec, base) ==
    LET matching == SelectSeq(ImportAliases, LAMBDA a : IsPrefix(a.prefix, spec))
        final == {k \in DOMAIN matching : Len(matching[k].targets) = 1}
        last == IF final = {} THEN Len(matching) ELSE Min(final)
    IN  FlattenSeq([k \in 1 .. last |-> AliasSearch(matching[k], spec, base)])

\* resolve_node_modules: from the file's directory up to the root.
InNodeModules(spec, base) ==
    FlattenSeq([k \in 1 .. Len(base) |->
        InDirectory(Append(SubSeq(base, 1, Len(base) - k), "node_modules"), spec)])

Search(spec, base) ==
    Aliased(spec, base)
      \o InDirectory(Directory(base), spec)
      \o FlattenSeq([k \in DOMAIN LoadPaths |-> InDirectory(LoadPaths[k], spec)])
      \o (IF NodeModules THEN InNodeModules(spec, base) ELSE <<>>)

-----------------------------------------------------------------------------
(* resolve                                                                  *)

IsBuiltin(spec) == Len(spec) = 1 /\ StartsWith(spec[1], "sass:")
IsCss(spec) == spec # <<>> /\ EndsWith(Last(spec), ".css")

NotFound == [kind |-> "not found", path |-> <<>>]

\* The places of a search at which there is a file.
Hits(disk, search) == {i \in DOMAIN search : Normal(search[i]) \in disk}

\* Mutant: a name that is ambiguous is an error, as it is for Dart Sass.
FirstUnambiguous(search, hits) ==
    IF \E i \in hits : hits = {i}
      THEN [kind |-> "file", path |-> search[CHOOSE i \in hits : TRUE]]
      ELSE NotFound

\* The path found is as it was put together: ".." stays in it.
FirstOf(search, hits) ==
    IF hits = {} THEN NotFound
    ELSE [kind |-> "file",
          path |-> search[CHOOSE i \in hits : \A j \in hits : i <= j]]

FirstOn(disk, search) == FirstOf(search, Hits(disk, search))

Resolve(disk, spec, base) ==
    IF IsBuiltin(spec)
      THEN IF spec[1] \in Builtins THEN [kind |-> "builtin", path |-> spec] ELSE NotFound
    ELSE IF IsCss(spec) THEN [kind |-> "css", path |-> spec]
    ELSE FirstOn(disk, Search(spec, base))

-----------------------------------------------------------------------------
(* compute_use_path                                                         *)

\* diff_paths
RelativePath(target, dir) ==
    LET n == CommonPrefix(dir, target)
    IN  [k \in 1 .. Len(dir) - n |-> ".."] \o Rest(target, n)

Renamed(path, name) == Append(Front(path), name)

\* normalize_sass_path and normalize_extension_only
NormalizeSassPath(path) == Renamed(path, WithoutPrefix(Stem(Last(path)), "_"))
NormalizeExtensionOnly(path) == Renamed(path, Stem(Last(path)))

\* Does the specifier lead back to the file?
Back(disk, from, target, spec) ==
    Resolve(disk, spec, from) = [kind |-> "file", path |-> target]

\* <<>> if no specifier leads back to the target.
Specifier(disk, from, target, path) ==
    IF Back(disk, from, target, NormalizeSassPath(path))
      THEN <<NormalizeSassPath(path)>>
    ELSE IF Back(disk, from, target, NormalizeExtensionOnly(path))
      THEN <<NormalizeExtensionOnly(path)>>
    ELSE <<>>

UsePath(disk, from, target) ==
    Specifier(disk, from, target, RelativePath(target, Directory(from)))

-----------------------------------------------------------------------------
(* complete_use_paths, after what was typed up to the last slash; what was   *)
(* typed after it only takes some of the offers away.                        *)

\* is_scss_sass_or_css
IsStyle(name) == \E suffix \in {".scss", ".sass", ".css"} : EndsWith(name, suffix)

\* What a file is offered as: without its extension, whichever it is.
Label(name) ==
    LET suffixes == {x \in {".scss", ".sass", ".css"} : EndsWith(name, x)}
    IN  WithoutSuffix(WithoutPrefix(name, "_"), CHOOSE x \in suffixes : TRUE)

\* scan_dir_for_completions: the files in a directory, without one that is
\* excluded, if the path to it is written the same.
FilesIn(disk, dir, exclude) ==
    {g \in disk : /\ Front(g) = Normal(dir)
                  /\ IsStyle(Last(g)) /\ Append(dir, Last(g)) \notin exclude}

FoldersIn(disk, dir) ==
    {g[Len(Normal(dir)) + 1] :
        g \in {g \in disk : /\ IsPrefix(Normal(dir), g)
                            /\ Len(g) > Len(Normal(dir)) + 1}}

Reading(dir, exclude) == [dir |-> dir, exclude |-> exclude]

\* The directories that are read: those of the aliases that the prefix begins
\* with, or else the file's own and the load paths.  The file that is being
\* edited is excluded from its own directory only.
Scanned(from, prefix) ==
    LET aliases == {a \in Range(ImportAliases) : prefix # <<>> /\ IsPrefix(a.prefix, prefix)}
        targets(a) == {t \o Rest(prefix, Len(a.prefix)) : t \in Range(a.targets)}
    IN  IF aliases # {} THEN {Reading(dir, {}) : dir \in UNION {targets(a) : a \in aliases}}
        ELSE {Reading(Directory(from) \o prefix, {from})}
               \cup {Reading(dir \o prefix, {}) : dir \in Range(LoadPaths)}

FilesOffered(disk, from, prefix) ==
    {Append(prefix, Label(Last(g))) :
        g \in UNION {FilesIn(disk, s.dir, s.exclude) : s \in Scanned(from, prefix)}}

FoldersOffered(disk, from, prefix) ==
    {Append(prefix, name) :
        name \in UNION {FoldersIn(disk, s.dir) : s \in Scanned(from, prefix)}}
      \cup IF prefix = <<>> THEN {a.prefix : a \in Range(ImportAliases)} ELSE {}
=============================================================================
