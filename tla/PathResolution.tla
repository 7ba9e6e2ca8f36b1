---------------------------- MODULE PathResolution ----------------------------
(***************************************************************************)
(* How the normalizer turns the path of a system call into the path the    *)
(* detectors see.  A path is a sequence of names from the root; a raw path *)
(* of a call may be relative and hold "..".  The walk of the kernel        *)
(* follows links; the normalizer works on the names alone and asks the     *)
(* file system, later than the call, only where the names call for it.     *)
(***************************************************************************)
EXTENDS AgeList

CONSTANTS
    Workspace,         \* the root of the workspace
    Sensitive,         \* paths the rules of sensitive.toml name, with what is below
    CacheCapacity      \* MAX_PATH_CACHE_ENTRIES

Up == ".."
Root == <<>>
StaleDirfd == <<"stale-dirfd">>

ASSUME PathAssumption ==
    /\ Workspace \in Seq(STRING)
    /\ \A path \in Sensitive : path \in Seq(STRING)
    /\ CacheCapacity \in Nat \ {0}

\* lexical_clean
LexicalClean(names) ==
    LET clean[i \in 0 .. Len(names)] ==
            IF i = 0 THEN Root
            ELSE IF names[i] # Up THEN Append(clean[i - 1], names[i])
            ELSE IF clean[i - 1] = Root THEN Root ELSE Front(clean[i - 1])
    IN  clean[Len(names)]

\* The walk of the kernel from directory at; links is where they lead.
Walk(links, at, names) ==
    LET walk[i \in 0 .. Len(names)] ==
            IF i = 0 THEN at
            ELSE IF names[i] = Up
            THEN (IF walk[i - 1] = Root THEN Root ELSE Front(walk[i - 1]))
            ELSE LET next == Append(walk[i - 1], names[i])
                 IN  IF next \in DOMAIN links THEN links[next] ELSE next
    IN  walk[Len(names)]

\* What a call on a name itself, such as unlink and rename, acts on: a link at
\* the end is not followed.
Entry(links, at, names) ==
    IF names = <<>> \/ Last(names) = Up THEN Walk(links, at, names)
    ELSE Append(Walk(links, at, Front(names)), Last(names))

\* files is a file system: its links, and the paths that are gone with what is
\* below.
Exists(files, path) == ~ \E gone \in files.gone : IsPrefix(gone, path)

\* SensitiveConfig::matching_rule, Normalizer::workspace_of
IsSensitive(path) == \E rule \in Sensitive : IsPrefix(rule, path)
InWorkspace(path) == IsPrefix(Workspace, path)

\* lexical_from_base
LexicalFromBase(base, raw) ==
    LexicalClean(IF raw.absolute THEN raw.names ELSE base \o raw.names)

\* compute_resolution, in the file system there is when the event is processed.
ComputeResolution(files, base, lexical) ==
    LET canonical == Walk(files.links, Root, lexical)
    IN  IF ~(IsSensitive(lexical) \/ ~InWorkspace(lexical) \/ base = StaleDirfd)
        THEN [preferred |-> lexical, verdict |-> "LexicalTrusted"]
        ELSE IF ~Exists(files, canonical) \/ IsPrefix(StaleDirfd, canonical)
        THEN [preferred |-> lexical, verdict |-> "UnresolvedSensitive"]
        ELSE [preferred |-> canonical,
              verdict |-> IF canonical = lexical THEN "CanonicalTrusted"
                          ELSE "CanonicalMismatch"]

\* resolve_path from a base: a cached resolution is taken as it is, and is
\* the youngest again.
ResolveFrom(files, cache, base, raw) ==
    LET key == <<base, raw>>
        resolution == IF key \in KeysIn(cache) THEN ValueOf(cache, key)
                      ELSE ComputeResolution(files, base, LexicalFromBase(base, raw))
    IN  [cache |-> InsertYoungest(cache, key, resolution, CacheCapacity),
         resolution |-> resolution]
=============================================================================
