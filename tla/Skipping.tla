------------------------------ MODULE Skipping ------------------------------
(***************************************************************************)
(* One file in the Go engine: the finder asks the PathMatcher of the skip  *)
(* paths, fixFile those of each rule, and a matcher runs fnmatch, at most  *)
(* twice.  Composed with the configuration the matchers are made of, and   *)
(* compared with the verdict of PHP's FileInfoMatcher and SkipSkipper.     *)
(*                                                                         *)
(* A configuration comes from an ecs.php through the dump, or a blink.json *)
(* with one skip path.  Paths are absolute, without "\", ".", ".." and     *)
(* links; both engines run in "/".                                         *)
(***************************************************************************)
EXTENDS Fnmatch, Checkers

CONSTANT SkipPaths    \* those of a blink.json

Path == Seq(Atom \cup {Star})
SkipEntries == [class : Class \cup {NoClass}, everywhere : BOOLEAN, paths : SUBSET Path]

ASSUME SkipAssumption ==
    /\ NoClass \notin Class
    /\ Slash \in Atom /\ SkipPaths \subseteq Path
    /\ SkipLists \subseteq Seq(SkipEntries)
    /\ \A set \in DOMAIN SetRules : SetSkips[set] \in Seq(SkipEntries)

VARIABLES
    call,     \* the running call of fnmatch: "none", "glob" or "relative"
    todo,     \* the patterns the file was not yet compared with
    hits      \* those that match it

matchVars == <<pattern, name, px, nx, starPx, starNx, result>>
skipVars == <<configVars, matchVars, call, todo, hits>>

InitFile ==
    /\ pattern = <<>> /\ name = <<>>
    /\ px = 0 /\ nx = 0 /\ starPx = -1 /\ starNx = -1 /\ result = "none"
    /\ call = "none" /\ todo = {} /\ hits = {}

InitEcs == ConfigInit /\ InitFile

(* config.Load, for a path that has a "*" or exists; ecs is what ECSConfig *)
(* holds of the same path in withSkip.                                     *)
InitLoaded ==
    /\ \E p \in SkipPaths :
           /\ blink = ConfigOfPaths({NormalPath(p)})
           /\ ecs = [order |-> <<>>, conf |-> <<>>, removed |-> {},
                     skip |-> <<SkipClass(NoClass, FALSE, {p})>>]
    /\ stage = "resolved" /\ calls = 0
    /\ builder = [sets |-> <<>>, rules |-> <<>>, configured |-> <<>>,
                  skip |-> <<>>, levelUsed |-> FALSE]
    /\ dump = NoDump /\ asked = {} /\ overwritten = {}
    /\ InitFile
-----------------------------------------------------------------------------
(* NewPathMatcher and Match.                                               *)

(* normalizeForFnmatch: a "*" at either end becomes one at both.           *)
Normalize(p) ==
    IF p = <<>> \/ (Head(p) # Star /\ Last(p) # Star) THEN p
    ELSE LET inner == {i \in DOMAIN p : p[i] # Star}
             first == CHOOSE i \in inner : \A j \in inner : i <= j
             last == CHOOSE i \in inner : \A j \in inner : i >= j
         IN  <<Star>> \o (IF inner = {} THEN <<>> ELSE SubSeq(p, first, last)) \o <<Star>>

TextOf(n) == [i \in DOMAIN n |-> {n[i]}]

(* The file equals the pattern, or starts or ends with it.                 *)
TextMatches(n, p) ==
    \/ TextOf(n) = p
    \/ Normalize(p) # <<>> /\ IsPrefix(Normalize(p), TextOf(n))
    \/ Normalize(p) # <<>> /\ IsSuffix(Normalize(p), TextOf(n))

(* The pattern as a path of an existing file or of a directory above one.  *)
Directories == {d \in UNION {{SubSeq(TextOf(n), 1, i - 1) : i \in DOMAIN n} : n \in Names} :
                    \E n \in Names : d # <<>> /\ IsPrefix(d \o <<Slash>>, TextOf(n))}
Resolves(p, path) == p \in {path, Tail(path)}

UnderRealpath(n, p) ==
    \/ Resolves(Normalize(p), TextOf(n))
    \/ \E d \in Directories : Resolves(Normalize(p), d) /\ IsPrefix(d \o <<Slash>>, TextOf(n))

Current == CHOOSE p \in todo : TRUE

Fresh == px' = 0 /\ nx' = 0 /\ starPx' = -1 /\ starNx' = -1 /\ result' = "none"

Answered(p, hit) ==
    /\ todo' = todo \ {p} /\ hits' = IF hit THEN hits \cup {p} ELSE hits
    /\ call' = "none"

(* A file the finder found; the patterns it is to be compared with.        *)
Start(n) ==
    /\ stage = "resolved"
    /\ stage' = "file" /\ name' = n
    /\ todo' = blink.skip \cup UNION UNION {blink.groups[f] : f \in DOMAIN blink.groups}
    /\ UNCHANGED <<calls, builder, ecs, dump, blink, asked, overwritten,
                   pattern, px, nx, starPx, starNx, result, call, hits>>

Compare ==
    /\ stage = "file" /\ call = "none" /\ todo # {}
    /\ TextMatches(name, Current)
    /\ Answered(Current, TRUE)
    /\ UNCHANGED <<configVars, matchVars>>

CallGlob ==
    /\ stage = "file" /\ call = "none" /\ todo # {}
    /\ ~TextMatches(name, Current)
    /\ call' = "glob" /\ pattern' = Normalize(Current) /\ Fresh
    /\ UNCHANGED <<configVars, name, todo, hits>>

Match ==
    /\ call # "none" /\ Step
    /\ UNCHANGED <<configVars, call, todo, hits>>

CallRelative ==
    /\ call = "glob" /\ result = "mismatch"
    /\ call' = "relative" /\ pattern' = <<Star, Slash>> \o pattern /\ Fresh
    /\ UNCHANGED <<configVars, name, todo, hits>>

Answer ==
    /\ call # "none"
    /\ result = "match" \/ (call = "relative" /\ result = "mismatch")
    /\ Answered(Current, result = "match" \/ UnderRealpath(name, Current))
    /\ UNCHANGED <<configVars, matchVars>>

Finished == stage = "rejected" \/ (stage = "file" /\ todo = {})
Over == Finished /\ UNCHANGED skipVars
-----------------------------------------------------------------------------
OneFile == Compare \/ CallGlob \/ Match \/ CallRelative \/ Answer

SkipNext ==
    \/ ConfigNext /\ UNCHANGED <<matchVars, call, todo, hits>>
    \/ \E n \in Names : Start(n)
    \/ OneFile
    \/ Over

SkipSpec == (InitEcs \/ InitLoaded) /\ [][SkipNext]_skipVars /\ WF_skipVars(OneFile)
-----------------------------------------------------------------------------
(* What the Go engine does with the file: Find's skip, skippedFor.         *)

Hit(patterns) == patterns \cap hits # {}

SkippedFile == Hit(blink.skip)
SkippedFor(f) == f \in DOMAIN blink.groups /\ blink.groups[f] # {}
                 /\ \A paths \in blink.groups[f] : Hit(paths)
RunsOnFile == {run \in blink.runs : ~SkippedFor(run[1])}
-----------------------------------------------------------------------------
(* What PHP does with it: FileInfoMatcher with PHP's fnmatch, SkipSkipper. *)

LibC(p, n) == INSTANCE Fnmatch WITH pattern <- p, name <- n
GlobMatches(p, n) == \E cut \in LibC(p, n)!Cuts : LibC(p, n)!Matching(cut)

PhpMatches(n, p) ==
    \/ TextMatches(n, p)
    \/ GlobMatches(Normalize(p), n)
    \/ GlobMatches(<<Star, Slash>> \o Normalize(p), n)
    \/ UnderRealpath(n, p)

PhpSkips(c, n) ==
    \E s \in {SkippedClasses[d] : d \in DOMAIN SkippedClasses \cap (IsA[c] \cup {c})} :
        s.everywhere \/ \E p \in s.paths : PhpMatches(n, p)

PhpRun(c) == <<Successor[c], OptionsOf(Entry(c, ecs.conf[c]))>>

(* The kept checkers that PHP runs on the file, of those blink has.        *)
PhpRunning == {c \in Kept(ecs) : Successor[c] \in Known /\ ~PhpSkips(c, name)}

(* Known differences in the options of a fixer: several kept classes run   *)
(* it, not all alike; options are not dumped; blink's fixer takes none.    *)
TwoOptions(f) == \E c, d \in {d \in Kept(ecs) : Successor[d] = f} : PhpRun(c) # PhpRun(d)
Undumped(f) == \E c \in Kept(ecs) \ Readable : Successor[c] = f /\ ecs.conf[c] # Default
Ignored(f) == \E c \in Kept(ecs) : Successor[c] = f /\ Ignores(Entry(c, ecs.conf[c]))

SameOptions(f) == ~TwoOptions(f) /\ ~Undumped(f)
Compared == {f \in Known : SameOptions(f) /\ ~Ignored(f)}

SameFixers ==
    /\ {run[1] : run \in RunsOnFile} = {Successor[c] : c \in PhpRunning}
    /\ {run \in RunsOnFile : run[1] \in Compared} =
       {PhpRun(c) : c \in {d \in PhpRunning : Successor[d] \in Compared}}

(* What blink does differently with no mention in ECSResolution.           *)
NothingHidden ==
    /\ blink.unsupported \subseteq {c \in Kept(ecs) : Successor[c] \notin Known}
    /\ \A c \in Kept(ecs) \ blink.unsupported :
           Successor[c] \in Known \/ PhpSkips(c, name)
    /\ \A c \in PhpRunning \ blink.ignored :
           SameOptions(Successor[c]) => PhpRun(c) \in RunsOnFile

\* With blink a file meets the fixers that PHP would run on it, with the same
\* options but for the three differences named above: both skip the file or
\* neither, a checker skipped there through its class, a parent or an alias is
\* off in both, what blink has no fixer or no options for is listed, and a
\* configuration PHP accepts is not rejected after the dump (BlinkConfigDumper,
\* resolveECS, skippedFor, PathMatcher).
SameVerdict ==
    /\ stage = "rejected" => dump = NoDump
    /\ stage = "file" /\ todo = {} =>
           /\ SkippedFile <=> \E p \in SkippedPaths : PhpMatches(name, p)
           /\ SameFixers
           /\ NothingHidden

\* Whatever the order of the calls, a checker ecs.php asks for is kept, with
\* the configuration the file gives it, unless a skip excludes it, a checker
\* that does the same is kept, or a later withRules() replaced it: the passes
\* of boot() never leave none of two duplicates (ECSConfigBuilder, boot).
AskedForRuns ==
    stage \in {"booted", "dumped", "resolved", "file"} =>
        /\ \A c \in asked : \/ c \in Kept(ecs) \cup Excluded \cup overwritten
                            \/ \E d \in Duplicated : d[2] = c /\ d[1] \in Kept(ecs)
        /\ \A e \in ToSet(builder.configured) :
               e.class \in Kept(ecs) => ecs.conf[e.class] = e.config

\* Every file that is found is decided on: fnmatch's loop ends for each of the
\* patterns it is asked about (PathMatcher.Match, fnmatch).
Answers == (stage = "file") ~> (todo = {})
=============================================================================
