------------------------------ MODULE Checkers ------------------------------
(***************************************************************************)
(* From ecs.php to the checkers that run: the calls of the fluent builder, *)
(* ECSConfig and its boot, what BlinkConfigDumper hands to the Go engine   *)
(* and what resolveECS makes of it there.                                  *)
(*                                                                         *)
(* A skip pattern is what it is for Fnmatch, a sequence of atoms; what it  *)
(* matches is decided by Skipping, which runs both engines on a file.      *)
(***************************************************************************)
EXTENDS Naturals, Sequences, FiniteSets, SequencesExt

CONSTANTS
    Checker, Fixer,     \* the sniffs and fixers, and which are fixers
    Class,              \* all classes and interfaces there are
    IsA,                \* those a checker is one of
    Successor,          \* what a deprecated fixer is a proxy of; else itself
    Config,             \* what a checker may be configured with
    Proxied,            \* the options with which some of these configure it
    ByPriority,         \* the fixers of each priority, from the highest
    Readable,           \* the fixers that keep options where the dumper finds them
    Known,              \* the checkers blink has an own fixer for
    Configurable,       \* those of blink's fixers that take options
    Duplicated,         \* pairs that do the same: the first is kept
    Conflicting,        \* pairs that undo each other
    SetRules, SetSkips, \* what each set file registers, the classes it skips
    Level, LevelConfigs,     \* the rules of withXLevel, those it configures
    LevelSets,               \* the sets that hold the same rules
    Default,                 \* the configuration of a rule that has none
    Slash,                                   \* the atom of "/"
    RuleLists, ConfiguredRules, SkipLists, Levels,   \* what calls are made with
    MaxCalls                 \* bound: calls made in one ecs.php

Entry(c, config) == [class |-> c, config |-> config]
Entries == [class : Checker, config : Config]

ASSUME CallsAssumption ==
    /\ Checker \subseteq Class /\ IsA \in [Checker -> SUBSET Class]
    /\ Default \in Config
    /\ RuleLists \subseteq Seq(Checker) /\ ConfiguredRules \subseteq Entries
    /\ \A set \in DOMAIN SetRules : SetRules[set] \in Seq(Entries)
    /\ Level \in Seq(Checker) /\ Levels \subseteq Nat
    /\ \A c \in DOMAIN LevelConfigs : LevelConfigs[c] \in Config

ASSUME FixersAssumption ==
    /\ ByPriority \in Seq(SUBSET Fixer) /\ UNION ToSet(ByPriority) = Fixer
    /\ Readable \subseteq Fixer

(* Only fixers are proxies, and none of another proxy.                      *)
ASSUME SuccessorAssumption ==
    /\ Successor \in [Checker -> Checker]
    /\ \A c \in Checker : Successor[Successor[c]] = Successor[c]
    /\ \A c \in Checker \ Fixer : Successor[c] = c

(* Of any checkers some has no better one among them, and what is better   *)
(* than the better one is better.                                          *)
ASSUME DuplicatedAssumption ==
    /\ Duplicated \subseteq Checker \X Checker
    /\ \A S \in SUBSET Checker : S # {} => \E c \in S : \A d \in Duplicated :
                                                   d[2] = c => d[1] \notin S
    /\ \A d, e \in Duplicated : d[2] = e[1] => <<d[1], e[2]>> \in Duplicated

VARIABLES
    stage,        \* "config", "invoked", "booted", "dumped", "resolved",
                  \* "rejected", and "file" when the engines run
    calls,        \* how many calls were made on the builder
    builder,      \* ECSConfigBuilder: sets, rules, configured, skip, levelUsed
    ecs,          \* ECSConfig: order, conf, removed; skip is Option::SKIP
    dump,         \* the JSON given to blink: rules, skips
    blink,        \* the Config of Go: skip, runs, groups, unsupported, ignored
    asked,        \* history: every checker a call has asked for
    overwritten   \* history: those lost to a later withRules

configVars == <<stage, calls, builder, ecs, dump, blink, asked, overwritten>>

Classes(entries) == {entries[i].class : i \in DOMAIN entries}
LastOf(entries, c) == entries[SelectLastInSeq(entries, LAMBDA e : e.class = c)]

NoDump == [rules |-> <<>>, skips |-> {}]
ConfigOfPaths(paths) ==
    [skip |-> paths, runs |-> {}, groups |-> <<>>, unsupported |-> {}, ignored |-> {}]

ConfigInit ==
    /\ stage = "config" /\ calls = 0
    /\ builder = [sets |-> <<>>, rules |-> <<>>, configured |-> <<>>,
                  skip |-> <<>>, levelUsed |-> FALSE]
    /\ ecs = [order |-> <<>>, conf |-> <<>>, removed |-> {}, skip |-> <<>>]
    /\ dump = NoDump /\ blink = ConfigOfPaths({})
    /\ asked = {} /\ overwritten = {}
-----------------------------------------------------------------------------
(* ecs.php: calls on the builder, in any order.                            *)

Call(change) ==
    /\ stage = "config" /\ calls < MaxCalls
    /\ calls' = calls + 1
    /\ builder' = change
    /\ UNCHANGED <<stage, ecs, dump, blink>>

(* A key that is there keeps its place and takes the new value.            *)
Put(entries, e) ==
    IF e.class \in Classes(entries)
    THEN [i \in DOMAIN entries |-> IF entries[i].class = e.class THEN e ELSE entries[i]]
    ELSE Append(entries, e)

WithRules(rules) ==
    /\ Call([builder EXCEPT !.rules = rules])
    /\ asked' = asked \cup ToSet(rules)
    /\ overwritten' = (overwritten \cup ToSet(builder.rules)) \ ToSet(rules)

WithConfiguredRule(e) ==
    /\ Call([builder EXCEPT !.configured = Put(@, e)])
    /\ asked' = asked \cup {e.class}
    /\ UNCHANGED overwritten

WithSets(set) ==
    /\ Call([builder EXCEPT !.sets = Append(@, set)])
    /\ asked' = asked \cup Classes(SetRules[set])
    /\ UNCHANGED overwritten

WithSkip(skip) ==
    /\ Call([builder EXCEPT !.skip = skip])
    /\ UNCHANGED <<asked, overwritten>>

(* applyLevel, rule by rule.                                               *)
AtLevel(b, c) ==
    IF c \in DOMAIN LevelConfigs
    THEN [b EXCEPT !.configured = Put(@, Entry(c, LevelConfigs[c]))]
    ELSE [b EXCEPT !.rules = Append(@, c)]

AllAtLevel(b, rules) ==
    LET upTo[n \in 0 .. Len(rules)] ==
            IF n = 0 THEN b ELSE AtLevel(upTo[n - 1], rules[n])
    IN  upTo[Len(rules)]

WithLevel(level) ==
    LET rules == SubSeq(Level, 1, IF level < Len(Level) THEN level + 1 ELSE Len(Level))
    IN  /\ Call([AllAtLevel(builder, rules) EXCEPT !.levelUsed = TRUE])
        /\ asked' = asked \cup ToSet(rules)
        /\ overwritten' = overwritten \ ToSet(rules)
-----------------------------------------------------------------------------
(* __invoke: the sets, which are such files themselves, then the own skips *)
(* and rules, then the configured ones.  ECSConfig keeps duplicates in     *)
(* order, and the last configuration of a class.                           *)

Superfluous == builder.levelUsed /\ ToSet(builder.sets) \cap LevelSets # {}
Twice == ~IsInjective(builder.rules)

OfSets(f) == FlattenSeq([i \in DOMAIN builder.sets |-> f[builder.sets[i]]])

Registered ==
    OfSets(SetRules)
    \o [i \in DOMAIN builder.rules |-> Entry(builder.rules[i], Default)]
    \o builder.configured

Reject ==
    /\ stage' = "rejected"
    /\ UNCHANGED <<calls, builder, ecs, dump, blink, asked, overwritten>>

InvokeFails == stage = "config" /\ (Superfluous \/ Twice) /\ Reject

Invoke ==
    /\ stage = "config" /\ ~Superfluous /\ ~Twice
    /\ ecs' = [order |-> [i \in DOMAIN Registered |-> Registered[i].class],
               conf |-> [c \in Classes(Registered) |-> LastOf(Registered, c).config],
               removed |-> {},
               skip |-> OfSets(SetSkips) \o builder.skip]
    /\ stage' = "invoked"
    /\ UNCHANGED <<calls, builder, dump, blink, asked, overwritten>>
-----------------------------------------------------------------------------
(* withSkip entries name a class, bare or with paths, or are a path.       *)

NoClass == "path"
SkipClass(c, everywhere, paths) ==
    [class |-> c, everywhere |-> everywhere, paths |-> paths]
NamesClass(entry) == entry.class # NoClass

(* PathNormalizer: no run of slashes, none at the end.                     *)
NormalPath(p) ==
    LET upTo[n \in 0 .. Len(p)] ==
            IF n = 0 THEN <<>>
            ELSE IF n > 1 /\ p[n - 1] = Slash /\ p[n] = Slash THEN upTo[n - 1]
            ELSE Append(upTo[n - 1], p[n])
        single == upTo[Len(p)]
    IN  IF Len(single) > 1 /\ Last(single) = Slash THEN Front(single) ELSE single

SkippedPaths == {NormalPath(p) : p \in UNION {e.paths :
                     e \in {s \in ToSet(ecs.skip) : ~NamesClass(s)}}}

(* For each class the last of its entries.                                 *)
SkippedClasses == [c \in Classes(ecs.skip) \ {NoClass} |-> LastOf(ecs.skip, c)]
-----------------------------------------------------------------------------
(* boot: the three passes over the registered checkers.                    *)

Kept(e) == DOMAIN e.conf \ e.removed

Excluded == {e.class : e \in {s \in ToSet(ecs.skip) : NamesClass(s) /\ s.everywhere}}

RemoveExcluded(e) == [e EXCEPT !.removed = @ \cup (Excluded \cap Kept(e))]

RemoveMutual(e) ==
    LET both == {d \in Duplicated : d[1] \in Kept(e) /\ d[2] \in Kept(e)}
    IN  [e EXCEPT !.removed = @ \cup {d[2] : d \in both}]

Conflict(classes) == \E d \in Conflicting : d[1] \in classes /\ d[2] \in classes

BootedMutualFirst(e) == RemoveExcluded(RemoveMutual(e))   \* mutant: passes swapped
Booted(e) == RemoveMutual(RemoveExcluded(e))

BootFails == stage = "invoked" /\ Conflict(Kept(Booted(ecs))) /\ Reject

Boot ==
    /\ stage = "invoked" /\ ~Conflict(Kept(Booted(ecs)))
    /\ ecs' = Booted(ecs)
    /\ stage' = "booted"
    /\ UNCHANGED <<calls, builder, dump, blink, asked, overwritten>>
-----------------------------------------------------------------------------
(* BlinkConfigDumper: fixers in the order they run in, then sniffs, whose  *)
(* configuration nobody reads; skipped classes also by the names of the    *)
(* checkers they cover.                                                    *)

Only(s, S) ==
    LET upTo[n \in 0 .. Len(s)] ==
            IF n = 0 THEN <<>>
            ELSE IF s[n] \in S THEN Append(upTo[n - 1], s[n]) ELSE upTo[n - 1]
    IN  upTo[Len(s)]

(* extractFixerConfiguration.                                              *)
DumpedEntry(c) == Entry(c, IF c \in Readable THEN ecs.conf[c] ELSE Default)

DumpedRules ==
    LET fixers == FlattenSeq([p \in DOMAIN ByPriority |->
                                  Only(ecs.order, Kept(ecs) \cap ByPriority[p])])
        checkers == fixers \o Only(ecs.order, Kept(ecs) \ Fixer)
    IN  [i \in DOMAIN checkers |-> DumpedEntry(checkers[i])]

CoveredAlone(c) == {c}                         \* mutant: without is_a()
Covered(c) == {c} \cup {d \in Kept(ecs) : c \in IsA[d]}

DumpedSkips ==
    {SkipClass(NoClass, FALSE, {p}) : p \in SkippedPaths} \cup
    UNION {{[SkippedClasses[c] EXCEPT !.class = d] : d \in Covered(c)} :
               c \in DOMAIN SkippedClasses}

Dump ==
    /\ stage = "booted"
    /\ dump' = [rules |-> DumpedRules, skips |-> DumpedSkips]
    /\ stage' = "dumped"
    /\ UNCHANGED <<calls, builder, ecs, blink, asked, overwritten>>
-----------------------------------------------------------------------------
(* resolveECS.                                                             *)

Off(c) == \E s \in dump.skips : s.class = c /\ s.everywhere
SkippedOn(c) == {s \in dump.skips : s.class = c /\ ~s.everywhere}

(* A fixer with the options the class means, and what it is listed under.  *)
HasProxied(e) == <<e.class, e.config>> \in DOMAIN Proxied
OptionsOf(e) == IF HasProxied(e) THEN Proxied[<<e.class, e.config>>] ELSE e.config
KeyOf(e) == IF HasProxied(e) THEN e.class ELSE Successor[e.class]

Active == {c \in Classes(dump.rules) : ~Off(c)}
Supported(c) == Successor[c] \in Known

(* A fixer that takes no options runs as it is, and the class is noted.    *)
Ignores(e) == OptionsOf(e) # Default /\ Successor[e.class] \notin Configurable
RunOf(e) == <<Successor[e.class], IF Ignores(e) THEN Default ELSE OptionsOf(e)>>

Usable == {i \in DOMAIN dump.rules :
               ~Off(dump.rules[i].class) /\ Supported(dump.rules[i].class)}

(* Each key once, as its first entry configures it.                        *)
First(i) == \A j \in Usable : j < i => KeyOf(dump.rules[j]) # KeyOf(dump.rules[i])
Runs == {RunOf(dump.rules[i]) : i \in {i \in Usable : First(i)}}

ConfigIgnored == {dump.rules[i].class : i \in {i \in Usable : Ignores(dump.rules[i])}}

(* PerPathRuleSkips: one set of paths for each class behind the fixer, none *)
(* at all if one of these is not skipped.                                  *)
Groups(f) ==
    LET behind == {c \in Active : Supported(c) /\ Successor[c] = f}
    IN  IF \E c \in behind : SkippedOn(c) = {} THEN {}
        ELSE {UNION {s.paths : s \in SkippedOn(c)} : c \in behind}

Resolved ==
    /\ blink' = [skip |-> UNION {s.paths : s \in SkippedOn(NoClass)},
                 runs |-> Runs,
                 groups |-> [f \in Known |-> Groups(f)],
                 unsupported |-> {c \in Active : ~Supported(c)},
                 ignored |-> ConfigIgnored]
    /\ stage' = "resolved"
    /\ UNCHANGED <<calls, builder, ecs, dump, asked, overwritten>>

Resolve == stage = "dumped" /\ IF Conflict(Active) THEN Reject ELSE Resolved
-----------------------------------------------------------------------------
Calls ==
    \/ \E rules \in RuleLists : WithRules(rules)
    \/ \E e \in ConfiguredRules : WithConfiguredRule(e)
    \/ \E set \in DOMAIN SetRules : WithSets(set)
    \/ \E skip \in SkipLists : WithSkip(skip)
    \/ \E level \in Levels : WithLevel(level)

ConfigNext ==
    \/ Calls \/ InvokeFails \/ Invoke \/ BootFails \/ Boot
    \/ Dump \/ Resolve
=============================================================================
