# Verification of ECS

ECS checks and fixes the style of PHP code. It has two engines. The PHP one
(`src/src`) runs PHP_CodeSniffer sniffs and PHP-CS-Fixer fixers over the files,
in one process or in sub-processes, and remembers which files were clean. The Go
one, *blink* (`src/blink`), has its own lexer and rules, runs goroutines over the
files, and is started by the PHP side with the configuration it resolved.

This directory holds TLA+ models of the parts of both engines where order,
failure or counting can go wrong, of the way from an `ecs.php` to what runs on a
file in either engine, and of some 130 of blink's rules; the TLC configurations that
check them on small instances; and proofs, checked by TLAPS, of what matters most for
every instance.

To check a model: `tlc -config BlinkRunner_fix.cfg MCBlinkRunner.tla`.
To check a proof: `tlapm BlinkRunnerProofs.tla`.

Paths below are relative to `src/`.

## 1. The system

| part | state it keeps | operations | what is hard | what makes it correct |
|---|---|---|---|---|
| Blink runner, `blink/internal/runner/runner.go` `Run` | channels `paths`, `results`; `errs` under `mu`; the files | feed, fix, collect, close, cancel | goroutines, unbuffered channels, a context done at any moment, failing reads and writes | each file once, nobody sends on a closed channel, nothing lost, sorted whatever the order, `Run` returns |
| fixFile, same file | a token stream, the applied rules | errors, candidates, fixes, the write | any rule after any rule, undoing each other; a shared index | a rule is left out only if it has nothing to do; reported exactly if changed |
| Token stream, `blink/internal/tokens` | tokens, `mayHaveEmpty`, `version`, `memo` | Set, RemoveAt, InsertAt, InsertSliceAt, ReplaceRange, ClearEmptyTokens, Memo | a cached analysis and a cached flag over a mutable sequence | neither is ever stale |
| Skip paths in Go, `blink/internal/finder/skip.go` | two cursors and the last star | fnmatch | backtracking over one star only | decides the match relation |
| Go rules, `blink/internal/fixer/rules` | none: tokens in, tokens and a flag out | Fix, IsCandidate | each relies on what the ones before leave; they undo, feed and break each other | the file stays the same program; a second run finds nothing; changed exactly if reported |
| Sets and order, `set.go`, `registry.go`, `priorities.go` | lists of rules with options | resolve, sort | an order of priorities copied from elsewhere | the order lets the rules settle |
| Go lexer, `blink/internal/lexer` | a position in the text | Lex | what was a word before a rule ran may be another after it | the tokens of a stream are those of its text |
| Go finder, `finder.go` | a list of names | Find | names compared as typed | one name per file |
| Diff, `blink/internal/diff` | the LCS table, the hunk being cut | diffLines, hunks | counting over two files | hunks turn old into new; minimal; true line numbers |
| Parallel run, `src/Parallel`, `WorkerCommand` | job stack, process pool, timers, counters; the workers | hello, data, error, exit, time-out callbacks | one event loop over crashing, silent and late workers | each chunk once, nothing lost silently, it ends |
| Cache, `src/Caching` | a hash for each file, one for the config | add, invalidate, clear, set config | edits, crashes, workers and config changes in between | a file is skipped only if found clean |
| Application and processing of a file, `src/Application`, `src/SniffRunner`, `src/FixerRunner` | the file, errors, diffs, applied checkers | sniff passes, fixers, merge | rules that undo each other, throwing fixers | no half-fixed file, clean means clean, it ends |
| Blink commits, `src/Blink/BlinkCommitRunner.php` | the work tree, the log | blink, status, commit per rule | git refusing, user's changes | one rule one commit, nothing dropped |
| Blink bridge, `src/Blink`, `blink/internal/config` | the resolved configuration as JSON | dump, read | two languages must agree on skips | same rules on same paths |
| Skipper, `src/Skipper` | resolved skip entries | shouldSkip | overlapping forms of an entry | order of entries does not matter |
| Configuration, `src/Config`, `src/DependencyInjection` | registered checkers | rule, sets, skip, passes | later calls override earlier ones; passes remove checkers | the registered set is what was asked for |
| Console, `src/Console`, `src/Reporting` | the merged result | merge, format, exit code | many ways for a run to be "not ok" | exit code 0 only if there is nothing to report |

How they interact. `CheckCommand` calls `EasyCodingStandardApplication::run`, which
asks the cache for the changed files and gives them to `SingleFileProcessor` in
a loop, or, in parallel, to `ParallelFileProcessor`, whose workers run
`SingleFileProcessor` themselves and send their results over TCP. Every process
reads and writes the same cache directory. With `--blink` the PHP side finds
the binary, which runs the PHP side once more to have the configuration dumped,
finds the files and gives them to `runner.Run`; each worker goroutine calls
`fixFile`, that lexes the file into a `tokens.Stream` and passes it to the rules;
`diff` renders what changed. `BlinkCommitRunner` starts the binary once per rule
and calls git in between.

Rules are data and pure functions to the parts that run them: `FixFile`,
`FileProcessing` and `BlinkCommit` take *any* rules, under those of the contracts of
the code that every rule keeps. `RulePass` takes blink's rules as they are.

## 2. The modules

Every component is a module `X` with its state and actions, followed by its
properties; `MCX` has the values for TLC, `X_*.cfg` are the runs and, where there are
theorems, `XProofs` holds them. Only the properties of the parallel run have a module
of their own, `ParallelPoolProps`. Operators marked `mutant` in a comment are
plausible bugs, each put in the place of a definition to see that some property
notices; no action uses them.

**WorkDispatch** is the abstract specification both pools implement: jobs are
waiting, taken, settled or lost; none is handed out twice, settled twice, or
settled by somebody who did not hold it. A step may do several of these at once,
because one callback of the PHP loop may.

### Running blink

**BlinkRunner** (`runner.go` `Run`, `fixFile` as seen from outside). One action for
each point at which goroutines can interleave: `Feed` is the rendezvous on
`paths`, with `select` choosing freely between it and `ctx.Done` (`ClosePaths`);
`Read`, `Fix`, `Store`, `Send` are the worker in `fixFile`; `os.WriteFile` truncates
before it writes, so it is two steps with the file `"torn"` in between; `ReadFails`
and `StoreFails` append to `errs`; `CloseResults` waits for all; `Return` picks
context error, joined errors or the sorted list in the order of the code. A file
name is its rank under `cmp.Compare`; a content is `original`, `fixed` or `torn`.
What the rules do with a file is known only of the original contents; of any
other the outcome is any, for they need not be idempotent.

**TokenStream** and **FixFile** (`stream.go`, `index.go`, `fixFile`, `isCandidate`). A
token is its value, a sequence of characters; a rule makes any writes, looks at
any analysis, and then says whether it changed something. The contract of `fixer.go`
that `Fix` "reports whether it changed anything" is not assumed, for
`FunctionDeclaration` breaks it: an answer is any, and the history variable `silent`
remembers that a rule changed the source and denied it. `IsCandidate` reads the shared
`Index` and rules out only files without its word (the contract of `Candidate`).
The index is the set of characters the tokens it was built from hold.
`FixFile` extends the stream, so that a history of writes is one behaviour across rules.

**LineDiff** (`diff.go` `diffLines`, `hunks`). One action per operation emitted, then
one per operation kept or dropped by `hunks`. The LCS table is a recursive
function with the recurrence of the code. Lines are values.

### Blink's rules

**PhpTokens** is what the rules share: the tokens of a file, the searches of
`stream.go` and `helpers` for the next word, the matching bracket, the end of a
statement, and `Lex`, which makes of any sequence of tokens the one the lexer would
make of its text: gaps side by side are one, a keyword after `->` is a name, `+` and
`=` next to each other are `+=`. A word is a value; a gap is the widths of its lines.

**RulesSpacing, RulesBlankLines, RulesOperators, RulesArrays, RulesLayout,
RulesImports, RulesControl, RulesClasses, RulesTypes, RulesLang, RulesNames,
RulesStatements** have a rule each as an operator from its options and the
tokens to `[toks, changed]`: what its `Fix` leaves and what it returns. A loop over a
stream that is edited as it goes is a recursive operator with the loop's index, in the
direction of the loop, since where the index goes after an edit is where such
rules go wrong. A rule with a known fault has that fault in its model (section 6).

**RuleSets** has `set.go`'s sets, as far as their rules are modelled, `getPriority` and the
order `CanonicalOrder` puts them in; **RuleFixers** is `ByName`: the rule with
the options a set gives it, and its `IsCandidate`. **RulePass** puts them together:
a file, a set, and rule after rule over the stream (`RuleOut`, `ApplyRule` with the
`ClearEmptyTokens` behind it); when the chain is through the file is lexed anew and
the set runs again (`RunAgain`).

### From `ecs.php` to a verdict

**Checkers** (`ECSConfigBuilder`, `ECSConfig`, `BlinkConfigDumper`, `resolveECS`). The calls of
the fluent builder come in any order (`WithRules` replaces, `WithSets` and levels
append, `WithSkip` replaces); `Invoke` hands them to `ECSConfig`, sets and their own
skips first; `Boot` is its passes in their order, excluded, then mutual,
then conflicting; `Dump` is what blink is given, and `Resolve` what it makes of that.
The history variables `asked` and `overwritten` say which checkers were ever asked for,
and which of these a later `withRules` dropped. A skip entry is a class with its paths, or
paths alone (`NoClass`); `IsA` gives the classes and interfaces a checker is one of.
The options of a checker are one value. `Dump` lists the fixers by priority and then the
sniffs (`DumpedRules`), with their options where it can read them (`Readable`, `DumpedEntry`);
blink drops the options of a fixer of its that takes none and lists its class (`Ignores`,
`ConfigIgnored`), and of several entries with one key it keeps the first (`First`).

**Fnmatch** (`skip.go` `fnmatch`). One action per branch of the loop. `?`, a literal
and a bracket expression are each the set of bytes they accept.

**Skipping** composes the two: with a configuration that is resolved, or a
`blink.json` that is loaded, a file is compared with each skip pattern (`Compare`,
`CallGlob`, the steps of `fnmatch`, `CallRelative`, `Answer`), and `RunsOnFile` is what is
left to run on it. PHP's side is its own definition: `FileInfoMatcher` with the C
library's `fnmatch` given by its meaning (`Matching`), `SkipSkipper` by `is_a`. Paths
are absolute; patterns have neither `..` nor `\`, no file is a link, and both engines run in
`/`: what differs with these is I/O, not matching.

### Running ECS

**ParallelPool** (`ParallelFileProcessor::check`, `ParallelProcess`, `ProcessPool`,
`WorkerCommand`, `WorkerRunner`). A callback of the main process is one action,
because the loop runs one at a time: `HelloArrives`, `ResultArrives`, `TimesOut`,
`DecoderFails`, `ExitSeen`, `Finish`. The actions of a worker are `Connect`, `Answer`,
`Refuse` (the error handler, for a request over the 64 KB its decoder takes), `Leave` and
`Die`. A callback may end by throwing out of the loop: `getProcess` of a
process that is no longer in the pool (`"not found"`), and `quit()` of a process that
has not said hello, whose typed `$encoder` is uninitialised (`"uninitialised"`).
`RequestFails` is the request whose file names JSON cannot encode: the error
callback runs inside `write()`, before the time-out is armed.
The connection of a worker holds at most one unread message, because a worker
that is busy reads nothing and is sent a job only after its last answer was read.

**FileCache** (`ChangedFilesDetector`, `FileCacheStorage`, `FileFilter`,
`EasyCodingStandardContainerFactory`, `EasyCodingStandardApplication`, `SingleFileProcessor`,
`WorkerRunner`). A content is a version number standing for its hash; every write of
new content is a new version. There is one step for each access to the disk by a
processing: hash, read by the sniffs, write, read by the fixers, write, invalidate.
The user edits between any two. Three history variables say what was really found
out: `verified` (a processing of this content under this config came to its end
with nothing to report), `cut` (it ended early) and `adopted` (a boot found no
configuration hash and kept the entries there were).

**FileProcessing** (`SniffFileProcessor`, `FixerFileProcessor`, `SingleFileProcessor`,
`File`, `Fixer`). A pass of the sniffs, a fixer, and the write are each a step. The
rules of a run are a record: where each fixable error is found, what a pass turns a
content into, where errors are found that nobody can fix, and the fixers as
functions on contents.

**BlinkCommit** (`BlinkCommitRunner`). A rule is its position in the list that is gone
through, so that there may be any number (`RuleCount`). A change of a file is a pair
of file and author, so that a commit can be asked whose changes it has. git is modelled
by `status`, `add --update` and `commit` as they are used here.

## 3. The runs

| run | shows | bounds |
|---|---|---|
| `BlinkRunner_fix` | the pool with three workers over four files under `--fix`; reads and writes of two of them may fail, and the context may be done at any time. Each file is once in a hand, collected or failed; `results` is closed last; the list returned is complete and sorted; under `--fix` exactly the collected files a rule changes are rewritten, and only a failed write leaves half a file; `Run` returns; the pool implements `WorkDispatch` | one file for each kind: untouched, changed, erroneous, both; one more file than workers, so that a worker gets a second one |
| `ParallelPool_faults` | two processes and three chunks with crashes, kills, unreadable answers and requests that cannot be encoded or are too long for a worker anywhere: one holder per chunk, everybody who works is timed, the server is open exactly while somebody may come, a run without errors is complete unless a process was killed or got a request too long, no job after giving up, the run ends, `WorkDispatch` is implemented | one more chunk than processes; the limit of system errors is 2 and a chunk has at most one, so that it is met, met twice and missed |
| `ParallelPool_killed` | fails: `NoSilentLoss` (section 6) | one chunk, so one process; only a worker that is at its chunk is killed |
| `FileCache_faults` | one file, two configs, serial and parallel runs with and without `--fix` and `--clear-cache`, edits at any moment, every way to end early: a stale skip has one of the two reasons of section 6 and no other | three versions: the one before, the one hashed, the one after; two workers. One file is enough, for entries are independent but for the configuration hash |
| `FileCache_parse` | fails: `NoStaleSkip` (section 6) | one worker, two versions |
| `FixFile_all` | three rules, the first two instances of one fixer, the second a reporter with a word, the third skipped for the path: a memo is never stale, a rule never sees an empty token, a file is reported and written only if it differs, and always if it differs unless a rule denied its change, a rule is ruled out only when its word is not there | three writes anywhere in streams of at most three tokens: enough to remove the last occurrence of a word and bring it back through any of the operations |
| `Skipping_all` | every sequence of up to three calls in an `ecs.php`, and every skip path of a `blink.json`, down to one file of five: `fnmatch` decides matching and ends; the engines skip the same files and run the same fixers on the others, with the same options but for three differences that are named, and blink lists what it has no fixer or no options for; a checker that was asked for gets lost only where the code says so | three calls: two that interfere and one that overrides; 15 checkers for a slice of two sets, a level, two deprecated aliases, every shape of duplicates and conflicts, and a fixer each whose options the dump or blink loses; patterns of up to four atoms with a star over names of up to four characters, for two stars with something between and after is where one star's backtracking could be too little |
| `LineDiff_all` | all pairs of files of up to five lines of two kinds: the operations rebuild both files, no shorter diff exists, the hunks alone patch the old file, each with its context on both sides, as far as the file has it | with a context of one line, five lines have room for two hunks, for two changes in one hunk and for changes at either end |
| `FileProcessing_all` | all ways a pass may turn three contents, two fixers that may undo each other or throw, with and without `--fix`: no half-fixed file, a failure leaves old or whole, errors are those of the content the sniffs settled on, nothing to report means clean, it ends | three passes; cycles of two and three contents, and chains that just settle or just do not |
| `Rules` | twelve files with the constructs the rules look for, and every ninth place of each with another gap (none, a blank, a line break, a line comment), through two runs of each of six sets: the stream stays what the lexer would make of its text, a rule is reported exactly if it changed the file, but for the edits of `Unreported`, one `IsCandidate` ruled out would have changed nothing, rules of layout keep the code, and the second run finds nothing to do | 57 files, 6 sets, some 130 rules, two runs. More gaps than one, and pairs of constructs that are in no file, are not covered: a rule is some twenty paths, and every step here evaluates one |
| `BlinkCommit_all` | three rules over two tracked files and one untracked, the user's changes, and failures of the start, of `status` and of `commit`: one rule one commit when all goes well, the count is true, a rule is never split, nothing is dropped | three rules, so that a change can wait over two commits |

The properties of `Rules` name where they do not hold, and each name is a fact about the
code: `Fragile` (a blank taken out between two signs, a line break taken out
after a line comment), `Misplaces` (a semicolon that goes before a comment), `Unreported` (edits
`FunctionDeclaration` makes before it returns false; the twelfth file has them), `NeedTwoRuns`
(rules that find work a later rule of the same run made) and `Hangs` (section 6). In the same way
`SameVerdict` leaves out the options, though not the fixers, where two kept classes of a fixer want
different ones (`TwoOptions`), where they are not dumped (`Undumped`: sniffs, and fixers
without a `configuration` property) and where blink's fixer takes none (`Ignored`). The last
is the only one blink tells the user of, which `NothingHidden` asks for.

No run checks a type invariant: those of `BlinkRunner`, `ParallelPool`, `FileCache` and `Fnmatch`
are proved.

The models `BlinkRunner`, `Skipping`, `FixFile`, `FileProcessing`, `BlinkCommit`,
`ParallelPool` and `LineDiff` have a step that stands for being over (`Over`,
`Returned`, `Done`, `Ended`), so that the search for deadlocks finds real ones: every goroutine
waiting on another is one. `RulePass` stops when its last run is through, which
`Rules.cfg` allows. `FileCache` never is over.

## 4. Fairness

Safety needs none. For liveness:

- *BlinkRunner* `FairSpec`: each goroutine that can go on does (the Go scheduler),
  and a `select` that stays ready to send on `paths` ends up sending or closing.
  Nobody has to cancel, nothing has to fail.
- *ParallelPool* `FairSpec`: the event loop handles what it has, an armed timer fires,
  a process that is not killed connects, and leaves when its connection has ended.
  `RulesEnd`, named apart, says that no rule works on a file for ever. The code
  does not see to that: the time-out ends the connection but not the
  process (section 6).
- *Skipping* and *FileProcessing* are sequential: the program does its next step. In
  `Skipping` that is asked of the file alone (`OneFile`); nobody has to end an `ecs.php`.

## 5. The proofs

**BlinkRunnerProofs**, for every number of workers and every list of files.

- `TypeInvariant`: `TypeOK` with `Holding` (a worker has a file exactly while
  it is inside `fixFile` or sending), which the types of `file[w]` after `Send` need.
- `EachFileOnce`: `OnceEach` is not inductive, for nothing in it keeps
  the feeder from handing out again what was settled. `Apart` adds that what is in hand,
  collected or failed was handed out; `FoundAssumption` (the finder's names are
  distinct) makes the next one new.
- `ClosedOnlyWhenAllGone`: by `Shut`, which says what the two channels and the workers
  know of each other: a worker leaves only when `paths` is closed, `results`
  is closed only when all have left.
- `NoFileLost`: by `Kept` (what was handed out and has something to report is
  collected, failed or in hand) and `Untouched` (a file is as it was until its own
  worker writes it), which holds under `OwnFiles`, that no two names stand for
  one file on disk; the theorem has it as a hypothesis, since the finder
  does not ensure it (section 6).

Assumed: `FoundAssumption`, `WorkerAssumption`, `FileAssumption` of the module.

- `FilesAreWhole`: `WholeFiles`, under `OwnFiles` too. By `Marked`, what is on disk tells who
  wrote it: a torn file is being written or its write failed, a fixed one is on its
  way to the results or among them. `Written` is the other direction: what is sent or
  collected and had to change has been written, and nobody touches it after.
- `PoolDispatches`: the pool implements `WorkDispatch`. The mapping takes what is in a
  worker's hand or under way to the collector for taken, and what is collected,
  failed or had nothing to report for settled; `Apart` is what the guards of
  `WorkDispatch` ask for.

- `JobsArePartitioned`: in `WorkDispatch`, as the pool maps to it, no job is two of waiting,
  taken and settled. `ChunksArePartitioned` in `ParallelPoolProofs` is the same for the
  parallel run.
- `ListIsCompleteAndSorted`: `CompleteAndSorted`, under `OwnFiles`. `ByPath` is a choice
  among the orders of what is to be listed, so it has to be shown that there is one: by
  induction over the number of files, each put in behind those whose paths come before
  its own (`Inserts`, `Sorts`). That the list misses nothing is `NoFileLost` at the moment
  of `Return`, with `ShutIsAccounted` to say that without an error there is nothing but results.

**ParallelPoolProofs**, for every number of processes and chunks, every limit and
all the faults (assumed: `ScheduleAssumption`). All the safety properties of the run
`ParallelPool_faults` are proved here.

- `PoolType`: `TypeOK` with `Work` (a process has a chunk exactly while it is busy, and then
  its wire is empty), without which an answer could be about no chunk.
- `ChunkHasOneHolder`, `ProcessesDispatch`: by `Work`. Every callback that reads a message is
  one `Reads`, of which `Reading` shows that it takes at most one chunk off
  the stack for a process that has none; every other step is `LettingGo`.
- `ServerStaysForPool`, `NothingAfterGivingUp`: by `Dismissed` (whoever is alive and not in the
  pool has been told to leave; after giving up nobody is in the pool).
  `NoJobAfterGivingUp` alone says nothing of the connections, over which a late
  request would go.
- `WhoeverWorksIsTimed`: `Watched` is inductive together with `Work`.
- `LossOfChunksIsReported`: what is claimed of the end of a run needs what holds all along.
  `NoneLost` says that as long as nothing is reported and nobody failed, was refused a chunk or was
  killed, nobody has been dismissed but for want of jobs, and every chunk that was popped is
  answered or with a process still connected. `Ends` ties exit codes to the `EXIT`
  events seen, so that a crash cannot be in the past of a run without an error.

**FixFileProofs**, for any rules, writes, words and bounds. `MemoFresh` alone is not
inductive: an entry of a later version would become stale by the version catching up
with it. `Versions` says there is none. `MemoIsFresh` is the invariant,
`OnlyRuledOutRightly` the action property that follows from it.

- `FixFileTypes`: `TypeOK`. That a stream without its empty tokens is again a stream is
  an induction over its length (`ScanKeepsText`).
- `NoEmptySeen`: `RulesSeeNoEmpty`, from what the flag means: while a rule writes, an
  empty token implies `mayHaveEmpty`; past the clearing there is none.
- `ReportsAreRight`: `ReportedIffChanged`, from `TextNext`: clearing keeps the text (`Render` of
  the stream without its empty tokens is `Render` of the stream, again by induction),
  and nothing else writes between the last rule and the comparison. Rules may answer
  what they like; the theorem says that a text that changed is left out of the report,
  and not written, only when a rule denied its own change.

**LineDiffProofs**, for any two files, kinds of lines and context (assumed: `DiffAssumption`).

- `OpsTellBothFiles`: by `WalkInv`, which is `Rebuilds` with the bounds of `i` and `j`. The
  table is not needed: whatever it holds, the operations tell both files.
- `HunksMakeTheNewFile`: `HunksApply` speaks of the end. `CutInv` says what is true
  before: the hunks so far, the lines of `a` up to the hunk being collected and that
  hunk's new side are together the new side of what was passed, and `origLine` is one past its old
  side. `FlushedFits` is the same with the collected hunk added; an operation
  that is dropped is an equal line, and the line of `a` at `origLine` (`EqualLine`).
- `NoDiffIsShorter`: `Shortest`. First the table: it exists and holds natural numbers
  (`TableExists`, `TableType`), one line more of either file makes at most one more in common
  (`GentleTable`), and no common subsequence is longer than its first cell
  (`BoundedTable`, by induction over the number of lines taken from both files: `Bounded`
  says it of what is common to the first `p` and `q` lines). Then the walk: `ShortInv`
  says that the equal lines so far are a common subsequence of what was passed, and that they
  and what the table promises from here on are together what it promised at the start.
- `HunksShowContext`: `RunInv` says that each hunk is a run of kept operations with none kept
  before or after it, and starts at the line of `a` its first operation is at. What is kept near a
  run's end is kept by a change of the run itself (`ChangeInRun`), hence the context. `RunQuotes`
  is for the end of the file: a run up to the last operation has every line of `a` that is left.

**SkippingProofs**, for any alphabet, checkers and sets, any calls in an `ecs.php`, any
`blink.json` with a skip path and any file. It proves all the safety properties of the run
`Skipping_all`.

- `FnmatchIsRight`: both answers of `fnmatch` are right. The invariant `LoopInv` says what
  the loop knows: the consumed part of the name fits the consumed part of the pattern
  (`Reached`); a matching that ends the last star no earlier than the loop does has consumed
  no less of the name (`Ahead`); and if anything matches, some matching ends that star
  no earlier (`Possible`), which is why the loop need not go back to a star before
  the last. `FnmatchOfTheFinder` is the same for the calls the finder makes, with the
  patterns `Normalize` and the prefix `*/` make.
- `AskedForIsKept`: `AskedForRuns`. The property speaks of a configuration that is booted, and the
  calls come before; `ConfigInv` says that whatever was asked for is in the builder or
  overwritten, that a class is configured at most once in it (`Unique`, so that the last
  registration is `withConfiguredRule`'s), and that `ECSConfig` has exactly what the
  builder had (`Configured`). That the pass over duplicates leaves one of them
  is `BootedKeeps`: of the checkers that could replace one, the best is replaced by none.
- `BothEnginesAgree`: `SameVerdict`. `DumpInv` says that blink has what the
  dump makes of what PHP kept, so a conflict blink would reject has been rejected
  before (`ActiveKept`). `MatchInv` says of each pattern a file was compared with that it is in
  `hits` exactly if PHP matches it, and of the running call which pattern it is of and what is already
  known of it. At the end (`Settled`) blink's groups of paths by fixer and PHP's skips by
  class come to the same (`SkippedForIs`), and of the rules with one key, of which blink runs the
  first, all are of one fixer (`OneFixerPerKey`) and have one option or are not compared. Every
  fixer is thus run or not in both engines (`WhatRunsMust`, `WhatMustRuns`); options are
  compared for what is in none of the three differences (`ComparedIs`). That the dump
  lists every kept checker once its fixers are put in order of priority is `InOrderIs`.

Assumed: `FnmatchAssumption`; `CallsAssumption` and `SkipAssumption`, which are types;
`FixersAssumption`, that every fixer has a priority;
`SuccessorAssumption`, that only fixers are proxies and none of a proxy, as in
`deprecatedAliases` (`registry.go:543-600`), where no successor is itself a key; and
`DuplicatedAssumption`, that the pairs of `DUPLICATED_CHECKER_GROUPS` have no cycle and
that what is better than the better one is paired too. Its one chain,
`SingleBlankLineAtEofFixer`, `EndFileNewlineSniff`, `GenericEndFileNewlineSniff`, has its third
pair (`RemoveMutualCheckersCompilerPass.php:112-114`). Without it the property
would be false: the middle one would be removed, and what it replaced with it.

**FileProcessingProofs**, for any rules, contents and limit of passes. `SniffsLeaveFixpoint`,
`FailuresKeepFiles`, `ErrorsAreOfSettledContent` and `NothingReportedIsClean` follow from
`FileInv`, which says what is known at every stage: a settled content is a
fixpoint of a pass, the disk holds the original until the sniffs end and a fixpoint after
(`AfterSniffs`), the errors stay those of what the sniffs left (`OfSettled`, with the history
variable `left`), and without a diff that is what is on disk. Nothing is said of errors in
what the fixers make of it: no sniff sees that in this run.
None of the four is inductive, for each speaks of a moment and depends on its past.

**BlinkCommitProofs**, for any number of rules, any files and faults. `OneRulePerCommit`,
`RulesStayWhole`, `CommitsCounted` and the action property `ChangesAreKept`, from what
waits in the work tree: a rule writes only while it is the current one (`Authored`), a
commit takes everything tracked, so what waits and what is committed have no author in
common (`Whole`), and on a clean tree nothing waits but the current rule's (`Clean`).

**FileCacheProofs**, for any files, configurations, workers and faults. `CacheTyped` and
`SkipsAreExplained`. The property looks at an instant between boot and selection; the
invariant follows the entry there. While a process works on a file, the entry is
what that process hashed, and unless it has something to report, the only content it has
seen is the hashed one, if that is still there (`JobOK`). With no process at work on a file, an entry equal
to the content is verified, cut or adopted under the configuration whose hash is
stored (`Vouched`).

**Recursive functions.** `FlattenSeq`, `WithoutEmpty`, `Lines`, `Patched`, the table `LCS`
(over pairs), `Subsequences`, `AllAtLevel`, `NormalPath` and `Only` are recursive functions,
of which TLA+ says only that they are *some* function with that equation, if there is
one. `LeastNatural` (the order of the naturals is well-founded), `Induction` (over `0 .. m`,
with the statement as a set) and `Recursion` (there is such a function) give what is needed of
them: each has a lemma that it exists and one that says what one more element adds.

**Only model-checked.** Liveness (`Returns`, `Terminates`, `Answers`, `Finishes`) and the
absence of deadlock, which are out of the prover's reach. All of `Rules`: the rules, like
their loops, are recursive operators, and `Settles` and the others are about what these
compute. Every other property of a passing run is stated by a theorem.

## 6. Where the code deviates

Two deviations have a run that shows them:

1. A sub-process killed by a signal has the exit code `null`; `onExit` returns on it
   (`ParallelFileProcessor.php:222`) and the chunk it had is lost without an
   error, so that the run says "No errors found" (`ParallelPool_killed`).
   The only other way to that, by `LossesAreReported`, is a request of more than 64 KB (a large
   job size): the decoder of the worker closes the connection before the message of the
   error handler (`WorkerRunner.php:32-46`) is sent, and the worker ends with SUCCESS.
2. `WorkerRunner.php:73` catches the error of a file that cannot be parsed and, unlike
   the serial loop (`EasyCodingStandardApplication.php:151`), does not invalidate its
   cache entry: the next run skips it as unchanged (`FileCache_parse`). Any other
   exception in a worker, and a kill or an exception in a serial run, do the same.
   The other reason for a stale skip is `--clear-cache`: it removes the
   configuration hash with the entries, so that a config edited before the next run
   is not noticed (`ChangedFilesDetector.php:77, 98`). `StaleSkipsExplained` shows that
   there is no third.

Others were met while modelling; the models have them as steps or assumptions, and
no run claims the contrary:

- `finder.go:17-20` speaks of distinct files but compares names as typed
  (`finder.go:31`): `src/a.php` and `./src/a.php` are two names of one file, and two
  workers may rewrite it at the same time. `BlinkRunner` takes such names in the
  constant `OnDisk`; `WholeFiles` and `NoFileLost` hold without them.
- `ParallelFileProcessor.php:196` sets `$reachedInternalErrorsCountLimit`, but 235 reads
  `$reachedSystemErrorsCountLimit`, which only the error callback sets: a run stopped by
  50 errors does not say so, and one stopped by a single time-out says that it reached
  50 errors.
- At the limit, `quitAll` is followed by the next request of the same worker in the same
  callback, on a connection just ended: that job reaches nobody, but for its time-out,
  and the run waits for it.
- `request()` arms its time-out after `write()` (`ParallelProcess.php:99-100`), also if the encoder
  failed in it and the error callback has dismissed everybody: that time-out stays
  armed until the process is gone, and counts as a second error if it fires first.
- A worker that says hello after it was removed makes `getProcess` throw out of the loop
  (`ProcessPool.php:28`); `quitAll` while some process has not said hello touches
  its uninitialised `$encoder`. Both end the run with an exception.
- A worker that hangs keeps the loop alive after its time-out, for `quit()`
  does not terminate the process (`ParallelProcess.php:103, 108`).
- `SniffFileProcessor.php:165` tests the number of passes after the pass that reaches it:
  a file that needs exactly `MAX_FIXER_LOOPS` passes is given up although the next one
  would change nothing.
- When sniffs and fixers both change a file under `--fix`, the diff of the fixers
  replaces that of the sniffs (`SingleFileProcessor.php:46`; `Merged`): it starts from
  the file the sniffs have written, and what they did is shown nowhere.
- "Applied checkers" may name a code that `skip()` excludes, since `File.php:131-134` notes it
  before it asks the skipper.
- `BlinkCommitRunner.php:13` promises one commit per rule, but changes the user had in
  the work tree go into the first rule's commit, and an untracked file makes
  every rule count as committed (58, 82, 90). `OneRuleOneCommit` and
  `CountIsTrue` say under which conditions they hold.

Of the configuration. `Checkers` and `Skipping` have these as the code has them:

- `RULE_CONFIGURATIONS` of each level has no class that is in its `RULES`
  (`SpacesLevel.php:93` and the three others), so `applyLevel`'s branch for configured rules
  (`ECSConfigBuilder.php:523`) never runs and the highest level lacks the rules the set
  configures, though `ECSConfigBuilder.php:77-80` says that "both contain the same rules".
- Per-path skips reach blink by fixer, in PHP they are by class. Of a deprecated class with its
  own options beside its successor, one skipped on a path and the other not, blink
  runs both there. Where both have the same key only the first one's options run
  (`ecsconfig.go:220`), in PHP both do. `TwoOptions`.
- The configuration of a sniff is dumped as `{}` (`BlinkConfigDumper.php:60`) and lost in silence,
  and so is that of a fixer that keeps it elsewhere than in a property `configuration`
  (139), as `LineLengthFixer` does. `Undumped`. Skips of
  a single code (`Sniff.Code`) or message are not dumped either.
- Options of a fixer that takes none in blink are dropped and the fixer runs without
  (`ecsconfig.go:208-216`, as `TestLoadECSConfigIgnoredNote` has it); the class is listed. So
  `PhpUnitExpectationFixer` with a `target` does not do in blink what it does in PHP. `Ignored`.
- `withRules` after `withXLevel` drops the rules of the level; `withSkip` replaces what an
  earlier one said. A set's own skip (`psr12` skips `SingleImportPerStatementFixer`)
  cannot be taken back by asking for the rule.
- A checker that is skipped on some paths only, or through an interface, still
  removes its duplicates everywhere and still conflicts: the passes of `boot` look
  at bare classes.
- `skip.go:84` says that a directory does not cover "a sibling it prefixes", but the comparison of
  texts at 58 has covered it before: skipping `/a` skips `/ab`. PHP has the same.
- PHP's finder leaves out empty files and Go's does not.

Of the rules. Their models have the same faults:

- `no_break_comment.go:415` `detectIndent` sets its index to where it is when there is nothing
  before but the open tag, and never returns. `Hangs`.
- `combine_consecutive.go`: `isset($a) &&` at the end of a file is looked at for ever, and
  `isset($a,) && isset($b)` becomes `isset($a,, $b)`.
- `no_unset_on_property.go:173` looks for `unset` in small letters only, though it takes
  `UNSET(...)` apart as well. `static_private_method.go` compares
  names in small letters.
- `static_lambda.go:70` skips four tokens back, and with them the function around one that is
  three tokens in. `return_assignment.go:85-100` keeps the end of the function it had before
  it took tokens out.
- `multiline_semicolons.go:82` puts the semicolon behind the last value before a comment,
  which may be inside another bracket, or behind nothing. `Misplaces`.
- A rule that joins `- -$c` to `--$c` (`UnaryOperatorSpaces`, `OperatorLinebreak`), or takes out
  the line break behind a `//` comment (`DeclareEqualNormalize`, `DeclareParentheses`,
  `MultilineWhitespaceBeforeSemicolons`), changes the program. `Fragile`.
- `ClassDefinition` goes on with positions from before its edit when there is a comment between
  modifiers; `NoUnusedImports` joins the comments around an import it takes out.
- `gen3_func.go:236`: of a `function` with two names before its bracket `FunctionDeclaration`
  edits the parameters and then returns false, so that the report does not name it, and if no other
  rule changes the file it is neither reported nor written. `Unreported`. It also puts
  back a blank `MethodArgumentSpace` takes out, run after run.
- `imports.go:64` says 'Closure "use (...)" is always left alone', but one that has a
  comment before its bracket is taken for an import and loses its braces.

## 7. What is not modelled

- *Rules about the text of tokens*: doc blocks, PHPUnit and Doctrine annotations, strings, regular
  expressions, and the tables of native names, symbols and functions. In the models a
  comment, a string or a number is one opaque value; a word has one of the spellings that
  occur. Tabs and carriage returns, heredocs and inline HTML are left out, and with them the
  options of rules that speak of them.
- *The lexer's scanning of characters*: `Lex` starts from words.
- *Sniffs and fixers of PHP*: other projects' code, any function in the models.
- *Go finder's walk, `SourceFinder`, `GitDirtyFilesResolver`*: a directory listing and a filter by
  the output of git. What the others need of them is an assumption.
- *Console output*: wording and layout, and the exit code that is made of it.
- *JSON and options*: what `extractFixerConfiguration` reads by reflection, and which
  options of a PHP fixer a Go rule knows. A configuration is one value.
- *blink.json* beyond its skip paths: how sets, levels and single names are mixed in it.
- Inside the modelled parts: skips of one sniff code or message; paths with `..`, `\` or
  links; partial contents of cache files; a config edited during a parallel run;
  `File::process`'s token listeners; read-only helpers of the stream.

## 8. Plan

The order was: the two pools first, for everything else runs inside them; then what a
file goes through in each; then the cache, which decides whether it goes through at
all; then the algorithms; then what a project configures, and the rules as they are. All
of the above is done.

Left, in this order:

1. `ExitCode`: what the result of a run becomes through merging, `ExitCodeResolver` and the Go
   reporter.
2. `ParallelPool` with `FileCache`: a config edited while workers start.
3. The rules about doc blocks, for which a comment has to be a sequence of lines.
