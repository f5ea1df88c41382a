------------------------------ MODULE FileCache ------------------------------
(***************************************************************************)
(* The cache of checked files: ChangedFilesDetector over FileCacheStorage, *)
(* with the code that reads and writes it, from the boot of a run to the   *)
(* last file, in one process or in parallel workers that share the cache   *)
(* directory, while the user edits files and, between runs, the config.    *)
(*                                                                         *)
(* A content of a file is a version number standing for its hash.  Every   *)
(* write makes a version the file never had, so a file that changes and    *)
(* changes back while it is processed is left out.  Both processors are    *)
(* taken to have checkers, and the paths of a run to be all the files.     *)
(* The config is not edited while a parallel run is going on, so that all  *)
(* its processes load the same one.                                        *)
(***************************************************************************)
EXTENDS Naturals, FiniteSets

CONSTANTS
    File, Config,
    Worker,      \* the sub-processes of a parallel run
    Main,        \* the process of a serial one
    MaxVersion,  \* bound on the versions of a file
    Excluded,    \* the <<file, config>> for which shouldSkipFilePath holds
    RunOptions,  \* the sets of "parallel", "clear", "fix" runs are started with
    Faults,      \* what can end a file early: <<"parse", "serial">>, ...
    None

ASSUME CacheAssumption ==
    /\ MaxVersion \in Nat \ {0}
    /\ Main \notin Worker
    /\ None \notin Config
    /\ Excluded \subseteq File \X Config
    /\ RunOptions \subseteq SUBSET {"parallel", "clear", "fix"}
    /\ Faults \subseteq {"parse", "throw", "kill"} \X {"serial", "parallel"}

Process == Worker \cup {Main}
Version == 1 .. MaxVersion
NoEntry == 0

VARIABLES
    content, newest,  \* of each file: its version, and the last one made
    config,           \* what ecs.php says now
    entry,            \* the cache: the version stored for each file,
    confEntry,        \* and the configuration hash
    phase,            \* "idle", "booted", "working"
    options, runConfig,
    todo,             \* the files of the run nobody has begun
    at,               \* where each process is
    job,              \* the file it is on, and what it knows of it
    verified,         \* history: the <<file, version, config>> found clean,
    cut,              \* those whose processing ended early, and those a boot
    adopted           \* took over because it found no configuration hash

disk == <<content, newest>>
run == <<phase, options, runConfig>>
history == <<verified, cut, adopted>>
vars == <<content, newest, config, entry, confEntry, phase, options, runConfig,
          todo, at, job, verified, cut, adopted>>

(* hashed: the version addFilePath stored; read: what the present          *)
(* processor read; seen: what the processors have read; found: whether one *)
(* reported something.                                                     *)
NoJob == [file |-> None, hashed |-> NoEntry, read |-> NoEntry, seen |-> {},
          found |-> FALSE]

Init ==
    /\ content = [f \in File |-> 1] /\ newest = [f \in File |-> 1]
    /\ config \in Config
    /\ entry = [f \in File |-> NoEntry] /\ confEntry = None
    /\ phase = "idle" /\ options = {} /\ runConfig = None
    /\ todo = {}
    /\ at = [p \in Process |-> "off"]
    /\ job = [p \in Process |-> NoJob]
    /\ verified = {} /\ cut = {} /\ adopted = {}
-----------------------------------------------------------------------------
(* ChangedFilesDetector.                                                   *)

HasFileChanged(f) == content[f] # entry[f]

(* The storage's whole directory goes, the configuration hash with it.     *)
ClearCache == entry' = [f \in File |-> NoEntry] /\ confEntry' = None

SetUsedConfigsKeeps(c) ==                       \* mutant: never invalidates
    /\ confEntry' = c
    /\ UNCHANGED entry
(* With no hash stored nothing is invalidated.                             *)
SetUsedConfigs(c) ==
    /\ confEntry' = c
    /\ entry' = IF confEntry \in {None, c} THEN entry
                ELSE [f \in File |-> NoEntry]

AddFilePath(f) == entry' = [entry EXCEPT ![f] = content[f]]
InvalidateFilePath(f) == entry' = [entry EXCEPT ![f] = NoEntry]

(* What FileFilter::filterOnlyChangedFiles leaves out of the run.          *)
Skipped == IF phase = "booted" /\ "clear" \notin options
           THEN {f \in File : ~HasFileChanged(f)} ELSE {}
-----------------------------------------------------------------------------
(* The user.                                                               *)
Mode == IF "parallel" \in options THEN "parallel" ELSE "serial"

Edit(f) ==
    /\ newest[f] < MaxVersion
    /\ newest' = [newest EXCEPT ![f] = @ + 1]
    /\ content' = [content EXCEPT ![f] = newest[f] + 1]
    /\ UNCHANGED <<config, entry, confEntry, run, todo, at, job, history>>

EditConfig(c) ==
    /\ phase = "idle" \/ Mode = "serial"
    /\ c # config
    /\ config' = c
    /\ UNCHANGED <<disk, entry, confEntry, run, todo, at, job, history>>
-----------------------------------------------------------------------------
(* The main process.                                                       *)

(* EasyCodingStandardContainerFactory::createFromArgv.                     *)
Boot(opts) ==
    /\ phase = "idle"
    /\ phase' = "booted"
    /\ options' = opts
    /\ runConfig' = config
    /\ SetUsedConfigs(config)
    /\ adopted' = IF confEntry # None THEN adopted
                  ELSE adopted \cup {<<f, entry[f], config>> :
                                        f \in {g \in File : entry[g] # NoEntry}}
    /\ UNCHANGED <<disk, config, todo, at, job, verified, cut>>

(* The first half of EasyCodingStandardApplication::run.                   *)
Select ==
    /\ phase = "booted"
    /\ IF "clear" \in options THEN ClearCache ELSE UNCHANGED <<entry, confEntry>>
    /\ todo' = File \ Skipped
    /\ phase' = IF todo' = {} THEN "idle" ELSE "working"
    /\ at' = IF todo' # {} /\ Mode = "serial"
             THEN [at EXCEPT ![Main] = "ready"] ELSE at
    /\ UNCHANGED <<disk, config, options, runConfig, job, history>>

(* A worker boots like the main process.                                   *)
WorkerBoots(w) ==
    /\ phase = "working" /\ Mode = "parallel" /\ at[w] = "off"
    /\ at' = [at EXCEPT ![w] = "ready"]
    /\ SetUsedConfigs(config)
    /\ UNCHANGED <<disk, config, run, todo, job, history>>

(* Whatever ends a run ends its processes.                                 *)
RunEnds ==
    /\ phase' = "idle" /\ todo' = {}
    /\ at' = [p \in Process |-> "off"] /\ job' = [p \in Process |-> NoJob]
    /\ UNCHANGED <<disk, config, entry, confEntry, options, runConfig, verified, adopted>>

EndRun ==
    /\ phase = "working" /\ todo = {}
    /\ \A p \in Process : at[p] \in {"off", "ready"}
    /\ RunEnds
    /\ UNCHANGED cut
-----------------------------------------------------------------------------
(* SingleFileProcessor::processFilePath, one step for each access to the   *)
(* disk.                                                                   *)

Take(p, f) ==
    /\ at[p] = "ready" /\ f \in todo
    /\ todo' = todo \ {f}
    /\ \/ /\ <<f, runConfig>> \in Excluded
          /\ UNCHANGED <<entry, at, job>>
       \/ /\ <<f, runConfig>> \notin Excluded
          /\ AddFilePath(f)
          /\ at' = [at EXCEPT ![p] = "sniffs"]
          /\ job' = [job EXCEPT ![p] = [NoJob EXCEPT !.file = f, !.hashed = content[f]]]
    /\ UNCHANGED <<disk, config, confEntry, run, history>>

(* The sniffs, and after them the fixers, read the file each for itself.   *)
Read(p) ==
    /\ at[p] \in {"sniffs", "fixers"}
    /\ at' = [at EXCEPT ![p] = IF @ = "sniffs" THEN "sniffing" ELSE "fixing"]
    /\ LET v == content[job[p].file] IN
       job' = [job EXCEPT ![p].read = v, ![p].seen = @ \cup {v}]
    /\ UNCHANGED <<disk, config, entry, confEntry, run, todo, history>>

Forward(p) == at' = [at EXCEPT ![p] = IF @ = "sniffing" THEN "fixers" ELSE "settling"]

(* Nothing to report.  With --fix the sniffs write the file all the same.  *)
Clean(p) ==
    /\ at[p] \in {"sniffing", "fixing"}
    /\ Forward(p)
    /\ job' = [job EXCEPT ![p].read = NoEntry]
    /\ content' = IF "fix" \in options /\ at[p] = "sniffing"
                  THEN [content EXCEPT ![job[p].file] = job[p].read] ELSE content
    /\ UNCHANGED <<newest, config, entry, confEntry, run, todo, history>>

(* A diff or an error; with --fix a diff is written, while a sniff's error *)
(* leaves the file as it was read.                                         *)
Reports(p) ==
    /\ at[p] \in {"sniffing", "fixing"}
    /\ Forward(p)
    /\ job' = [job EXCEPT ![p].read = NoEntry, ![p].found = TRUE]
    /\ LET f == job[p].file IN
       \/ /\ "fix" \notin options
          /\ UNCHANGED disk
       \/ /\ "fix" \in options /\ at[p] = "sniffing"
          /\ content' = [content EXCEPT ![f] = job[p].read]
          /\ UNCHANGED newest
       \/ /\ "fix" \in options /\ newest[f] < MaxVersion
          /\ newest' = [newest EXCEPT ![f] = @ + 1]
          /\ content' = [content EXCEPT ![f] = newest[f] + 1]
    /\ UNCHANGED <<config, entry, confEntry, run, todo, history>>

(* What a processing that reported nothing has shown: the one content that *)
(* all its processors saw is clean.                                        *)
FoundClean(p) ==
    IF job[p].found \/ Cardinality(job[p].seen) # 1 THEN {}
    ELSE {<<job[p].file, v, runConfig>> : v \in job[p].seen}

SettleForgetful(p) ==                           \* mutant: no invalidation
    /\ at[p] = "settling"
    /\ at' = [at EXCEPT ![p] = "ready"]
    /\ job' = [job EXCEPT ![p] = NoJob]
    /\ verified' = verified \cup FoundClean(p)
    /\ UNCHANGED <<disk, config, entry, confEntry, run, todo, cut, adopted>>

(* The end of processFilePath.                                             *)
Settle(p) ==
    /\ at[p] = "settling"
    /\ at' = [at EXCEPT ![p] = "ready"]
    /\ job' = [job EXCEPT ![p] = NoJob]
    /\ IF job[p].found THEN InvalidateFilePath(job[p].file) ELSE UNCHANGED entry
    /\ verified' = verified \cup FoundClean(p)
    /\ UNCHANGED <<disk, config, confEntry, run, todo, cut, adopted>>
-----------------------------------------------------------------------------
(* What else a file can come to.                                           *)

Stopped(ps) == {<<job[p].file, job[p].hashed, runConfig>> :
                    p \in {q \in ps : at[q] \notin {"off", "ready"}}}

(* A ParseError of the tokenizer: caught in processFoundFiles, which       *)
(* forgets the file, or in WorkerRunner, which does not.                   *)
Unparsable(p) ==
    /\ <<"parse", Mode>> \in Faults
    /\ at[p] = "fixing"
    /\ at' = [at EXCEPT ![p] = "ready"]
    /\ job' = [job EXCEPT ![p] = NoJob]
    /\ \/ /\ Mode = "serial"
          /\ InvalidateFilePath(job[p].file)
          /\ UNCHANGED cut
       \/ /\ Mode = "parallel"
          /\ cut' = cut \cup Stopped({p})
          /\ UNCHANGED entry
    /\ UNCHANGED <<disk, config, confEntry, run, todo, verified, adopted>>

(* Any other Throwable: WorkerRunner goes on with the next file, while a   *)
(* serial run is over.                                                     *)
ThrowsInWorker(p) ==
    /\ <<"throw", "parallel">> \in Faults /\ Mode = "parallel"
    /\ at[p] \in {"sniffing", "fixing"}
    /\ at' = [at EXCEPT ![p] = "ready"]
    /\ job' = [job EXCEPT ![p] = NoJob]
    /\ cut' = cut \cup Stopped({p})
    /\ UNCHANGED <<disk, config, entry, confEntry, run, todo, verified, adopted>>

Throws(p) ==
    /\ <<"throw", "serial">> \in Faults /\ Mode = "serial"
    /\ at[p] \in {"sniffing", "fixing"}
    /\ cut' = cut \cup Stopped({p})
    /\ RunEnds

(* Ctrl+C, a CI time-out, the memory limit.                                *)
Killed ==
    /\ <<"kill", Mode>> \in Faults
    /\ phase # "idle"
    /\ cut' = cut \cup Stopped(Process)
    /\ RunEnds
-----------------------------------------------------------------------------
ProcessStep(p) ==
    \/ \E f \in File : Take(p, f)
    \/ Read(p) \/ Clean(p) \/ Reports(p) \/ Settle(p)
    \/ Unparsable(p) \/ ThrowsInWorker(p) \/ Throws(p)

Next ==
    \/ \E f \in File : Edit(f)
    \/ \E c \in Config : EditConfig(c)
    \/ \E opts \in RunOptions : Boot(opts)
    \/ Select \/ EndRun \/ Killed
    \/ \E w \in Worker : WorkerBoots(w)
    \/ \E p \in Process : ProcessStep(p)

Spec == Init /\ [][Next]_vars
-----------------------------------------------------------------------------
(* What the cache of checked files must guarantee.                         *)

Job == [file : File \cup {None}, hashed : Version \cup {NoEntry},
        read : Version \cup {NoEntry}, seen : SUBSET Version, found : BOOLEAN]

\* Every variable has its type; in particular the cache holds hashes of
\* contents under the keys of files and one configuration hash.
TypeOK ==
    /\ content \in [File -> Version] /\ newest \in [File -> Version]
    /\ config \in Config /\ runConfig \in Config \cup {None}
    /\ entry \in [File -> Version \cup {NoEntry}]
    /\ confEntry \in Config \cup {None}
    /\ phase \in {"idle", "booted", "working"}
    /\ options \in SUBSET {"parallel", "clear", "fix"}
    /\ todo \subseteq File
    /\ at \in [Process -> {"off", "ready", "sniffs", "sniffing", "fixers",
                           "fixing", "settling"}]
    /\ job \in [Process -> Job]
    /\ verified \subseteq File \X Version \X Config
    /\ cut \subseteq File \X Version \X Config
    /\ adopted \subseteq File \X Version \X Config

SkippedNow == {<<f, content[f], runConfig>> : f \in Skipped}

\* A run skips a file as unchanged only when a processing of the very same
\* content, under the very same configuration, came to its end and reported
\* nothing, whatever edits, reconfigurations and other workers came between.
NoStaleSkip == SkippedNow \subseteq verified

\* The same, but for two ways an entry goes stale: an exception or a kill ended
\* the processing between addFilePath and the invalidation, or a run with
\* --clear-cache wrote it after it had removed the configuration hash, and the
\* next boot took it over. Nothing else does.
StaleSkipsExplained == SkippedNow \subseteq verified \cup cut \cup adopted
=============================================================================
