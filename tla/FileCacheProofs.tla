--------------------------- MODULE FileCacheProofs ---------------------------
(***************************************************************************)
(* For any files, configs, workers and faults: an entry that makes a run   *)
(* skip a file was earned, or it is one of the two kinds the code lets go  *)
(* stale.                                                                  *)
(*                                                                         *)
(* The property looks at an instant between boot and selection; the        *)
(* invariant follows the entry there.  While a process works on a file the *)
(* entry is what the process hashed, and unless it reports, a content that *)
(* still is the hashed one is the only one it has seen (JobOK); with no    *)
(* process at work an entry equal to the content is vouched for (Vouched). *)
(***************************************************************************)
EXTENDS FileCache, FiniteSetTheorems, TLAPS

Busy(p) == at[p] \notin {"off", "ready"}

Known == verified \cup cut \cup adopted

Bounded == \A f \in File : entry[f] <= newest[f] /\ content[f] <= newest[f]

(* Where the run is: the configuration the entries belong to, and who can  *)
(* be at work.                                                             *)
Phases ==
    /\ phase # "working" => \A p \in Process : at[p] = "off"
    /\ phase # "idle" => runConfig \in Config
    /\ phase = "booted" => confEntry = runConfig
    /\ phase = "working" => confEntry \in {None, runConfig}
    /\ phase # "idle" /\ Mode = "parallel" => config = runConfig
    /\ phase = "working" /\ Mode = "serial" => \A p \in Process : p # Main => at[p] = "off"

JobOK(p) ==
    LET j == job[p] IN
    /\ j.file \in File \ todo
    /\ j.hashed \in Version /\ entry[j.file] = j.hashed
    /\ at[p] \in {"sniffing", "fixing"} => j.read \in Version /\ j.read <= newest[j.file]
    /\ ~j.found =>
           /\ at[p] = "sniffs" => j.seen = {}
           /\ at[p] = "sniffing" => j.seen = {j.read}
           /\ at[p] # "sniffs" /\ content[j.file] = j.hashed => j.seen = {j.hashed}

Jobs ==
    /\ \A p \in Process : Busy(p) => JobOK(p)
    /\ \A p, q \in Process : Busy(p) /\ Busy(q) /\ p # q => job[p].file # job[q].file

Vouched ==
    \A f \in File :
        /\ \A p \in Process : Busy(p) => job[p].file # f
        /\ entry[f] = content[f]
        /\ phase = "idle" => confEntry # None
        => <<f, entry[f], IF phase = "idle" THEN confEntry ELSE runConfig>> \in Known

CacheInv == TypeOK /\ Bounded /\ Phases /\ Jobs /\ Vouched

LEMMA CacheInvInit == ASSUME Init PROVE CacheInv
<1>1. TypeOK
  <2>1. NoJob \in Job /\ 1 \in Version
    BY CacheAssumption DEF CacheAssumption, NoJob, Job, NoEntry, Version
  <2>. QED  BY <2>1 DEF Init, TypeOK
<1>2. Bounded
  BY DEF Init, Bounded, NoEntry
<1>3. Phases /\ Jobs /\ Vouched
  BY DEF Init, Phases, Jobs, Vouched, Busy
<1>. QED  BY <1>1, <1>2, <1>3 DEF CacheInv

LEMMA WorkingWhenBusy ==
    ASSUME CacheInv, NEW p \in Process, Busy(p)
    PROVE  phase = "working" /\ JobOK(p) /\ runConfig \in Config
BY DEF CacheInv, Phases, Jobs, Busy

LEMMA StoppedTyped ==
    ASSUME CacheInv, NEW ps \in SUBSET Process
    PROVE  Stopped(ps) \subseteq File \X Version \X Config
BY WorkingWhenBusy DEF Stopped, Busy, JobOK
-----------------------------------------------------------------------------
(* The user: a new version is beyond every entry and every hash.           *)
LEMMA EditKeeps == ASSUME CacheInv, NEW f \in File, Edit(f) PROVE CacheInv'
<1>1. /\ newest[f] < MaxVersion
      /\ newest' = [newest EXCEPT ![f] = newest[f] + 1]
      /\ content' = [content EXCEPT ![f] = newest[f] + 1]
      /\ UNCHANGED <<config, entry, confEntry, phase, options, runConfig, todo, at, job,
                     verified, cut, adopted, Known, Mode>>
  BY DEF Edit, run, history, Known, Mode
<1>2. /\ newest \in [File -> Version] /\ content \in [File -> Version]
      /\ entry \in [File -> Version \cup {NoEntry}] /\ Bounded /\ TypeOK
  BY DEF CacheInv, TypeOK
<1>3. newest[f] + 1 \in Version /\ MaxVersion \in Nat
  BY <1>1, <1>2, CacheAssumption DEF CacheAssumption, Version
<1>4. /\ newest' \in [File -> Version] /\ content' \in [File -> Version]
      /\ content'[f] = newest[f] + 1 /\ newest'[f] = newest[f] + 1
      /\ \A g \in File : g # f => content'[g] = content[g] /\ newest'[g] = newest[g]
  BY <1>1, <1>2, <1>3
<1>5. \A g \in File : /\ newest[g] \in Int /\ newest'[g] \in Int
                      /\ entry[g] \in Int /\ newest[g] <= newest'[g]
                      /\ g # f \/ (entry[g] < content'[g] /\ content'[g] <= newest'[g])
  BY <1>2, <1>4 DEF Version, NoEntry, Bounded
<1>6. TypeOK'
  BY <1>1, <1>2, <1>4 DEF TypeOK
<1>7. Bounded'
  BY <1>1, <1>2, <1>4, <1>5 DEF Bounded
<1>8. Phases'
  BY <1>1 DEF CacheInv, Phases
<1>9. Jobs'
  <2>1. \A p \in Process : Busy(p)' => Busy(p)
    BY <1>1 DEF Busy
  <2>2. ASSUME NEW p \in Process, Busy(p) PROVE JobOK(p)'
    <3>1. JobOK(p) /\ job[p].file \in File
      BY <2>2, WorkingWhenBusy DEF JobOK
    <3>2. at[p] \in {"sniffing", "fixing"} => job[p].read <= newest'[job[p].file]
      BY <1>5, <3>1 DEF JobOK, Version
    <3>3. content'[job[p].file] = job[p].hashed => content[job[p].file] = job[p].hashed
      BY <1>4, <1>5, <3>1 DEF JobOK
    <3>. QED  BY <1>1, <3>1, <3>2, <3>3 DEF JobOK
  <2>. QED  BY <1>1, <2>1, <2>2 DEF CacheInv, Jobs, Busy
<1>10. Vouched'
  <2>1. \A g \in File : entry[g] = content'[g] => g # f
    BY <1>4, <1>5
  <2>. QED  BY <1>1, <1>4, <2>1 DEF CacheInv, Vouched, Busy
<1>. QED  BY <1>6, <1>7, <1>8, <1>9, <1>10 DEF CacheInv

LEMMA EditConfigKeeps == ASSUME CacheInv, NEW c \in Config, EditConfig(c) PROVE CacheInv'
<1>1. /\ config' = c /\ (phase = "idle" \/ Mode = "serial")
      /\ UNCHANGED <<content, newest, entry, confEntry, phase, options, runConfig, todo, at, job,
                     verified, cut, adopted, Known, Mode>>
  BY DEF EditConfig, disk, run, history, Known, Mode
<1>2. TypeOK' /\ Bounded'
  BY <1>1 DEF CacheInv, TypeOK, Bounded
<1>3. Phases'
  BY <1>1 DEF CacheInv, Phases, Mode
<1>4. Jobs' /\ Vouched'
  BY <1>1 DEF CacheInv, Jobs, JobOK, Vouched, Busy
<1>. QED  BY <1>2, <1>3, <1>4 DEF CacheInv
-----------------------------------------------------------------------------
(* The main process.                                                       *)

LEMMA BootKeeps == ASSUME CacheInv, NEW opts \in RunOptions, Boot(opts) PROVE CacheInv'
<1>1. /\ phase = "idle" /\ phase' = "booted" /\ options' = opts /\ runConfig' = config
      /\ confEntry' = config
      /\ entry' = IF confEntry \in {None, config} THEN entry ELSE [f \in File |-> NoEntry]
      /\ UNCHANGED <<content, newest, config, todo, at, job, verified, cut>>
  BY DEF Boot, SetUsedConfigs, disk
<1>2. adopted' = IF confEntry # None THEN adopted
                 ELSE adopted \cup {<<f, entry[f], config>> :
                                       f \in {g \in File : entry[g] # NoEntry}}
  BY DEF Boot
<1>3. TypeOK /\ Bounded /\ config \in Config
  BY DEF CacheInv, TypeOK
<1>4. opts \in SUBSET {"parallel", "clear", "fix"}
  BY CacheAssumption DEF CacheAssumption
<1>5. adopted' \subseteq File \X Version \X Config
  BY <1>2, <1>3 DEF TypeOK
<1>6. TypeOK'
  BY <1>1, <1>3, <1>4, <1>5 DEF TypeOK
<1>7. Bounded'
  BY <1>1, <1>3 DEF Bounded, TypeOK, NoEntry, Version
<1>8. \A p \in Process : at[p] = "off"
  BY <1>1 DEF CacheInv, Phases
<1>9. Phases' /\ Jobs'
  BY <1>1, <1>3, <1>8 DEF Phases, Jobs, Busy, Mode
<1>10. Vouched'
  <2> SUFFICES ASSUME NEW f \in File, entry'[f] = content'[f]
               PROVE  <<f, entry'[f], config>> \in Known'
    BY <1>1 DEF Vouched
  <2>1. entry'[f] # NoEntry /\ entry' = entry /\ confEntry \in {None, config}
    BY <1>1, <1>3 DEF TypeOK, NoEntry, Version
  <2>2. CASE confEntry = None
    BY <1>2, <2>1, <2>2 DEF Known
  <2>3. CASE confEntry # None
    <3>1. <<f, entry[f], confEntry>> \in Known
      BY <1>1, <1>8, <2>1, <2>3 DEF CacheInv, Vouched, Busy
    <3>. QED  BY <1>1, <1>2, <2>1, <2>3, <3>1 DEF Known
  <2>. QED  BY <2>2, <2>3
<1>. QED  BY <1>6, <1>7, <1>9, <1>10 DEF CacheInv

LEMMA SelectKeeps == ASSUME CacheInv, Select PROVE CacheInv'
<1>1. /\ phase = "booted" /\ phase' \in {"idle", "working"}
      /\ UNCHANGED <<content, newest, config, options, runConfig, job, verified, cut, adopted,
                     Known, Mode>>
      /\ todo' \subseteq File
      /\ at' = at \/ (Mode = "serial" /\ at' = [at EXCEPT ![Main] = "ready"])
      /\ (phase' = "working" \/ at' = at)
  BY DEF Select, disk, history, Known, Mode
<1>2. \/ entry' = entry /\ confEntry' = confEntry
      \/ entry' = [f \in File |-> NoEntry] /\ confEntry' = None
  BY DEF Select, ClearCache
<1>3. TypeOK /\ Bounded /\ confEntry = runConfig /\ runConfig \in Config
      /\ \A p \in Process : at[p] = "off"
  BY <1>1 DEF CacheInv, Phases
<1>4. \A p \in Process : at'[p] \in {"off", "ready"} /\ (at'[p] = "ready" => p = Main)
  BY <1>1, <1>3 DEF TypeOK
<1>5. at' \in [Process -> {"off", "ready", "sniffs", "sniffing", "fixers", "fixing", "settling"}]
  BY <1>1, <1>3 DEF TypeOK
<1>6. TypeOK'
  BY <1>1, <1>2, <1>3, <1>5 DEF TypeOK
<1>7. Bounded'
  BY <1>1, <1>2, <1>3 DEF Bounded, TypeOK, NoEntry, Version
<1>8. Phases'
  <2>1. phase' # "working" => at' = at
    BY <1>1
  <2>2. phase = "booted" /\ Mode = "parallel" => config = runConfig
    BY DEF CacheInv, Phases
  <2>. QED  BY <1>1, <1>2, <1>3, <1>4, <2>1, <2>2 DEF Phases
<1>9. Jobs'
  BY <1>4 DEF Jobs, Busy
<1>10. Vouched'
  <2> SUFFICES ASSUME NEW f \in File, entry'[f] = content'[f], phase' = "idle" => confEntry' # None
               PROVE  <<f, entry'[f], IF phase' = "idle" THEN confEntry' ELSE runConfig'>> \in Known'
    BY DEF Vouched
  <2>1. entry' = entry /\ confEntry' = confEntry
    BY <1>1, <1>2, <1>3 DEF TypeOK, NoEntry, Version
  <2>2. <<f, entry[f], runConfig>> \in Known
    BY <1>1, <1>3, <2>1 DEF CacheInv, Vouched, Busy
  <2>. QED  BY <1>1, <1>3, <2>1, <2>2
<1>. QED  BY <1>6, <1>7, <1>8, <1>9, <1>10 DEF CacheInv

(* A worker loads the same config and finds its hash, or none.             *)
LEMMA WorkerBootsKeeps == ASSUME CacheInv, NEW w \in Worker, WorkerBoots(w) PROVE CacheInv'
<1>1. /\ phase = "working" /\ Mode = "parallel" /\ at[w] = "off" /\ w \in Process
      /\ at' = [at EXCEPT ![w] = "ready"]
      /\ confEntry' = config
      /\ UNCHANGED <<content, newest, config, phase, options, runConfig, todo, job,
                     verified, cut, adopted, Known, Mode>>
  BY DEF WorkerBoots, SetUsedConfigs, disk, run, history, Known, Mode, Process
<1>2. TypeOK /\ config = runConfig /\ confEntry \in {None, runConfig} /\ runConfig \in Config
  BY <1>1 DEF CacheInv, Phases
<1>3. entry' = entry
  BY <1>2 DEF WorkerBoots, SetUsedConfigs
<1>4. at' \in [Process -> {"off", "ready", "sniffs", "sniffing", "fixers", "fixing", "settling"}]
      /\ \A p \in Process : (at'[p] = at[p] \/ at'[p] = "ready") /\ (Busy(p)' <=> Busy(p))
                            /\ (Busy(p) => at'[p] = at[p])
  BY <1>1, <1>2 DEF TypeOK, Busy
<1>5. TypeOK' /\ Bounded'
  BY <1>1, <1>2, <1>3, <1>4 DEF TypeOK, CacheInv, Bounded
<1>6. Phases'
  BY <1>1, <1>2 DEF Phases, Mode
<1>7. Jobs'
  BY <1>1, <1>3, <1>4 DEF CacheInv, Jobs, JobOK
<1>8. Vouched'
  BY <1>1, <1>3, <1>4 DEF CacheInv, Vouched
<1>. QED  BY <1>5, <1>6, <1>7, <1>8 DEF CacheInv

(* A run may end at any point, if every file at work counts as cut short.  *)
LEMMA RunEndsKeeps ==
    ASSUME CacheInv, RunEnds, phase # "idle",
           cut \subseteq cut', cut' \subseteq File \X Version \X Config,
           \A p \in Process : Busy(p) => <<job[p].file, job[p].hashed, runConfig>> \in cut'
    PROVE  CacheInv'
<1>1. /\ phase' = "idle" /\ todo' = {}
      /\ at' = [p \in Process |-> "off"] /\ job' = [p \in Process |-> NoJob]
      /\ UNCHANGED <<content, newest, config, entry, confEntry, options, runConfig, verified, adopted>>
  BY DEF RunEnds, disk
<1>2. NoJob \in Job
  BY DEF NoJob, Job
<1>3. TypeOK' /\ Bounded'
  BY <1>1, <1>2 DEF CacheInv, TypeOK, Bounded
<1>4. Phases' /\ Jobs'
  BY <1>1 DEF Phases, Jobs, Busy
<1>5. Vouched'
  <2> SUFFICES ASSUME NEW f \in File, entry[f] = content[f], confEntry # None
               PROVE  <<f, entry[f], confEntry>> \in Known'
    BY <1>1 DEF Vouched
  <2>1. confEntry = runConfig
    BY DEF CacheInv, Phases, TypeOK
  <2>2. CASE \A p \in Process : Busy(p) => job[p].file # f
    BY <1>1, <2>1, <2>2 DEF CacheInv, Vouched, Known
  <2>3. CASE \E p \in Process : Busy(p) /\ job[p].file = f
    BY <2>1, <2>3, WorkingWhenBusy DEF JobOK, Known
  <2>. QED  BY <2>2, <2>3
<1>. QED  BY <1>3, <1>4, <1>5 DEF CacheInv

LEMMA EndRunKeeps == ASSUME CacheInv, EndRun PROVE CacheInv'
<1>1. RunEnds /\ cut' = cut /\ phase # "idle" /\ \A p \in Process : ~Busy(p)
  BY DEF EndRun, Busy
<1>2. cut \subseteq File \X Version \X Config
  BY DEF CacheInv, TypeOK
<1>. QED  BY <1>1, <1>2, RunEndsKeeps

LEMMA KilledKeeps == ASSUME CacheInv, Killed PROVE CacheInv'
<1>1. RunEnds /\ cut' = cut \cup Stopped(Process) /\ phase # "idle"
  BY DEF Killed
<1>2. cut' \subseteq File \X Version \X Config
  BY <1>1, StoppedTyped DEF CacheInv, TypeOK
<1>3. \A p \in Process : Busy(p) => <<job[p].file, job[p].hashed, runConfig>> \in cut'
  BY <1>1 DEF Stopped, Busy
<1>. QED  BY <1>1, <1>2, <1>3, RunEndsKeeps

LEMMA ThrowsKeeps == ASSUME CacheInv, NEW p \in Process, Throws(p) PROVE CacheInv'
<1>1. RunEnds /\ cut' = cut \cup Stopped({p}) /\ Busy(p) /\ Mode = "serial"
  BY DEF Throws, Busy
<1>2. phase = "working" /\ \A q \in Process : Busy(q) => q = Main
  BY <1>1, WorkingWhenBusy DEF CacheInv, Phases, Busy
<1>3. cut' \subseteq File \X Version \X Config
  BY <1>1, StoppedTyped DEF CacheInv, TypeOK
<1>4. \A q \in Process : Busy(q) => <<job[q].file, job[q].hashed, runConfig>> \in cut'
  BY <1>1, <1>2 DEF Stopped, Busy
<1>. QED  BY <1>1, <1>2, <1>3, <1>4, RunEndsKeeps
-----------------------------------------------------------------------------
(* A process and its file.                                                 *)

LEMMA TakeKeeps == ASSUME CacheInv, NEW p \in Process, NEW f \in File, Take(p, f) PROVE CacheInv'
<1>1. /\ at[p] = "ready" /\ f \in todo /\ todo' = todo \ {f}
      /\ UNCHANGED <<content, newest, config, confEntry, phase, options, runConfig,
                     verified, cut, adopted, Known, Mode>>
  BY DEF Take, disk, run, history, Known, Mode
<1>2. TypeOK /\ Bounded /\ phase = "working"
  BY <1>1 DEF CacheInv, Phases
<1>3. CASE UNCHANGED <<entry, at, job>>
  <2>1. TypeOK' /\ Bounded'
    BY <1>1, <1>2, <1>3 DEF TypeOK, Bounded
  <2>2. Phases' /\ Jobs' /\ Vouched'
    BY <1>1, <1>3 DEF CacheInv, Phases, Jobs, JobOK, Vouched, Busy
  <2>. QED  BY <2>1, <2>2 DEF CacheInv
<1>4. CASE /\ entry' = [entry EXCEPT ![f] = content[f]]
           /\ at' = [at EXCEPT ![p] = "sniffs"]
           /\ job' = [job EXCEPT ![p] = [NoJob EXCEPT !.file = f, !.hashed = content[f]]]
  <2> DEFINE j == [NoJob EXCEPT !.file = f, !.hashed = content[f]]
  <2>1. content[f] \in Version
    BY <1>2 DEF TypeOK
  <2>2. j \in Job /\ j.file = f /\ j.hashed = content[f] /\ j.seen = {} /\ j.found = FALSE
    BY <2>1 DEF NoJob, Job
  <2> HIDE DEF j
  <2>3. /\ entry' \in [File -> Version \cup {NoEntry}] /\ entry'[f] = content[f]
        /\ \A g \in File : g # f => entry'[g] = entry[g]
        /\ job' \in [Process -> Job] /\ job'[p] = j
        /\ at' \in [Process -> {"off", "ready", "sniffs", "sniffing", "fixers", "fixing", "settling"}]
        /\ at'[p] = "sniffs"
        /\ \A q \in Process : q # p => at'[q] = at[q] /\ job'[q] = job[q]
    BY <1>2, <1>4, <2>1, <2>2 DEF TypeOK, j
  <2>4. TypeOK'
    BY <1>1, <1>2, <2>3 DEF TypeOK
  <2>5. Bounded'
    BY <1>1, <1>2, <2>3 DEF Bounded
  <2>6. Phases'
    <3>1. Mode = "serial" => p = Main
      BY <1>1, <1>2 DEF CacheInv, Phases
    <3>. QED  BY <1>1, <1>2, <2>3, <3>1 DEF CacheInv, Phases
  <2>7. \A q \in Process : Busy(q)' /\ q # p => Busy(q) /\ JobOK(q) /\ job[q].file # f
    BY <1>1, <2>3, WorkingWhenBusy DEF Busy, JobOK
  <2>8. JobOK(p)'
    BY <1>1, <2>1, <2>2, <2>3 DEF JobOK
  <2>9. ASSUME NEW q \in Process, Busy(q)', q # p PROVE JobOK(q)'
    <3>1. JobOK(q) /\ job[q].file # f
      BY <2>7, <2>9
    <3>. QED  BY <1>1, <2>3, <2>9, <3>1 DEF JobOK
  <2>10. Jobs'
    BY <2>2, <2>3, <2>7, <2>8, <2>9 DEF CacheInv, Jobs
  <2>11. Vouched'
    <3>1. Busy(p)' /\ job'[p].file = f /\ ~Busy(p)
      BY <1>1, <2>2, <2>3 DEF Busy
    <3>. QED  BY <1>1, <1>2, <2>3, <3>1 DEF CacheInv, Vouched, Busy
  <2>. QED  BY <2>4, <2>5, <2>6, <2>10, <2>11 DEF CacheInv
<1>. QED  BY <1>3, <1>4 DEF Take, AddFilePath

(* While p works on its file, what it does to disk and job touches no      *)
(* other file's.                                                           *)
LEMMA WorkOnKeeps ==
    ASSUME CacheInv, NEW p \in Process, Busy(p), Busy(p)', JobOK(p)',
           job'[p].file = job[p].file,
           TypeOK', Bounded',
           \A q \in Process : q # p => at'[q] = at[q] /\ job'[q] = job[q],
           \A g \in File : g # job[p].file => content'[g] = content[g] /\ newest'[g] = newest[g],
           UNCHANGED <<config, entry, confEntry, run, todo, history>>
    PROVE  CacheInv'
<1>1. phase = "working" /\ JobOK(p) /\ UNCHANGED <<phase, options, runConfig, Known, Mode>>
  BY WorkingWhenBusy DEF run, history, Known, Mode
<1>2. \A q \in Process : Busy(q)' <=> Busy(q)
  BY DEF Busy
<1>3. Phases'
  BY <1>1 DEF CacheInv, Phases, Busy
<1>4. ASSUME NEW q \in Process, Busy(q), q # p PROVE JobOK(q)'
  <2>1. JobOK(q) /\ job[q].file # job[p].file
    BY <1>4 DEF CacheInv, Jobs
  <2>. QED  BY <1>4, <2>1 DEF JobOK
<1>5. Jobs'
  BY <1>2, <1>4 DEF CacheInv, Jobs
<1>6. Vouched'
  BY <1>1, <1>2 DEF CacheInv, Vouched
<1>. QED  BY <1>3, <1>5, <1>6 DEF CacheInv

LEMMA ReadKeeps == ASSUME CacheInv, NEW p \in Process, Read(p) PROVE CacheInv'
<1> DEFINE f == job[p].file
           v == content[f]
           j == [job[p] EXCEPT !.read = v, !.seen = job[p].seen \cup {v}]
<1>1. /\ at[p] \in {"sniffs", "fixers"}
      /\ at' = [at EXCEPT ![p] = IF at[p] = "sniffs" THEN "sniffing" ELSE "fixing"]
      /\ job' = [job EXCEPT ![p] = j]
      /\ UNCHANGED <<content, newest, config, entry, confEntry, run, todo, history>>
  BY DEF Read, disk
<1>2. Busy(p) /\ JobOK(p) /\ TypeOK /\ Bounded
  BY <1>1, WorkingWhenBusy DEF Busy, CacheInv
<1>3. f \in File /\ v \in Version /\ v <= newest[f] /\ job[p] \in Job
  BY <1>2 DEF JobOK, TypeOK, Bounded
<1>4. /\ j \in Job /\ j.file = f /\ j.hashed = job[p].hashed /\ j.read = v
      /\ j.seen = job[p].seen \cup {v} /\ j.found = job[p].found
  BY <1>3 DEF Job
<1> HIDE DEF f, v, j
<1>5. /\ at' \in [Process -> {"off", "ready", "sniffs", "sniffing", "fixers", "fixing", "settling"}]
      /\ at'[p] = IF at[p] = "sniffs" THEN "sniffing" ELSE "fixing"
      /\ job' \in [Process -> Job] /\ job'[p] = j
      /\ \A q \in Process : q # p => at'[q] = at[q] /\ job'[q] = job[q]
  BY <1>1, <1>2, <1>4 DEF TypeOK
<1>6. TypeOK' /\ Bounded'
  BY <1>1, <1>2, <1>5 DEF TypeOK, Bounded, run, history
<1>7. Busy(p)' /\ job'[p].file = job[p].file
  BY <1>4, <1>5 DEF Busy, f
<1>8. JobOK(p)'
  <2>1. /\ j.file \in File \ todo' /\ j.hashed \in Version /\ entry'[j.file] = j.hashed
        /\ j.read \in Version /\ j.read <= newest'[j.file]
    BY <1>1, <1>2, <1>3, <1>4 DEF JobOK, f
  <2>2. ASSUME ~j.found
        PROVE  /\ at'[p] = "sniffing" => j.seen = {j.read}
               /\ content'[j.file] = j.hashed => j.seen = {j.hashed}
    <3>1. at[p] = "sniffs" => job[p].seen = {}
      BY <1>2, <1>4, <2>2 DEF JobOK
    <3>2. at[p] # "sniffs" /\ v = j.hashed => job[p].seen = {j.hashed}
      BY <1>2, <1>4, <2>2 DEF JobOK, f, v
    <3>3. content'[j.file] = v
      BY <1>1, <1>4 DEF v
    <3>. QED  BY <1>1, <1>4, <1>5, <3>1, <3>2, <3>3
  <2>. QED  BY <1>5, <2>1, <2>2 DEF JobOK
<1>. QED  BY <1>1, <1>2, <1>5, <1>6, <1>7, <1>8, WorkOnKeeps

(* What Clean and Reports have in common: the job keeps its file, its hash *)
(* and what it saw, and the content it may write is the one it read or a   *)
(* new one.                                                                *)
LEMMA ForwardKeeps ==
    ASSUME CacheInv, NEW p \in Process, at[p] \in {"sniffing", "fixing"}, Forward(p),
           NEW found \in BOOLEAN, job[p].found => found,
           job' = [job EXCEPT ![p].read = NoEntry, ![p].found = found],
           UNCHANGED <<config, entry, confEntry, run, todo, history>>,
           \/ UNCHANGED disk
           \/ /\ at[p] = "sniffing"
              /\ content' = [content EXCEPT ![job[p].file] = job[p].read] /\ UNCHANGED newest
           \/ /\ found /\ newest[job[p].file] < MaxVersion
              /\ newest' = [newest EXCEPT ![job[p].file] = @ + 1]
              /\ content' = [content EXCEPT ![job[p].file] = newest[job[p].file] + 1]
    PROVE  CacheInv'
<1> DEFINE f == job[p].file
           j == [job[p] EXCEPT !.read = NoEntry, !.found = found]
<1>1. Busy(p) /\ JobOK(p) /\ TypeOK /\ Bounded
  BY WorkingWhenBusy DEF Busy, CacheInv
<1>2. f \in File /\ job[p] \in Job /\ job[p].read \in Version /\ job[p].read <= newest[f]
  BY <1>1 DEF JobOK, TypeOK
<1>3. /\ j \in Job /\ j.file = f /\ j.hashed = job[p].hashed
      /\ j.seen = job[p].seen /\ j.found = found
  BY <1>2 DEF Job, NoEntry
<1>4. job' = [job EXCEPT ![p] = j]
  OBVIOUS
<1>5. MaxVersion \in Nat
  BY CacheAssumption DEF CacheAssumption
<1> HIDE DEF j
<1>6. /\ at' \in [Process -> {"off", "ready", "sniffs", "sniffing", "fixers", "fixing", "settling"}]
      /\ at'[p] = IF at[p] = "sniffing" THEN "fixers" ELSE "settling"
      /\ job' \in [Process -> Job] /\ job'[p] = j
      /\ \A q \in Process : q # p => at'[q] = at[q] /\ job'[q] = job[q]
  <2>1. /\ at \in [Process -> {"off", "ready", "sniffs", "sniffing", "fixers", "fixing", "settling"}]
        /\ job \in [Process -> Job]
    BY <1>1 DEF TypeOK
  <2>2. at' = [at EXCEPT ![p] = IF at[p] = "sniffing" THEN "fixers" ELSE "settling"]
    BY DEF Forward
  <2>. QED  BY ONLY <1>3, <1>4, <2>1, <2>2, p \in Process
<1>7. /\ content' \in [File -> Version] /\ newest' \in [File -> Version]
      /\ content'[f] <= newest'[f] /\ newest[f] <= newest'[f]
      /\ \A g \in File : g # f => content'[g] = content[g] /\ newest'[g] = newest[g]
      /\ found \/ content'[f] = content[f] \/ (at[p] = "sniffing" /\ content'[f] = job[p].read)
  <2>1. newest \in [File -> Version] /\ content \in [File -> Version] /\ content[f] <= newest[f]
    BY <1>1, <1>2 DEF TypeOK, Bounded
  <2>2. CASE UNCHANGED disk
    BY <1>2, <2>1, <2>2 DEF disk, Version
  <2>3. CASE /\ at[p] = "sniffing"
             /\ content' = [content EXCEPT ![f] = job[p].read] /\ UNCHANGED newest
    BY <1>2, <2>1, <2>3 DEF Version
  <2>4. CASE /\ found /\ newest[f] < MaxVersion
             /\ newest' = [newest EXCEPT ![f] = newest[f] + 1]
             /\ content' = [content EXCEPT ![f] = newest[f] + 1]
    BY <1>2, <1>5, <2>1, <2>4 DEF Version
  <2>. QED  BY <2>2, <2>3, <2>4
<1>8. TypeOK'
  BY <1>1, <1>6, <1>7 DEF TypeOK, run, history
<1>9. Bounded'
  <2>1. \A g \in File : entry[g] \in Int /\ newest[g] \in Int /\ newest'[g] \in Int
    BY <1>1, <1>7 DEF TypeOK, Version, NoEntry
  <2>. QED  BY <1>1, <1>2, <1>7, <2>1 DEF Bounded
<1>10. Busy(p)' /\ job'[p].file = job[p].file
  BY <1>3, <1>6 DEF Busy
<1>11. JobOK(p)'
  <2>1. /\ j.file \in File \ todo' /\ j.hashed \in Version /\ entry'[j.file] = j.hashed
    BY <1>1, <1>3 DEF JobOK
  <2>2. ASSUME ~j.found, content'[j.file] = j.hashed PROVE j.seen = {j.hashed}
    BY <1>1, <1>3, <1>7, <2>2 DEF JobOK
  <2>. QED  BY <1>6, <2>1, <2>2 DEF JobOK
<1>. QED  BY <1>1, <1>6, <1>7, <1>8, <1>9, <1>10, <1>11, WorkOnKeeps

LEMMA CleanKeeps == ASSUME CacheInv, NEW p \in Process, Clean(p) PROVE CacheInv'
<1>1. job[p] \in Job
  BY DEF CacheInv, TypeOK
<1>2. job[p].found \in BOOLEAN
      /\ job' = [job EXCEPT ![p].read = NoEntry, ![p].found = job[p].found]
  <2>1. [job[p] EXCEPT !.read = NoEntry] = [job[p] EXCEPT !.read = NoEntry, !.found = job[p].found]
    BY <1>1 DEF Job
  <2>2. job' = [job EXCEPT ![p] = [job[p] EXCEPT !.read = NoEntry]]
    BY DEF Clean
  <2>. QED  BY <1>1, <2>1, <2>2 DEF Job
<1>3. UNCHANGED newest /\ (content' = content \/
          (at[p] = "sniffing" /\ content' = [content EXCEPT ![job[p].file] = job[p].read]))
  BY DEF Clean
<1>. QED  BY <1>2, <1>3, ForwardKeeps DEF Clean, disk

LEMMA ReportsKeeps == ASSUME CacheInv, NEW p \in Process, Reports(p) PROVE CacheInv'
BY ForwardKeeps DEF Reports

(* A process is through with its file: it has forgotten the entry, or the  *)
(* history has the entry's version.                                        *)
LEMMA FileDoneKeeps ==
    ASSUME CacheInv, NEW p \in Process, Busy(p),
           at' = [at EXCEPT ![p] = "ready"], job' = [job EXCEPT ![p] = NoJob],
           UNCHANGED <<disk, config, confEntry, run, todo>>,
           entry' = entry \/ entry' = [entry EXCEPT ![job[p].file] = NoEntry],
           Known \subseteq Known',
           verified' \cup cut' \cup adopted' \subseteq File \X Version \X Config,
           entry'[job[p].file] = content[job[p].file] =>
               <<job[p].file, entry'[job[p].file], runConfig>> \in Known'
    PROVE  CacheInv'
<1> DEFINE f == job[p].file
<1>1. /\ phase = "working" /\ JobOK(p) /\ f \in File /\ TypeOK /\ Bounded
      /\ UNCHANGED <<content, newest, phase, options, runConfig, Mode>>
  BY WorkingWhenBusy DEF disk, run, Mode, JobOK, CacheInv
<1>2. NoJob \in Job
  BY DEF NoJob, Job
<1>3. /\ at' \in [Process -> {"off", "ready", "sniffs", "sniffing", "fixers", "fixing", "settling"}]
      /\ at'[p] = "ready" /\ job' \in [Process -> Job]
      /\ \A q \in Process : q # p => at'[q] = at[q] /\ job'[q] = job[q]
  BY <1>1, <1>2 DEF TypeOK
<1>4. /\ entry' \in [File -> Version \cup {NoEntry}]
      /\ \A g \in File : g # f => entry'[g] = entry[g]
      /\ entry'[f] \in {entry[f], NoEntry}
  BY <1>1 DEF TypeOK
<1>5. TypeOK'
  BY <1>1, <1>3, <1>4 DEF TypeOK
<1>6. Bounded'
  BY <1>1, <1>4 DEF Bounded, TypeOK, Version, NoEntry
<1>7. Phases'
  <2>1. Mode = "serial" => p = Main
    BY <1>1 DEF CacheInv, Phases, Busy
  <2>. QED  BY <1>1, <1>3, <2>1 DEF CacheInv, Phases
<1>8. \A q \in Process : Busy(q)' <=> (Busy(q) /\ q # p)
  BY <1>3 DEF Busy
<1>9. ASSUME NEW q \in Process, Busy(q), q # p PROVE JobOK(q)'
  <2>1. JobOK(q) /\ job[q].file # f /\ job[q].file \in File
    BY <1>9 DEF CacheInv, Jobs, JobOK
  <2>. QED  BY <1>1, <1>3, <1>4, <1>9, <2>1 DEF JobOK
<1>10. Jobs'
  BY <1>3, <1>8, <1>9 DEF CacheInv, Jobs
<1>11. Vouched'
  <2> SUFFICES ASSUME NEW g \in File, entry'[g] = content[g], g # f,
                      \A q \in Process : Busy(q)' => job'[q].file # g
               PROVE  <<g, entry'[g], runConfig>> \in Known'
    BY <1>1 DEF Vouched
  <2>1. \A q \in Process : Busy(q) => job[q].file # g
    BY <1>3, <1>8
  <2>. QED  BY <1>1, <1>4, <2>1 DEF CacheInv, Vouched
<1>. QED  BY <1>5, <1>6, <1>7, <1>10, <1>11 DEF CacheInv

LEMMA SettleKeeps == ASSUME CacheInv, NEW p \in Process, Settle(p) PROVE CacheInv'
<1> DEFINE f == job[p].file
<1>1. Busy(p) /\ at[p] = "settling"
  BY DEF Settle, Busy
<1>2. JobOK(p) /\ f \in File /\ runConfig \in Config /\ TypeOK /\ job[p] \in Job
  BY <1>1, WorkingWhenBusy DEF JobOK, CacheInv, TypeOK
<1>3. FoundClean(p) \subseteq File \X Version \X Config
  BY <1>2 DEF FoundClean, Job
<1>4. /\ verified' = verified \cup FoundClean(p) /\ cut' = cut /\ adopted' = adopted
      /\ IF job[p].found THEN entry' = [entry EXCEPT ![f] = NoEntry] ELSE entry' = entry
  BY DEF Settle, InvalidateFilePath
<1>5. Known \subseteq Known' /\ verified' \cup cut' \cup adopted' \subseteq File \X Version \X Config
  BY <1>2, <1>3, <1>4 DEF Known, TypeOK
<1>6. ASSUME entry'[f] = content[f] PROVE <<f, entry'[f], runConfig>> \in Known'
  <2>1. ~job[p].found /\ entry' = entry
    BY <1>2, <1>4, <1>6 DEF TypeOK, NoEntry, Version
  <2>2. entry[f] = job[p].hashed /\ job[p].seen = {job[p].hashed}
    BY <1>1, <1>2, <1>6, <2>1 DEF JobOK
  <2>3. Cardinality(job[p].seen) = 1
    BY <2>2, FS_Singleton
  <2>. QED  BY <1>4, <2>1, <2>2, <2>3 DEF Known, FoundClean
<1>. QED
  BY <1>1, <1>4, <1>5, <1>6, FileDoneKeeps DEF Settle

LEMMA UnparsableKeeps == ASSUME CacheInv, NEW p \in Process, Unparsable(p) PROVE CacheInv'
<1> DEFINE f == job[p].file
<1>1. Busy(p) /\ verified' = verified /\ adopted' = adopted
  BY DEF Unparsable, Busy
<1>2. JobOK(p) /\ f \in File /\ TypeOK
  BY <1>1, WorkingWhenBusy DEF JobOK, CacheInv
<1>3. CASE entry' = [entry EXCEPT ![f] = NoEntry] /\ cut' = cut
  <2>1. entry'[f] # content[f]
    BY <1>2, <1>3 DEF TypeOK, NoEntry, Version
  <2>. QED  BY <1>1, <1>2, <1>3, <2>1, FileDoneKeeps DEF Unparsable, Known, TypeOK
<1>4. CASE entry' = entry /\ cut' = cut \cup Stopped({p})
  <2>1. cut' \subseteq File \X Version \X Config
    BY <1>2, <1>4, StoppedTyped DEF TypeOK
  <2>2. <<f, entry[f], runConfig>> \in cut'
    BY <1>1, <1>2, <1>4 DEF Stopped, Busy, JobOK
  <2>. QED  BY <1>1, <1>2, <1>4, <2>1, <2>2, FileDoneKeeps DEF Unparsable, Known, TypeOK
<1>. QED  BY <1>3, <1>4 DEF Unparsable, InvalidateFilePath

LEMMA ThrowsInWorkerKeeps == ASSUME CacheInv, NEW p \in Process, ThrowsInWorker(p) PROVE CacheInv'
<1> DEFINE f == job[p].file
<1>1. /\ Busy(p) /\ verified' = verified /\ adopted' = adopted /\ entry' = entry
      /\ cut' = cut \cup Stopped({p})
  BY DEF ThrowsInWorker, Busy
<1>2. JobOK(p) /\ f \in File /\ TypeOK
  BY <1>1, WorkingWhenBusy DEF JobOK, CacheInv
<1>3. cut' \subseteq File \X Version \X Config
  BY <1>1, <1>2, StoppedTyped DEF TypeOK
<1>4. <<f, entry[f], runConfig>> \in cut'
  BY <1>1, <1>2 DEF Stopped, Busy, JobOK
<1>. QED  BY <1>1, <1>2, <1>3, <1>4, FileDoneKeeps DEF ThrowsInWorker, Known, TypeOK
-----------------------------------------------------------------------------
LEMMA CacheInvNext == ASSUME CacheInv, [Next]_vars PROVE CacheInv'
<1>1. CASE \E f \in File : Edit(f)
  BY <1>1, EditKeeps
<1>2. CASE \E c \in Config : EditConfig(c)
  BY <1>2, EditConfigKeeps
<1>3. CASE \E opts \in RunOptions : Boot(opts)
  BY <1>3, BootKeeps
<1>4. CASE Select
  BY <1>4, SelectKeeps
<1>5. CASE EndRun
  BY <1>5, EndRunKeeps
<1>6. CASE Killed
  BY <1>6, KilledKeeps
<1>7. CASE \E w \in Worker : WorkerBoots(w)
  BY <1>7, WorkerBootsKeeps
<1>8. CASE \E p \in Process : ProcessStep(p)
  <2>1. PICK p \in Process : ProcessStep(p)
    BY <1>8
  <2>. QED
    BY <2>1, TakeKeeps, ReadKeeps, CleanKeeps, ReportsKeeps, SettleKeeps, UnparsableKeeps,
       ThrowsInWorkerKeeps, ThrowsKeeps DEF ProcessStep
<1>9. CASE UNCHANGED vars
  BY <1>9 DEF vars, CacheInv, TypeOK, Bounded, Phases, Jobs, JobOK, Vouched, Busy, Known, Mode
<1>. QED  BY <1>1, <1>2, <1>3, <1>4, <1>5, <1>6, <1>7, <1>8, <1>9 DEF Next

LEMMA CacheInvHolds == Spec => []CacheInv
<1>1. Init => CacheInv
  BY CacheInvInit
<1>2. CacheInv /\ [Next]_vars => CacheInv'
  BY CacheInvNext
<1>. QED  BY <1>1, <1>2, PTL DEF Spec

\* The cache never holds anything but versions under its files' keys and one
\* configuration hash, whatever runs, edits and faults came before.
THEOREM CacheTyped == Spec => []TypeOK
<1>1. CacheInv => TypeOK
  BY DEF CacheInv
<1>. QED  BY <1>1, CacheInvHolds, PTL

\* A file is skipped as unchanged only if this content was found clean under
\* this configuration, or its entry is left by an interrupted processing or by
\* a run that had removed the configuration hash: there is no third way.
THEOREM SkipsAreExplained == Spec => []StaleSkipsExplained
<1>1. CacheInv => StaleSkipsExplained
  <2> SUFFICES ASSUME CacheInv, NEW f \in Skipped
               PROVE  <<f, content[f], runConfig>> \in Known
    BY DEF StaleSkipsExplained, SkippedNow, Known
  <2>1. phase = "booted" /\ f \in File /\ entry[f] = content[f]
    BY DEF Skipped, HasFileChanged
  <2>. QED  BY <2>1 DEF CacheInv, Phases, Vouched, Busy
<1>. QED  BY <1>1, CacheInvHolds, PTL
=============================================================================
