---------------------------- MODULE BlinkRunner ----------------------------
(***************************************************************************)
(* The worker pool of the Go engine: Run and fixFile of                    *)
(* blink/internal/runner/runner.go.  A feeder goroutine offers the found   *)
(* files on the unbuffered channel `paths', the workers fix them, hand     *)
(* what they have to report to the collector over the unbuffered channel   *)
(* `results', and a closer shuts `results' once every worker returned.     *)
(*                                                                         *)
(* A file is the name the finder returned; two names may stand for one     *)
(* file on disk (finder.Find compares the names as typed).                 *)
(***************************************************************************)
EXTENDS Naturals, Sequences, FiniteSets, Functions

CONSTANTS
    Found,      \* the files finder.Find returned, in that order: names 1..Len
                \* are numbered as cmp.Compare orders them
    Worker,     \* the goroutines, max(cfg.Jobs, 1) of them
    Fixable,    \* the files some rule changes
    Erroneous,  \* the files whose original contents have errors to report
    OnDisk,     \* the file on disk behind each name
    Write,      \* --fix
    MayFail     \* the files whose reading or writing the system may refuse

Files == 1 .. Len(Found)

ASSUME FoundAssumption ==
    /\ Found \in Seq(Nat)
    /\ \A i, j \in 1 .. Len(Found) : Found[i] = Found[j] => i = j
    /\ \A f \in 1 .. Len(Found) : \E i \in 1 .. Len(Found) : Found[i] = f
    /\ \A i \in 1 .. Len(Found) : Found[i] \in 1 .. Len(Found)
ASSUME WorkerAssumption == Worker # {} /\ IsFiniteSet(Worker)
ASSUME FileAssumption ==
    /\ Fixable \subseteq Files
    /\ Erroneous \subseteq Files
    /\ MayFail \subseteq Files
    /\ Write \in BOOLEAN

VARIABLES
    fed,        \* how many of Found the feeder has handed out
    pathsOpen,  \* `paths' is not closed yet
    cancelled,  \* ctx is done
    pc,         \* where each worker is
    file,       \* the file each worker holds, 0 when it holds none
    src,        \* what each worker read, then what it renders
    disk,       \* contents on disk: "original", "fixed", or "torn" while (or
                \* after) os.WriteFile is half way
    errs,       \* the files of the errors collected under mu
    collected,  \* what the collector received, in order of arrival
    resultsOpen,\* `results' is not closed yet
    outcome,    \* what Run returned: "ok", "cancelled", "errors"
    returned    \* the results it returned

vars == <<fed, pathsOpen, cancelled, pc, file, src, disk, errs, collected,
          resultsOpen, outcome, returned>>

Contents == {"original", "fixed", "torn"}
Places == {"recv", "read", "fix", "store", "send", "gone"}

Init ==
    /\ fed = 0
    /\ pathsOpen = TRUE
    /\ cancelled = FALSE
    /\ pc = [w \in Worker |-> "recv"]
    /\ file = [w \in Worker |-> 0]
    /\ src = [w \in Worker |-> "original"]
    /\ disk = [d \in {OnDisk[f] : f \in Files} |-> "original"]
    /\ errs = {}
    /\ collected = <<>>
    /\ resultsOpen = TRUE
    /\ outcome = "running"
    /\ returned = <<>>
-----------------------------------------------------------------------------
(* The feeder.  With ctx done and a worker waiting, select picks either.   *)

NextPathStale == Found[IF fed = 0 THEN 1 ELSE fed]      \* mutant: off by one
NextPath == Found[fed + 1]

FedOrNever == fed = Len(Found) /\ cancelled             \* mutant: and for or
FeederStops == fed = Len(Found) \/ cancelled

Feed(w) ==
    /\ pathsOpen /\ fed < Len(Found)
    /\ pc[w] = "recv"
    /\ fed' = fed + 1
    /\ pc' = [pc EXCEPT ![w] = "read"]
    /\ file' = [file EXCEPT ![w] = NextPath]
    /\ UNCHANGED <<pathsOpen, cancelled, src, disk, errs, collected,
                   resultsOpen, outcome, returned>>

ClosePaths ==
    /\ pathsOpen
    /\ FeederStops
    /\ pathsOpen' = FALSE
    /\ UNCHANGED <<fed, cancelled, pc, file, src, disk, errs, collected,
                   resultsOpen, outcome, returned>>

(* A signal, or the caller's context, may be done at any time.            *)
Cancel ==
    /\ ~cancelled /\ outcome = "running"
    /\ cancelled' = TRUE
    /\ UNCHANGED <<fed, pathsOpen, pc, file, src, disk, errs, collected,
                   resultsOpen, outcome, returned>>
-----------------------------------------------------------------------------
(* The workers.                                                            *)

(* An error of this file is appended to errs under mu; the worker goes on. *)

FailUnseen(w) ==                               \* mutant: errs not appended to
    /\ file[w] \in MayFail
    /\ pc' = [pc EXCEPT ![w] = "recv"]
    /\ file' = [file EXCEPT ![w] = 0]
    /\ UNCHANGED errs

Fail(w) ==
    /\ file[w] \in MayFail
    /\ errs' = errs \cup {file[w]}
    /\ pc' = [pc EXCEPT ![w] = "recv"]
    /\ file' = [file EXCEPT ![w] = 0]

(* os.ReadFile.  While another worker is inside os.WriteFile of the same   *)
(* file, the prefix it has written so far is what is read.                 *)
Read(w) ==
    /\ pc[w] = "read"
    /\ src' = [src EXCEPT ![w] = disk[OnDisk[file[w]]]]
    /\ pc' = [pc EXCEPT ![w] = "fix"]
    /\ UNCHANGED <<fed, pathsOpen, cancelled, file, disk, errs, collected,
                   resultsOpen, outcome, returned>>

ReadFails(w) ==
    /\ pc[w] = "read"
    /\ Fail(w)
    /\ UNCHANGED <<fed, pathsOpen, cancelled, src, disk, collected,
                   resultsOpen, outcome, returned>>

(* Whether the rules change what was read, and whether there is anything   *)
(* to report.  Only of the original contents is that known: the rules are  *)
(* not promised to be idempotent, and a torn text is any prefix.           *)
Results == {r \in [changed : BOOLEAN, reported : BOOLEAN] :
                r.changed => r.reported}
ResultsOf(f, content) ==
    IF content = "original"
    THEN {[changed |-> f \in Fixable, reported |-> f \in Fixable \cup Erroneous]}
    ELSE Results

(* The rules run, and a changed file is written: os.WriteFile truncates    *)
(* before it writes.                                                       *)
Fix(w) ==
    /\ pc[w] = "fix"
    /\ \E r \in ResultsOf(file[w], src[w]) :
         \/ /\ r.changed /\ Write
            /\ disk' = [disk EXCEPT ![OnDisk[file[w]]] = "torn"]
            /\ pc' = [pc EXCEPT ![w] = "store"]
            /\ UNCHANGED file
         \/ /\ r.reported /\ ~(r.changed /\ Write)
            /\ pc' = [pc EXCEPT ![w] = "send"]
            /\ UNCHANGED <<disk, file>>
         \/ /\ ~r.reported
            /\ pc' = [pc EXCEPT ![w] = "recv"]
            /\ file' = [file EXCEPT ![w] = 0]
            /\ UNCHANGED disk
    /\ UNCHANGED <<fed, pathsOpen, cancelled, src, errs, collected,
                   resultsOpen, outcome, returned>>

(* The rest of os.WriteFile: the fixed text, or the fixed prefix when only *)
(* a prefix was read.                                                      *)
Store(w) ==
    /\ pc[w] = "store"
    /\ disk' = [disk EXCEPT ![OnDisk[file[w]]] =
                   IF src[w] = "torn" THEN "torn" ELSE "fixed"]
    /\ pc' = [pc EXCEPT ![w] = "send"]
    /\ UNCHANGED <<fed, pathsOpen, cancelled, file, src, errs, collected,
                   resultsOpen, outcome, returned>>

StoreFailsUnchecked(w) ==                  \* mutant: its err not looked at
    /\ pc[w] = "store" /\ file[w] \in MayFail
    /\ pc' = [pc EXCEPT ![w] = "send"]
    /\ UNCHANGED <<fed, pathsOpen, cancelled, file, src, disk, errs, collected,
                   resultsOpen, outcome, returned>>

StoreFails(w) ==
    /\ pc[w] = "store"
    /\ Fail(w)
    /\ UNCHANGED <<fed, pathsOpen, cancelled, src, disk, collected,
                   resultsOpen, outcome, returned>>

(* results <- res, received by the collector in the same rendezvous.       *)
Send(w) ==
    /\ pc[w] = "send" /\ outcome = "running"
    /\ collected' = Append(collected, file[w])
    /\ pc' = [pc EXCEPT ![w] = "recv"]
    /\ file' = [file EXCEPT ![w] = 0]
    /\ UNCHANGED <<fed, pathsOpen, cancelled, src, disk, errs, resultsOpen,
                   outcome, returned>>

(* range paths ends, and wg.Done.                                          *)
Leave(w) ==
    /\ pc[w] = "recv" /\ ~pathsOpen
    /\ pc' = [pc EXCEPT ![w] = "gone"]
    /\ UNCHANGED <<fed, pathsOpen, cancelled, file, src, disk, errs,
                   collected, resultsOpen, outcome, returned>>
-----------------------------------------------------------------------------
SomeoneGone == \E w \in Worker : pc[w] = "gone"   \* mutant: not wg.Wait
AllGone == \A w \in Worker : pc[w] = "gone"

CloseResults ==
    /\ resultsOpen
    /\ AllGone
    /\ resultsOpen' = FALSE
    /\ UNCHANGED <<fed, pathsOpen, cancelled, pc, file, src, disk, errs,
                   collected, outcome, returned>>

AsArrived(s) == s                                  \* mutant: not sorted
SortsByPath(order, s) == \A i, j \in DOMAIN s : i < j => s[order[i]] <= s[order[j]]
ByPath(s) ==
    LET order == CHOOSE p \in Bijection(DOMAIN s, DOMAIN s) : SortsByPath(p, s)
    IN  [i \in DOMAIN s |-> s[order[i]]]

(* range results ends and Run returns.                                     *)
Return ==
    /\ ~resultsOpen /\ outcome = "running"
    /\ \/ /\ cancelled
          /\ outcome' = "cancelled" /\ UNCHANGED returned
       \/ /\ ~cancelled /\ errs # {}
          /\ outcome' = "errors" /\ UNCHANGED returned
       \/ /\ ~cancelled /\ errs = {}
          /\ outcome' = "ok" /\ returned' = ByPath(collected)
    /\ UNCHANGED <<fed, pathsOpen, cancelled, pc, file, src, disk, errs,
                   collected, resultsOpen>>
-----------------------------------------------------------------------------
Step(w) == \/ Read(w) \/ ReadFails(w) \/ Fix(w) \/ Store(w)
           \/ StoreFails(w) \/ Send(w) \/ Leave(w)

(* Run is over: nothing is left to do.                                     *)
Over == outcome # "running" /\ UNCHANGED vars

Next == \/ \E w \in Worker : Feed(w) \/ Step(w)
        \/ ClosePaths \/ Cancel \/ CloseResults \/ Return
        \/ Over

(* Every goroutine that can run does; nobody has to cancel.                *)
Fairness ==
    /\ WF_vars(\E w \in Worker : Feed(w))
    /\ WF_vars(ClosePaths)
    /\ WF_vars(CloseResults)
    /\ WF_vars(Return)
    /\ \A w \in Worker : WF_vars(Step(w))

Spec == Init /\ [][Next]_vars
FairSpec == Spec /\ Fairness
-----------------------------------------------------------------------------
(* The order of `returned' is CompleteAndSorted's matter.                  *)
TypeOK ==
    /\ fed \in 0 .. Len(Found)
    /\ pathsOpen \in BOOLEAN /\ cancelled \in BOOLEAN /\ resultsOpen \in BOOLEAN
    /\ pc \in [Worker -> Places]
    /\ file \in [Worker -> Files \cup {0}]
    /\ src \in [Worker -> Contents]
    /\ disk \in [{OnDisk[f] : f \in Files} -> Contents]
    /\ errs \subseteq Files
    /\ collected \in Seq(Files)
    /\ outcome \in {"running", "ok", "cancelled", "errors"}

Handed == {Found[i] : i \in 1 .. fed}
InHand == {file[w] : w \in Worker} \ {0}
Reportable == Fixable \cup Erroneous

(* runner.go:67-107.  However the goroutines interleave, a file is in the  *)
(* hands of one worker at most, and its result, or its error, is collected *)
(* once: nothing is processed twice, reported twice, or still being worked *)
(* on after it was reported.                                               *)
OnceEach ==
    /\ \A v, w \in Worker : v # w /\ file[v] # 0 => file[v] # file[w]
    /\ \A i, j \in 1 .. Len(collected) : collected[i] = collected[j] => i = j
    /\ Range(collected) \cap InHand = {}
    /\ errs \cap (InHand \cup Range(collected)) = {}

(* runner.go:99-102.  `results' is closed only when no worker can send on  *)
(* it any more (a send on a closed channel panics), and then the feeder is *)
(* finished too: Run leaves no goroutine behind.                           *)
NothingAfterClose ==
    ~resultsOpen => /\ ~pathsOpen
                    /\ \A w \in Worker : pc[w] = "gone"

(* runner.go:104-117.  When Run returns without an error, every found file *)
(* was handed out and the list holds each file with something to report,   *)
(* in the order of the names, the same list whatever the interleaving.     *)
CompleteAndSorted ==
    outcome = "ok" =>
        /\ fed = Len(Found)
        /\ Range(returned) = Reportable
        /\ \A i, j \in 1 .. Len(returned) : i < j => returned[i] < returned[j]

(* runner.go:39-41, 109-114.  No file goes missing: once the pool is shut, *)
(* every file that was handed out and had something to report is in the    *)
(* collected results or among the errors, and all were handed out unless   *)
(* the context was cancelled.                                              *)
Accounted ==
    ~resultsOpen =>
        /\ Reportable \cap Handed \subseteq Range(collected) \cup errs
        /\ ~cancelled => Handed = Files

(* runner.go:169-178.  When Run returns, a file on disk has its old        *)
(* contents or all of its new ones, unless its own write failed.  With     *)
(* --fix the files that were rewritten are exactly the collected ones that *)
(* a rule changes: none is written and not collected, though the run may   *)
(* report errors or a cancelled context, and none is collected as changed  *)
(* and not written.  Without --fix nothing is written.                     *)
WholeFiles ==
    outcome # "running" =>
        \A f \in Files :
            /\ disk[OnDisk[f]] = "torn" => f \in errs
            /\ disk[OnDisk[f]] = "fixed" <=> Write /\ f \in Range(collected) \cap Fixable

(* The pool is never stuck: once started, Run returns, cancelled or not.   *)
Returns == <>(outcome # "running")

(* Handing files to goroutines implements the abstract dispatch.           *)
Dispatch == INSTANCE WorkDispatch WITH
    Job <- Files,
    waiting <- Files \ Handed,
    taken <- InHand,
    settled <- Range(collected) \cup errs \cup
               (Handed \ (InHand \cup Reportable))
DispatchSpec == Dispatch!Spec
=============================================================================
