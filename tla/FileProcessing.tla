-------------------------- MODULE FileProcessing --------------------------
(***************************************************************************)
(* One file on its way through the PHP engine: SingleFileProcessor hands   *)
(* it to SniffFileProcessor, which repeats passes of the sniffs until one  *)
(* changes nothing, then to FixerFileProcessor, which runs every fixer     *)
(* once, and merges what the two report.  The sniffs and fixers themselves *)
(* are whatever `rules' says; the file is only read and written here.      *)
(***************************************************************************)
EXTENDS Integers, FiniteSets, Sequences

CONSTANTS
    Content,      \* what a file can contain
    Sniff,        \* codes of fixable sniff errors
    SkippedCodes, \* those among them the configuration skips for this file
    Rules,        \* the behaviours of the configured rules, see below
    MaxLoops,     \* MAX_FIXER_LOOPS
    Modes         \* whether runs with and without --fix are considered

ASSUME FileProcessingAssumption ==
    /\ SkippedCodes \subseteq Sniff /\ MaxLoops \in Nat \ {0}
    /\ Modes \subseteq BOOLEAN
    /\ \A r \in Rules :
           /\ r.finds \in [Sniff -> SUBSET Content]   \* where a sniff finds its error
           /\ r.turn \in [Content -> Content]         \* what fixing the errors of a pass gives
           /\ r.offending \subseteq Content           \* where an error is found nobody can fix
           /\ r.fixers \in Seq([Content -> Content])  \* by priority

VARIABLES
    rules,    \* the behaviour of the rules of this run
    isFixer,  \* --fix
    original, \* what the file contained
    disk,     \* what the file contains
    at,       \* "sniffs", "sniffed", "fixers", "done", "failed"
    content,  \* what the current processor works on
    loops,    \* Fixer::$loops
    settled,  \* the last pass changed nothing
    errors,   \* SniffMetadataCollector::$codingStandardErrors, by the content they are in
    applied,  \* $appliedSniffs, then $appliedFixers
    k,        \* how many fixers have run
    diffs,    \* FILE_DIFFS: [from, to, by]
    left      \* history: what the sniffs left, written or not, once they are through

run == <<rules, isFixer, original>>
vars == <<run, disk, at, content, loops, settled, errors, applied, k, diffs, left>>

Init ==
    /\ rules \in Rules /\ isFixer \in Modes /\ original \in Content
    /\ disk = original
    /\ at = "sniffs" /\ content = disk /\ loops = 0 /\ settled = FALSE
    /\ errors = {} /\ applied = {}
    /\ k = 0 /\ diffs = {} /\ left = original
-----------------------------------------------------------------------------
(* A pass of File::process over content c.                                 *)

Found(c) == {s \in Sniff : c \in rules.finds[s]}
PassOf(c) == IF Found(c) \subseteq SkippedCodes THEN c ELSE rules.turn[c]

ErrorsIn(c) == IF c \in rules.offending THEN {c} ELSE {}

ErrorsSoFar == errors \union ErrorsIn(content)  \* mutant: resetErrors missing
ErrorsOfPass == ErrorsIn(content)

SettlesAtOnce == TRUE                           \* mutant: one pass only
Settles == PassOf(content) = content

LoopsOfOnePass == 1                             \* mutant: startFile resets the count
LoopsNow == loops + 1
GivesUp == ~Settles /\ LoopsNow >= MaxLoops

(* addFixableError notes the code as applied before it asks the skipper.   *)
Pass ==
    /\ at = "sniffs" /\ ~settled
    /\ errors' = ErrorsOfPass
    /\ applied' = applied \union Found(content)
    /\ content' = PassOf(content)
    /\ loops' = LoopsNow
    /\ settled' = Settles
    /\ at' = IF GivesUp THEN "failed" ELSE at
    /\ UNCHANGED <<run, disk, k, diffs, left>>

(* The rest of SniffFileProcessor::processFile.                            *)
SniffsEnd ==
    /\ at = "sniffs" /\ settled
    /\ diffs' = IF disk # content THEN {[from |-> disk, to |-> content, by |-> applied]}
                ELSE {}
    /\ disk' = IF isFixer THEN content ELSE disk
    /\ left' = content
    /\ at' = "sniffed"
    /\ UNCHANGED <<run, content, loops, settled, errors, applied, k>>
-----------------------------------------------------------------------------
(* FixerFileProcessor::processFile.                                        *)

FixersBegin ==
    /\ at = "sniffed"
    /\ content' = disk /\ applied' = {}
    /\ at' = "fixers"
    /\ UNCHANGED <<run, disk, loops, settled, errors, k, diffs, left>>

FixInPlace(marked) ==                           \* mutant: written after each fixer
    /\ at = "fixers" /\ k < Len(rules.fixers)
    /\ content' = rules.fixers[k + 1][content]
    /\ applied' = IF marked \/ content' # content THEN applied \union {k + 1} ELSE applied
    /\ disk' = IF isFixer THEN content' ELSE disk
    /\ k' = k + 1
    /\ UNCHANGED <<run, at, loops, settled, errors, diffs, left>>

(* A fixer may also mark the tokens changed and leave the code as it was.  *)
Fix(marked) ==
    /\ at = "fixers" /\ k < Len(rules.fixers)
    /\ content' = rules.fixers[k + 1][content]
    /\ applied' = IF marked \/ content' # content THEN applied \union {k + 1} ELSE applied
    /\ k' = k + 1
    /\ UNCHANGED <<run, disk, at, loops, settled, errors, diffs, left>>

FixThrows ==
    /\ at = "fixers" /\ k < Len(rules.fixers)
    /\ at' = "failed"
    /\ UNCHANGED <<run, disk, content, loops, settled, errors, applied, k, diffs, left>>

FixerDiffs ==
    IF applied = {} \/ disk = content THEN {}
    ELSE {[from |-> disk, to |-> content, by |-> applied]}

(* errorsAndDiffs is spread over by what the second processor returned.    *)
MergedAlways(new) == new                        \* mutant: the sniffs' diff is dropped
Merged(new) == IF new = {} THEN diffs ELSE new

FixersEnd ==
    /\ at = "fixers" /\ k = Len(rules.fixers)
    /\ diffs' = Merged(FixerDiffs)
    /\ disk' = IF isFixer /\ FixerDiffs # {} THEN content ELSE disk
    /\ at' = "done"
    /\ UNCHANGED <<run, content, loops, settled, errors, applied, k, left>>

Ended == at \in {"done", "failed"} /\ UNCHANGED vars
-----------------------------------------------------------------------------
Next ==
    \/ Pass \/ SniffsEnd
    \/ FixersBegin \/ FixThrows \/ FixersEnd
    \/ \E marked \in BOOLEAN : Fix(marked)
    \/ Ended

Spec == Init /\ [][Next]_vars
FairSpec == Spec /\ WF_vars(Next)
-----------------------------------------------------------------------------
(* What the report and the cache rely on after a file has been processed.  *)

\* A file the sniffs were fixed in is one another pass would leave alone: never
\* the content of a pass in the middle (SniffFileProcessor::fixFile).
NothingHalfFixed ==
    (isFixer /\ at \in {"sniffed", "fixers"}) => PassOf(disk) = disk

\* What a failure leaves on disk is the file as it was, or the file with all of
\* the sniffs' fixes: a fixer that throws leaves none of the fixers' changes.
FailureKeepsWhole ==
    at = "failed" => disk = original \/ PassOf(disk) = disk

\* From the end of the sniffs to the report, the errors are exactly those of one
\* content, that which the sniffs settled on and another pass would not change:
\* none that a fix of theirs has removed since (SniffMetadataCollector::resetErrors).
\* What the fixers make of that content later is not looked at again.
ErrorsAreCurrent ==
    at \in {"sniffed", "fixers", "done"} =>
    PassOf(left) = left /\ errors = ErrorsIn(left)

\* A file with nothing to report is not invalidated, so the next run skips it:
\* there is nothing left in it that a sniff would report or change, or that the
\* fixers together would (SingleFileProcessor, "invalidate broken file").
CleanMeansClean ==
    (at = "done" /\ errors = {} /\ diffs = {}) =>
    PassOf(disk) = disk /\ ErrorsIn(disk) = {} /\ content = disk

\* Every file is finished or given up, however its rules undo each other
\* (MAX_FIXER_LOOPS).
Finishes == <>(at \in {"done", "failed"})
=============================================================================
