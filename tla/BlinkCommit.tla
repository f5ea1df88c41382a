---------------------------- MODULE BlinkCommit ----------------------------
(***************************************************************************)
(* --blink --commit, BlinkCommitRunner::run: one fix run of the blink      *)
(* binary per configured rule, and one git commit after each that left the *)
(* work tree changed.  A rule is its place in the list, for a checker that *)
(* two sets register is configured, and run, twice.  A change of a file is *)
(* who made it: a rule, or the user before the run.  git is modelled by    *)
(* what the commands used here do.                                         *)
(***************************************************************************)
EXTENDS Naturals, Sequences, FiniteSets

CONSTANTS
    RuleCount,   \* the rules configured: 1 .. RuleCount, as they are applied
    Tracked,     \* files git tracks
    MayBeUntracked,  \* files git may not track, nor ignore
    MayBeDirty,  \* files the user may have changed before
    Faults       \* of "start": blink cannot be started; "status": git status
                 \* fails; "commit": a hook or a lock refuses the commit

ASSUME BlinkCommitAssumption ==
    /\ RuleCount \in Nat
    /\ Tracked \intersect MayBeUntracked = {} /\ MayBeDirty \subseteq Tracked
    /\ Faults \subseteq {"start", "status", "commit"}

VARIABLES
    dirty,      \* what the user had changed when the run began
    untracked,  \* the untracked files there are in the work tree
    faults,     \* what may happen in this run
    r,          \* the current rule
    at,         \* "blink", "status", "commit", "done", "failed"
    changes,    \* uncommitted <<file, who>>, staged or not
    log,        \* commits made: [rule, changes]
    committed   \* $committedCount

user == 0

start == <<dirty, untracked, faults>>
vars == <<start, r, at, changes, log, committed>>

File == Tracked \union untracked

Init ==
    /\ dirty \in SUBSET MayBeDirty /\ untracked \in SUBSET MayBeUntracked
    /\ faults \in SUBSET Faults
    /\ r = 1
    /\ at = IF RuleCount = 0 THEN "done" ELSE "blink"
    /\ changes = dirty \X {user}
    /\ log = <<>> /\ committed = 0
-----------------------------------------------------------------------------
NextRule ==
    /\ r' = r + 1
    /\ at' = IF r = RuleCount THEN "done" ELSE "blink"

(* Its exit code is not looked at: failing half-way, it has changed some   *)
(* of the files it would have.                                             *)
Blink ==
    /\ at = "blink"
    /\ \E fixed \in SUBSET File : changes' = changes \union (fixed \X {r})
    /\ at' = "status"
    /\ UNCHANGED <<start, r, log, committed>>

(* proc_open or the locator throws.                                        *)
BlinkUnavailable ==
    /\ at = "blink" /\ "start" \in faults
    /\ at' = "failed"
    /\ UNCHANGED <<start, r, changes, log, committed>>

(* git status --porcelain --untracked-files=all: one line for every        *)
(* untracked file as well.                                                 *)
HasChangesAlways == TRUE                        \* mutant: status is not asked
HasSomeChanges == Cardinality(changes) > 1      \* mutant: one line is none
HasChanges == changes # {} \/ untracked # {}

(* A status that fails counts as no changes.                               *)
NothingToCommit ==
    /\ at = "status"
    /\ ~HasChanges \/ "status" \in faults
    /\ NextRule
    /\ UNCHANGED <<start, changes, log, committed>>

StatusChanged ==
    /\ at = "status" /\ HasChanges
    /\ at' = "commit"
    /\ UNCHANGED <<start, r, changes, log, committed>>

(* git add --update leaves out the untracked files.                        *)
StagedFirst ==                                  \* mutant: only the first line's file
    LET of(f) == {c \in changes : c[1] = f}
    IN  IF \E f \in Tracked : of(f) # {} THEN of(CHOOSE f \in Tracked : of(f) # {}) ELSE {}
Staged == {c \in changes : c[1] \in Tracked}

Commit ==
    /\ at = "commit" /\ Staged # {}
    /\ log' = Append(log, [rule |-> r, changes |-> Staged])
    /\ changes' = changes \ Staged
    /\ committed' = committed + 1
    /\ NextRule
    /\ UNCHANGED start

(* git refuses: nothing is staged, or a hook or a lock is in the way.      *)
Refused == Staged = {} \/ "commit" \in faults

RefusedAndReset ==                              \* mutant: the work tree is reset
    /\ at = "commit" /\ Refused
    /\ changes' = {} /\ committed' = committed + 1
    /\ NextRule
    /\ UNCHANGED <<start, log>>

CommitRefused ==
    /\ at = "commit" /\ Refused
    /\ committed' = committed + 1
    /\ NextRule
    /\ UNCHANGED <<start, changes, log>>

Ended == at \in {"done", "failed"} /\ UNCHANGED vars
-----------------------------------------------------------------------------
Next ==
    \/ Blink \/ BlinkUnavailable
    \/ NothingToCommit \/ StatusChanged
    \/ Commit \/ CommitRefused
    \/ Ended

Spec == Init /\ [][Next]_vars
-----------------------------------------------------------------------------
(* What the commits of --blink --commit are for: one rule each to review.  *)

\* "One rule = one commit" (BlinkCommitRunner): started on a clean work tree, and
\* with a git that does what it is told, a commit holds changes of the rule its
\* message names and no others, and no rule has two.
OneRuleOneCommit ==
    dirty = {} /\ faults \subseteq {"start"} =>
        /\ \A n \in DOMAIN log : \A c \in log[n].changes : c[2] = log[n].rule
        /\ \A m, n \in DOMAIN log : log[m].rule = log[n].rule => m = n

\* "%d rule(s) committed" counts the commits there are, unless an untracked file
\* (or a refused commit) lets a rule be counted that left nothing to commit.
CountIsTrue ==
    at = "done" /\ untracked = {} /\ "commit" \notin faults => committed = Len(log)

\* Whatever fails, no change of the user or of a rule is dropped: a step keeps
\* it in the work tree or makes the commit it is in.
NothingDropped ==
    [][\A c \in changes :
            \/ c \in changes'
            \/ (Len(log') > Len(log) /\ c \in log'[Len(log')].changes)]_vars

\* However commits fail, what one rule changed is never spread over two commits:
\* it waits, whole, for the next commit that goes through.
NeverSplit ==
    \A m, n \in DOMAIN log :
        (\E c \in log[m].changes, d \in log[n].changes : c[2] = d[2]) => m = n

=============================================================================
