-------------------------- MODULE BlinkCommitProofs --------------------------
(***************************************************************************)
(* For any number of rules, any files and any of the faults: what          *)
(* --blink --commit says of its commits.                                   *)
(*                                                                         *)
(* The argument is about what waits in the work tree.  A rule writes only  *)
(* while it is the current one (Authored), and a commit takes everything   *)
(* tracked, so what waits and what is committed have no author in common   *)
(* (Whole); on a clean tree nothing waits but the current rule's (Clean).  *)
(***************************************************************************)
EXTENDS BlinkCommit, TLAPS

Change == File \X Nat
Entry == [rule : Nat, changes : SUBSET Change]

Typed ==
    /\ r \in Nat /\ committed \in Nat
    /\ at \in {"blink", "status", "commit", "done", "failed"}
    /\ changes \subseteq Change
    /\ log \in Seq(Entry)

Authored ==
    /\ \A c \in changes : c[2] <= r
    /\ at = "blink" => \A c \in changes : c[2] < r
    /\ \A n \in DOMAIN log : log[n].rule < r /\ \A c \in log[n].changes : c[2] < r

Whole == \A n \in DOMAIN log : \A c \in log[n].changes, d \in changes :
             d[1] \in Tracked => c[2] # d[2]

Clean == dirty = {} /\ faults \subseteq {"start"} =>
             \A c \in changes : c[1] \in Tracked =>
                 at \in {"status", "commit"} /\ c[2] = r

Counted == untracked = {} /\ "commit" \notin faults =>
               /\ committed = Len(log)
               /\ at = "commit" => Staged # {}

CommitInv == Typed /\ Authored /\ Whole /\ NeverSplit /\ Clean /\ OneRuleOneCommit /\ Counted

LEMMA CommitInvInit == ASSUME Init PROVE CommitInv
<1>1. changes \subseteq Change /\ \A c \in changes : c[2] = 0
  BY BlinkCommitAssumption DEF Init, Change, File, user, BlinkCommitAssumption
<1>2. log = <<>> /\ r = 1 /\ committed = 0 /\ at \in {"done", "blink"}
  BY DEF Init
<1>3. dirty = {} => changes = {}
  BY DEF Init
<1>4. log \in Seq(Entry) /\ DOMAIN log = {} /\ Len(log) = 0
  BY <1>2
<1>. QED
  BY <1>1, <1>2, <1>3, <1>4
  DEF CommitInv, Typed, Authored, Whole, NeverSplit, Clean, OneRuleOneCommit, Counted

LEMMA LogEntries ==
    ASSUME Typed
    PROVE  \A n \in DOMAIN log :
               /\ log[n].rule \in Nat /\ log[n].changes \subseteq Change
               /\ \A c \in log[n].changes : c[2] \in Nat
<1> SUFFICES ASSUME NEW n \in DOMAIN log
             PROVE  /\ log[n].rule \in Nat /\ log[n].changes \subseteq Change
                    /\ \A c \in log[n].changes : c[2] \in Nat
  OBVIOUS
<1>1. log[n] \in Entry
  <2>1. log \in Seq(Entry)
    BY DEF Typed
  <2>2. n \in 1 .. Len(log)
    BY <2>1
  <2>. QED  BY <2>1, <2>2
<1>2. log[n].rule \in Nat /\ log[n].changes \in SUBSET Change
  BY <1>1 DEF Entry
<1>. QED  BY <1>2 DEF Change

(* The loop goes on with the next rule, and the log is left alone: what    *)
(* waits is older than the rule, and nobody's on a clean tree.             *)
LEMMA NextRuleKeeps ==
    ASSUME CommitInv, NextRule, UNCHANGED <<start, changes, log>>, committed' \in Nat,
           dirty = {} /\ faults \subseteq {"start"} => \A c \in changes : c[1] \notin Tracked,
           untracked = {} /\ "commit" \notin faults => committed' = Len(log)
    PROVE  CommitInv'
<1>1. r' = r + 1 /\ at' \in {"done", "blink"} /\ r \in Nat
  BY DEF NextRule, CommitInv, Typed
<1>2. UNCHANGED <<dirty, untracked, faults, File, Change, Entry>>
  BY DEF start, File, Change, Entry
<1>3. Typed'
  BY <1>1, <1>2 DEF CommitInv, Typed
<1>4. Authored'
  <2>1. \A c \in changes : c[2] \in Nat
    BY DEF CommitInv, Typed, Change
  <2>2. \A n \in DOMAIN log : log[n].rule \in Nat /\ \A c \in log[n].changes : c[2] \in Nat
    BY LogEntries DEF CommitInv
  <2>. QED  BY <1>1, <2>1, <2>2 DEF CommitInv, Authored
<1>5. Whole' /\ NeverSplit' /\ OneRuleOneCommit'
  BY <1>2 DEF CommitInv, Whole, NeverSplit, OneRuleOneCommit
<1>6. Clean' /\ Counted'
  BY <1>1, <1>2 DEF Clean, Counted
<1>. QED  BY <1>3, <1>4, <1>5, <1>6 DEF CommitInv

LEMMA BlinkKeeps == ASSUME CommitInv, Blink PROVE CommitInv'
<1>1. PICK fixed \in SUBSET File : changes' = changes \union (fixed \X {r})
  BY DEF Blink
<1>2. /\ UNCHANGED <<dirty, untracked, faults, r, log, committed, File, Change, Entry>>
      /\ at = "blink" /\ at' = "status" /\ r \in Nat
  BY DEF Blink, start, File, Change, Entry, CommitInv, Typed
<1>3. \A c \in changes' : c \in changes \/ (c \in Change /\ c[2] = r)
  BY <1>1, <1>2 DEF Change
<1>4. Typed'
  BY <1>2, <1>3 DEF CommitInv, Typed
<1>5. Authored'
  BY <1>2, <1>3 DEF CommitInv, Typed, Authored
<1>6. Whole'
  <2>1. \A n \in DOMAIN log : \A c \in log[n].changes : c[2] \in Nat /\ c[2] < r
    BY LogEntries DEF CommitInv, Authored
  <2>2. \A n \in DOMAIN log : \A c \in log[n].changes : c[2] # r
    BY <1>2, <2>1
  <2>. QED  BY <1>2, <1>3, <2>2 DEF CommitInv, Whole
<1>7. NeverSplit' /\ OneRuleOneCommit'
  BY <1>2 DEF CommitInv, NeverSplit, OneRuleOneCommit
<1>8. Clean' /\ Counted'
  BY <1>2, <1>3 DEF CommitInv, Clean, Counted
<1>. QED  BY <1>4, <1>5, <1>6, <1>7, <1>8 DEF CommitInv

(* A commit takes what is tracked, and on a clean tree it is this rule's.  *)
LEMMA CommitKeeps == ASSUME CommitInv, Commit PROVE CommitInv'
<1> DEFINE new == [rule |-> r, changes |-> Staged]
<1>1. /\ log' = Append(log, new) /\ changes' = changes \ Staged
      /\ committed' = committed + 1 /\ r' = r + 1
      /\ at = "commit" /\ at' \in {"done", "blink"}
      /\ UNCHANGED <<dirty, untracked, faults, File, Change, Entry>>
  BY DEF Commit, NextRule, start, File, Change, Entry
<1>2. /\ r \in Nat /\ committed \in Nat
      /\ log \in Seq(Entry)
      /\ new \in Entry
      /\ Staged \subseteq changes
  BY DEF CommitInv, Typed, Staged, Entry
<1>3. /\ log' \in Seq(Entry)
      /\ Len(log') = Len(log) + 1 /\ Len(log) \in Nat
      /\ DOMAIN log' = 1 .. Len(log) + 1 /\ DOMAIN log = 1 .. Len(log)
      /\ \A n \in DOMAIN log : log'[n] = log[n]
      /\ log'[Len(log) + 1] = new
  <2> HIDE DEF new
  <2>. QED  BY <1>1, <1>2
<1>4. \A c \in changes' : c \in changes /\ c[1] \notin Tracked
  BY <1>1 DEF Staged
<1>5. \A n \in DOMAIN log' : n \in DOMAIN log \/ n = Len(log) + 1
  BY <1>3
<1>6. \A n \in DOMAIN log' :
          /\ log'[n].rule \in Nat /\ log'[n].rule < r + 1
          /\ \A c \in log'[n].changes : c[2] \in Nat /\ c[2] < r + 1
  <2> SUFFICES ASSUME NEW n \in DOMAIN log'
               PROVE  /\ log'[n].rule \in Nat /\ log'[n].rule < r + 1
                      /\ \A c \in log'[n].changes : c[2] \in Nat /\ c[2] < r + 1
    OBVIOUS
  <2>1. CASE n \in DOMAIN log
    <3>1. log'[n] = log[n] /\ log[n].rule \in Nat /\ \A c \in log[n].changes : c[2] \in Nat
      BY <1>3, <2>1, LogEntries DEF CommitInv
    <3>2. log[n].rule < r /\ \A c \in log[n].changes : c[2] < r
      BY <2>1 DEF CommitInv, Authored
    <3>. QED  BY <1>2, <3>1, <3>2
  <2>2. CASE n = Len(log) + 1
    <3>1. \A c \in changes : c[2] \in Nat /\ c[2] <= r
      BY DEF CommitInv, Typed, Authored, Change
    <3>. QED  BY <1>2, <1>3, <2>2, <3>1
  <2>. QED  BY <1>5, <2>1, <2>2
<1>7. Typed'
  BY <1>1, <1>2, <1>3, <1>4 DEF CommitInv, Typed
<1>8. Authored'
  <2>1. \A c \in changes' : c[2] \in Nat /\ c[2] < r + 1
    BY <1>2, <1>4 DEF CommitInv, Typed, Authored, Change
  <2>. QED  BY <1>1, <1>2, <1>6, <2>1 DEF Authored
<1>9. Whole'
  BY <1>1, <1>4 DEF Whole
<1>10. NeverSplit'
  <2>1. \A n \in DOMAIN log : \A c \in log'[n].changes, d \in new.changes : c[2] # d[2]
    BY <1>3 DEF CommitInv, Whole, Staged
  <2>2. \A m, n \in DOMAIN log :
            (\E c \in log'[m].changes, d \in log'[n].changes : c[2] = d[2]) => m = n
    BY <1>3 DEF CommitInv, NeverSplit
  <2>3. \A n \in DOMAIN log : \A c \in log'[n].changes, d \in log'[Len(log) + 1].changes :
            c[2] # d[2]
    BY <1>3, <2>1
  <2> HIDE DEF new
  <2>. QED  BY <1>5, <2>2, <2>3 DEF NeverSplit
<1>11. Clean'
  BY <1>1, <1>4 DEF Clean
<1>12. OneRuleOneCommit'
  <2> SUFFICES ASSUME dirty = {}, faults \subseteq {"start"}
               PROVE  /\ \A n \in DOMAIN log' : \A c \in log'[n].changes : c[2] = log'[n].rule
                      /\ \A m, n \in DOMAIN log' : log'[m].rule = log'[n].rule => m = n
    BY <1>1 DEF OneRuleOneCommit
  <2>1. \A c \in Staged : c[2] = r
    BY DEF CommitInv, Clean, Staged
  <2>2. /\ \A n \in DOMAIN log : \A c \in log[n].changes : c[2] = log[n].rule
        /\ \A m, n \in DOMAIN log : log[m].rule = log[n].rule => m = n
    BY DEF CommitInv, OneRuleOneCommit
  <2>3. \A n \in DOMAIN log' : \A c \in log'[n].changes : c[2] = log'[n].rule
    BY <1>3, <1>5, <2>1, <2>2
  <2>4. \A n \in DOMAIN log : log[n].rule \in Nat /\ log[n].rule < r
    BY LogEntries DEF CommitInv, Authored
  <2>5. \A n \in DOMAIN log : log'[n].rule # log'[Len(log) + 1].rule
    BY <1>2, <1>3, <2>4
  <2>6. \A m, n \in DOMAIN log : log'[m].rule = log'[n].rule => m = n
    BY <1>3, <2>2
  <2> HIDE DEF new
  <2>. QED  BY <1>5, <2>3, <2>5, <2>6
<1>13. Counted'
  BY <1>1, <1>2, <1>3 DEF CommitInv, Counted
<1>. QED  BY <1>7, <1>8, <1>9, <1>10, <1>11, <1>12, <1>13 DEF CommitInv

LEMMA CommitInvNext == ASSUME CommitInv, [Next]_vars PROVE CommitInv'
<1>1. CASE Blink
  BY <1>1, BlinkKeeps
<1>2. CASE Commit
  BY <1>2, CommitKeeps
<1>3. CASE NothingToCommit
  <2>1. dirty = {} /\ faults \subseteq {"start"} => \A c \in changes : c[1] \notin Tracked
    BY <1>3 DEF NothingToCommit, HasChanges
  <2>2. untracked = {} /\ "commit" \notin faults => committed' = Len(log)
    BY <1>3 DEF NothingToCommit, CommitInv, Counted
  <2>. QED  BY <1>3, <2>1, <2>2, NextRuleKeeps DEF NothingToCommit, CommitInv, Typed
<1>4. CASE CommitRefused
  <2>1. dirty = {} /\ faults \subseteq {"start"} => \A c \in changes : c[1] \notin Tracked
    BY <1>4 DEF CommitRefused, Refused, Staged
  <2>2. untracked # {} \/ "commit" \in faults
    BY <1>4 DEF CommitRefused, Refused, CommitInv, Counted
  <2>. QED  BY <1>4, <2>1, <2>2, NextRuleKeeps DEF CommitRefused, CommitInv, Typed
<1>5. CASE StatusChanged
  <2>1. /\ UNCHANGED <<dirty, untracked, faults, r, changes, log, committed, File, Change, Entry, Staged>>
        /\ at = "status" /\ at' = "commit"
    BY <1>5 DEF StatusChanged, start, File, Change, Entry, Staged
  <2>2. untracked = {} => Staged # {}
    BY <1>5 DEF StatusChanged, HasChanges, Staged, CommitInv, Typed, Change, File
  <2>3. Typed' /\ Authored' /\ Whole' /\ NeverSplit' /\ OneRuleOneCommit'
    BY <2>1 DEF CommitInv, Typed, Authored, Whole, NeverSplit, OneRuleOneCommit
  <2>4. Clean' /\ Counted'
    BY <2>1, <2>2 DEF CommitInv, Clean, Counted
  <2>. QED  BY <2>3, <2>4 DEF CommitInv
<1>6. CASE BlinkUnavailable
  <2>1. /\ UNCHANGED <<dirty, untracked, faults, r, changes, log, committed, File, Change, Entry>>
        /\ at = "blink" /\ at' = "failed"
    BY <1>6 DEF BlinkUnavailable, start, File, Change, Entry
  <2>2. Typed' /\ Authored' /\ Whole' /\ NeverSplit' /\ OneRuleOneCommit'
    BY <2>1 DEF CommitInv, Typed, Authored, Whole, NeverSplit, OneRuleOneCommit
  <2>3. Clean' /\ Counted'
    BY <2>1 DEF CommitInv, Clean, Counted
  <2>. QED  BY <2>2, <2>3 DEF CommitInv
<1>7. CASE UNCHANGED vars
  <2>1. UNCHANGED <<dirty, untracked, faults, r, at, changes, log, committed, File, Change, Entry, Staged>>
    BY <1>7 DEF vars, start, File, Change, Entry, Staged
  <2>. QED
    BY <2>1 DEF CommitInv, Typed, Authored, Whole, NeverSplit, Clean, OneRuleOneCommit, Counted
<1>. QED  BY <1>1, <1>2, <1>3, <1>4, <1>5, <1>6, <1>7 DEF Next, Ended

LEMMA CommitInvHolds == Spec => []CommitInv
<1>1. Init => CommitInv
  BY CommitInvInit
<1>2. CommitInv /\ [Next]_vars => CommitInv'
  BY CommitInvNext
<1>. QED  BY <1>1, <1>2, PTL DEF Spec

\* One rule, one commit: on a clean work tree each commit of --blink --commit
\* holds the changes of the rule it names, however many rules and files.
THEOREM OneRulePerCommit == Spec => []OneRuleOneCommit
<1>1. CommitInv => OneRuleOneCommit
  BY DEF CommitInv
<1>. QED  BY <1>1, CommitInvHolds, PTL

\* Whatever git refuses on the way, a rule's changes are in one commit.
THEOREM RulesStayWhole == Spec => []NeverSplit
<1>1. CommitInv => NeverSplit
  BY DEF CommitInv
<1>. QED  BY <1>1, CommitInvHolds, PTL

\* "%d rule(s) committed" is the number of commits, when git tracks every file
\* and refuses none of them.
THEOREM CommitsCounted == Spec => []CountIsTrue
<1>1. CommitInv => CountIsTrue
  BY DEF CommitInv, Counted, CountIsTrue
<1>. QED  BY <1>1, CommitInvHolds, PTL

\* No step of the run loses a change that waits in the work tree.
THEOREM ChangesAreKept == Spec => NothingDropped
<1> DEFINE Kept == \A c \in changes :
                       \/ c \in changes'
                       \/ (Len(log') > Len(log) /\ c \in log'[Len(log')].changes)
<1>1. CommitInv /\ [Next]_vars => [Kept]_vars
  <2> SUFFICES ASSUME CommitInv, Next PROVE Kept
    OBVIOUS
  <2>1. CASE Commit
    <3>1. log \in Seq(Entry)
      BY DEF CommitInv, Typed
    <3>2. log' = Append(log, [rule |-> r, changes |-> Staged]) /\ changes' = changes \ Staged
      BY <2>1 DEF Commit
    <3>3. Len(log') = Len(log) + 1 /\ Len(log) \in Nat
          /\ log'[Len(log) + 1] = [rule |-> r, changes |-> Staged]
      BY <3>1, <3>2
    <3>4. Len(log') > Len(log) /\ log'[Len(log')].changes = Staged
      BY <3>3
    <3>. QED  BY <3>2, <3>4
  <2>2. CASE Next /\ ~Commit
    <3>1. changes \subseteq changes'
      BY <2>2 DEF Next, Blink, BlinkUnavailable, NothingToCommit, StatusChanged,
                  CommitRefused, Ended, vars
    <3>. QED  BY <3>1
  <2>. QED  BY <2>1, <2>2
<1>2. CommitInv /\ [Next]_vars => [Kept]_vars
  BY <1>1
<1>. QED  BY <1>2, CommitInvHolds, PTL DEF Spec, NothingDropped
=============================================================================
