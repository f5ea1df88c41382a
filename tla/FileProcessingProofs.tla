------------------------ MODULE FileProcessingProofs ------------------------
(***************************************************************************)
(* For any rules, contents and limit: what the report and the cache rely   *)
(* on when a file has gone through the sniffs and the fixers.              *)
(*                                                                         *)
(* None of the properties is inductive, for each is about a moment whose   *)
(* past it does not see.  FileInv says what is known at every stage: a     *)
(* settled content is a fixpoint of a pass, the disk holds the original    *)
(* until the sniffs end and a fixpoint after, the errors stay those of     *)
(* what the sniffs left, and without a diff that is what is on disk.       *)
(***************************************************************************)
EXTENDS FileProcessing, TLAPS

(* The pass before has changed nothing and collected what is in content.   *)
Settled == PassOf(content) = content /\ errors = ErrorsIn(content)

(* What is on disk when the sniffs are through.                            *)
AfterSniffs ==
    /\ IF isFixer THEN PassOf(disk) = disk ELSE disk = original
    /\ diffs = {} => PassOf(disk) = disk /\ errors = ErrorsIn(disk)

(* What the sniffs left is a fixpoint, and the errors are its own.         *)
OfSettled == PassOf(left) = left /\ errors = ErrorsIn(left)

FileInv ==
    /\ at \in {"sniffs", "sniffed", "fixers", "done", "failed"}
    /\ at = "sniffs" =>
           /\ disk = original /\ diffs = {}
           /\ settled => Settled
    /\ at \in {"sniffed", "fixers", "done"} => OfSettled
    /\ at = "sniffed" => AfterSniffs
    /\ at = "fixers" => AfterSniffs /\ (applied = {} => content = disk)
    /\ at = "failed" => disk = original \/ PassOf(disk) = disk
    /\ at = "done" /\ diffs = {} => PassOf(disk) = disk /\ errors = ErrorsIn(disk) /\ content = disk

LEMMA FileInvInit == ASSUME Init PROVE FileInv
BY DEF Init, FileInv

LEMMA PassKeepsFileInv == ASSUME FileInv, Pass PROVE FileInv'
<1>1. UNCHANGED <<rules, isFixer, original, disk, k, diffs, left>> /\ at = "sniffs"
  BY DEF Pass, run
<1>2. CASE settled'
  <2>1. content' = content /\ errors' = ErrorsIn(content)
    BY <1>2 DEF Pass, Settles, ErrorsOfPass
  <2>2. Settled'
    BY <1>1, <1>2, <2>1 DEF Pass, Settles, Settled, PassOf, Found, ErrorsIn
  <2>3. at' = "sniffs"
    BY <1>1, <1>2 DEF Pass, GivesUp
  <2>. QED  BY <1>1, <2>2, <2>3 DEF FileInv
<1>3. CASE ~settled'
  <2>1. at' \in {"sniffs", "failed"}
    BY <1>1 DEF Pass
  <2>. QED  BY <1>1, <1>3, <2>1 DEF FileInv
<1>. QED  BY <1>2, <1>3

LEMMA SniffsEndKeepsFileInv == ASSUME FileInv, SniffsEnd PROVE FileInv'
<1>1. /\ UNCHANGED <<rules, isFixer, original, content, errors>>
      /\ at = "sniffs" /\ at' = "sniffed" /\ settled
      /\ disk' = IF isFixer THEN content ELSE disk
      /\ diffs' = {} => disk = content
      /\ left' = content
  BY DEF SniffsEnd, run
<1>2. disk = original /\ Settled
  BY <1>1 DEF FileInv
<1>3. PassOf(content) = content /\ errors = ErrorsIn(content)
  BY <1>2 DEF Settled
<1>4. AfterSniffs'
  <2>1. CASE isFixer
    BY <1>1, <1>3, <2>1 DEF AfterSniffs, PassOf, Found, ErrorsIn
  <2>2. CASE ~isFixer
    BY <1>1, <1>2, <1>3, <2>2 DEF AfterSniffs, PassOf, Found, ErrorsIn
  <2>. QED  BY <2>1, <2>2
<1>5. OfSettled'
  BY <1>1, <1>3 DEF OfSettled, PassOf, Found, ErrorsIn
<1>. QED  BY <1>1, <1>4, <1>5 DEF FileInv

(* Steps that touch neither the disk nor what the sniffs reported.         *)
LEMMA AfterSniffsStays ==
    ASSUME AfterSniffs, UNCHANGED <<rules, isFixer, original, disk, errors, diffs>>
    PROVE  AfterSniffs'
BY DEF AfterSniffs, PassOf, Found, ErrorsIn

LEMMA OfSettledStays ==
    ASSUME FileInv, at \in {"sniffed", "fixers"}, UNCHANGED <<rules, errors, left>>
    PROVE  OfSettled'
BY DEF FileInv, OfSettled, PassOf, Found, ErrorsIn

LEMMA FixersBeginKeepsFileInv == ASSUME FileInv, FixersBegin PROVE FileInv'
<1>1. /\ UNCHANGED <<rules, isFixer, original, disk, errors, diffs, left>>
      /\ at = "sniffed" /\ at' = "fixers" /\ content' = disk
  BY DEF FixersBegin, run
<1>2. AfterSniffs'
  BY <1>1, AfterSniffsStays DEF FileInv
<1>. QED  BY <1>1, <1>2, OfSettledStays DEF FileInv

LEMMA FixKeepsFileInv ==
    ASSUME FileInv, NEW marked \in BOOLEAN, Fix(marked)
    PROVE  FileInv'
<1>1. /\ UNCHANGED <<rules, isFixer, original, disk, errors, diffs, left>>
      /\ at = "fixers" /\ at' = "fixers"
      /\ applied' = IF marked \/ content' # content THEN applied \union {k + 1} ELSE applied
  BY DEF Fix, run
<1>2. AfterSniffs'
  BY <1>1, AfterSniffsStays DEF FileInv
<1>3. applied' = {} => content' = content /\ applied = {}
  BY <1>1
<1>. QED  BY <1>1, <1>2, <1>3, OfSettledStays DEF FileInv

LEMMA FixThrowsKeepsFileInv == ASSUME FileInv, FixThrows PROVE FileInv'
<1>1. /\ UNCHANGED <<rules, isFixer, original, disk, errors, diffs>>
      /\ at = "fixers" /\ at' = "failed"
  BY DEF FixThrows, run
<1>2. AfterSniffs'
  BY <1>1, AfterSniffsStays DEF FileInv
<1>. QED  BY <1>1, <1>2 DEF FileInv, AfterSniffs

(* Without a diff the fixers have left the content as it was read.         *)
LEMMA FixersEndKeepsFileInv == ASSUME FileInv, FixersEnd PROVE FileInv'
<1>1. /\ UNCHANGED <<rules, isFixer, original, content, errors, left>>
      /\ at = "fixers" /\ at' = "done"
      /\ diffs' = Merged(FixerDiffs)
      /\ disk' = IF isFixer /\ FixerDiffs # {} THEN content ELSE disk
  BY DEF FixersEnd, run
<1>2. OfSettled'
  BY <1>1, OfSettledStays
<1>3. CASE diffs' = {}
  <2>1. FixerDiffs = {} /\ diffs = {}
    BY <1>1, <1>3 DEF Merged
  <2>2. disk' = disk /\ content = disk
    BY <1>1, <2>1 DEF FixerDiffs, FileInv
  <2>3. PassOf(disk) = disk /\ errors = ErrorsIn(disk)
    BY <1>1, <2>1 DEF FileInv, AfterSniffs
  <2>. QED  BY <1>1, <1>2, <2>2, <2>3 DEF FileInv, PassOf, Found, ErrorsIn
<1>4. CASE diffs' # {}
  BY <1>1, <1>2, <1>4 DEF FileInv
<1>. QED  BY <1>3, <1>4

LEMMA FileInvNext == ASSUME FileInv, [Next]_vars PROVE FileInv'
<1>1. CASE UNCHANGED vars
  BY <1>1 DEF vars, run, FileInv, AfterSniffs, OfSettled, Settled, PassOf, Found, ErrorsIn
<1>2. CASE Ended
  BY <1>1, <1>2 DEF Ended
<1>. QED  BY <1>1, <1>2, PassKeepsFileInv, SniffsEndKeepsFileInv, FixersBeginKeepsFileInv,
              FixKeepsFileInv, FixThrowsKeepsFileInv, FixersEndKeepsFileInv DEF Next

LEMMA FileInvAlways == Spec => []FileInv
<1>1. Init => FileInv
  BY FileInvInit
<1>2. FileInv /\ [Next]_vars => FileInv'
  BY FileInvNext
<1>. QED  BY <1>1, <1>2, PTL DEF Spec

\* Whatever the passes do, what the sniffs leave in a file they fix is a content
\* another pass would leave alone (SniffFileProcessor::fixFile).
THEOREM SniffsLeaveFixpoint == Spec => []NothingHalfFixed
<1>1. FileInv => NothingHalfFixed
  BY DEF FileInv, AfterSniffs, NothingHalfFixed
<1>. QED  BY <1>1, FileInvAlways, PTL

\* A file that could not be finished is as it was, or has all of the sniffs'
\* fixes and none of the fixers' (FixerFileProcessor::processFile).
THEOREM FailuresKeepFiles == Spec => []FailureKeepsWhole
<1>1. FileInv => FailureKeepsWhole
  BY DEF FileInv, FailureKeepsWhole
<1>. QED  BY <1>1, FileInvAlways, PTL

\* Whatever the passes do, the errors reported for a file are those of the one
\* content the sniffs settled on, and the fixers, who may change that content,
\* neither add nor take any (SniffMetadataCollector::resetErrors).
THEOREM ErrorsAreOfSettledContent == Spec => []ErrorsAreCurrent
<1>1. FileInv => ErrorsAreCurrent
  BY DEF FileInv, OfSettled, ErrorsAreCurrent
<1>. QED  BY <1>1, FileInvAlways, PTL

\* A file nothing is reported for, which the cache will vouch for, has nothing
\* left to report or to change (SingleFileProcessor::processFilePath).
THEOREM NothingReportedIsClean == Spec => []CleanMeansClean
<1>1. FileInv => CleanMeansClean
  BY DEF FileInv, CleanMeansClean
<1>. QED  BY <1>1, FileInvAlways, PTL
=============================================================================
