------------------------------- MODULE FixFile -------------------------------
(***************************************************************************)
(* fixFile of the blink engine's runner: one file, lexed into a stream,    *)
(* read by the rules that only report, then rewritten by one rule after    *)
(* the other, and written back.  A rule may make any writes, and its answer *)
(* need not be true: that Fix `reports whether it changed anything' is the *)
(* contract of Fixer, which not every rule keeps (FunctionDeclaration has a *)
(* return false after its edits), so `silent' remembers a breach of it.    *)
(* IsCandidate, which reads the stream's Index, rules out only a file that *)
(* does not hold the rule's word.                                          *)
(***************************************************************************)
EXTENDS TokenStream, FiniteSets

Seqs == INSTANCE SequencesExt

CONSTANTS
    Sources,   \* the lexed files
    NumRules,
    Name,      \* of each rule: two instances of a fixer share theirs,
    Word,      \* and the character it looks for, None for no Candidate
    Reporter,  \* the rules that are ErrorReporters
    SkippedRules,  \* those skipped for the path of this file
    Modes,     \* with and without --fix
    Indexed,   \* the key of the stream's Index
    None

ASSUME FixFileAssumption ==
    /\ NumRules \in Nat \ {0} /\ Indexed \in Key
    /\ DOMAIN Name = 1 .. NumRules /\ DOMAIN Word = 1 .. NumRules
    /\ Sources \subseteq Seq(Value \ {Empty})
    /\ Reporter \subseteq 1 .. NumRules /\ SkippedRules \subseteq 1 .. NumRules
    /\ Modes \subseteq BOOLEAN

VARIABLES
    at,        \* "errors", "rules", "fixing", "clearing", "finishing", "done"
    rule,      \* the rule it is at
    write,     \* --fix
    original,  \* the contents read
    before,    \* the source when the present rule began
    silent,    \* history: some rule changed the source and answered it did not
    applied,   \* res.AppliedRules
    errors,    \* the rules that reported errors
    onDisk,    \* the contents of the file
    result     \* what fixFile returned: "none", "same", "changed", "error"

runner == <<at, rule, write, original, before, silent, applied, errors, onDisk, result>>
vars == <<toks, mayHaveEmpty, version, memo, at, rule, write, original, before, silent, applied,
          errors, onDisk, result>>

Render == Seqs!FlattenSeq(toks)
CharsOf(ts) == UNION {Elements(ts[i]) : i \in DOMAIN ts}

Init ==
    /\ \E ts \in Sources : NewStream(ts)
    /\ write \in Modes
    /\ original = Render /\ onDisk = Render
    /\ at = "errors" /\ rule = 1
    /\ before = <<>> /\ silent = FALSE /\ applied = <<>> /\ errors = {}
    /\ result = "none"

(* The next rule of the present loop, or what follows the loop.            *)
Advance(then) == IF rule < NumRules THEN rule' = rule + 1 /\ UNCHANGED at
                 ELSE rule' = 1 /\ at' = then
-----------------------------------------------------------------------------
(* isCandidate: the Index may hold a word the file does not.               *)
Consults == IF Word[rule] = None THEN UNCHANGED stream ELSE Memo(Indexed)
MayRuleOut == Word[rule] # None /\ Word[rule] \notin CharsOf(Analysed(Indexed))

ErrorsSkipped ==
    /\ at = "errors" /\ (rule \notin Reporter \/ rule \in SkippedRules)
    /\ Advance("rules")
    /\ UNCHANGED <<stream, write, original, before, silent, applied, errors, onDisk, result>>

ErrorsRuledOut ==
    /\ at = "errors" /\ rule \in Reporter \ SkippedRules
    /\ MayRuleOut /\ Consults
    /\ Advance("rules")
    /\ UNCHANGED <<write, original, before, silent, applied, errors, onDisk, result>>

Errors ==
    /\ at = "errors" /\ rule \in Reporter \ SkippedRules
    /\ Consults
    /\ errors' \in {errors, errors \cup {rule}}
    /\ Advance("rules")
    /\ UNCHANGED <<write, original, before, silent, applied, onDisk, result>>
-----------------------------------------------------------------------------
RuleSkipped ==
    /\ at = "rules" /\ rule \in SkippedRules
    /\ Advance("finishing")
    /\ UNCHANGED <<stream, write, original, before, silent, applied, errors, onDisk, result>>

RuledOut ==
    /\ at = "rules" /\ rule \notin SkippedRules
    /\ MayRuleOut /\ Consults
    /\ at' = "clearing"
    /\ UNCHANGED <<rule, write, original, before, silent, applied, errors, onDisk, result>>

FixBegins ==
    /\ at = "rules" /\ rule \notin SkippedRules
    /\ Consults
    /\ at' = "fixing"
    /\ before' = Render
    /\ UNCHANGED <<rule, write, original, silent, applied, errors, onDisk, result>>

FixWrites ==
    /\ at = "fixing"
    /\ Write
    /\ UNCHANGED runner

(* The rule looks at an analysis it shares with others.                    *)
FixLooks ==
    /\ at = "fixing"
    /\ \E k \in Key : Memo(k)
    /\ UNCHANGED runner

(* The end of Fix and what the runner makes of its answer.                 *)
FixEnds(reports) ==
    /\ at = "fixing"
    /\ applied' = IF reports /\ Name[rule] \notin Elements(applied)
                  THEN Append(applied, Name[rule]) ELSE applied
    /\ silent' = (silent \/ (~reports /\ Render # before))
    /\ at' = "clearing" /\ before' = <<>>
    /\ UNCHANGED <<stream, rule, write, original, errors, onDisk, result>>

Clears ==
    /\ at = "clearing"
    /\ ClearEmptyTokens
    /\ IF rule < NumRules THEN rule' = rule + 1 /\ at' = "rules"
       ELSE rule' = 1 /\ at' = "finishing"
    /\ UNCHANGED <<write, original, before, silent, applied, errors, onDisk, result>>
-----------------------------------------------------------------------------
(* Rules that fight to a draw leave the file as it was.                    *)
AppliedInTheEndAll == applied                   \* mutant: draws are reported
AppliedInTheEnd == IF Render = original THEN <<>> ELSE applied

Finishes ==
    /\ at = "finishing"
    /\ at' = "done"
    /\ applied' = AppliedInTheEnd
    /\ \/ /\ applied' = <<>>
          /\ result' = "same"
          /\ UNCHANGED onDisk
       \/ /\ applied' # <<>> /\ ~write
          /\ result' = "changed"
          /\ UNCHANGED onDisk
       \/ /\ applied' # <<>> /\ write
          /\ result' = "changed"
          /\ onDisk' = Render
    /\ UNCHANGED <<stream, rule, write, original, before, silent, errors>>

(* os.WriteFile fails: the error is all that is returned.                  *)
WriteFails ==
    /\ at = "finishing"
    /\ AppliedInTheEnd # <<>> /\ write
    /\ at' = "done" /\ result' = "error" /\ applied' = <<>>
    /\ UNCHANGED <<stream, rule, write, original, before, silent, errors, onDisk>>

Done == at = "done" /\ UNCHANGED vars
-----------------------------------------------------------------------------
Next ==
    \/ ErrorsSkipped \/ ErrorsRuledOut \/ Errors
    \/ RuleSkipped \/ RuledOut \/ FixBegins \/ FixWrites \/ FixLooks
    \/ \E reports \in BOOLEAN : FixEnds(reports)
    \/ Clears \/ Finishes \/ WriteFails \/ Done

Spec == Init /\ [][Next]_vars
-----------------------------------------------------------------------------
(* What the rules, and the caller of fixFile, may rely on.                 *)

Entry == [version : -1 .. MaxVersion + NumRules, tokens : Seq(Value)]

\* Every variable has its type; res.AppliedRules lists a rule at most once.
TypeOK ==
    /\ toks \in Seq(Value) /\ mayHaveEmpty \in BOOLEAN
    /\ version \in 0 .. MaxVersion + NumRules /\ memo \in [Key -> Entry]
    /\ at \in {"errors", "rules", "fixing", "clearing", "finishing", "done"}
    /\ rule \in 1 .. NumRules
    /\ applied \in Seq(Elements(Name)) /\ \A i, j \in DOMAIN applied : applied[i] = applied[j] => i = j
    /\ write \in BOOLEAN /\ silent \in BOOLEAN /\ errors \subseteq Reporter
    /\ result \in {"none", "same", "changed", "error"}

\* No rule is asked about, or run on, a stream in which a rule before it left
\* an empty token, whether or not that rule reported a change.
RulesSeeNoEmpty == at \in {"errors", "rules", "finishing"} => ~HasEmpty(toks)

\* A rule that is not run is one whose word the file does not hold at that
\* moment: its IsCandidate never answers from tokens of before a write.
RuledOutRightly ==
    [][(ErrorsRuledOut \/ RuledOut) => Word[rule] \notin CharsOf(toks)]_vars

\* A file is reported as changed only if some rule is named for it and its
\* source is another one in the end, even when rules undo one another, and it
\* is written exactly if it is reported and --fix is given.  A changed source
\* is reported, unless a rule changed it and answered that it did not: if no
\* other rule reports, that change is neither reported nor written.
ReportedIffChanged ==
    at = "done" /\ result # "error" =>
        /\ result = "changed" <=> applied # <<>>
        /\ result = "changed" => Render # original
        /\ ~silent /\ Render # original => result = "changed"
        /\ onDisk = IF write /\ result = "changed" THEN Render ELSE original
=============================================================================
