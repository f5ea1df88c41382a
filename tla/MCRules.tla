------------------------------- MODULE MCRules ------------------------------
EXTENDS RulePass

LOCAL Fixers == INSTANCE RuleFixers

ApplyOf(s, rule, ts) == LET result == Fixers!Configured(s, rule, ts) IN result
CandidateOf(rule, ts) == LET candidate == Fixers!IsCandidate(rule, ts) IN candidate
HangsOf(rule, ts) == rule = "NoBreakComment" /\ Fixers!NoBreakNeverEnds(ts)

Word(w) == CASE w = " " -> Sp [] w = "  " -> WS(<<2>>) [] w = "n" -> Nl(0) [] w = "n4" -> Nl(4) [] w = "n8" -> Nl(8)
             [] w = "nn" -> WS(<<0, 0, 0>>) [] w = "nn4" -> WS(<<0, 0, 4>>)
             [] OTHER -> Tok("Ident", w)
Source(ws) == Lex([i \in DOMAIN ws |-> Word(ws[i])])

ClassFile == <<"<?php", "n", "namespace", " ", "A", ";", "n", "use", " ", "B", ";", "n", "class", " ", "C", " ", "extends", " ", "D", "n", "{", "n4",
   "const", " ", "E", "=", "1", ";", "n4", "public", " ", "function", " ", "f", "(", "int", " ", "$a", ",", "$b", " ", "=", " ", "null", " ", ")", ":", "int", "n4", "{",
   "n8", "return", " ", "$a", " ", ".", "'s'", ";", "n4", "}", "n", "}">>
IfFile == <<"<?php", "n", "if", "(", "$a", "===", "1", ")", " ", "{", "n4", "$b", "=", "!", "$c", ";", "n", "}", " ", "else", " ", "if", " ", "(", "$d", ")", " ", "$a", " ", "++", " ", ";",
   "n", "else", " ", "{", "n4", "return", ";", "n", "}">>
SwitchFile == <<"<?php", "n", "switch", " ", "(", "$a", ")", " ", "{", "n4", "case", " ", "1", " ", ":", "n8", "$b", "=", "2", ";", "n4", "case", " ", "2", ";", "n8", "continue", ";", "n4",
   "default", ":", "n8", "return", " ", "null", ";", "n", "}">>
ArrayFile == <<"<?php", " ", "$a", "=", "array", "(", "1", " ", ",", "2", ",", "n4", "3", ")", ";", "n", "list", "(", "$a", ",", "$b", ",", ")", "=", "$c", "[", " ", "0", "]", ";", "n", "$d", "=", "[", "'s'", "=>", "1", "]", ";">>
ClosureFile == <<"<?php", "n", "$a", "=", "function", "(", ")", "use", "(", "$b", ")", "{", "return", " ", "(", "int", ")", "$b", ";", "}", ";", "n", "$c", "=", "fn", "(", "$a", ")", "=>", "$a", "?", "$a", ":", "1", ";">>
CallFile == <<"<?php", "n", "$a", "->", "f", "(", "$b", ",", "n4", "$c", ")", "->", "g", " ", "(", ")", "n", ";", "n", "$b", "=", "new", " ", "A", ";", "n", "throw", " ", "new", " ", "B", "(", "n4", "'s'", "n", ")", ";">>
ParamFile == <<"<?php", "n", "class", " ", "A", "{", "#[", "B", "(", "1", ")", "]", " ", "public", " ", "function", " ", "__construct", "(", "private", " ", "int", " ", "$a", ",", "n", "$b", ")", "{", "}", "}">>
LoopFile == <<"<?php", "n", "foreach", "(", "$a", " ", "as", " ", "$b", "=>", "$c", ")", ":", "n", "echo", " ", "$b", ",", "$c", ";", "endforeach", ";", "n", "while", "(", "$a", ")", ";", "do", "{", "}", "while", "(", "$b", ")", ";">>
TernaryFile == <<"<?php", "n", "declare", "(", "strict_types", "=", "1", ")", ";", "n", "$a", "=", "$b", "?", "$c", ":", "$d", ";", "n", "$a", "=", "$a", "+", "1", ";", "n", "$b", "=", "-", " ", "-", "$c", ";">>
TypeFile == <<"<?php", "n", "final", " ", "class", " ", "A", " ", "implements", " ", "B", "{", "n4", "var", " ", "$a", " ", "=", " ", "null", ";", "n4", "protected", " ", "?", " ", "int", "  ", "$b", ",", "$c", ";", "n4",
   "function", " ", "f", " ", "(", "B", " ", "$a", "=", "NULL", ",", "null", " ", "|", "int", " ", "$b", ",", ")", ":", "?", "A", "n4", "{", "n8", "return", " ", "A", "::", "g", "(", "is_null", "(", "$a", ")", ")", ";", "n4", "}", "n4", "use", " ", "D", ";", "n", "}">>
LangFile == <<"<?php", "n", "IF", "(", "$a", ")", " ", ":", "n", "echo", " ", "(", "TRUE", ")", ";", "n", "endif", ";", "n", "$a", "=", "isset", "(", "$b", ")", " ", "?", "$b", ":", "$c", ";", "n", "$a", "=", "$a", "??", "(", "Integer", ")", "$b", ";", "n",
   "$b", "=", "!", "!", "$c", ";", "n", "include", "(", "$a", ")", ";", "n", "return", " ", "(", "pi", "(", ")", ")", ";">>
DraftFile == <<"<?php", "n", "function", " ", "f", " ", "g", "(", " ", "$a", ",", " ", ")", "{", "}">>
Bases == {Source(ClassFile), Source(IfFile), Source(SwitchFile), Source(ArrayFile), Source(ClosureFile), Source(CallFile), Source(ParamFile), Source(LoopFile), Source(TernaryFile), Source(TypeFile), Source(LangFile), Source(DraftFile)}

(* The bases with another gap in one place: every Stride-th place of each, *)
(* with the kinds of gaps in turn.                                         *)
Stride == 9
Gaps == << <<>>, <<Sp>>, <<Nl(4)>>, <<Sp, Tok("Comment", "//c"), Nl(0)>> >>
WithGap(s, i, g) == IF Ws(s, i) THEN ReplaceRange(s, i, i, g) ELSE InsertAt(s, i, g)
IsSource(s) == \A i \in 1 .. Len(s) - 1 : ~Glued(s[i], s[i + 1])
Varied(s) ==
    LET at == {i \in 2 .. Len(s) : (i + Len(s)) % Stride = 0}
    IN  {Lex(t) : t \in {t \in {WithGap(s, i, Gaps[(i % 4) + 1]) : i \in at} : IsSource(t)}}
AllFiles == Bases \cup UNION {Varied(s) : s \in Bases}
=============================================================================
