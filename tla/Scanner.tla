-------------------------------- MODULE Scanner --------------------------------
(***************************************************************************)
(* The scanner of E--: yylex over the text the preprocessor pipes to it.   *)
(* The text is read in chunks into a buffer that holds at least the lexeme *)
(* being matched; the longest match at the start of the buffer decides the *)
(* rule.  Start conditions tell program text, strings and line markers     *)
(* apart.                                                                  *)
(***************************************************************************)
EXTENDS Integers, Sequences, SequencesExt

CONSTANTS Texts,               \* what the preprocessor may write
          YY_READ_BUF_SIZE,    \* characters read at a time
          YY_BUF_SIZE,         \* size of the buffer at first
          StringSize           \* sizeof(string_buf)

ASSUME ScannerAssumption ==
  YY_READ_BUF_SIZE \in Nat \ {0} /\ YY_BUF_SIZE \in Nat \ {0} /\ StringSize \in Nat /\ StringSize > 2
(* A text is a sequence of characters. *)
ASSUME TextsAssumption ==
  \A t \in Texts : /\ Len(t) \in Nat
                   /\ \A i \in 1..Len(t) : \A j \in i..Len(t) : Len(SubSeq(t, i, j)) = j - i + 1

VARIABLES text, at, have,      \* the buffer holds the characters at..have of the text
          size, eofPending,    \* its size; the end of the text has been seen
          start, atBol,        \* start condition; the last character matched was a newline
          string_buf, yylinenum,
          tokens,              \* what has been handed to the parser: [tok, val, line]
          ended
vars == <<text, at, have, size, eofPending, start, atBol, string_buf, yylinenum, tokens, ended>>

----------------------------------------------------------------------------
(* Patterns.  Accepted by a rule, and Live: a prefix of what a rule accepts. *)

Char(w, i) == SubSeq(w, i, i)
Chars(w) == {Char(w, i) : i \in 1..Len(w)}
From(w, i) == SubSeq(w, i, Len(w))
DecimalDigits == Chars("0123456789")
HexDigits == DecimalDigits \cup Chars("abcdefABCDEF")
Letters == Chars("_abcdefghijklmnopqrstuvwxyzABCDEFGHIJKLMNOPQRSTUVWXYZ")
Some(set, w) == w # "" /\ Chars(w) \subseteq set
Begins(w, o) == Len(w) <= Len(o) /\ SubSeq(o, 1, Len(w)) = w

Operators == {"->", "+", "-", "**", "*", "/", "%", ">", "<", ">=", "<=", ",", ".", "==", "=", "!=", ";",
              ":", "{", "}", "(", ")", "[", "]", "&&", "||", "\\/", "&", "|", "~", "^", "!", "<<", ">>", "?"}
Keywords == {"unsigned", "bool", "string", "int", "byte", "double", "long", "short", "bit", "enum", "void",
             "true", "false", "class", "print", "event", "any", "if", "else", "while", "break", "return"}
IsIdent(w) == Char(w, 1) \in Letters /\ Chars(w) \subseteq Letters \cup DecimalDigits
IsUint(w) == Some(DecimalDigits, w) \/ (Begins("0x", w) /\ Some(HexDigits, From(w, 3)))
IsMantissa(w) == \E i \in 1..Len(w) : /\ Char(w, i) = "." /\ Chars(w) \cap DecimalDigits # {}
                                      /\ Chars(SubSeq(w, 1, i - 1)) \cup Chars(From(w, i + 1)) \subseteq DecimalDigits
WithoutSign(w) == IF w # "" /\ Char(w, 1) \in {"+", "-"} THEN From(w, 2) ELSE w
ExponentAt(w, i) == /\ Char(w, i) \in {"e", "E"}
                    /\ LET m == SubSeq(w, 1, i - 1) IN IsMantissa(m) \/ Some(DecimalDigits, m)
IsDouble(w) == \/ IsMantissa(w)
               \/ \E i \in 1..Len(w) : ExponentAt(w, i) /\ Some(DecimalDigits, WithoutSign(From(w, i + 1)))
NumberBegun(w) == \/ w = "0x" \/ IsUint(w) \/ IsDouble(w)
                  \/ \E i \in 1..Len(w) : ExponentAt(w, i) /\ WithoutSign(From(w, i + 1)) = ""

(* The rule that accepts all of w in a start condition. *)
Initial(w, bol) ==
  CASE w = "#" /\ bol -> "include"      [] w = "\"" -> "string"
    [] w \in Operators -> "operator"    [] w \in Keywords -> "keyword"
    [] IsIdent(w) /\ w \notin Keywords -> "ident"
    [] IsUint(w) -> "uint"
    [] IsDouble(w) -> "double"          [] w = "\n" -> "newline"
    [] w \in {" ", "\t", "\r"} -> "blank"
    [] OTHER -> IF Len(w) = 1 THEN "error" ELSE "none"
InString(w) == CASE w \in {"\"", "\n"} -> "end"
                 [] Len(w) = 2 /\ Char(w, 1) = "\\" /\ w # "\\\n" -> "escape"
                 [] Begins("\\x", w) /\ Len(w) \in {3, 4} /\ Some(HexDigits, From(w, 3)) -> "hex"
                 [] OTHER -> IF Len(w) = 1 THEN "char" ELSE "none"
IsLine(w) == \E i \in 2..(Len(w) - 1) : /\ Char(w, 1) = " " /\ Some(DecimalDigits, SubSeq(w, 2, i))
                                        /\ Some({" "}, From(w, i + 1))
InInclude(w) == IF IsLine(w) THEN "line" ELSE IF Len(w) = 1 THEN "echo" ELSE "none"
Quotes(w) == {i \in 1..Len(w) : Char(w, i) = "\""}
InFstart(w) == IF Len(w) > 2 /\ Quotes(w) = {1, Len(w)} THEN "file" ELSE IF Len(w) = 1 THEN "echo" ELSE "none"
InSkip(w) == IF Char(w, Len(w)) = "\n" /\ "\n" \notin Chars(SubSeq(w, 1, Len(w) - 1)) THEN "skip"
             ELSE IF Len(w) = 1 THEN "echo" ELSE "none"
Rule(w) == CASE start = "INITIAL" -> Initial(w, atBol) [] start = "STRING" -> InString(w)
             [] start = "INCLUDE" -> InInclude(w)      [] start = "FSTART" -> InFstart(w)
             [] start = "SKIPTOEOL" -> InSkip(w)
Live(w) ==
  \/ Len(w) = 1 \/ Rule(w) # "none"
  \/ start = "INITIAL" /\ (NumberBegun(w) \/ \E o \in Operators : Begins(w, o))
  \/ start = "INCLUDE" /\ Char(w, 1) = " " /\ Some(DecimalDigits, From(w, 2))
  \/ start = "FSTART" /\ Quotes(w) = {1}
  \/ start = "SKIPTOEOL" /\ "\n" \notin Chars(w)

----------------------------------------------------------------------------
(* The buffer. *)

Buffered == have - at + 1
Prefix(k) == SubSeq(text, at, at + k - 1)
Jammed == Buffered > 0 /\ ~Live(Prefix(Buffered))   \* no more text can make the match longer

Init == /\ text \in Texts /\ at = 1 /\ have = 0 /\ size = YY_BUF_SIZE /\ eofPending = FALSE
        /\ start = "INITIAL" /\ atBol = TRUE /\ string_buf = <<>> /\ yylinenum = 0
        /\ tokens = <<>> /\ ended = FALSE

(* yy_get_next_buffer: as long as the match may go on, more is read behind what is buffered, which
   grows if there is no room.  Nothing read is the end of the text: what is buffered is matched as
   it is, and when nothing is, the scanner terminates, whatever the start condition. *)
Grown(n) == LET room(k) == n * 2^k - Buffered - 1 > 0
            IN n * 2^(CHOOSE k \in 0..(Buffered + 1) : room(k) /\ \A j \in 0..(k - 1) : ~room(j))
Read(room) == Min({room, YY_READ_BUF_SIZE, Len(text) - have})
NextBuffer(n, amount) ==
  /\ size' = n /\ have' = have + amount
  /\ eofPending' = (amount = 0 /\ Buffered > 0) /\ ended' = (amount = 0 /\ Buffered = 0)
  /\ UNCHANGED <<text, at, start, atBol, string_buf, yylinenum, tokens>>
\* Mutant: the buffer is not grown, only waited for.
GetNextBufferWaiting ==
  /\ ~ended /\ ~eofPending /\ ~Jammed
  /\ size - Buffered - 1 > 0 /\ NextBuffer(size, Read(size - Buffered - 1))
\* Mutant: the lexeme moved to the start of the buffer is not counted.
GetNextBufferOver ==
  /\ ~ended /\ ~eofPending /\ ~Jammed
  /\ NextBuffer(size, Read(size - 1))
GetNextBuffer ==
  /\ ~ended /\ ~eofPending /\ ~Jammed
  /\ NextBuffer(Grown(size), Read(Grown(size) - Buffered - 1))
Terminate == /\ ~ended /\ eofPending /\ Buffered = 0 /\ ended' = TRUE
             /\ UNCHANGED <<text, at, have, size, eofPending, start, atBol, string_buf, yylinenum, tokens>>

----------------------------------------------------------------------------
(* The rules. *)

(* The lexeme matched, and its rule. *)
Longest == Prefix(Max({k \in 1..Buffered : Rule(Prefix(k)) # "none"}))
Matched == IF ~ended /\ Buffered > 0 /\ (Jammed \/ eofPending) THEN {[yytext |-> Longest, rule |-> Rule(Longest)]} ELSE {}
Consume(m) == /\ at' = at + Len(m.yytext) /\ atBol' = (Char(m.yytext, Len(m.yytext)) = "\n")
              /\ UNCHANGED <<text, have, size, eofPending, ended>>
Matches(m, rule) == m.rule = rule /\ Consume(m)
Begin(condition) == start' = condition
Return(tok, val) == tokens' = Append(tokens, [tok |-> tok, val |-> val, line |-> yylinenum])
Keep == UNCHANGED <<start, string_buf, yylinenum, tokens>>

(* atoi, up to a bound on the numbers of lines. *)
MaxLine == 20
NumberIn(w) == IF \E n \in 0..MaxLine : ToString(n) = w THEN CHOOSE n \in 0..MaxLine : ToString(n) = w ELSE MaxLine

(* Line markers: # number "file" flags. *)
Include(m) == Matches(m, "include") /\ Begin("INCLUDE") /\ UNCHANGED <<string_buf, yylinenum, tokens>>
LineNumber(w) == NumberIn(SubSeq(w, 2, CHOOSE i \in 2..Len(w) : Some(DecimalDigits, SubSeq(w, 2, i))
                                                                /\ Char(w, i + 1) = " "))
Line(m) == /\ Matches(m, "line") /\ yylinenum' = LineNumber(m.yytext) - 1 /\ Begin("FSTART")
           /\ UNCHANGED <<string_buf, tokens>>
FileName(m) == Matches(m, "file") /\ Begin("SKIPTOEOL") /\ UNCHANGED <<string_buf, yylinenum, tokens>>
SkipToEol(m) == /\ Matches(m, "skip") /\ yylinenum' = yylinenum + 1 /\ Begin("INITIAL")
                /\ UNCHANGED <<string_buf, tokens>>
Echo(m) == Matches(m, "echo") /\ Keep

(* Strings.  A character is dropped when the length of its lexeme would not fit; a byte 0 ends what
   is copied; a newline ends the string and is put back. *)
NUL == "NUL"
Byte(hex) == CASE hex \in {"0", "00"} -> NUL [] hex = "41" -> "A" [] OTHER -> hex
Escaped(c) == IF c = "n" THEN "\n" ELSE IF c = "t" THEN "\t" ELSE c
strbuf_space_avl(s) == Len(string_buf) + s < StringSize - 2
\* Mutant: the space is checked without the length of the lexeme.
StoreLate(m, c) == string_buf' = IF Len(string_buf) < StringSize THEN Append(string_buf, c) ELSE string_buf
Store(m, c) == string_buf' = IF strbuf_space_avl(Len(m.yytext)) THEN Append(string_buf, c) ELSE string_buf
BeginString(m) == Matches(m, "string") /\ string_buf' = <<>> /\ Begin("STRING") /\ UNCHANGED <<yylinenum, tokens>>
HexEscape(m) == Matches(m, "hex") /\ Store(m, Byte(From(m.yytext, 3))) /\ UNCHANGED <<start, yylinenum, tokens>>
Escape(m) == Matches(m, "escape") /\ Store(m, Escaped(From(m.yytext, 2))) /\ UNCHANGED <<start, yylinenum, tokens>>
StringChar(m) == Matches(m, "char") /\ Store(m, m.yytext) /\ UNCHANGED <<start, yylinenum, tokens>>
UpToNul(s) == SubSeq(s, 1, Min({i \in DOMAIN s : s[i] = NUL} \cup {Len(s) + 1}) - 1)
\* Mutant: the newline is not put back.
EndStringEaten(m) == /\ Matches(m, "end") /\ Return("string", UpToNul(string_buf)) /\ Begin("INITIAL")
                     /\ UNCHANGED <<string_buf, yylinenum>>
EndString(m) == /\ m.rule = "end"
                /\ at' = (IF m.yytext = "\n" THEN at ELSE at + 1) /\ atBol' = (m.yytext = "\n")
                /\ Return("string", UpToNul(string_buf)) /\ Begin("INITIAL")
                /\ UNCHANGED <<text, have, size, eofPending, string_buf, yylinenum, ended>>

(* Program text. *)
Token(m, rule) == /\ Matches(m, rule) /\ Return(rule, <<m.yytext>>)
                  /\ UNCHANGED <<start, string_buf, yylinenum>>
Operator(m) == Token(m, "operator")
Keyword(m) == Token(m, "keyword")
Ident(m) == Token(m, "ident")
Uint(m) == Token(m, "uint")
Double(m) == Token(m, "double")
LexError(m) == Token(m, "error")
Newline(m) == /\ Matches(m, "newline") /\ yylinenum' = yylinenum + 1
              /\ UNCHANGED <<start, string_buf, tokens>>
Blank(m) == Matches(m, "blank") /\ Keep

Markers(m) == Include(m) \/ Line(m) \/ FileName(m) \/ SkipToEol(m) \/ Echo(m)
Strings(m) == BeginString(m) \/ HexEscape(m) \/ Escape(m) \/ StringChar(m) \/ EndString(m)
Program(m) == \/ Operator(m) \/ Keyword(m) \/ Ident(m) \/ Uint(m) \/ Double(m) \/ LexError(m)
              \/ Newline(m) \/ Blank(m)
Next == GetNextBuffer \/ Terminate \/ \E m \in Matched : Markers(m) \/ Strings(m) \/ Program(m)
Spec == Init /\ [][Next]_vars /\ WF_vars(Next)

----------------------------------------------------------------------------
(* Properties. *)

(* The state has its shape; the buffer holds no more than it has room for, and neither does the
   string being collected, which keeps two places free. *)
TypeOK == /\ at \in 1..(Len(text) + 1) /\ have \in (at - 1)..Len(text)
          /\ size \in Nat /\ Buffered < size \* room for the end mark
          /\ eofPending \in BOOLEAN /\ atBol \in BOOLEAN /\ ended \in BOOLEAN
          /\ start \in {"INITIAL", "STRING", "INCLUDE", "FSTART", "SKIPTOEOL"}
          /\ Len(string_buf) < StringSize - 2 /\ yylinenum \in Int
          /\ \A i \in DOMAIN tokens : DOMAIN tokens[i] = {"tok", "val", "line"}
================================================================================
