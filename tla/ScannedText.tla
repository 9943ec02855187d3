----------------------------- MODULE ScannedText -----------------------------
(***************************************************************************)
(* What the parser is to get from the scanner: the tokens of the text, as  *)
(* the text alone defines them, and what becomes of a string constant      *)
(* after it.                                                               *)
(***************************************************************************)
EXTENDS Scanner

(* What a string constant prints: Value::toString writes it as a literal of the target language
   (only a newline is escaped), ICode.l hands that to the C compiler as it is, which reads its
   escapes, and printf takes it as a format. *)
Broken == <<"no string">>
\* Mutant: a newline is written as it is.
ToStringRaw(val) == val
RECURSIVE ToString_(_), CLiteral(_), Format(_)
ToString_(val) == IF val = <<>> THEN <<>>
                  ELSE (IF val[1] = "\n" THEN <<"\\", "n">> ELSE <<val[1]>>) \o ToString_(Tail(val))
CLiteral(s) == IF s = <<>> THEN <<>>
               ELSE IF s[1] # "\\" THEN (IF s[1] \in {"\"", "\n"} THEN Broken ELSE <<s[1]>>) \o CLiteral(Tail(s))
               ELSE IF Len(s) = 1 THEN Broken
               ELSE <<Escaped(s[2])>> \o CLiteral(SubSeq(s, 3, Len(s)))
Format(s) == IF s = <<>> THEN <<>>
             ELSE IF s[1] # "%" THEN <<s[1]>> \o Format(Tail(s))
             ELSE IF Len(s) > 1 /\ s[2] = "%" THEN <<"%">> \o Format(SubSeq(s, 3, Len(s))) ELSE Broken
Printed(val) == Format(CLiteral(ToString_(val)))

----------------------------------------------------------------------------
(* Properties. *)

(* What the text says, without a buffer and without start conditions: the longest lexeme at every
   place, a string up to the next quote or newline that is not escaped (a string the text ends in is
   none), the line a marker says.  The text after a # line that is no marker is left open. *)
Lexeme(i) == Max({k \in i..Len(text) : Initial(SubSeq(text, i, k), FALSE) # "none"})
EndOfLine(i) == Min({k \in i..Len(text) : Char(text, k) = "\n"})
MarkerEnd(i) == {j \in i + 1..EndOfLine(i) : IsLine(SubSeq(text, i + 1, j))
                                             /\ \E k \in j + 1..EndOfLine(i) : InFstart(SubSeq(text, j + 1, k)) = "file"}
RECURSIVE LiteralEnd(_), LiteralValue(_, _), Lexed(_, _, _)
LiteralEnd(i) == IF i > Len(text) \/ Char(text, i) \in {"\"", "\n"} THEN i
                 ELSE IF Char(text, i) = "\\" /\ i < Len(text) /\ Char(text, i + 1) # "\n" THEN LiteralEnd(i + 2)
                 ELSE LiteralEnd(i + 1)
LiteralValue(w, sofar) ==
  IF w = "" THEN sofar
  ELSE LET k == Max({n \in 1..Len(w) : InString(SubSeq(w, 1, n)) # "none"})
           c == CASE InString(SubSeq(w, 1, k)) = "hex" -> Byte(SubSeq(w, 3, k))
                  [] InString(SubSeq(w, 1, k)) = "escape" -> Escaped(SubSeq(w, 2, 2))
                  [] OTHER -> SubSeq(w, 1, k)
       IN LiteralValue(From(w, k + 1), IF Len(sofar) + k < StringSize - 2 THEN Append(sofar, c) ELSE sofar)
Lexed(i, line, bol) ==
  IF i > Len(text) THEN <<>>
  ELSE CASE Char(text, i) = "#" /\ bol ->
              IF MarkerEnd(i) = {} THEN <<>>
              ELSE LET j == CHOOSE j \in MarkerEnd(i) : TRUE
                   IN Lexed(EndOfLine(i) + 1, LineNumber(SubSeq(text, i + 1, j)), TRUE)
         [] Char(text, i) = "\"" ->
              LET e == LiteralEnd(i + 1)
              IN IF e > Len(text) THEN <<>>
                 ELSE <<[tok |-> "string", val |-> UpToNul(LiteralValue(SubSeq(text, i + 1, e - 1), <<>>)), line |-> line]>>
                      \o Lexed(IF Char(text, e) = "\n" THEN e ELSE e + 1, line, FALSE)
         [] Char(text, i) = "\n" -> Lexed(i + 1, line + 1, TRUE)
         [] Char(text, i) = " " -> Lexed(i + 1, line, FALSE)
         [] OTHER -> LET w == SubSeq(text, i, Lexeme(i))
                     IN <<[tok |-> Initial(w, FALSE), val |-> <<w>>, line |-> line]>> \o Lexed(Lexeme(i) + 1, line, FALSE)
Foreign == \E i \in 1..Len(text) : /\ Char(text, i) = "#" /\ (i = 1 \/ Char(text, i - 1) = "\n")
                                   /\ MarkerEnd(i) = {}

(* The parser gets the tokens of the text, whatever the chunks it was read in and the growth of the
   buffer, each with its value and the line a reader would count. *)
Scanned == ended => IF Foreign THEN IsPrefix(Lexed(1, 0, TRUE), tokens) ELSE tokens = Lexed(1, 0, TRUE)

(* A string constant prints itself exactly if it has no quote, no backslash and no percent sign. *)
RoundTrip == \A i \in DOMAIN tokens :
               tokens[i].tok = "string" =>
                 ((Printed(tokens[i].val) = tokens[i].val) <=> Range(tokens[i].val) \cap {"\"", "\\", "%"} = {})

(* The scanner comes to the end of every text. *)
Ends == <>ended
================================================================================
