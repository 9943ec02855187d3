---------------------------- MODULE FrontEndProofs ----------------------------
(***************************************************************************)
(* Proofs about the front end.                                             *)
(*                                                                         *)
(* Scanner, for every text, every size of the buffer, of its reads and of  *)
(* the array a string is collected in: positions stay within the text and  *)
(* the buffer, and no character is left out or read twice.  The invariant  *)
(* is TypeOK with what makes it inductive: the text is one of Texts, and   *)
(* the string and the tokens are sequences.                                *)
(*                                                                         *)
(* OpRules, for any classes and any operands: one operation is typed as    *)
(* the rules of the language type it, but for & and ~, its operands are    *)
(* converted to suit the result, and a second check changes nothing.       *)
(***************************************************************************)
EXTENDS Scanner, OpRules, DataLemmas

Listed(s) == \E S : s \in Seq(S)
ScanInv == TypeOK /\ text \in Texts /\ Listed(string_buf) /\ Listed(tokens)

----------------------------------------------------------------------------
(* Sequences. *)

\* What is appended to is a sequence, one longer.
LEMMA Longer ==
  ASSUME NEW s, Listed(s), NEW e
  PROVE  /\ Listed(Append(s, e)) /\ Len(s) \in Nat /\ Len(Append(s, e)) = Len(s) + 1
         /\ \A i \in DOMAIN Append(s, e) : Append(s, e)[i] = e \/ (i \in DOMAIN s /\ Append(s, e)[i] = s[i])
<1>1. PICK S : s \in Seq(S)
  BY DEF Listed
<1>2. s \in Seq(S \cup {e})
  BY <1>1
<1>3. Append(s, e) \in Seq(S \cup {e}) /\ Len(s) \in Nat /\ Len(Append(s, e)) = Len(s) + 1
  BY <1>2
<1>4. Listed(Append(s, e))
  BY <1>3 DEF Listed
<1>5. \A i \in 1 .. Len(s) + 1 : Append(s, e)[i] = IF i = Len(s) + 1 THEN e ELSE s[i]
  BY <1>2
<1>6. DOMAIN Append(s, e) = 1 .. Len(s) + 1 /\ DOMAIN s = 1 .. Len(s)
  BY <1>2, <1>3
<1> QED BY <1>3, <1>4, <1>5, <1>6

\* The empty sequence is one.
LEMMA EmptyListed == Listed(<<>>) /\ Len(<<>>) = 0 /\ DOMAIN <<>> = {}
<1>1. <<>> \in Seq({})
  OBVIOUS
<1> QED BY <1>1 DEF Listed

----------------------------------------------------------------------------
(* The buffer and the lexeme at its start. *)

\* The positions are numbers, and what is buffered fits.
LEMMA Positions ==
  ASSUME ScanInv
  PROVE  /\ Len(text) \in Nat /\ at \in Nat /\ have \in Nat /\ size \in Nat
         /\ 1 <= at /\ at <= have + 1 /\ have <= Len(text) /\ Buffered \in Nat /\ Buffered < size
<1>1. Len(text) \in Nat
  BY TextsAssumption DEF ScanInv
<1> QED BY <1>1 DEF ScanInv, TypeOK, Buffered

\* A lexeme of a given length has that length.
LEMMA PrefixLength ==
  ASSUME ScanInv, NEW k \in 1 .. Buffered
  PROVE  Len(Prefix(k)) = k
<1>1. /\ Len(text) \in Nat /\ at \in Nat /\ have \in Nat
      /\ 1 <= at /\ at <= have + 1 /\ have <= Len(text) /\ Buffered \in Nat
  BY Positions
<1>2. at \in 1 .. Len(text) /\ at + k - 1 \in at .. Len(text)
  BY <1>1 DEF Buffered
<1>3. Len(SubSeq(text, at, at + k - 1)) = (at + k - 1) - at + 1
  BY <1>2, TextsAssumption DEF ScanInv
<1> QED BY <1>1, <1>3 DEF Prefix

\* One character is always a lexeme, whatever the start condition.
LEMMA EveryCharacter ==
  ASSUME ScanInv, NEW w, Len(w) = 1
  PROVE  Rule(w) # "none"
<1>1. start \in {"INITIAL", "STRING", "INCLUDE", "FSTART", "SKIPTOEOL"}
  BY DEF ScanInv, TypeOK
<1>2. Initial(w, atBol) # "none"
  BY DEF Initial
<1>3. InString(w) # "none"
  BY DEF InString
<1>4. InInclude(w) # "none" /\ InFstart(w) # "none" /\ InSkip(w) # "none"
  BY DEF InInclude, InFstart, InSkip
<1> QED BY <1>1, <1>2, <1>3, <1>4 DEF Rule

\* The longest match exists: it is not empty, lies in the buffer, and a rule accepts it.
LEMMA LongestWithin ==
  ASSUME ScanInv, Buffered > 0
  PROVE  Len(Longest) \in 1 .. Buffered /\ Rule(Longest) # "none"
<1> DEFINE K == {k \in 1 .. Buffered : Rule(Prefix(k)) # "none"}
<1>1. Buffered \in Nat
  BY Positions
<1>2. 1 \in K
  <2>1. 1 \in 1 .. Buffered
    BY <1>1
  <2>2. Len(Prefix(1)) = 1
    BY <2>1, PrefixLength
  <2> QED BY <2>1, <2>2, EveryCharacter
<1>3. Max(K) \in K
  <2>1. K \subseteq 1 .. Buffered /\ K # {}
    BY <1>2
  <2> HIDE DEF K
  <2> QED BY <1>1, <2>1, MaxIn
<1>4. Longest = Prefix(Max(K))
  BY DEF Longest
<1>5. Max(K) \in 1 .. Buffered /\ Rule(Prefix(Max(K))) # "none"
  BY <1>3
<1>6. Len(Prefix(Max(K))) = Max(K)
  BY <1>5, PrefixLength
<1> HIDE DEF K
<1> QED BY <1>4, <1>5, <1>6

----------------------------------------------------------------------------
(* Reading. *)

\* The buffer grows until there is room, and no more than that.
LEMMA Room ==
  ASSUME ScanInv
  PROVE  Grown(size) \in Nat /\ Grown(size) >= size /\ Grown(size) - Buffered - 1 \in Nat \ {0}
<1> DEFINE room(k) == size * 2^k - Buffered - 1 > 0
           wanted(k) == room(k) /\ \A j \in 0 .. (k - 1) : ~ room(j)
           few == CHOOSE k \in 0 .. (Buffered + 1) : wanted(k)
<1>1. Buffered \in Nat /\ size \in Nat /\ Buffered < size
  BY Positions
<1>2. Grown(size) = size * 2^few
  BY DEF Grown
<1>3. 2^0 = 1 /\ 2^1 = 2
  OBVIOUS
<1>4. \E k \in {0, 1} : wanted(k)
  <2>1. CASE size - Buffered - 1 > 0
    <3>1. room(0) /\ 0 .. (0 - 1) = {}
      BY <1>1, <1>3, <2>1
    <3> QED BY <3>1
  <2>2. CASE ~ (size - Buffered - 1 > 0)
    <3>1. ~ room(0) /\ room(1) /\ 0 .. (1 - 1) = {0}
      BY <1>1, <1>3, <2>2
    <3> HIDE DEF room
    <3> QED BY <3>1
  <2> QED BY <2>1, <2>2
<1>5. \A k \in 0 .. (Buffered + 1) : wanted(k) => k \in {0, 1}
  <2> SUFFICES ASSUME NEW k \in 0 .. (Buffered + 1), wanted(k)
               PROVE  k \in {0, 1}
    OBVIOUS
  <2>1. \A j \in 0 .. (k - 1) : ~ room(j)
    OBVIOUS
  <2>2. room(0) \/ room(1)
    BY <1>4
  <2>3. k \in Nat
    BY <1>1
  <2>4. 0 \notin 0 .. (k - 1) \/ 1 \notin 0 .. (k - 1)
    BY <2>1, <2>2
  <2> QED BY <2>3, <2>4
<1>6. few \in {0, 1} /\ wanted(few)
  <2>1. {0, 1} \subseteq 0 .. (Buffered + 1)
    BY <1>1
  <2> HIDE DEF wanted
  <2>2. few \in 0 .. (Buffered + 1) /\ wanted(few)
    BY <1>4, <2>1, Zenon
  <2> QED BY <1>5, <2>2
<1>7. room(few)
  BY <1>6
<1>8. 2^few \in {1, 2}
  BY <1>3, <1>6
<1> HIDE DEF few
<1> QED BY <1>1, <1>2, <1>7, <1>8

\* What the rest of the state keeps when only the buffer is touched.
Rest == /\ atBol \in BOOLEAN /\ start \in {"INITIAL", "STRING", "INCLUDE", "FSTART", "SKIPTOEOL"}
        /\ Len(string_buf) < StringSize - 2 /\ yylinenum \in Int
        /\ \A i \in DOMAIN tokens : DOMAIN tokens[i] = {"tok", "val", "line"}
        /\ Listed(string_buf) /\ Listed(tokens)
Places == /\ text \in Texts /\ at \in 1 .. (Len(text) + 1) /\ have \in (at - 1) .. Len(text)
          /\ size \in Nat /\ Buffered < size /\ eofPending \in BOOLEAN /\ ended \in BOOLEAN

\* The invariant in two parts, one of the buffer and one of what the rules keep.
LEMMA Parts == ScanInv <=> Places /\ Rest
BY DEF ScanInv, TypeOK, Places, Rest

\* The same of the next state.
LEMMA PartsPrimed == ScanInv' <=> Places' /\ Rest'
BY DEF ScanInv, TypeOK, Places, Rest

\* Reading more text keeps what is buffered, and what is read fits behind it.
LEMMA GetNextBufferStep ==
  ASSUME ScanInv, GetNextBuffer
  PROVE  ScanInv' /\ at' = at /\ have <= have'
<1> DEFINE room == Grown(size) - Buffered - 1
           amount == Read(room)
<1>1. /\ Len(text) \in Nat /\ at \in Nat /\ have \in Nat /\ size \in Nat
      /\ 1 <= at /\ at <= have + 1 /\ have <= Len(text) /\ Buffered \in Nat /\ Buffered < size
  BY Positions
<1>2. Grown(size) \in Nat /\ Grown(size) >= size /\ room \in Nat \ {0}
  BY Room
<1>3. amount \in Nat /\ amount <= room /\ amount <= Len(text) - have
  <2> DEFINE S == {room, YY_READ_BUF_SIZE, Len(text) - have}
  <2>1. room \in Nat /\ YY_READ_BUF_SIZE \in Nat /\ Len(text) - have \in Nat
    BY <1>1, <1>2, ScannerAssumption
  <2> HIDE DEF room
  <2>2. \E x \in S : \A y \in S : x <= y
    BY <2>1
  <2>3. Min(S) \in S /\ \A y \in S : Min(S) <= y
    <3> HIDE DEF S
    <3> QED BY <2>2, Zenon DEF Min
  <2>4. amount = Min(S)
    BY DEF Read
  <2> QED BY <2>1, <2>3, <2>4
<1>4. /\ size' = Grown(size) /\ have' = have + amount
      /\ eofPending' = (amount = 0 /\ Buffered > 0) /\ ended' = (amount = 0 /\ Buffered = 0)
      /\ text' = text /\ at' = at /\ start' = start /\ atBol' = atBol /\ string_buf' = string_buf
      /\ yylinenum' = yylinenum /\ tokens' = tokens
  BY DEF GetNextBuffer, NextBuffer
<1> HIDE DEF amount
<1>5. Places'
  <2>1. /\ have' \in (at' - 1) .. Len(text') /\ at' \in 1 .. (Len(text') + 1) /\ size' \in Nat
    BY <1>1, <1>2, <1>3, <1>4
  <2>2. have' - at' + 1 < size'
    BY <1>1, <1>2, <1>3, <1>4 DEF Buffered
  <2>3. text' \in Texts /\ eofPending' \in BOOLEAN /\ ended' \in BOOLEAN
    BY <1>4, Parts DEF Places
  <2> QED BY <2>1, <2>2, <2>3 DEF Places, Buffered
<1>6. Rest'
  BY <1>4, Parts, Zenon DEF Rest
<1> QED BY <1>1, <1>3, <1>4, <1>5, <1>6, PartsPrimed

\* The end of the text, once nothing is buffered.
LEMMA TerminateStep ==
  ASSUME ScanInv, Terminate
  PROVE  ScanInv' /\ at' = at /\ have' = have
<1>1. ended' = TRUE /\ UNCHANGED <<text, at, have, size, eofPending, start, atBol, string_buf, yylinenum, tokens>>
  BY DEF Terminate
<1>2. Places'
  BY <1>1, Parts DEF Places, Buffered
<1>3. Rest'
  BY <1>1, Parts, Zenon DEF Rest
<1> QED BY <1>1, <1>2, <1>3, PartsPrimed

----------------------------------------------------------------------------
(* The rules. *)

\* A match is the longest lexeme of the buffer.
LEMMA MatchedIs ==
  ASSUME ScanInv, NEW m \in Matched
  PROVE  /\ m.yytext = Longest /\ m.rule = Rule(Longest) /\ ~ ended
         /\ Len(m.yytext) \in 1 .. Buffered /\ Buffered > 0 /\ m.rule # "none"
<1>1. /\ ~ ended /\ Buffered > 0 /\ m = [yytext |-> Longest, rule |-> Rule(Longest)]
  BY DEF Matched
<1>2. m.yytext = Longest /\ m.rule = Rule(Longest)
  BY <1>1
<1> QED BY <1>1, <1>2, LongestWithin

\* What a rule takes is what its lexeme has of the buffer.
LEMMA Consumed ==
  ASSUME ScanInv, NEW m \in Matched, Consume(m)
  PROVE  /\ Places' /\ atBol' \in BOOLEAN /\ have' = have /\ at < at' /\ at' <= have + 1
         /\ text' = text /\ ended' = ended
<1>1. /\ Len(text) \in Nat /\ at \in Nat /\ have \in Nat /\ size \in Nat
      /\ 1 <= at /\ at <= have + 1 /\ have <= Len(text) /\ Buffered \in Nat /\ Buffered < size
  BY Positions
<1>2. Len(m.yytext) \in 1 .. Buffered
  BY MatchedIs
<1>3. /\ at' = at + Len(m.yytext) /\ atBol' = (Char(m.yytext, Len(m.yytext)) = "\n")
      /\ text' = text /\ have' = have /\ size' = size /\ eofPending' = eofPending /\ ended' = ended
  BY DEF Consume
<1> DEFINE l == Len(m.yytext)
<1>4. l \in Nat /\ 1 <= l /\ l <= have - at + 1 /\ have - at + 1 < size
  BY <1>1, <1>2 DEF Buffered
<1>5. at' = at + l
  BY <1>3
<1> HIDE DEF l
<1>6. /\ at' \in 1 .. (Len(text') + 1) /\ have' \in (at' - 1) .. Len(text') /\ size' \in Nat
      /\ have' - at' + 1 < size' /\ at < at' /\ at' <= have + 1
  <2>1. PICK a \in Nat : a = at'
    BY <1>1, <1>4, <1>5
  <2>2. a = at + l
    BY <1>5, <2>1
  <2>3. 1 <= a /\ at < a /\ a <= have + 1
    BY <1>1, <1>4, <2>2
  <2>4. a \in 1 .. (Len(text) + 1) /\ have \in (a - 1) .. Len(text) /\ have - a + 1 < size
    BY <1>1, <1>4, <2>2, <2>3
  <2> QED BY <1>1, <1>3, <2>1, <2>3, <2>4
<1>7. text' \in Texts /\ eofPending' \in BOOLEAN /\ ended' \in BOOLEAN
  BY <1>3, Parts DEF Places
<1>8. Places'
  BY <1>6, <1>7 DEF Places, Buffered
<1> QED BY <1>3, <1>6, <1>8

\* Start conditions, lines and the beginning of a string are what the rules write.
LEMMA RestKept ==
  ASSUME Rest, atBol' \in BOOLEAN,
         start' \in {"INITIAL", "STRING", "INCLUDE", "FSTART", "SKIPTOEOL"},
         yylinenum' \in Int,
         string_buf' = string_buf \/ string_buf' = <<>>, tokens' = tokens
  PROVE  Rest'
<1>1. Len(string_buf') < StringSize - 2 /\ Listed(string_buf')
  BY EmptyListed, ScannerAssumption DEF Rest
<1>2. Listed(tokens') /\ \A i \in DOMAIN tokens' : DOMAIN tokens'[i] = {"tok", "val", "line"}
  BY Zenon DEF Rest
<1> QED BY <1>1, <1>2 DEF Rest

\* A token handed over has its three parts.
LEMMA RestReturned ==
  ASSUME Rest, atBol' \in BOOLEAN,
         start' \in {"INITIAL", "STRING", "INCLUDE", "FSTART", "SKIPTOEOL"},
         UNCHANGED <<string_buf, yylinenum>>, NEW tok, NEW val, Return(tok, val)
  PROVE  Rest'
<1> DEFINE t == [tok |-> tok, val |-> val, line |-> yylinenum]
<1>1. tokens' = Append(tokens, t)
  BY DEF Return
<1>2. DOMAIN t = {"tok", "val", "line"}
  OBVIOUS
<1> HIDE DEF t
<1>3. Listed(tokens) /\ \A i \in DOMAIN tokens : DOMAIN tokens[i] = {"tok", "val", "line"}
  BY Zenon DEF Rest
<1>4. /\ Listed(Append(tokens, t))
      /\ \A i \in DOMAIN Append(tokens, t) : \/ Append(tokens, t)[i] = t
                                             \/ i \in DOMAIN tokens /\ Append(tokens, t)[i] = tokens[i]
  BY <1>3, Longer
<1>5. Listed(tokens') /\ \A i \in DOMAIN tokens' : DOMAIN tokens'[i] = {"tok", "val", "line"}
  BY <1>1, <1>2, <1>3, <1>4
<1> QED BY <1>5 DEF Rest

\* A character is stored only where there is room for it.
LEMMA RestStored ==
  ASSUME ScanInv, NEW m \in Matched, atBol' \in BOOLEAN, UNCHANGED <<start, yylinenum, tokens>>,
         NEW c, Store(m, c)
  PROVE  Rest'
<1>1. Rest
  BY Parts
<1>2. Listed(string_buf) /\ Len(string_buf) < StringSize - 2
  BY <1>1 DEF Rest
<1>3. Len(string_buf) \in Nat /\ Len(Append(string_buf, c)) = Len(string_buf) + 1 /\ Listed(Append(string_buf, c))
  BY <1>2, Longer
<1>4. Len(m.yytext) \in 1 .. Buffered /\ Buffered \in Nat
  BY MatchedIs, Positions
<1>5. Listed(string_buf') /\ Len(string_buf') < StringSize - 2
  <2>1. CASE strbuf_space_avl(Len(m.yytext))
    <3>1. string_buf' = Append(string_buf, c) /\ Len(string_buf) + Len(m.yytext) < StringSize - 2
      BY <2>1 DEF Store, strbuf_space_avl
    <3>2. Len(string_buf) + 1 < StringSize - 2
      BY <1>3, <1>4, <3>1, ScannerAssumption
    <3> QED BY <1>3, <3>1, <3>2
  <2>2. CASE ~ strbuf_space_avl(Len(m.yytext))
    BY <1>2, <2>2 DEF Store
  <2> QED BY <2>1, <2>2
<1>6. Listed(tokens') /\ \A i \in DOMAIN tokens' : DOMAIN tokens'[i] = {"tok", "val", "line"}
  BY <1>1, Zenon DEF Rest
<1> QED BY <1>1, <1>5, <1>6 DEF Rest

\* The number of a line is one.
LEMMA LineIsNumber == ASSUME NEW w PROVE LineNumber(w) \in Int
<1>1. ASSUME NEW v
      PROVE  NumberIn(v) \in Int
  <2>1. CASE \E n \in 0 .. MaxLine : ToString(n) = v
    <3>1. NumberIn(v) = CHOOSE n \in 0 .. MaxLine : ToString(n) = v
      BY <2>1 DEF NumberIn
    <3>2. (CHOOSE n \in 0 .. MaxLine : ToString(n) = v) \in 0 .. MaxLine
      BY <2>1, Zenon
    <3>3. NumberIn(v) \in 0 .. MaxLine
      BY <3>1, <3>2, Zenon
    <3>4. 0 .. MaxLine \subseteq Int
      BY DEF MaxLine
    <3> QED BY <3>3, <3>4
  <2>2. CASE ~ \E n \in 0 .. MaxLine : ToString(n) = v
    BY <2>2 DEF NumberIn, MaxLine
  <2> QED BY <2>1, <2>2
<1> QED BY <1>1 DEF LineNumber

\* The rules of line markers.
LEMMA MarkersStep ==
  ASSUME ScanInv, NEW m \in Matched, Markers(m)
  PROVE  ScanInv' /\ have' = have /\ at <= at' /\ at' <= have + 1
<1>1. Rest /\ at \in Nat /\ start \in {"INITIAL", "STRING", "INCLUDE", "FSTART", "SKIPTOEOL"} /\ yylinenum \in Int
  BY Parts, Positions DEF Rest
<1>2. Consume(m)
  BY DEF Markers, Include, Line, FileName, SkipToEol, Echo, Matches
<1>3. Places' /\ atBol' \in BOOLEAN /\ have' = have /\ at < at' /\ at' <= have + 1
  BY <1>2, Consumed
<1>4. Rest'
  <2>1. CASE Line(m)
    <3>1. LineNumber(m.yytext) - 1 \in Int
      BY LineIsNumber
    <3>2. yylinenum' \in Int /\ start' = "FSTART" /\ UNCHANGED <<string_buf, tokens>>
      BY <2>1, <3>1 DEF Line, Begin
    <3> QED BY <1>1, <1>3, <3>2, RestKept
  <2>2. CASE SkipToEol(m)
    <3>1. yylinenum' \in Int /\ start' = "INITIAL" /\ UNCHANGED <<string_buf, tokens>>
      BY <1>1, <2>2 DEF SkipToEol, Begin
    <3> QED BY <1>1, <1>3, <3>1, RestKept
  <2>3. CASE Include(m) \/ FileName(m) \/ Echo(m)
    <3>1. /\ start' \in {"INITIAL", "STRING", "INCLUDE", "FSTART", "SKIPTOEOL"}
          /\ UNCHANGED <<string_buf, yylinenum, tokens>>
      BY <1>1, <2>3 DEF Include, FileName, Echo, Keep, Begin
    <3> QED BY <1>1, <1>3, <3>1, RestKept
  <2> QED BY <2>1, <2>2, <2>3 DEF Markers
<1>5. at <= at'
  <2>1. at' \in Int
    BY <1>3 DEF Places
  <2> QED BY <1>1, <1>3, <2>1
<1> QED BY <1>3, <1>4, <1>5, PartsPrimed

\* The rules of strings; a newline that ends one stays in the buffer.
LEMMA StringsStep ==
  ASSUME ScanInv, NEW m \in Matched, Strings(m)
  PROVE  ScanInv' /\ have' = have /\ at <= at' /\ at' <= have + 1
<1>1. Rest /\ at \in Nat /\ start \in {"INITIAL", "STRING", "INCLUDE", "FSTART", "SKIPTOEOL"} /\ yylinenum \in Int
  BY Parts, Positions DEF Rest
<1>2. CASE EndString(m)
  <2>1. /\ Len(text) \in Nat /\ at \in Nat /\ have \in Nat /\ size \in Nat
        /\ 1 <= at /\ at <= have + 1 /\ have <= Len(text) /\ Buffered \in Nat /\ Buffered < size
    BY Positions
  <2>2. Buffered > 0
    BY MatchedIs
  <2>3. /\ at' = (IF m.yytext = "\n" THEN at ELSE at + 1) /\ atBol' = (m.yytext = "\n")
        /\ Return("string", UpToNul(string_buf)) /\ start' = "INITIAL"
        /\ UNCHANGED <<text, have, size, eofPending, string_buf, yylinenum, ended>>
    BY <1>2 DEF EndString, Begin
  <2>4. PICK a \in Nat : a = at'
    BY <2>1, <2>3
  <2>5. a = at \/ a = at + 1
    BY <2>3, <2>4
  <2>6. /\ a \in 1 .. (Len(text) + 1) /\ have \in (a - 1) .. Len(text) /\ have - a + 1 < size
        /\ at <= a /\ a <= have + 1
    BY <2>1, <2>2, <2>5 DEF Buffered
  <2>7. Places'
    <3>1. text' \in Texts /\ eofPending' \in BOOLEAN /\ ended' \in BOOLEAN
      BY <2>3, Parts DEF Places
    <3> QED BY <2>1, <2>3, <2>4, <2>6, <3>1 DEF Places, Buffered
  <2>8. Rest'
    <3>1. atBol' \in BOOLEAN /\ UNCHANGED <<string_buf, yylinenum>>
      BY <2>3
    <3> QED BY <1>1, <2>3, <3>1, RestReturned
  <2> QED BY <2>3, <2>4, <2>6, <2>7, <2>8, PartsPrimed
<1>3. CASE BeginString(m) \/ HexEscape(m) \/ Escape(m) \/ StringChar(m)
  <2>1. Consume(m)
    BY <1>3 DEF BeginString, HexEscape, Escape, StringChar, Matches
  <2>2. Places' /\ atBol' \in BOOLEAN /\ have' = have /\ at < at' /\ at' <= have + 1
    BY <2>1, Consumed
  <2>3. Rest'
    <3>1. CASE BeginString(m)
      <4>1. start' = "STRING" /\ string_buf' = <<>> /\ UNCHANGED <<yylinenum, tokens>>
        BY <3>1 DEF BeginString, Begin
      <4> QED BY <1>1, <2>2, <4>1, RestKept
    <3>2. CASE HexEscape(m) \/ Escape(m) \/ StringChar(m)
      <4>1. PICK c : Store(m, c) /\ UNCHANGED <<start, yylinenum, tokens>>
        BY <3>2 DEF HexEscape, Escape, StringChar
      <4> QED BY <2>2, <4>1, RestStored
    <3> QED BY <1>3, <3>1, <3>2
  <2>4. at <= at'
    <3>1. at' \in Int
      BY <2>2 DEF Places
    <3> QED BY <1>1, <2>2, <3>1
  <2> QED BY <2>2, <2>3, <2>4, PartsPrimed
<1> QED BY <1>2, <1>3 DEF Strings

\* The rules of program text.
LEMMA ProgramStep ==
  ASSUME ScanInv, NEW m \in Matched, Program(m)
  PROVE  ScanInv' /\ have' = have /\ at <= at' /\ at' <= have + 1
<1>1. Rest /\ at \in Nat /\ start \in {"INITIAL", "STRING", "INCLUDE", "FSTART", "SKIPTOEOL"} /\ yylinenum \in Int
  BY Parts, Positions DEF Rest
<1>2. Consume(m)
  BY DEF Program, Operator, Keyword, Ident, Uint, Double, LexError, Token, Newline, Blank, Matches
<1>3. Places' /\ atBol' \in BOOLEAN /\ have' = have /\ at < at' /\ at' <= have + 1
  BY <1>2, Consumed
<1>4. Rest'
  <2>1. CASE Newline(m) \/ Blank(m)
    <3>1. yylinenum' \in Int /\ UNCHANGED <<start, string_buf, tokens>>
      BY <1>1, <2>1 DEF Newline, Blank, Keep
    <3> QED BY <1>1, <1>3, <3>1, RestKept
  <2>2. CASE Operator(m) \/ Keyword(m) \/ Ident(m) \/ Uint(m) \/ Double(m) \/ LexError(m)
    <3>1. PICK rule : Token(m, rule)
      BY <2>2 DEF Operator, Keyword, Ident, Uint, Double, LexError
    <3>2. Return(rule, <<m.yytext>>) /\ UNCHANGED <<start, string_buf, yylinenum>>
      BY <3>1 DEF Token
    <3> QED BY <1>1, <1>3, <3>2, RestReturned
  <2> QED BY <2>1, <2>2 DEF Program
<1>5. at <= at'
  <2>1. at' \in Int
    BY <1>3 DEF Places
  <2> QED BY <1>1, <1>3, <2>1
<1> QED BY <1>3, <1>4, <1>5, PartsPrimed

----------------------------------------------------------------------------
(* The theorems about the scanner. *)

\* What a step may do to the two positions: characters are read behind those that are buffered, and
\* only buffered ones are taken.
Advances == /\ have <= have' /\ at <= at' /\ at' <= have + 1
            /\ at' # at => have' = have

\* The scanner starts with nothing buffered.
LEMMA InitScan == Init => ScanInv
<1> SUFFICES ASSUME Init PROVE ScanInv
  OBVIOUS
<1>1. text \in Texts /\ Len(text) \in Nat
  BY TextsAssumption DEF Init
<1>2. Places
  <2>1. /\ at = 1 /\ have = 0 /\ size = YY_BUF_SIZE /\ eofPending = FALSE /\ ended = FALSE
        /\ YY_BUF_SIZE \in Nat \ {0}
    BY ScannerAssumption DEF Init
  <2>2. at \in 1 .. (Len(text) + 1) /\ have \in (at - 1) .. Len(text)
    BY <1>1, <2>1
  <2>3. size \in Nat /\ have - at + 1 < size
    BY <2>1
  <2> QED BY <1>1, <2>1, <2>2, <2>3 DEF Places, Buffered
<1>3. Rest
  <2>1. string_buf = <<>> /\ tokens = <<>> /\ atBol = TRUE /\ start = "INITIAL" /\ yylinenum = 0
    BY DEF Init
  <2> QED BY <2>1, EmptyListed, ScannerAssumption DEF Rest
<1> QED BY <1>2, <1>3, Parts

\* Every step keeps the invariant, and advances.
LEMMA NextScan == ScanInv /\ [Next]_vars => ScanInv' /\ (Advances \/ UNCHANGED vars)
<1> SUFFICES ASSUME ScanInv, [Next]_vars PROVE ScanInv' /\ (Advances \/ UNCHANGED vars)
  OBVIOUS
<1>0. at \in Nat /\ have \in Nat /\ at <= have + 1
  BY Positions
<1>1. CASE GetNextBuffer
  BY <1>0, <1>1, GetNextBufferStep DEF Advances
<1>2. CASE Terminate
  BY <1>0, <1>2, TerminateStep DEF Advances
<1>3. ASSUME NEW m \in Matched, Markers(m) \/ Strings(m) \/ Program(m)
      PROVE  ScanInv' /\ Advances
  BY <1>0, <1>3, MarkersStep, StringsStep, ProgramStep DEF Advances
<1>4. CASE UNCHANGED vars
  <2>1. Places'
    BY <1>4, Parts DEF vars, Places, Buffered
  <2>2. Rest'
    <3>1. UNCHANGED <<start, atBol, string_buf, yylinenum, tokens>>
      BY <1>4 DEF vars
    <3> QED BY <3>1, Parts, Zenon DEF Rest
  <2> QED BY <1>4, <2>1, <2>2, PartsPrimed
<1> QED BY <1>1, <1>2, <1>3, <1>4 DEF Next

\* The invariant holds in every state.
LEMMA ScanInvariance == Spec => []ScanInv
BY InitScan, NextScan, PTL DEF Spec

\* For any texts and sizes, what is buffered is text not yet taken and leaves room for the end mark, and
\* a string being collected stays within its array (yy_get_next_buffer, strbuf_space_avl).
THEOREM Bounded == Spec => []TypeOK
<1>1. ScanInv => TypeOK
  BY DEF ScanInv
<1> QED BY <1>1, ScanInvariance, PTL

\* No step takes a character that was not read, or goes back: more text is read behind what is buffered, and
\* a rule takes a lexeme from the front of the buffer, or, at a string's end on a newline, nothing.
THEOREM Forward == Spec => [][Advances]_vars
BY ScanInvariance, NextScan, PTL DEF Spec

\* Whenever the scanner stops to match, some rule matches, whatever the start condition: no text jams it.
THEOREM NeverJams == Spec => [](\A m \in Matched : m.rule # "none" /\ Len(m.yytext) \in 1 .. Buffered)
<1>1. ScanInv => \A m \in Matched : m.rule # "none" /\ Len(m.yytext) \in 1 .. Buffered
  BY MatchedIs
<1> QED BY <1>1, ScanInvariance, PTL

----------------------------------------------------------------------------
(* Types. *)

\* The types, and their ranks.
LEMMA TagsAre ==
  /\ ToSet(Tags) = {"error", "unknown", "void", "bool", "string", "byte", "uint", "int", "double", "class"}
  /\ DOMAIN Tags = 1 .. 10
BY DEF Tags, ToSet

Native == {"error", "unknown", "void", "bool", "string", "byte", "uint", "int", "double", "class"}

\* A type is one of the built-in ones, or a class and none of them.
LEMMA TypesAre ==
  /\ Types = Native \cup Classes /\ \A t \in Classes : t \notin Native /\ t # "none" /\ Tag(t) = "class"
  /\ \A t \in Native : t \notin Classes /\ Tag(t) = t
BY TagsAre, ClassesAssumption DEF Types, Native, Tag

\* The ranks follow the order of the tags.
LEMMA Ranks ==
  /\ Rank("error") = 1 /\ Rank("unknown") = 2 /\ Rank("void") = 3 /\ Rank("bool") = 4 /\ Rank("string") = 5
  /\ Rank("byte") = 6 /\ Rank("uint") = 7 /\ Rank("int") = 8 /\ Rank("double") = 9 /\ Rank("class") = 10
  /\ \A t \in Classes : Rank(t) = 10
<1>1. ASSUME NEW n \in 1 .. 10, NEW t, Tag(t) = Tags[n]
      PROVE  Rank(t) = n
  <2>1. \A i \in DOMAIN Tags : Tags[i] = Tag(t) <=> i = n
    BY <1>1, TagsAre DEF Tags
  <2>2. n \in DOMAIN Tags
    BY TagsAre
  <2> QED BY <2>1, <2>2, Zenon DEF Rank
<1>2. /\ Tags[1] = "error" /\ Tags[2] = "unknown" /\ Tags[3] = "void" /\ Tags[4] = "bool" /\ Tags[5] = "string"
      /\ Tags[6] = "byte" /\ Tags[7] = "uint" /\ Tags[8] = "int" /\ Tags[9] = "double" /\ Tags[10] = "class"
  BY DEF Tags
<1>3. \A t \in Native : Tag(t) = t
  BY TypesAre
<1>4. \A t \in Classes : Rank(t) = 10
  BY <1>1, <1>2, TypesAre
<1> QED BY <1>1, <1>2, <1>3, <1>4 DEF Native

\* Which types are numbers, integers, signed, and such that values of them can be compared.
LEMMA Kinds ==
  ASSUME NEW t \in Types
  PROVE  /\ IsNumeric(t) <=> t \in {"byte", "uint", "int", "double"}
         /\ IsIntegral(t) <=> t \in {"byte", "uint", "int"}
         /\ IsPrimitive(t) <=> t \in {"bool", "string", "byte", "uint", "int", "double"}
<1>1. CASE t \in Classes
  <2>1. Rank(t) = 10 /\ t \notin Native
    BY <1>1, Ranks, TypesAre
  <2> QED BY <2>1, Ranks DEF IsNumeric, IsIntegral, IsPrimitive, Between, Native
<1>2. CASE t \in Native
  BY <1>2, Ranks DEF IsNumeric, IsIntegral, IsPrimitive, Between, Native
<1> QED BY <1>1, <1>2, TypesAre

\* The subtypes: numbers of a lower rank, and a class of itself.
LEMMA SubTypes ==
  ASSUME NEW t \in Types, NEW u \in Types
  PROVE  /\ IsSubType(t, u) <=> (t \in Classes /\ t = u) \/ (IsNumeric(t) /\ Rank(t) <= Rank(u))
         /\ Rank(t) \in 1 .. 10 /\ (IsNumeric(t) => t \notin Classes)
         /\ IsNumeric(t) /\ IsNumeric(u) /\ Rank(t) = Rank(u) => t = u
         /\ IsNumeric(t) /\ IsNumeric(u) /\ Tag(t) = Tag(u) => t = u
<1>1. Rank(t) \in 1 .. 10
  BY Ranks, TypesAre DEF Native
<1>2. IsNumeric(t) => t \notin Classes
  BY Kinds, TypesAre DEF Native
<1>3. IsNumeric(t) /\ IsNumeric(u) /\ Rank(t) = Rank(u) => t = u
  BY Kinds, Ranks
<1>4. IsNumeric(t) /\ IsNumeric(u) /\ Tag(t) = Tag(u) => t = u
  BY Kinds, TypesAre DEF Native
<1> QED BY <1>1, <1>2, <1>3, <1>4 DEF IsSubType

\* The greater of two numeric types, as the compiler and as the rules find it.
LEMMA Greater ==
  ASSUME NEW t \in Types, NEW u \in Types, IsNumeric(t), IsNumeric(u)
  PROVE  /\ MostGeneral(<<t, u>>) = Lub(t, u) /\ Lub(t, u) \in {t, u}
         /\ IsSubType(u, t) <=> Lub(t, u) = t
         /\ IsSubType(t, u) <=> Lub(t, u) = u
<1>1. Rank(t) \in 1 .. 10 /\ Rank(u) \in 1 .. 10 /\ (Rank(t) = Rank(u) => t = u)
  BY SubTypes
<1>2. IsSubType(u, t) <=> Rank(u) <= Rank(t)
  BY SubTypes
<1>3. IsSubType(t, u) <=> Rank(t) <= Rank(u)
  BY SubTypes
<1>4. MostGeneral(<<t, u>>) = IF IsSubType(u, t) THEN t ELSE u
  BY DEF MostGeneral
<1> QED BY <1>1, <1>2, <1>3, <1>4 DEF Lub

----------------------------------------------------------------------------
(* Trees. *)

\* The types of operands without an error; a class has its name.
Proper == Types \ {"error", "class"}

\* An operation on n operands: the operands' own contents, U, may be anything.
Operands(U) == [kind : U, own : U, op : U, args : U, callee : U, found : U,
                coerced : Types \cup {"none"}, result : Proper]
Operations(op, n, U) == [kind : U, own : U, op : {op}, args : [1 .. n -> Operands(U)], callee : U, found : U,
                         coerced : U, result : U]
Fresh(e) == \A i \in DOMAIN e.args : e.args[i].coerced = "none"

\* A conversion changes what one operand is converted to, and nothing else.
LEMMA Converts ==
  ASSUME NEW U, NEW op, NEW n \in Nat, NEW e \in Operations(op, n, U), NEW i \in 1 .. n, NEW x \in Types \cup {"none"}
  PROVE  /\ Coerce(e, i, x) \in Operations(op, n, U)
         /\ Coerce(e, i, x).args[i].coerced = x /\ Coerce(e, i, x).args[i].result = e.args[i].result
         /\ \A j \in (1 .. n) \ {i} : Coerce(e, i, x).args[j] = e.args[j]
         /\ e.args[i].coerced = x => Coerce(e, i, x) = e
<1> DEFINE a == [e.args[i] EXCEPT !.coerced = x]
           s == [e.args EXCEPT ![i] = a]
<1>1. e.args \in [1 .. n -> Operands(U)] /\ e.args[i] \in Operands(U)
  BY DEF Operations
<1>2. a \in Operands(U) /\ a.coerced = x /\ a.result = e.args[i].result
  BY <1>1 DEF Operands
<1>3. e.args[i].coerced = x => a = e.args[i]
  BY <1>1 DEF Operands
<1>4. Coerce(e, i, x) = [e EXCEPT !.args = s]
  BY DEF Coerce
<1> HIDE DEF a
<1>5. s \in [1 .. n -> Operands(U)] /\ s[i] = a /\ \A j \in (1 .. n) \ {i} : s[j] = e.args[j]
  BY <1>1, <1>2
<1>6. e.args[i].coerced = x => s = e.args
  BY <1>1, <1>3
<1> HIDE DEF s
<1>7. [e EXCEPT !.args = s] \in Operations(op, n, U) /\ [e EXCEPT !.args = s].args = s
  BY <1>5 DEF Operations
<1>8. s = e.args => [e EXCEPT !.args = s] = e
  BY DEF Operations
<1> QED BY <1>2, <1>4, <1>5, <1>6, <1>7, <1>8

----------------------------------------------------------------------------
(* Operations, family by family. *)

\* One operation checked, when its operands are of types t and there were m messages.
Checked(e, t, m) == AfterConstrain([tree |-> e, types |-> t, msgs |-> m, error |-> FALSE], Constrain(e, t))
Arity(op) == IF op \in Unary THEN 1 ELSE 2
Balanced == Arithmetic \cup Bitwise2 \cup {"MOD"}

\* What the i-th operand is converted to.
Conversion(op, t, i) ==
  IF Gives(op, t) = "error" THEN "none"
  ELSE IF op \in Balanced \cup {"UMINUS"} THEN (IF t[i] = Gives(op, t) THEN "none" ELSE Gives(op, t))
  ELSE IF op = "ASSIGN" /\ i = 2 /\ Tag(t[1]) # Tag(t[2]) THEN t[1] ELSE "none"

\* Each operand is not converted yet, or as it will be: it was checked before, or it was not.
Begun(e, op, t) == \A i \in DOMAIN t : e.args[i].coerced \in {"none", Conversion(op, t, i)}
\* Each is.
Complete(e, op, t) == \A i \in DOMAIN t : e.args[i].coerced = Conversion(op, t, i)

\* The outcome is what the rules say, and the tree has its conversions, no others.
Right(e, op, n, U, t, m, c) ==
  /\ c.type = Gives(op, t) /\ c.msgs = (IF c.type = "error" THEN m + 1 ELSE m)
  /\ c.tree \in Operations(op, n, U) /\ Complete(c.tree, op, t)
  /\ \A i \in 1 .. n : c.tree.args[i].result = e.args[i].result
  /\ Complete(e, op, t) => c.tree = e

\* The outcome, of operands that break the first constraint and of others.
LEMMA CheckedIs ==
  ASSUME NEW e, NEW t, NEW m \in Nat
  PROVE  /\ Constrain(e, t).error => Checked(e, t, m) = Outcome(Constrain(e, t).tree, "error", m + 1)
         /\ \A final, type : ~ Constrain(e, t).error /\ Conclude(Constrain(e, t).tree, t) = Outcome(final, type, 0)
                              => Checked(e, t, m) = Outcome(final, type, m)
<1>1. ASSUME Constrain(e, t).error
      PROVE  Checked(e, t, m) = Outcome(Constrain(e, t).tree, "error", m + 1)
  BY <1>1 DEF Checked, AfterConstrain
<1>2. ASSUME NEW final, NEW type, ~ Constrain(e, t).error, Conclude(Constrain(e, t).tree, t) = Outcome(final, type, 0)
      PROVE  Checked(e, t, m) = Outcome(final, type, m)
  <2>1. Checked(e, t, m) = [Outcome(final, type, 0) EXCEPT !.msgs = m + @]
    BY <1>2 DEF Checked, AfterConstrain
  <2>2. [Outcome(final, type, 0) EXCEPT !.msgs = m + @] = Outcome(final, type, m)
    BY DEF Outcome
  <2> QED BY <2>1, <2>2
<1> QED BY <1>1, <1>2

\* What an operation gives: the type of the rules, but for & and ~.
LEMMA GivenIs ==
  ASSUME NEW op, NEW t
  PROVE  /\ op \notin {"BITAND", "BITNOT"} => Gives(op, t) = OpTyping(op, t)
         /\ op = "BITNOT" => Gives(op, t) = IF \A i \in DOMAIN t : IsIntegral(t[i]) THEN t[1] ELSE "error"
         /\ op = "BITAND" /\ t[1] # "error" /\ t[2] # "error" =>
              Gives(op, t) = IF \A i \in DOMAIN t : IsIntegral(t[i]) THEN Lub(t[1], t[2]) ELSE "error"
<1> DEFINE integral == \A i \in DOMAIN t : IsIntegral(t[i])
<1>1. op \notin {"BITAND", "BITNOT"} => Gives(op, t) = OpTyping(op, t)
  BY DEF Gives, Departs
<1>2. CASE op = "BITNOT"
  <2>1. OpTyping(op, t) = IF integral THEN "uint" ELSE "error"
    BY <1>2 DEF OpTyping, Logical, Comparisons, Shifts, Arithmetic, Bitwise2
  <2>2. "uint" # "error"
    OBVIOUS
  <2> HIDE DEF integral
  <2>3. Gives(op, t) = IF integral THEN t[1] ELSE "error"
    BY <1>2, <2>1, <2>2 DEF Gives, Departs
  <2> QED BY <1>2, <2>3 DEF integral
<1>3. CASE op = "BITAND"
  <2>1. OpTyping(op, t) = IF integral THEN Glb(t[1], t[2]) ELSE "error"
    BY <1>3 DEF OpTyping, Logical, Comparisons, Shifts, Arithmetic, Bitwise2
  <2>2. Glb(t[1], t[2]) \in {t[1], t[2]} /\ (t[1] = t[2] => Glb(t[1], t[2]) = Lub(t[1], t[2]))
    BY DEF Glb, Lub
  <2> HIDE DEF integral
  <2>3. t[1] # "error" /\ t[2] # "error" => Gives(op, t) = IF integral THEN Lub(t[1], t[2]) ELSE "error"
    BY <1>3, <2>1, <2>2 DEF Gives, Departs
  <2> QED BY <1>3, <2>3 DEF integral
<1> QED BY <1>1, <1>2, <1>3

\* Logical operations, comparisons, shifts and complements convert nothing.
LEMMA PlainRight ==
  ASSUME NEW U, NEW op \in Logical \cup {"NOT"} \cup Comparisons \cup Shifts \cup {"BITNOT"}, NEW n \in Nat, n = Arity(op),
         NEW e \in Operations(op, n, U), NEW t \in [1 .. n -> Proper], Begun(e, op, t), NEW m \in Nat
  PROVE  Right(e, op, n, U, t, m, Checked(e, t, m))
<1> DEFINE fits == \A i \in DOMAIN t : CheckType(OpInfo(op).arg, t[i])
           type == IF op \in Logical \cup {"NOT"} \cup Comparisons THEN "bool" ELSE t[1]
<1>1. e.op = op /\ n \in {1, 2} /\ DOMAIN t = 1 .. n /\ t[1] \in Types /\ t[1] # "error" /\ 1 \in 1 .. n
  BY DEF Operations, Arity, Proper
<1>2. /\ op \in Logical \cup {"NOT"} => OpInfo(op) = Row("bool", "bool", "N", "O")
      /\ op \in Comparisons => OpInfo(op) = Row("primitive", "bool", "S", "O")
      /\ op \in Shifts \cup {"BITNOT"} => OpInfo(op) = Row("integral", "integral", "N", "1")
  BY DEF OpInfo, Logical, Comparisons, Shifts, Arithmetic
<1>3. Constrain(e, t) = [tree |-> e, error |-> ~ fits]
  BY <1>1, <1>2 DEF Constrain, Row
<1>4. \A i \in DOMAIN t : Conversion(op, t, i) = "none"
  BY DEF Conversion, Balanced, Logical, Comparisons, Shifts, Arithmetic, Bitwise2
<1>5. \A i \in DOMAIN t : e.args[i].coerced = "none"
  BY <1>4 DEF Begun
<1>6. fits => Conclude(e, t) = Outcome(e, type, 0)
  <2>1. CASE op \in Logical \cup {"NOT"} \cup Comparisons
    BY <1>1, <1>2, <2>1 DEF Conclude, Row
  <2>2. CASE op \in Shifts \cup {"BITNOT"}
    <3>1. OpInfo(e.op).out = "integral" /\ OpInfo(e.op).arg = "integral" /\ OpInfo(e.op).result = "1"
      BY <1>1, <1>2, <2>2 DEF Row
    <3>2. type = t[1] /\ e.args[1].coerced = "none"
      BY <1>1, <1>5, <2>2 DEF Logical, Comparisons, Shifts
    <3>3. fits => CheckType("integral", t[1])
      BY <1>1, <3>1
    <3> HIDE DEF fits, type
    <3> QED BY <3>1, <3>2, <3>3 DEF Conclude
  <2> QED BY <2>1, <2>2
<1>7. Gives(op, t) = IF fits THEN type ELSE "error"
  <2>1. CASE op \in Logical \cup {"NOT"}
    <3>1. fits <=> \A i \in DOMAIN t : t[i] = "bool"
      BY <1>2, <2>1 DEF CheckType, Row
    <3>2. Gives(op, t) = OpTyping(op, t)
      BY <2>1, GivenIs DEF Logical
    <3> HIDE DEF fits
    <3> QED BY <2>1, <3>1, <3>2 DEF OpTyping, Logical, Comparisons, Shifts, Arithmetic, Bitwise2
  <2>2. CASE op \in Comparisons
    <3>1. fits <=> \A i \in DOMAIN t : IsPrimitive(t[i])
      BY <1>2, <2>2 DEF CheckType, Row
    <3>2. Gives(op, t) = OpTyping(op, t)
      BY <2>2, GivenIs DEF Comparisons
    <3> HIDE DEF fits
    <3> QED BY <2>2, <3>1, <3>2 DEF OpTyping, Logical, Comparisons, Shifts, Arithmetic, Bitwise2
  <2>3. CASE op \in Shifts \cup {"BITNOT"}
    <3>1. fits <=> \A i \in DOMAIN t : IsIntegral(t[i])
      BY <1>2, <2>3 DEF CheckType, Row
    <3> HIDE DEF fits
    <3>2. CASE op \in Shifts
      <4>1. Gives(op, t) = OpTyping(op, t)
        BY <3>2, GivenIs DEF Shifts
      <4> QED BY <3>1, <3>2, <4>1 DEF OpTyping, Logical, Comparisons, Shifts, Arithmetic, Bitwise2
    <3>3. CASE op = "BITNOT"
      BY <3>1, <3>3, GivenIs DEF Logical, Comparisons
    <3> QED BY <2>3, <3>2, <3>3
  <2> QED BY <2>1, <2>2, <2>3
<1> HIDE DEF fits
<1>8. Checked(e, t, m) = IF fits THEN Outcome(e, type, m) ELSE Outcome(e, "error", m + 1)
  <2>1. Constrain(e, t).tree = e /\ (Constrain(e, t).error <=> ~ fits)
    <3> HIDE DEF fits
    <3>1. Constrain(e, t).tree = e /\ Constrain(e, t).error = ~ fits
      BY <1>3
    <3> QED BY <3>1, Zenon
  <2> HIDE DEF type
  <2>2. CASE fits
    BY <1>6, <2>1, <2>2, CheckedIs
  <2>3. CASE ~ fits
    BY <2>1, <2>3, CheckedIs
  <2> QED BY <2>2, <2>3
<1>9. type # "error"
  BY <1>1
<1>10. Complete(e, op, t)
  BY <1>4, <1>5 DEF Complete
<1> HIDE DEF type
<1> QED BY <1>7, <1>8, <1>9, <1>10 DEF Right, Outcome

\* A sign makes a signed number of an unsigned one.
LEMMA SignRight ==
  ASSUME NEW U, NEW e \in Operations("UMINUS", 1, U), NEW t \in [1 .. 1 -> Proper],
         Begun(e, "UMINUS", t), NEW m \in Nat
  PROVE  Right(e, "UMINUS", 1, U, t, m, Checked(e, t, m))
<1> DEFINE fits == IsNumeric(t[1])
           type == IF t[1] = "double" THEN "double" ELSE "int"
           tree == IF t[1] \in {"int", "double"} THEN e ELSE Coerce(e, 1, "int")
<1>1. e.op = "UMINUS" /\ DOMAIN t = {1} /\ t[1] \in Types /\ t[1] # "error"
  BY DEF Operations, Proper
<1>2. OpInfo("UMINUS") = Row("numeric", "signed", "N", "1")
  BY DEF OpInfo, Logical, Comparisons, Shifts, Arithmetic
<1>3. Constrain(e, t) = [tree |-> e, error |-> ~ fits]
  <2>1. (\A i \in DOMAIN t : CheckType("numeric", t[i])) <=> fits
    BY <1>1 DEF CheckType
  <2> HIDE DEF fits
  <2> QED BY <1>1, <1>2, <2>1 DEF Constrain, Row
<1>4. fits <=> t[1] \in {"byte", "uint", "int", "double"}
  BY <1>1, Kinds
<1>5. Gives("UMINUS", t) = IF fits THEN type ELSE "error"
  <2>1. (\A i \in DOMAIN t : IsNumeric(t[i])) <=> fits
    BY <1>1
  <2>2. fits => Lub(t[1], "int") = type
    BY <1>4, Ranks DEF Lub
  <2>3. Gives("UMINUS", t) = OpTyping("UMINUS", t)
    BY GivenIs
  <2> HIDE DEF fits, type
  <2> QED BY <2>1, <2>2, <2>3 DEF OpTyping, Logical, Comparisons, Shifts, Arithmetic, Bitwise2
<1>6. Conversion("UMINUS", t, 1) = IF ~ fits \/ t[1] \in {"int", "double"} THEN "none" ELSE "int"
  <2>1. "error" # "int" /\ "error" # "double"
    OBVIOUS
  <2> QED BY <1>4, <1>5, <2>1 DEF Conversion
<1>7. e.args[1].coerced \in {"none", Conversion("UMINUS", t, 1)}
  BY <1>1 DEF Begun
<1>8. "int" \in Types
  BY TypesAre DEF Native
<1>9. /\ Coerce(e, 1, "int") \in Operations("UMINUS", 1, U)
      /\ Coerce(e, 1, "int").args[1].coerced = "int" /\ Coerce(e, 1, "int").args[1].result = e.args[1].result
      /\ e.args[1].coerced = "int" => Coerce(e, 1, "int") = e
  BY <1>8, Converts
<1>10. fits => Conclude(e, t) = Outcome(tree, type, 0)
  <2> SUFFICES ASSUME fits PROVE Conclude(e, t) = Outcome(tree, type, 0)
    OBVIOUS
  <2> DEFINE given == IF e.args[1].coerced # "none" THEN e.args[1].coerced ELSE t[1]
  <2>1. OpInfo(e.op).result = "1" /\ OpInfo(e.op).out = "signed"
    BY <1>1, <1>2 DEF Row
  <2>2. Conclude(e, t) = IF CheckType("signed", given) THEN Outcome(e, given, 0)
                         ELSE Outcome(Coerce(e, 1, GetCoercedType("signed", given)), GetCoercedType("signed", given), 0)
    BY <2>1 DEF Conclude
  <2>3. CheckType("signed", given) <=> given \in {"int", "double"}
    BY DEF CheckType, IsSigned
  <2>4. CASE t[1] \in {"int", "double"}
    <3>1. given = t[1]
      BY <1>6, <1>7, <2>4
    <3> QED BY <2>2, <2>3, <2>4, <3>1
  <2>5. CASE t[1] \in {"byte", "uint"}
    <3>1. tree = Coerce(e, 1, "int") /\ type = "int"
      BY <2>5
    <3>2. CASE e.args[1].coerced = "none"
      <4>1. given = t[1] /\ IsIntegral(given)
        BY <1>1, <2>5, <3>2, Kinds
      <4>2. GetCoercedType("signed", given) = "int"
        BY <4>1 DEF GetCoercedType
      <4>3. ~ CheckType("signed", given)
        BY <2>3, <2>5, <4>1
      <4> HIDE DEF given, tree, type
      <4> QED BY <2>2, <3>1, <4>2, <4>3
    <3>3. CASE e.args[1].coerced = "int"
      <4>1. given = "int" /\ Coerce(e, 1, "int") = e
        BY <1>9, <3>3
      <4>2. CheckType("signed", given)
        BY <2>3, <4>1
      <4> HIDE DEF given, tree, type
      <4> QED BY <2>2, <3>1, <4>1, <4>2
    <3> QED BY <1>6, <1>7, <2>5, <3>2, <3>3
  <2> QED BY <1>4, <2>4, <2>5
<1>11. Checked(e, t, m) = IF fits THEN Outcome(tree, type, m) ELSE Outcome(e, "error", m + 1)
  <2>1. Constrain(e, t).tree = e /\ (Constrain(e, t).error <=> ~ fits)
    <3> HIDE DEF fits
    <3>1. Constrain(e, t).tree = e /\ Constrain(e, t).error = ~ fits
      BY <1>3
    <3> QED BY <3>1, Zenon
  <2> HIDE DEF type, tree, fits
  <2>2. CASE fits
    BY <1>10, <2>1, <2>2, CheckedIs
  <2>3. CASE ~ fits
    BY <2>1, <2>3, CheckedIs
  <2> QED BY <2>2, <2>3
<1>12. CASE ~ fits
  <2>1. Complete(e, "UMINUS", t)
    BY <1>1, <1>6, <1>7, <1>12 DEF Complete
  <2> QED BY <1>5, <1>11, <1>12, <2>1 DEF Right, Outcome
<1>13. CASE fits
  <2>1. type # "error"
    OBVIOUS
  <2>2. tree \in Operations("UMINUS", 1, U) /\ tree.args[1].result = e.args[1].result
    BY <1>9
  <2>3. tree.args[1].coerced = Conversion("UMINUS", t, 1)
    BY <1>6, <1>7, <1>9, <1>13
  <2>4. e.args[1].coerced = Conversion("UMINUS", t, 1) => tree = e
    BY <1>6, <1>9, <1>13
  <2>5. 1 .. 1 = {1}
    OBVIOUS
  <2> HIDE DEF tree, type
  <2> QED BY <1>1, <1>5, <1>11, <1>13, <2>1, <2>2, <2>3, <2>4, <2>5 DEF Right, Complete, Outcome
<1> QED BY <1>12, <1>13

\* An assigned value of another type is converted to that of the variable, if it is a subtype.
LEMMA AssignRight ==
  ASSUME NEW U, NEW e \in Operations("ASSIGN", 2, U), NEW t \in [1 .. 2 -> Proper],
         Begun(e, "ASSIGN", t), NEW m \in Nat
  PROVE  Right(e, "ASSIGN", 2, U, t, m, Checked(e, t, m))
<1> DEFINE same == Tag(t[1]) = Tag(t[2])
           wider == IsSubType(t[2], t[1])
           tree == IF ~ same /\ wider THEN Coerce(e, 2, t[1]) ELSE e
<1>1. /\ e.op = "ASSIGN" /\ DOMAIN t = {1, 2} /\ 1 .. 2 = {1, 2}
      /\ t[1] \in Types /\ t[2] \in Types /\ t[1] \in Proper /\ t[2] \in Proper
      /\ t[1] \notin {"error", "class"} /\ t[2] \notin {"error", "class"}
  BY DEF Operations, Proper
<1>2. OpInfo("ASSIGN") = Row("primitive", "void", "A", "O")
  BY DEF OpInfo, Logical, Comparisons, Shifts, Arithmetic
<1>3. Constrain(e, t) = [tree |-> tree, error |-> ~ same /\ ~ wider]
  BY <1>1, <1>2 DEF Constrain, Row
<1>4. ~ same => (wider <=> Widens(t[2], t[1]))
  <2>1. ~ same => (wider <=> IsNumeric(t[2]) /\ Rank(t[2]) <= Rank(t[1]))
    <3>1. wider <=> (t[2] \in Classes /\ t[2] = t[1]) \/ (IsNumeric(t[2]) /\ Rank(t[2]) <= Rank(t[1]))
      BY <1>1, SubTypes
    <3> HIDE DEF wider
    <3> QED BY <3>1
  <2>2. IsNumeric(t[2]) => Rank(t[2]) \in 6 .. 9
    BY <1>1, Kinds, Ranks
  <2>3. CASE t[1] \in Classes
    <3>1. Rank(t[1]) = 10
      BY <2>3, Ranks
    <3> HIDE DEF same, wider
    <3> QED BY <2>1, <2>2, <2>3, <3>1 DEF Widens
  <2>4. CASE t[1] \notin Classes /\ ~ IsNumeric(t[1])
    <3>1. t[1] \in {"unknown", "void", "bool", "string"}
      BY <1>1, <2>4, TypesAre, Kinds DEF Native
    <3>2. Rank(t[1]) \in 2 .. 5
      BY <3>1, Ranks
    <3> HIDE DEF same, wider
    <3> QED BY <2>1, <2>2, <2>4, <3>2 DEF Widens
  <2>5. CASE t[1] \notin Classes /\ IsNumeric(t[1])
    <3>1. Rank(t[1]) \in 6 .. 9
      BY <1>1, <2>5, Kinds, Ranks
    <3>2. Rank(t[1]) = Rank(t[2]) /\ IsNumeric(t[2]) => t[1] = t[2]
      BY <1>1, <2>5, SubTypes
    <3> HIDE DEF same, wider
    <3> QED BY <2>1, <2>2, <2>5, <3>1, <3>2 DEF Widens, Lub
  <2> QED BY <2>3, <2>4, <2>5
<1>5. Gives("ASSIGN", t) = IF same \/ wider THEN "void" ELSE "error"
  <2>1. "error" \notin ToSet(t)
    BY <1>1 DEF ToSet
  <2>2. Assignable(t[2], t[1]) <=> same \/ Widens(t[2], t[1])
    BY DEF Assignable
  <2>3. OpTyping("ASSIGN", t) = IF "error" \notin ToSet(t) /\ Assignable(t[2], t[1]) THEN "void" ELSE "error"
    BY DEF OpTyping, Logical, Comparisons, Shifts, Arithmetic, Bitwise2
  <2>4. Gives("ASSIGN", t) = OpTyping("ASSIGN", t)
    BY GivenIs
  <2> HIDE DEF same, wider
  <2> QED BY <1>4, <2>1, <2>2, <2>3, <2>4
<1>6. /\ Conversion("ASSIGN", t, 1) = "none"
      /\ Conversion("ASSIGN", t, 2) = IF ~ same /\ wider THEN t[1] ELSE "none"
  <2>1. "ASSIGN" \notin Balanced \cup {"UMINUS"}
    BY DEF Balanced, Arithmetic, Bitwise2
  <2> HIDE DEF wider
  <2> QED BY <1>5, <2>1 DEF Conversion
<1>7. /\ e.args[1].coerced \in {"none", Conversion("ASSIGN", t, 1)}
      /\ e.args[2].coerced \in {"none", Conversion("ASSIGN", t, 2)}
  BY <1>1 DEF Begun
<1>8. /\ Coerce(e, 2, t[1]) \in Operations("ASSIGN", 2, U)
      /\ Coerce(e, 2, t[1]).args[2].coerced = t[1] /\ Coerce(e, 2, t[1]).args[2].result = e.args[2].result
      /\ Coerce(e, 2, t[1]).args[1] = e.args[1]
      /\ e.args[2].coerced = t[1] => Coerce(e, 2, t[1]) = e
  BY <1>1, Converts
<1>9. tree \in Operations("ASSIGN", 2, U)
  BY <1>8
<1>10. Conclude(tree, t) = Outcome(tree, "void", 0)
  <2>1. tree.op = "ASSIGN"
    BY <1>9 DEF Operations
  <2> HIDE DEF tree
  <2> QED BY <1>2, <2>1 DEF Conclude, Row
<1>11. Checked(e, t, m) = IF same \/ wider THEN Outcome(tree, "void", m) ELSE Outcome(tree, "error", m + 1)
  <2>1. Constrain(e, t).tree = tree /\ (Constrain(e, t).error <=> ~ (same \/ wider))
    <3> HIDE DEF same, wider, tree
    <3>1. Constrain(e, t).tree = tree /\ Constrain(e, t).error = (~ same /\ ~ wider)
      BY <1>3
    <3> QED BY <3>1, Zenon
  <2> HIDE DEF same, wider, tree
  <2>2. CASE same \/ wider
    BY <1>10, <2>1, <2>2, CheckedIs
  <2>3. CASE ~ (same \/ wider)
    BY <2>1, <2>3, CheckedIs
  <2> QED BY <2>2, <2>3
<1>12. \A i \in 1 .. 2 : tree.args[i].result = e.args[i].result
  BY <1>1, <1>8
<1>13. Complete(tree, "ASSIGN", t)
  <2>1. tree.args[1].coerced = Conversion("ASSIGN", t, 1)
    BY <1>6, <1>7, <1>8
  <2>2. tree.args[2].coerced = Conversion("ASSIGN", t, 2)
    <3> HIDE DEF same, wider
    <3> QED BY <1>6, <1>7, <1>8
  <2> HIDE DEF tree
  <2> QED BY <1>1, <2>1, <2>2 DEF Complete
<1>14. Complete(e, "ASSIGN", t) => tree = e
  <2>1. Complete(e, "ASSIGN", t) => e.args[2].coerced = Conversion("ASSIGN", t, 2)
    BY <1>1 DEF Complete
  <2> HIDE DEF same, wider
  <2> QED BY <1>6, <1>8, <2>1
<1> HIDE DEF same, wider, tree
<1> QED BY <1>5, <1>9, <1>11, <1>12, <1>13, <1>14 DEF Right, Outcome

\* The operand of the lesser type is converted to the other's, which is that of the result.
LEMMA BalancedRight ==
  ASSUME NEW U, NEW op \in Balanced, NEW e \in Operations(op, 2, U), NEW t \in [1 .. 2 -> Proper],
         Begun(e, op, t), NEW m \in Nat
  PROVE  Right(e, op, 2, U, t, m, Checked(e, t, m))
<1> DEFINE fits == \A i \in DOMAIN t : CheckType(OpInfo(op).arg, t[i])
           top == Lub(t[1], t[2])
           tree == IF ~ fits \/ t[1] = t[2] THEN e ELSE IF top = t[1] THEN Coerce(e, 2, t[1]) ELSE Coerce(e, 1, t[2])
<1>1. /\ e.op = op /\ DOMAIN t = {1, 2} /\ 1 .. 2 = {1, 2} /\ t[1] \in Types /\ t[2] \in Types
      /\ t[1] # "error" /\ t[2] # "error"
  BY DEF Operations, Proper
<1>2. /\ op \in Arithmetic => OpInfo(op) = Row("numeric", "numeric", "S", "S")
      /\ op = "MOD" => OpInfo(op) = Row("integral", "integral", "S", "2")
      /\ op = "BITAND" => OpInfo(op) = Row("integral", "integral", "S", "s")
      /\ op \in {"BITOR", "BITXOR"} => OpInfo(op) = Row("integral", "integral", "S", "S")
  BY DEF OpInfo, Logical, Comparisons, Shifts, Arithmetic
<1>3. /\ OpInfo(op).args = "S" /\ OpInfo(op).result \in {"s", "S", "2"} /\ OpInfo(op).out = OpInfo(op).arg
      /\ OpInfo(op).result = "2" <=> op = "MOD"
      /\ op \in Arithmetic => OpInfo(op).arg = "numeric"
      /\ op \notin Arithmetic => OpInfo(op).arg = "integral"
  BY <1>2 DEF Row, Balanced, Bitwise2, Arithmetic
<1>4. /\ op \in Arithmetic => (fits <=> \A i \in DOMAIN t : IsNumeric(t[i]))
      /\ op \notin Arithmetic => (fits <=> \A i \in DOMAIN t : IsIntegral(t[i]))
  BY <1>3 DEF CheckType
<1>5. fits => IsNumeric(t[1]) /\ IsNumeric(t[2])
  BY <1>1, <1>4, Kinds
<1>6. Gives(op, t) = IF fits THEN top ELSE "error"
  <2>1. CASE op \in Arithmetic
    <3> HIDE DEF fits, top
    <3>1. OpTyping(op, t) = IF \A i \in DOMAIN t : IsNumeric(t[i]) THEN Lub(t[1], t[2]) ELSE "error"
      BY <2>1 DEF OpTyping, Logical, Comparisons, Shifts, Arithmetic, Bitwise2
    <3>2. Gives(op, t) = OpTyping(op, t)
      BY <2>1, GivenIs DEF Arithmetic
    <3> QED BY <1>4, <2>1, <3>1, <3>2 DEF top
  <2>2. CASE op \in Bitwise2 \cup {"MOD"}
    <3> HIDE DEF fits, top
    <3>1. Gives(op, t) = IF \A i \in DOMAIN t : IsIntegral(t[i]) THEN Lub(t[1], t[2]) ELSE "error"
      <4>1. CASE op = "BITAND"
        BY <1>1, <4>1, GivenIs
      <4>2. CASE op # "BITAND"
        <5>1. Gives(op, t) = OpTyping(op, t)
          BY <2>2, <4>2, GivenIs DEF Bitwise2
        <5> QED BY <2>2, <4>2, <5>1 DEF OpTyping, Logical, Comparisons, Shifts, Arithmetic, Bitwise2
      <4> QED BY <4>1, <4>2
    <3>2. op \notin Arithmetic
      BY <2>2 DEF Arithmetic, Bitwise2
    <3> QED BY <1>4, <3>1, <3>2 DEF top
  <2> QED BY <2>1, <2>2 DEF Balanced
<1>7. fits => /\ top \in {t[1], t[2]} /\ MostGeneral(t) = top
              /\ IsSubType(t[2], t[1]) <=> top = t[1]
              /\ IsSubType(t[1], t[2]) <=> top = t[2]
              /\ (Tag(t[1]) = Tag(t[2])) <=> t[1] = t[2]
  <2> SUFFICES ASSUME fits
               PROVE /\ top \in {t[1], t[2]} /\ MostGeneral(t) = top
                     /\ IsSubType(t[2], t[1]) <=> top = t[1]
                     /\ IsSubType(t[1], t[2]) <=> top = t[2]
                     /\ (Tag(t[1]) = Tag(t[2])) <=> t[1] = t[2]
    OBVIOUS
  <2>1. IsNumeric(t[1]) /\ IsNumeric(t[2])
    BY <1>5
  <2>2. /\ top \in {t[1], t[2]}
        /\ IsSubType(t[2], t[1]) <=> top = t[1]
        /\ IsSubType(t[1], t[2]) <=> top = t[2]
    BY <1>1, <2>1, Greater
  <2>3. MostGeneral(t) = top
    <3> HIDE DEF top
    <3> QED BY <2>2 DEF MostGeneral
  <2>4. (Tag(t[1]) = Tag(t[2])) <=> t[1] = t[2]
    BY <1>1, <2>1, SubTypes
  <2> QED BY <2>2, <2>3, <2>4
<1>8. Constrain(e, t) = [tree |-> tree, error |-> ~ fits]
  <2>1. Constrain(e, t) = [tree |-> IF ~ fits \/ Tag(t[1]) = Tag(t[2]) THEN e
                                    ELSE IF IsSubType(t[2], t[1]) THEN Coerce(e, 2, t[1])
                                    ELSE IF IsSubType(t[1], t[2]) THEN Coerce(e, 1, t[2]) ELSE e,
                           error |-> ~ fits]
    BY <1>1, <1>3 DEF Constrain
  <2> HIDE DEF fits, top
  <2> QED BY <1>7, <2>1
<1>9. \A i \in {1, 2} : Conversion(op, t, i) = IF ~ fits \/ t[i] = top THEN "none" ELSE top
  <2>1. fits => top # "error"
    BY <1>1, <1>7
  <2> HIDE DEF fits, top
  <2> QED BY <1>6, <2>1 DEF Conversion
<1>10. \A i \in {1, 2} : e.args[i].coerced \in {"none", Conversion(op, t, i)}
  BY <1>1 DEF Begun
<1>11. /\ Coerce(e, 2, t[1]) \in Operations(op, 2, U)
       /\ Coerce(e, 2, t[1]).args[2].coerced = t[1] /\ Coerce(e, 2, t[1]).args[2].result = e.args[2].result
       /\ Coerce(e, 2, t[1]).args[1] = e.args[1]
       /\ e.args[2].coerced = t[1] => Coerce(e, 2, t[1]) = e
  BY <1>1, Converts
<1>12. /\ Coerce(e, 1, t[2]) \in Operations(op, 2, U)
       /\ Coerce(e, 1, t[2]).args[1].coerced = t[2] /\ Coerce(e, 1, t[2]).args[1].result = e.args[1].result
       /\ Coerce(e, 1, t[2]).args[2] = e.args[2]
       /\ e.args[1].coerced = t[2] => Coerce(e, 1, t[2]) = e
  BY <1>1, Converts
<1>13. tree \in Operations(op, 2, U) /\ \A i \in 1 .. 2 : tree.args[i].result = e.args[i].result
  BY <1>1, <1>11, <1>12
<1>14. \A i \in {1, 2} : tree.args[i].coerced = Conversion(op, t, i)
  <2>1. CASE ~ fits \/ t[1] = t[2]
    <3>1. tree = e
      BY <2>1
    <3>2. \A i \in {1, 2} : Conversion(op, t, i) = "none"
      <4> HIDE DEF fits, top
      <4> QED BY <1>7, <1>9, <2>1
    <3> HIDE DEF tree
    <3> QED BY <1>10, <3>1, <3>2
  <2>2. CASE fits /\ t[1] # t[2] /\ top = t[1]
    <3>1. tree = Coerce(e, 2, t[1])
      BY <2>2
    <3>2. Conversion(op, t, 1) = "none" /\ Conversion(op, t, 2) = t[1]
      <4> HIDE DEF fits, top
      <4> QED BY <1>9, <2>2
    <3> HIDE DEF tree, fits, top
    <3> QED BY <1>10, <1>11, <3>1, <3>2
  <2>3. CASE fits /\ t[1] # t[2] /\ top # t[1]
    <3>1. tree = Coerce(e, 1, t[2])
      BY <2>3
    <3>2. Conversion(op, t, 1) = t[2] /\ Conversion(op, t, 2) = "none"
      <4> HIDE DEF fits, top
      <4> QED BY <1>7, <1>9, <2>3
    <3> HIDE DEF tree, fits, top
    <3> QED BY <1>10, <1>12, <3>1, <3>2
  <2> HIDE DEF fits, top, tree
  <2> QED BY <2>1, <2>2, <2>3
<1>15. Complete(e, op, t) => tree = e
  <2>1. Complete(e, op, t) => e.args[1].coerced = Conversion(op, t, 1) /\ e.args[2].coerced = Conversion(op, t, 2)
    BY <1>1 DEF Complete
  <2>2. CASE ~ fits \/ t[1] = t[2]
    BY <2>2
  <2>3. CASE fits /\ t[1] # t[2] /\ top = t[1]
    <3>1. tree = Coerce(e, 2, t[1])
      BY <2>3
    <3>2. Conversion(op, t, 2) = t[1]
      <4> HIDE DEF fits, top
      <4> QED BY <1>9, <2>3
    <3> HIDE DEF tree, fits, top
    <3> QED BY <1>11, <2>1, <3>1, <3>2
  <2>4. CASE fits /\ t[1] # t[2] /\ top # t[1]
    <3>1. tree = Coerce(e, 1, t[2])
      BY <2>4
    <3>2. Conversion(op, t, 1) = t[2]
      <4> HIDE DEF fits, top
      <4> QED BY <1>7, <1>9, <2>4
    <3> HIDE DEF tree, fits, top
    <3> QED BY <1>12, <2>1, <3>1, <3>2
  <2> HIDE DEF fits, top, tree
  <2> QED BY <2>2, <2>3, <2>4
<1>16. fits => Conclude(tree, t) = Outcome(tree, top, 0)
  <2> SUFFICES ASSUME fits PROVE Conclude(tree, t) = Outcome(tree, top, 0)
    OBVIOUS
  <2>1. tree.op = op
    BY <1>13 DEF Operations
  <2>2. CASE op # "MOD"
    <3>1. OpInfo(tree.op).result \in {"s", "S"}
      BY <1>3, <2>1, <2>2
    <3> HIDE DEF tree, top, fits
    <3> QED BY <1>7, <3>1 DEF Conclude
  <2>3. CASE op = "MOD"
    <3>1. OpInfo(tree.op).result = "2" /\ OpInfo(tree.op).out = "integral"
      BY <1>2, <2>1, <2>3 DEF Row
    <3>2. tree.args[2].coerced = IF t[2] = top THEN "none" ELSE top
      <4> HIDE DEF tree, top, fits
      <4> QED BY <1>9, <1>14
    <3>3. top # "none"
      <4>1. t[1] # "none" /\ t[2] # "none"
        BY <1>1, TypesAre DEF Native
      <4> HIDE DEF top, fits
      <4> QED BY <1>7, <4>1
    <3>4. (IF tree.args[2].coerced # "none" THEN tree.args[2].coerced ELSE t[2]) = top
      <4> HIDE DEF tree, top, fits
      <4> QED BY <3>2, <3>3
    <3>5. CheckType("integral", top)
      <4>1. IsIntegral(t[1]) /\ IsIntegral(t[2])
        BY <1>1, <1>4, <2>3 DEF Arithmetic
      <4>2. IsIntegral(top)
        <5> HIDE DEF top, fits
        <5> QED BY <1>7, <4>1
      <4> HIDE DEF top, fits
      <4> QED BY <4>2 DEF CheckType
    <3> HIDE DEF tree, top, fits
    <3> QED BY <3>1, <3>4, <3>5 DEF Conclude
  <2> QED BY <2>2, <2>3
<1>17. Checked(e, t, m) = IF fits THEN Outcome(tree, top, m) ELSE Outcome(tree, "error", m + 1)
  <2>1. Constrain(e, t).tree = tree /\ (Constrain(e, t).error <=> ~ fits)
    <3> HIDE DEF fits, tree
    <3>1. Constrain(e, t).tree = tree /\ Constrain(e, t).error = ~ fits
      BY <1>8
    <3> QED BY <3>1, Zenon
  <2> HIDE DEF fits, tree, top
  <2>2. CASE fits
    BY <1>16, <2>1, <2>2, CheckedIs
  <2>3. CASE ~ fits
    BY <2>1, <2>3, CheckedIs
  <2> QED BY <2>2, <2>3
<1>18. fits => top # "error"
  <2> HIDE DEF fits, top
  <2> QED BY <1>1, <1>7
<1> HIDE DEF fits, tree, top
<1> QED BY <1>1, <1>6, <1>13, <1>14, <1>15, <1>17, <1>18 DEF Right, Complete, Outcome

\* Every operation.
LEMMA EveryRight ==
  ASSUME NEW U, NEW op \in Unary \cup Binary, NEW n \in Nat, n = Arity(op), NEW e \in Operations(op, n, U),
         NEW t \in [1 .. n -> Proper], Begun(e, op, t), NEW m \in Nat
  PROVE  Right(e, op, n, U, t, m, Checked(e, t, m))
<1>1. CASE op \in Logical \cup {"NOT"} \cup Comparisons \cup Shifts \cup {"BITNOT"}
  BY <1>1, PlainRight
<1>2. CASE op = "UMINUS"
  <2>1. n = 1
    BY <1>2 DEF Arity, Unary
  <2> QED BY <1>2, <2>1, SignRight
<1>3. CASE op = "ASSIGN"
  <2>1. n = 2
    BY <1>3 DEF Arity, Unary
  <2> QED BY <1>3, <2>1, AssignRight
<1>4. CASE op \in Balanced
  <2>1. n = 2
    BY <1>4 DEF Arity, Unary, Balanced, Arithmetic, Bitwise2
  <2> QED BY <1>4, <2>1, BalancedRight
<1> QED BY <1>1, <1>2, <1>3, <1>4 DEF Unary, Binary, Balanced

----------------------------------------------------------------------------
(* The theorems about operations. *)

\* An operation to be checked: its operands have the types t and are not converted.
Unchecked(e, op, n, U, t) ==
  /\ n = Arity(op) /\ e \in Operations(op, n, U) /\ t \in [1 .. n -> Proper]
  /\ Fresh(e) /\ \A i \in 1 .. n : e.args[i].result = t[i]

\* Whatever the classes of the program and whatever the operands are, OpNode::typeCheck says one message exactly if the
\* typing rules give the operation no type, and its type is theirs exactly if it is neither an & of two different
\* types, of which it is the most general and not the least, nor a ~ of a number that is not an unsigned int, of whose
\* type it is.
THEOREM OperationsTyped ==
  ASSUME NEW U, NEW op \in Unary \cup Binary, NEW n \in Nat, NEW e, NEW t, Unchecked(e, op, n, U, t), NEW m \in Nat,
         NEW c, c = Checked(e, t, m), NEW rule, rule = OpTyping(op, t)
  PROVE  /\ c.msgs = IF rule = "error" THEN m + 1 ELSE m
         /\ c.type = rule <=> rule = "error" \/ ~ Departs(op, t)
         /\ c.type # rule => c.type = IF op = "BITAND" THEN Lub(t[1], t[2]) ELSE t[1]
<1>1. Begun(e, op, t)
  BY DEF Unchecked, Fresh, Begun, Operations
<1>2. Right(e, op, n, U, t, m, c)
  BY <1>1, EveryRight DEF Unchecked
<1>3. c.type = Gives(op, t) /\ c.msgs = (IF c.type = "error" THEN m + 1 ELSE m)
  BY <1>2 DEF Right
<1>4. CASE rule = "error"
  BY <1>3, <1>4 DEF Gives
<1>5. CASE rule # "error" /\ ~ Departs(op, t)
  BY <1>3, <1>5 DEF Gives
<1>6. CASE rule # "error" /\ Departs(op, t)
  <2>1. c.type = IF op = "BITAND" THEN Lub(t[1], t[2]) ELSE t[1]
    BY <1>3, <1>6 DEF Gives
  <2>2. CASE op = "BITAND"
    <3>1. rule = Glb(t[1], t[2]) /\ t[1] # t[2]
      BY <1>6, <2>2 DEF OpTyping, Departs, Logical, Comparisons, Shifts, Arithmetic, Bitwise2
    <3>2. t[1] # "error" /\ t[2] # "error"
      <4>1. n = 2
        BY <2>2 DEF Unchecked, Arity, Unary
      <4> QED BY <4>1 DEF Unchecked, Proper
    <3>3. c.type # rule /\ c.type # "error"
      BY <2>1, <2>2, <3>1, <3>2 DEF Lub, Glb
    <3> QED BY <1>3, <1>6, <2>1, <3>3
  <2>3. CASE op # "BITAND"
    <3>1. op = "BITNOT" /\ t[1] # "uint"
      BY <1>6, <2>3 DEF Departs
    <3>2. rule = "uint"
      BY <1>6, <3>1 DEF OpTyping, Logical, Comparisons, Shifts, Arithmetic, Bitwise2
    <3>3. t[1] # "error"
      <4>1. 1 \in 1 .. n
        BY DEF Unchecked, Arity
      <4> QED BY <4>1 DEF Unchecked, Proper
    <3> QED BY <1>3, <1>6, <2>1, <2>3, <3>1, <3>2, <3>3
  <2> QED BY <2>2, <2>3
<1> QED BY <1>4, <1>5, <1>6

\* After the check of an operation that has a type, code generation finds both operands of an arithmetic or bitwise
\* operation in the type of the result, and an assigned value in that of the variable: one instruction serves.
THEOREM OperandsConverted ==
  ASSUME NEW U, NEW op \in Unary \cup Binary, NEW n \in Nat, NEW e, NEW t, Unchecked(e, op, n, U, t), NEW m \in Nat,
         NEW c, c = Checked(e, t, m), c.type # "error"
  PROVE  /\ op \in Arithmetic \cup Bitwise2 \cup {"MOD"} => \A i \in {1, 2} : Effective(c.tree.args[i]) = c.type
         /\ op \in {"UMINUS", "BITNOT"} => Effective(c.tree.args[1]) = c.type
         /\ op = "ASSIGN" => Tag(Effective(c.tree.args[2])) = Tag(Effective(c.tree.args[1]))
<1>1. Begun(e, op, t)
  BY DEF Unchecked, Fresh, Begun, Operations
<1>2. Right(e, op, n, U, t, m, c)
  BY <1>1, EveryRight DEF Unchecked
<1>3. /\ c.type = Gives(op, t) /\ n = Arity(op) /\ DOMAIN t = 1 .. n
      /\ \A i \in 1 .. n : c.tree.args[i].result = t[i] /\ c.tree.args[i].coerced = Conversion(op, t, i)
  BY <1>2 DEF Right, Complete, Unchecked
<1>4. \A i \in 1 .. n : t[i] \in Types /\ t[i] # "none"
  <2>1. \A i \in 1 .. n : t[i] \in Types
    BY DEF Unchecked, Proper
  <2> QED BY <2>1, TypesAre DEF Native
<1>5. c.type # "none"
  <2>1. "none" \notin {"bool", "void", "error", "int"}
    OBVIOUS
  <2>2. 1 \in 1 .. n /\ (n = 1 \/ 2 \in 1 .. n)
    BY <1>3 DEF Arity
  <2>3. n = 1 => op \in Unary
    BY <1>3 DEF Arity
  <2>4. Gives(op, t) \in {"bool", "void", "error", "int", t[1]} \cup (IF n = 1 THEN {} ELSE {t[2]})
    <3>1. CASE op \in Arithmetic \cup Bitwise2 \cup {"MOD"}
      <4>1. n = 2
        BY <1>3, <3>1 DEF Arity, Unary, Arithmetic, Bitwise2
      <4>2. Gives(op, t) \in {"error", Glb(t[1], t[2]), Lub(t[1], t[2])}
        BY <3>1 DEF Gives, Departs, OpTyping, Logical, Comparisons, Shifts, Arithmetic, Bitwise2
      <4> QED BY <4>1, <4>2 DEF Glb, Lub
    <3>2. CASE op = "UMINUS"
      <4>1. Gives(op, t) \in {"error", Lub(t[1], "int")}
        BY <3>2, GivenIs DEF OpTyping, Logical, Comparisons, Shifts, Arithmetic, Bitwise2
      <4> QED BY <4>1 DEF Lub
    <3>3. CASE op = "BITNOT"
      BY <3>3, GivenIs
    <3>4. CASE op \notin Arithmetic \cup Bitwise2 \cup {"MOD"} /\ op \notin {"UMINUS", "BITNOT"}
      <4>1. Gives(op, t) = OpTyping(op, t)
        BY <3>4, GivenIs DEF Bitwise2
      <4> QED BY <3>4, <4>1 DEF OpTyping, Logical, Comparisons, Shifts, Arithmetic, Bitwise2
    <3> QED BY <3>1, <3>2, <3>3, <3>4
  <2> QED BY <1>3, <1>4, <2>1, <2>2, <2>4
<1>6. ASSUME NEW i \in 1 .. n, op \in Balanced \cup {"UMINUS"}
      PROVE  Effective(c.tree.args[i]) = c.type
  <2>1. c.tree.args[i].coerced = IF t[i] = c.type THEN "none" ELSE c.type
    BY <1>3, <1>6 DEF Conversion
  <2>2. c.tree.args[i].result = t[i]
    BY <1>3
  <2> QED BY <1>5, <2>1, <2>2 DEF Effective
<1>7. CASE op \in Arithmetic \cup Bitwise2 \cup {"MOD"}
  <2>1. 1 .. n = {1, 2} /\ op \notin {"UMINUS", "BITNOT", "ASSIGN"}
    BY <1>3, <1>7 DEF Arity, Unary, Arithmetic, Bitwise2
  <2> QED BY <1>6, <1>7, <2>1 DEF Balanced
<1>8. CASE op = "UMINUS"
  <2>1. 1 \in 1 .. n
    BY <1>3 DEF Arity
  <2> QED BY <1>6, <1>8, <2>1 DEF Arithmetic, Bitwise2
<1>9. CASE op = "BITNOT"
  <2>1. 1 \in 1 .. n
    BY <1>3 DEF Arity
  <2>2. Conversion(op, t, 1) = "none"
    BY <1>9 DEF Conversion, Balanced, Arithmetic, Bitwise2
  <2>3. Effective(c.tree.args[1]) = t[1]
    BY <1>3, <2>1, <2>2 DEF Effective
  <2>4. Gives(op, t) \in {t[1], "error"}
    BY <1>9, GivenIs
  <2> QED BY <1>3, <1>9, <2>3, <2>4 DEF Arithmetic, Bitwise2
<1>10. CASE op = "ASSIGN"
  <2>1. 1 .. n = {1, 2}
    BY <1>3, <1>10 DEF Arity, Unary
  <2>2. op \notin Balanced \cup {"UMINUS"}
    BY <1>10 DEF Balanced, Arithmetic, Bitwise2
  <2>3. Conversion(op, t, 1) = "none" /\ Conversion(op, t, 2) = IF Tag(t[1]) # Tag(t[2]) THEN t[1] ELSE "none"
    BY <1>3, <1>10, <2>2 DEF Conversion
  <2>4. Effective(c.tree.args[1]) = t[1]
    BY <1>3, <2>1, <2>3 DEF Effective
  <2>5. Tag(Effective(c.tree.args[2])) = Tag(t[1])
    BY <1>3, <1>4, <2>1, <2>3 DEF Effective
  <2> QED BY <1>10, <2>2, <2>4, <2>5 DEF Balanced
<1>11. CASE op \notin Arithmetic \cup Bitwise2 \cup {"MOD"} /\ op \notin {"UMINUS", "BITNOT", "ASSIGN"}
  BY <1>11
<1> QED BY <1>7, <1>8, <1>9, <1>10, <1>11

\* Checking an operation again, as arguments of calls are, finds the same type and the same conversions.
THEOREM CheckedAgain ==
  ASSUME NEW U, NEW op \in Unary \cup Binary, NEW n \in Nat, NEW e, NEW t, Unchecked(e, op, n, U, t), NEW m \in Nat
  PROVE  /\ Checked(Checked(e, t, m).tree, t, m).tree = Checked(e, t, m).tree
         /\ Checked(Checked(e, t, m).tree, t, m).type = Checked(e, t, m).type
<1> DEFINE once == Checked(e, t, m).tree
<1>1. Begun(e, op, t) /\ n = Arity(op) /\ t \in [1 .. n -> Proper] /\ e \in Operations(op, n, U)
  BY DEF Unchecked, Fresh, Begun, Operations
<1>2. Right(e, op, n, U, t, m, Checked(e, t, m))
  BY <1>1, EveryRight
<1>3. once \in Operations(op, n, U) /\ Complete(once, op, t) /\ Checked(e, t, m).type = Gives(op, t)
  BY <1>2 DEF Right
<1> HIDE DEF once
<1>4. Begun(once, op, t)
  BY <1>3 DEF Begun, Complete
<1>5. Right(once, op, n, U, t, m, Checked(once, t, m))
  BY <1>1, <1>3, <1>4, EveryRight
<1>6. Checked(once, t, m).tree = once /\ Checked(once, t, m).type = Gives(op, t)
  BY <1>3, <1>5 DEF Right
<1> QED BY <1>3, <1>6 DEF once
===============================================================================
