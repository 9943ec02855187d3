------------------------------- MODULE MCScanner -------------------------------
(* Texts for the scanner: a line marker as the preprocessor writes first, then up to MaxPieces pieces,
   in a string and out of one. *)
EXTENDS ScannedText

CONSTANTS MaxPieces

Pieces == {"if", "3", ".", "e", "-", ">", "\"", "\\", "n", "%", "\\x41", "\\x0", " ", "\n",
           "\n# 7 \"g\" 2\n", "\n#pragma p\n"}
RECURSIVE Joined(_)
Joined(n) == IF n = 0 THEN {""} ELSE LET less == Joined(n - 1) IN less \cup {t \o p : t \in less, p \in Pieces}
MCTexts == UNION {{"# 1 \"f\"\n" \o t, "# 1 \"f\"\n\"" \o t \o "\""} : t \in Joined(MaxPieces)}
================================================================================
