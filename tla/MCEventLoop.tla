----------------------------- MODULE MCEventLoop -----------------------------
(* Programs for EventLoop: a letter can also be a byte of a parameter.      *)
EXTENDS EventLoop, TLC

CONSTANTS a, b, c                \* events

\* a has a parameter of each type, b has one rule and no parameter, c none.
MCLetter == a :> 97 @@ b :> 98 @@ c :> 99
MCParams == a :> <<"int", "double">> @@ b :> <<>> @@ c :> <<>>
MCRules == <<b, a>>

\* The low byte of a word is the fraction of a float.
MCWhole == [w \in [1 .. WORD -> Byte] |-> [w EXCEPT ![1] = 0]]
=============================================================================
