--------------------------- MODULE MCCallProtocol ---------------------------
(* Programs for CallProtocol.  The rule m has a parameter a, the functions  *)
(* f and g share its registers; q is a global in a register of its own.     *)
EXTENDS CallProtocol, TLC

CONSTANTS a, x, y, t, z, q,      \* variables
          m, f, g,               \* functions
          ra, rb, rc, rq,        \* registers
          v0, v1,                \* values
          s1, s2, s3, s4, s5     \* call sites

MCVar == {a, x, y, t, z, q}
MCLocals == m :> {a} @@ f :> {x, y, t} @@ g :> {z}
MCFormals == m :> <<>> @@ f :> <<x, y>> @@ g :> <<z>>
MCRegOf == a :> ra @@ x :> ra @@ y :> rb @@ t :> rc @@ z :> ra @@ q :> rq
MCAddress == a :> 1 @@ x :> 3 @@ y :> 2 @@ t :> 4 @@ z :> 5 @@ q :> 6

At(from, to, args, result, entry) ==
  [from |-> from, to |-> to, args |-> args, result |-> result, entry |-> entry]

\* m:  f(a, v1)    f:  t = f(y, x)    f:  q = g(x)
\* f:  x = f(x, y), x mentioned before    g:  f(z, v0), z late
MCCall == s1 :> At(m, f, <<a, v1>>, NoVar, {a})
       @@ s2 :> At(f, f, <<y, x>>, t, {x, y, q})
       @@ s3 :> At(f, g, <<x>>, q, {x, y, t})
       @@ s4 :> At(g, f, <<z, v0>>, NoVar, {})
       @@ s5 :> At(f, f, <<x, y>>, x, {x, y})
=============================================================================
