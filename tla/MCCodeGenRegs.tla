--------------------------- MODULE MCCodeGenRegs ---------------------------
(* Instances of CodeGenRegs for TLC: one function with a parameter and a  *)
(* temporary and access to the globals, and the global section.            *)
EXTENDS CodeGenRegs, TLC

CONSTANTS gi, gm, gf, p, t, fun, gs

MCVar == {gi, gm, gf, p, t}
MCModule == {fun, gs}
MCIsFloat == [v \in MCVar |-> v = gf]
MCKind == gi :> "GLOBAL_REG" @@ gf :> "GLOBAL_REG" @@ gm :> "GLOBAL_MEM"
          @@ p :> "PARAM" @@ t :> "TEMP"
MCOwner == [v \in MCVar |-> IF v \in {p, t} THEN fun ELSE NoModule]
MCModKind == fun :> "function" @@ gs :> "globalsec"
MCParams == fun :> <<p>> @@ gs :> <<>>
=============================================================================
