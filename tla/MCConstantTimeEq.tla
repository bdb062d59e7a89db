-------------------------- MODULE MCConstantTimeEq --------------------------
(***************************************************************************)
(* ConstantTimeEq for all pairs of strings of up to three bytes 0 or 1.    *)
(***************************************************************************)
EXTENDS ConstantTimeEq

CONSTANT MaxLength

MCByte    == {0, 1}
MCStrings == UNION {[1 .. n -> MCByte] : n \in 0 .. MaxLength}
=============================================================================
