---------------------------- MODULE MCKeyReader ----------------------------
(* Every stdin of up to four bytes, for a buffer with room for three.      *)
EXTENDS KeyReader

MCByte == {"k", "nl", "cr", "bad"}
MCInputs == UNION {[1..n -> MCByte] : n \in 0..4}
=============================================================================
