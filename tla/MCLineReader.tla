---------------------------- MODULE MCLineReader ----------------------------
(* Every stream of up to four bytes, in reads of up to three.              *)
EXTENDS LineReader

MCStreams == UNION {[1..n -> Byte] : n \in 0..4}
=============================================================================
