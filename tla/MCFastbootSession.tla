-------------------------- MODULE MCFastbootSession --------------------------
(* An image of six blocks for TLC, which a client sends in two pieces: two *)
(* blocks of data, two left out, one of data, one left out.                *)
EXTENDS FastbootSession

Raw(at, len)  == [kind |-> "raw", at |-> at, len |-> len]
Skip(at, len) == [kind |-> "skip", at |-> at, len |-> len]

MCPieces == << <<Raw(0, 2), Skip(2, 4)>>, <<Skip(0, 4), Raw(4, 1), Skip(5, 1)>> >>
=============================================================================
