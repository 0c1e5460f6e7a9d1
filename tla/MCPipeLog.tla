----------------------------- MODULE MCPipeLog -----------------------------
(* A small instance of PipeLog for TLC: lines of one and two bytes, a file *)
(* that holds fewer than MaxSize bytes, blocks of two bytes.               *)
EXTENDS PipeLog

CONSTANTS w1, w2, r1

LineSize == [l \in 1..MaxLines |-> 1 + (l % 2)]

\* Everything, or the last line.
AskedLines == {-1, 1}
=============================================================================
