------------------------------- MODULE MCPipe -------------------------------
(* Writes shorter and longer than the pipe. *)
EXTENDS Pipe

MCMessage == {<<0>>, <<0, 1, 1>>}
=============================================================================
