------------------------------ MODULE Pipeline ------------------------------
(***************************************************************************)
(* The parser, the checker and the lowering one after the other, as the    *)
(* driver runs them on one file: the checker visits the tree the parser    *)
(* built whether or not the parser found errors, and errors of either keep *)
(* the file from being lowered.                                            *)
(***************************************************************************)
EXTENDS Lower

CONSTANT Programs   (* token buffers, each with the texts of its tokens *)

VARIABLES position, state_stack, has_errors, diagnosed, status

parseVars == <<position, state_stack, has_errors, diagnosed, status>>

vars == <<checkVars, parseVars, lw>>

TokenBuffers == { p.tokens : p \in Programs }

P == INSTANCE Parser WITH nodes <- tree

Init ==
  /\ \E p \in Programs : tokens = p.tokens /\ texts = p.texts
  /\ P!Init
  /\ cx = CheckStart
  /\ visited = 0
  /\ outcome = "checking"
  /\ lw = NotLowering

(* RunParse *)
Parse ==
  /\ P!Declaration \/ P!Expression \/ P!Statement \/ P!Finish
  /\ UNCHANGED <<texts, cx, visited, outcome, lw>>

(* RunCheck *)
CheckTree == status = "done" /\ CheckNext /\ UNCHANGED <<parseVars, lw>>

Successful == status = "done" /\ ~has_errors /\ outcome = "done" /\ ~cx.ir.has_errors

(* RunLower *)
LowerFile == Successful /\ LowerNext /\ UNCHANGED <<checkVars, parseVars>>

Ended ==
  \/ status = "aborted"
  \/ outcome # "checking" /\ ~Successful
  \/ lw.phase \in {"done", "aborted"}

Terminated == Ended /\ UNCHANGED vars

Next == Parse \/ CheckTree \/ LowerFile \/ Terminated

Spec == Init /\ [][Next]_vars

=============================================================================
