--------------------------- MODULE DriverProperties ---------------------------
(***************************************************************************)
(* What the driver promises of its error stream, its outputs and its       *)
(* result.                                                                 *)
(***************************************************************************)
EXTENDS Driver

IsDiagnostic(entry) == entry.kind = "diagnostic"

PhaseNumber(d) ==
  CASE d.phase = "Check" -> 3 [] d.phase = "Parse" -> 2 [] OTHER -> 1

-----------------------------------------------------------------------------

(* No COCKTAIL_CHECK of Driver.cc fails: each phase finds what the one     *)
(* before made, although it also runs after failures, and a sorting        *)
(* consumer is empty when it is destroyed, however Compile is left.        *)
ChecksHold == pc # "aborted"

(* Every diagnostic a phase reports is printed once, as it was reported,   *)
(* neither lost in a consumer's buffer nor printed again by a later Flush. *)
PrintedOnce ==
  /\ \A i \in DOMAIN log : IsDiagnostic(log[i]) =>
       /\ log[i].nr \in DOMAIN reported[log[i].unit]
       /\ log[i] = reported[log[i].unit][log[i].nr]
       /\ \A j \in 1 .. i - 1 : log[j] # log[i]
  /\ pc = "done" =>
       \A u \in Units : \A k \in DOMAIN reported[u] :
         \E i \in DOMAIN log : log[i] = reported[u][k]

(* A dump between their phases makes d come before e in any case. *)
DumpSeparates(d, e) ==
  \E flag \in {"dump_tokens", "dump_parse_tree"} \intersect options.dumps :
    PhaseNumber(d) <= DumpPhase[flag] /\ DumpPhase[flag] < PhaseNumber(e)

(* May e be printed after d?  They come in the order of their locations,   *)
(* and at the same location as they were reported, except that a dump      *)
(* makes the ones before it come first; streamed ones come as reported.    *)
InOrder(d, e) ==
  IF options.verbose \/ options.stream_errors THEN d.nr < e.nr
  ELSE \/ DumpSeparates(d, e)
       \/ /\ ~DumpSeparates(e, d)
          /\ IsBefore(d, e) \/ (~IsBefore(e, d) /\ d.nr < e.nr)

(* The diagnostics of a file are printed in order, those of other files in *)
(* between or not.                                                         *)
PrintedInOrder ==
  \A j \in DOMAIN log : \A i \in 1 .. j - 1 :
    IsDiagnostic(log[i]) /\ IsDiagnostic(log[j]) /\ log[i].unit = log[j].unit =>
      InOrder(log[i], log[j])

(* The error stream tells the user of each diagnostic once, in its place. *)
DiagnosticsArePrinted == PrintedOnce /\ PrintedInOrder

(* What is dumped of a phase is written after everything that was reported *)
(* about the file up to that phase.                                        *)
DumpsFollowDiagnostics ==
  \A i \in DOMAIN log : log[i].kind = "dump" =>
    \A j \in i + 1 .. Len(log) :
      ~ /\ IsDiagnostic(log[j])
        /\ log[j].unit = log[i].unit
        /\ PhaseNumber(log[j]) <= DumpPhase[log[i].what]

(* If the operation fails, some information about the failure is printed   *)
(* to the error stream (Driver.h), whichever of the steps it was.          *)
FailureIsExplained ==
  pc = "done" /\ result = "false" =>
    \E i \in DOMAIN log : \/ log[i].kind = "message"
                          \/ IsDiagnostic(log[i]) /\ log[i].level = "Error"

(* No file is lowered, and no output file is touched, once the lexer or    *)
(* the checker reported an error about any of the files, or one did not    *)
(* load.                                                                   *)
NoCodeFromErrors ==
  (\E u \in Units : \E i \in DOMAIN reported[u] :
     reported[u][i].phase # "Parse" /\ reported[u][i].level = "Error") =>
  /\ \A u \in Units : "module" \notin units[u]
  /\ \A name \in DOMAIN outputs : outputs[name] = NoFile

(* Errors do not keep the other files, nor the other phases before         *)
(* lowering, from being processed; and success means that every file got   *)
(* through all the phases that were asked for.                             *)
PhasesAreComplete ==
  pc = "done" =>
    \A u \in Units :
      /\ "source" \in units[u] /\ options.phase >= 2 => "parse_tree" \in units[u]
      /\ "source" \in units[u] /\ options.phase >= 3 => "sem_ir" \in units[u]
      /\ result = "true" /\ units # [ v \in Units |-> {} ] =>
           {"tokens", "parse_tree", "sem_ir", "module"} \intersect units[u] =
           {"tokens"} \union (IF options.phase >= 2 THEN {"parse_tree"} ELSE {})
                      \union (IF options.phase >= 3 THEN {"sem_ir"} ELSE {})
                      \union (IF options.phase >= 4 THEN {"module"} ELSE {})

(* Do two files write their code to the same output file?  --output names  *)
(* one for all, and the default is the input's name up to its extension.   *)
ShareOutput(u, v) ==
  options.output = "file" \/ options.input_file_names[u].stem = options.input_file_names[v].stem

(* After a successful code generation the code of each file is where it    *)
(* was asked for: it was written to the stream, or a file of the right     *)
(* name holds it, unless a later input shares its output file and so took  *)
(* its place.  A failure on one file is not hidden by the success of the   *)
(* next.                                                                   *)
CodeIsDelivered ==
  /\ pc = "done"
  /\ result = "true"
  /\ options.phase = 5
  /\ units # [ u \in Units |-> {} ]
  => \A u \in Units :
       IF options.output = "-" THEN \E i \in DOMAIN log : log[i] = [kind |-> "code", code |-> Code(u)]
       ELSE \/ \E name \in DOMAIN outputs :
                 /\ outputs[name] = Code(u)
                 /\ options.output # "file" => name.stem = options.input_file_names[u].stem
            \/ \E v \in u + 1 .. Files : ShareOutput(u, v)

=============================================================================
