-------------------------------- MODULE Driver --------------------------------
(***************************************************************************)
(* Driver::RunCommand, the compile subcommand and its compilation units.   *)
(* The phases run over all the files before the next phase begins; which   *)
(* diagnostics a phase reports about a file, and whether the file system   *)
(* and LLVM do what they are asked, is not determined here.                *)
(***************************************************************************)
EXTENDS Diagnostics

CONSTANTS
  Files,      (* how many input files the command line names               *)
  InputNames, (* the names of files it may give: [stem, extension], what   *)
              (* is before and after the last dot                          *)
  Options,    (* the options it may give                                   *)
  Reports     (* what a phase may report about a file: sequences of        *)
              (* [line, column, level]                                     *)

ASSUME FilesAssumption == Files \in Nat \ {0}

ASSUME ReportsAssumption ==
  Reports \subseteq Seq([line : Int, column : Int, level : DiagnosticLevel])

VARIABLES
  options,    (* Driver::Options                                           *)
  pc,         (* the step of Compile                                       *)
  unit,       (* the unit the loop of the step is at                       *)
  units,      (* for each unit, what it has: source, tokens...             *)
  consumers,  (* for each unit, its consumer_                              *)
  success,    (* success_before_lower, then codegen_success                *)
  result,     (* what RunCommand returns                                   *)
  log,        (* what was written to the error and output streams          *)
  outputs,    (* what the output files hold                                *)
  reported    (* history: the diagnostics of each unit, as they came       *)

vars == <<options, pc, unit, units, consumers, success, result, log, outputs, reported>>

Units == 1 .. Files

(* The dump flags, and the first phase that makes what they dump. *)
DumpPhase ==
  [dump_tokens |-> 1, dump_parse_tree |-> 2, dump_raw_sem_ir |-> 3, dump_sem_ir |-> 3,
   dump_llvm_ir |-> 4, dump_asm |-> 5]

(* CompileOptions: the input files, the same one or ones of the same stem  *)
(* among them or not, the phase by its number, the dumps that are wanted,  *)
(* the output file ("" for the default one, "-" for the output stream).    *)
OptionRecords ==
  [input_file_names : [Units -> InputNames],
   phase : 1 .. 5, dumps : SUBSET DOMAIN DumpPhase, stream_errors : BOOLEAN, verbose : BOOLEAN,
   target : {"valid", "invalid"}, output : {"", "-", "file"}, asm_output : BOOLEAN,
   force_obj_output : BOOLEAN]

ASSUME OptionsAssumption == Options \subseteq OptionRecords

(* The output files: the one that --output names, and the default ones.  A *)
(* file is not there, is empty, or holds the code of a unit.               *)
NamedFile == [stem |-> "file", extension |-> ""]

replace_extension(name, extension) == [stem |-> name.stem, extension |-> extension]

OutputNames ==
  {NamedFile} \union
  { replace_extension(name, extension) : name \in InputNames, extension \in {".s", ".o"} }

NoFile    == [unit |-> 0, form |-> "no file"]
EmptyFile == [unit |-> 0, form |-> "empty"]

(* The error stream's messages that are not diagnostics. *)
Message(what) == <<[kind |-> "message", what |-> what]>>

Dump(u, flag) == IF flag \in options.dumps THEN <<[kind |-> "dump", unit |-> u, what |-> flag]>> ELSE <<>>

Init ==
  /\ options \in Options
  /\ pc = "args"
  /\ unit = 1
  /\ units = [ u \in Units |-> {} ]
  /\ consumers = [ u \in Units |-> StreamDiagnosticConsumer ]
  /\ success = TRUE
  /\ result = "none"
  /\ log = <<>>
  /\ outputs = [ name \in OutputNames |-> NoFile ]
  /\ reported = [ u \in Units |-> <<>> ]

(* Mutant: the scope exit does not flush the units. *)
LeaveWithoutFlush(value) == pc' = "destroy" /\ result' = value

(* Compile is left with this result: its scope exit flushes the units. *)
Leave(value) == pc' = "flush" /\ result' = value

Succeeded(value) == IF value THEN "true" ELSE "false"

-----------------------------------------------------------------------------
(* RunCommand, ParseArgs *)

ParseArgs ==
  /\ pc = "args"
  /\ \/ /\ log' = log \o Message("command line error")
        /\ pc' = "done"
        /\ result' = "false"
     \/ /\ log' = log \o <<[kind |-> "dump", unit |-> 0, what |-> "help"]>>
        /\ pc' = "done"
        /\ result' = "true"
     \/ pc' = "validate" /\ UNCHANGED <<log, result>>
  /\ UNCHANGED <<options, unit, units, consumers, success, outputs, reported>>

(* The dumps that ValidateCompileOptions refuses. *)
RefusedDumps ==
  { flag \in {"dump_parse_tree", "dump_sem_ir", "dump_llvm_ir"} \intersect options.dumps :
      DumpPhase[flag] > options.phase }

(* Mutant: the reason is not given. *)
ValidateSilently ==
  /\ pc = "validate"
  /\ IF RefusedDumps = {} THEN /\ pc' = "Lex"
                               /\ consumers' = [ u \in Units |-> SortingDiagnosticConsumer ]
                               /\ UNCHANGED <<result, log>>
     ELSE /\ pc' = "done"
          /\ result' = "false"
          /\ UNCHANGED <<consumers, log>>
  /\ UNCHANGED <<options, unit, units, success, outputs, reported>>

(* ValidateCompileOptions, then the construction of the units. *)
Validate ==
  /\ pc = "validate"
  /\ \/ /\ RefusedDumps # {}
        /\ log' = log \o Message("dump of a later phase")
        /\ pc' = "done"
        /\ result' = "false"
        /\ UNCHANGED consumers
     \/ /\ RefusedDumps = {}
        /\ pc' = "Lex"
        /\ consumers' = [ u \in Units |-> IF options.verbose \/ options.stream_errors
                                          THEN StreamDiagnosticConsumer
                                          ELSE SortingDiagnosticConsumer ]
        /\ UNCHANGED <<log, result>>
  /\ UNCHANGED <<options, unit, units, success, outputs, reported>>

-----------------------------------------------------------------------------
(* CompilationUnit *)

(* The unit's diagnostics of a report, in the order they are emitted. *)
Diagnosed(u, phase, report) ==
  [ i \in DOMAIN report |->
      [kind |-> "diagnostic", unit |-> u, phase |-> phase, nr |-> Len(reported[u]) + i,
       line |-> report[i].line, column |-> report[i].column, level |-> report[i].level] ]

(* The unit reports ds, flushes its consumer if flush, and writes dumps. *)
Report(ds, flush, dumps) ==
  LET c == HandleDiagnostics(consumers[unit], ds)
  IN  /\ consumers' = [consumers EXCEPT ![unit] = IF flush THEN Flushed(c) ELSE c]
      /\ log' = log \o PrintedAtOnce(c, ds) \o (IF flush THEN FlushPrints(c) ELSE <<>>) \o dumps
      /\ reported' = [reported EXCEPT ![unit] = @ \o ds]

Has(artifact) == artifact \in units[unit]

Make(artifacts) == units' = [units EXCEPT ![unit] = @ \union artifacts]

AtUnit(step) == pc = step /\ unit <= Files

(* The unit is done with the step. *)
Advance(ok) == success' = (success /\ ok) /\ unit' = unit + 1 /\ UNCHANGED pc

(* A CHECK failed. *)
Abort == pc' = "aborted" /\ UNCHANGED <<unit, units, consumers, success, log, outputs, reported>>

LoadErrors == {"ErrorOpeningFile", "ErrorStattingFile", "FileTooLarge", "ErrorReadingFile"}

(* The diagnostics of the lexer and the parser are all errors. *)
ErrorReports == { r \in Reports : \A i \in DOMAIN r : r[i].level = "Error" }

(* SourceBuffer::CreateFromFile fails; the diagnostic has no line. *)
FailToLoad ==
  /\ AtUnit("Lex")
  /\ \E what \in LoadErrors :
       Report(Diagnosed(unit, what, <<[line |-> -1, column |-> -1, level |-> "Error"]>>), FALSE, <<>>)
  /\ Advance(FALSE)
  /\ UNCHANGED <<options, units, result, outputs>>

(* The dump of the tokens is not written. *)
RunLex ==
  /\ AtUnit("Lex")
  /\ Make({"source", "tokens"})
  /\ \E r \in ErrorReports :
       /\ Report(Diagnosed(unit, "Lex", r), "dump_tokens" \in options.dumps, <<>>)
       /\ Advance(~SeenError(r))
  /\ UNCHANGED <<options, result, outputs>>

(* RunParse and RunCheck of a file that was not loaded. *)
SkipUnloaded ==
  /\ AtUnit("Parse") \/ AtUnit("Check")
  /\ ~Has("source")
  /\ Advance(FALSE)
  /\ UNCHANGED <<options, units, consumers, result, log, outputs, reported>>

(* Mutant: the tree is dumped before the diagnostics are flushed. *)
RunParseWithoutFlush ==
  /\ AtUnit("Parse")
  /\ Has("source")
  /\ Make({"parse_tree"})
  /\ \E r \in ErrorReports :
       /\ Report(Diagnosed(unit, "Parse", r), FALSE, Dump(unit, "dump_parse_tree"))
       /\ Advance(~SeenError(r))
  /\ UNCHANGED <<options, result, outputs>>

(* The tree has errors only if some were reported, but errors of operators *)
(* are reported without marking it.                                        *)
RunParse ==
  /\ AtUnit("Parse")
  /\ Has("source")
  /\ IF Has("tokens")
     THEN /\ Make({"parse_tree"})
          /\ \E r \in ErrorReports : \E has_errors \in {FALSE, SeenError(r)} :
               /\ Report(Diagnosed(unit, "Parse", r), "dump_parse_tree" \in options.dumps,
                         Dump(unit, "dump_parse_tree"))
               /\ Advance(~has_errors)
          /\ UNCHANGED outputs
     ELSE Abort
  /\ UNCHANGED <<options, result>>

RunCheck ==
  /\ AtUnit("Check")
  /\ Has("source")
  /\ IF Has("parse_tree")
     THEN /\ Make({"sem_ir"})
          /\ \E r \in Reports :
               /\ Report(Diagnosed(unit, "Check", r), TRUE,
                         Dump(unit, "dump_raw_sem_ir") \o Dump(unit, "dump_sem_ir"))
               /\ Advance(~SeenError(r))
          /\ UNCHANGED outputs
     ELSE Abort
  /\ UNCHANGED <<options, result>>

RunLower ==
  /\ AtUnit("Lower")
  /\ IF Has("sem_ir")
     THEN /\ Make({"module"})
          /\ Report(<<>>, FALSE, Dump(unit, "dump_llvm_ir"))
          /\ Advance(TRUE)
          /\ UNCHANGED outputs
     ELSE Abort
  /\ UNCHANGED <<options, result>>

(* Mutant: the default file is named after the first input. *)
OutputFileOfFirst(u) ==
  IF options.output = "file" THEN NamedFile
  ELSE replace_extension(options.input_file_names[1], IF options.asm_output THEN ".s" ELSE ".o")

(* The file a unit's code goes to, unless it goes to the output stream:    *)
(* files of the same stem have the same default one.                       *)
OutputFile(u) ==
  IF options.output = "file" THEN NamedFile
  ELSE replace_extension(options.input_file_names[u], IF options.asm_output THEN ".s" ELSE ".o")

(* EmitAssembly or EmitObject. *)
OutputForm ==
  IF options.output = "-" THEN (IF options.force_obj_output THEN "object" ELSE "assembly")
  ELSE (IF options.asm_output THEN "assembly" ELSE "object")

Code(u) == [unit |-> u, form |-> OutputForm]

(* RunCodeGen fails: the target is unknown, the file is not opened, or     *)
(* LLVM cannot emit to it, which leaves an empty file.                     *)
FailCodeGen(what) ==
  /\ Report(<<>>, FALSE, Message(what))
  /\ Advance(FALSE)

RunCodeGen ==
  /\ AtUnit("CodeGen")
  /\ \/ ~Has("module") /\ Abort
     \/ /\ Has("module")
        /\ options.target = "invalid"
        /\ FailCodeGen("invalid target")
        /\ UNCHANGED <<units, outputs>>
     \/ /\ Has("module")
        /\ options.target = "valid"
        /\ options.output # "-"
        /\ FailCodeGen("could not open output file")
        /\ UNCHANGED <<units, outputs>>
     \/ /\ Has("module")
        /\ options.target = "valid"
        /\ FailCodeGen("unable to emit")
        /\ outputs' = IF options.output = "-" THEN outputs
                      ELSE [outputs EXCEPT ![OutputFile(unit)] = EmptyFile]
        /\ UNCHANGED units
     \/ /\ Has("module")
        /\ options.target = "valid"
        /\ IF options.output = "-"
           THEN /\ Report(<<>>, FALSE, <<[kind |-> "code", code |-> Code(unit)]>>)
                /\ UNCHANGED outputs
           ELSE /\ Report(<<>>, FALSE, <<>>)
                /\ outputs' = [outputs EXCEPT ![OutputFile(unit)] = Code(unit)]
        /\ Advance(TRUE)
        /\ UNCHANGED units
  /\ UNCHANGED <<options, result>>

-----------------------------------------------------------------------------
(* Compile *)

(* A step has gone over all the units: the end, or the next step. *)
EndStep(step, phase, next) ==
  /\ pc = step
  /\ unit = Files + 1
  /\ unit' = 1
  /\ IF options.phase = phase THEN Leave(Succeeded(success)) ELSE pc' = next /\ UNCHANGED result
  /\ UNCHANGED <<options, units, consumers, success, log, outputs, reported>>

(* Mutant: errors of the lexer end the compilation. *)
EndLexAtErrors == EndStep("Lex", IF success THEN 1 ELSE options.phase, "Parse")

EndLex == EndStep("Lex", 1, "Parse")

EndParse == EndStep("Parse", 2, "Check")

EndCheck == EndStep("Check", 3, "errors")

(* Mutant: errors do not block further progress. *)
ProceedToLowerAnyway ==
  /\ pc = "errors"
  /\ pc' = "Lower"
  /\ UNCHANGED <<options, unit, units, consumers, success, result, log, outputs, reported>>

(* Errors block further progress. *)
ProceedToLower ==
  /\ pc = "errors"
  /\ IF success THEN pc' = "Lower" /\ UNCHANGED result ELSE Leave("false")
  /\ UNCHANGED <<options, unit, units, consumers, success, log, outputs, reported>>

(* codegen_success starts as true; so is success here. *)
EndLower == EndStep("Lower", 4, IF options.phase = 5 THEN "CodeGen" ELSE "aborted")

EndCodeGen ==
  /\ pc = "CodeGen"
  /\ unit = Files + 1
  /\ unit' = 1
  /\ Leave(Succeeded(success))
  /\ UNCHANGED <<options, units, consumers, success, log, outputs, reported>>

(* The scope exit: the units are flushed in the order of the arguments. *)
FlushUnit ==
  /\ AtUnit("flush")
  /\ Report(<<>>, TRUE, <<>>)
  /\ unit' = unit + 1
  /\ UNCHANGED <<options, pc, units, success, result, outputs>>

EndFlush ==
  /\ pc = "flush"
  /\ unit = Files + 1
  /\ pc' = "destroy"
  /\ UNCHANGED <<options, unit, units, consumers, success, result, log, outputs, reported>>

(* The units are destroyed, and with them the sorting consumers, which     *)
(* must be empty.                                                          *)
DestroyUnits ==
  /\ pc = "destroy"
  /\ pc' = IF \A u \in Units : consumers[u].diagnostics = <<>> THEN "done" ELSE "aborted"
  /\ UNCHANGED <<options, unit, units, consumers, success, result, log, outputs, reported>>

Ended == pc \in {"done", "aborted"}

Terminated == Ended /\ UNCHANGED vars

Next ==
  \/ ParseArgs
  \/ Validate
  \/ FailToLoad
  \/ RunLex
  \/ EndLex
  \/ SkipUnloaded
  \/ RunParse
  \/ EndParse
  \/ RunCheck
  \/ EndCheck
  \/ ProceedToLower
  \/ RunLower
  \/ EndLower
  \/ RunCodeGen
  \/ EndCodeGen
  \/ FlushUnit
  \/ EndFlush
  \/ DestroyUnits
  \/ Terminated

Spec == Init /\ [][Next]_vars

=============================================================================
