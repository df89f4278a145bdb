------------------------------- MODULE MCDriver -------------------------------
(***************************************************************************)
(* Two files; reports of up to two diagnostics on two lines, in the wrong  *)
(* order and at the same location; each phase, each dump, each kind of     *)
(* output; two files of the same stem.                                     *)
(***************************************************************************)
EXTENDS DriverProperties

D(line, level) == [line |-> line, column |-> 1, level |-> level]

MCReports == { <<>>, <<D(1, "Error")>>, <<D(2, "Error"), D(1, "Error")>>, <<D(1, "Warning")>> }

MCInputNames == { [stem |-> stem, extension |-> ".carbon"] : stem \in {"a", "b"} } \union
                { [stem |-> "a", extension |-> ".o"] }

Compile(phase) ==
  [input_file_names |-> <<[stem |-> "a", extension |-> ".carbon"],
                          [stem |-> "b", extension |-> ".carbon"]>>,
   phase |-> phase, dumps |-> {}, stream_errors |-> FALSE, verbose |-> FALSE, target |-> "valid",
   output |-> "", asm_output |-> FALSE, force_obj_output |-> FALSE]

Dumping(phase, dumps) == [Compile(phase) EXCEPT !.dumps = dumps]

MCOptions ==
  { Compile(phase) : phase \in 1 .. 5 } \union
  { Dumping(1, {"dump_parse_tree"}), Dumping(2, {"dump_sem_ir"}), Dumping(3, {"dump_llvm_ir"}),
    Dumping(1, {"dump_tokens", "dump_raw_sem_ir"}),
    Dumping(3, {"dump_tokens", "dump_parse_tree"}),
    Dumping(4, {"dump_parse_tree", "dump_sem_ir", "dump_raw_sem_ir", "dump_llvm_ir"}) } \union
  { [Compile(3) EXCEPT !.stream_errors = TRUE], [Compile(2) EXCEPT !.verbose = TRUE],
    [Compile(5) EXCEPT !.target = "invalid"],
    [Compile(5) EXCEPT !.output = "-"],
    [Compile(5) EXCEPT !.output = "-", !.force_obj_output = TRUE],
    [Compile(5) EXCEPT !.output = "file", !.asm_output = TRUE],
    [Compile(5) EXCEPT !.input_file_names[2] = [stem |-> "a", extension |-> ".o"]] }

=============================================================================
