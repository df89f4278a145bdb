----------------------------- MODULE Diagnostics -----------------------------
(***************************************************************************)
(* Diagnostic consumers.  A diagnostic has a level and a location; its     *)
(* text and its notes, which are always printed right after it, are left   *)
(* out.  A consumer either passes what it gets straight on to the error    *)
(* stream, or keeps it and passes it on, sorted, when it is flushed.       *)
(***************************************************************************)
EXTENDS Integers, Sequences, FiniteSets

DiagnosticLevel == {"Note", "Warning", "Error"}

StreamDiagnosticConsumer == [sorting |-> FALSE, diagnostics |-> <<>>]

SortingDiagnosticConsumer == [sorting |-> TRUE, diagnostics |-> <<>>]

(* ErrorTrackingDiagnosticConsumer::seen_error, after these diagnostics. *)
SeenError(diagnostics) == \E i \in DOMAIN diagnostics : diagnostics[i].level = "Error"

(* The consumer after it handled these diagnostics, and what it printed. *)
HandleDiagnostics(consumer, diagnostics) ==
  IF consumer.sorting THEN [consumer EXCEPT !.diagnostics = @ \o diagnostics] ELSE consumer

PrintedAtOnce(consumer, diagnostics) == IF consumer.sorting THEN <<>> ELSE diagnostics

(* The order of locations: by line, then by column. *)
IsBefore(d, e) == d.line < e.line \/ (d.line = e.line /\ d.column < e.column)

(* Mutant: at one location the last one reported goes first. *)
GoesBeforeUnstably(ds, i, j) ==
  IsBefore(ds[i], ds[j]) \/ (~IsBefore(ds[j], ds[i]) /\ i > j)

(* The order of llvm::stable_sort: at one location as reported. *)
GoesBefore(ds, i, j) ==
  IsBefore(ds[i], ds[j]) \/ (~IsBefore(ds[j], ds[i]) /\ i < j)

Place(ds, i) == Cardinality({ j \in DOMAIN ds : GoesBefore(ds, j, i) }) + 1

StableSort(ds) == [ k \in DOMAIN ds |-> ds[CHOOSE i \in DOMAIN ds : Place(ds, i) = k] ]

(* What Flush prints, and the consumer after it. *)
FlushPrints(consumer) == StableSort(consumer.diagnostics)

Flushed(consumer) == [consumer EXCEPT !.diagnostics = <<>>]

=============================================================================
