----------------------------- MODULE DriverProofs -----------------------------
(***************************************************************************)
(* The invariants of the driver hold for any number of files, any options  *)
(* and whatever the phases report.                                         *)
(***************************************************************************)
EXTENDS DriverProperties, FiniteSetTheorems, FunctionTheorems, SequenceTheorems,
        TLAPS

Artifacts == {"source", "tokens", "parse_tree", "sem_ir", "module"}

Loaded  == {"source", "tokens"}
Parsed  == Loaded \union {"parse_tree"}
Checked == Parsed \union {"sem_ir"}
Lowered == Checked \union {"module"}

Steps == {"args", "validate", "Lex", "Parse", "Check", "errors", "Lower", "CodeGen",
          "flush", "destroy", "done"}

Location == [line : Int, column : Int, level : DiagnosticLevel]

Diagnostic ==
  [kind : {"diagnostic"}, unit : Units, phase : {"Lex", "Parse", "Check"} \union LoadErrors,
   nr : Nat, line : Int, column : Int, level : DiagnosticLevel]

Messages ==
  {"command line error", "dump of a later phase", "invalid target", "could not open output file",
   "unable to emit"}

Forms == {"no file", "empty", "object", "assembly"}

Entry ==
  Diagnostic \union
  [kind : {"message"}, what : Messages] \union
  [kind : {"dump"}, unit : {0} \union Units, what : DOMAIN DumpPhase \union {"help"}] \union
  [kind : {"code"}, code : [unit : Units, form : Forms]]

TypeOK ==
  /\ options \in Options
  /\ pc \in Steps
  /\ unit \in 1 .. Files + 1
  /\ units \in [Units -> SUBSET Artifacts]
  /\ consumers \in [Units -> [sorting : BOOLEAN, diagnostics : Seq(Diagnostic)]]
  /\ success \in BOOLEAN
  /\ result \in {"none", "true", "false"}
  /\ log \in Seq(Entry)
  /\ outputs \in [OutputNames -> [unit : {0} \union Units, form : Forms]]
  /\ reported \in [Units -> Seq(Diagnostic)]

-----------------------------------------------------------------------------
(* The phases *)

Started == pc \notin {"args", "validate"}

Left == pc \in {"flush", "destroy", "done"}

(* What the units have at each step. *)
ArtifactsInv ==
  \A u \in Units :
    /\ ~Started => units[u] = {}
    /\ pc = "Lex"   => units[u] \in (IF u < unit THEN {{}, Loaded} ELSE {{}})
    /\ pc = "Parse" => units[u] \in (IF u < unit THEN {{}, Parsed} ELSE {{}, Loaded})
    /\ pc = "Check" => units[u] \in (IF u < unit THEN {{}, Checked} ELSE {{}, Parsed})
    /\ pc = "errors" => units[u] \in {{}, Checked}
    /\ pc = "Lower" => units[u] = (IF u < unit THEN Lowered ELSE Checked)
    /\ pc = "CodeGen" => units[u] = Lowered
    /\ pc \in {"Lex", "Parse", "Check", "errors"} /\ success =>
         units[u] # {} \/ (pc = "Lex" /\ u >= unit)

(* Where the loops are, and the phases that were asked for. *)
ControlInv ==
  /\ pc \in {"args", "validate", "errors"} => unit = 1
  /\ pc = "destroy" => unit = Files + 1
  /\ pc = "Parse" => options.phase >= 2
  /\ pc = "Check" => options.phase >= 3
  /\ pc \in {"errors", "Lower"} => options.phase >= 4
  /\ pc = "CodeGen" => options.phase = 5
  /\ pc = "Lower" => success
  /\ ~Started => success /\ log = <<>>

(* What the units have when Compile is left. *)
LeaveInv ==
  Left =>
    /\ result # "none"
    /\ \/ units = [ u \in Units |-> {} ] /\ pc = "done"
       \/ \A u \in Units :
            /\ units[u] = {} => result = "false"
            /\ units[u] # {} => units[u] \in {Loaded, Parsed, Checked, Lowered}
            /\ options.phase = 1 => units[u] \in {{}, Loaded}
            /\ options.phase = 2 => units[u] \in {{}, Parsed}
            /\ options.phase = 3 => units[u] \in {{}, Checked}
            /\ options.phase >= 4 => units[u] \in {{}, Checked, Lowered}
            /\ options.phase >= 4 /\ units[u] = Checked => result = "false"

-----------------------------------------------------------------------------
(* Errors *)

Reporting == pc \in {"Lex", "Parse", "Check"}

BlockingError ==
  \E u \in Units : \E i \in DOMAIN reported[u] :
    reported[u][i].phase # "Parse" /\ reported[u][i].level = "Error"

ErrorReported ==
  \E u \in Units : \E i \in DOMAIN reported[u] : reported[u][i].level = "Error"

MessageWritten == \E i \in DOMAIN log : log[i].kind = "message"

NoOutputs == \A name \in DOMAIN outputs : outputs[name] = NoFile

OutputsInv == pc # "CodeGen" /\ ~Left => NoOutputs

ErrorsInv ==
  BlockingError =>
    /\ Reporting \/ pc = "errors" => ~success
    /\ pc \notin {"Lower", "CodeGen"}
    /\ Left => NoOutputs /\ \A u \in Units : "module" \notin units[u]

ExplainedInv ==
  /\ (Reporting \/ pc = "errors") /\ ~success => ErrorReported
  /\ pc = "CodeGen" /\ ~success => MessageWritten
  /\ Left /\ result = "false" => ErrorReported \/ MessageWritten

(* The unit's output file holds its code, or that of a later unit whose    *)
(* output file it is too.                                                  *)
Delivered(u) ==
  IF options.output = "-" THEN \E i \in DOMAIN log : log[i] = [kind |-> "code", code |-> Code(u)]
  ELSE \E v \in u .. Files : OutputFile(v) = OutputFile(u) /\ outputs[OutputFile(u)] = Code(v)

CodeInv ==
  /\ pc = "CodeGen" /\ success => \A u \in 1 .. unit - 1 : Delivered(u)
  /\ Left /\ result = "true" /\ options.phase = 5 /\ units # [ u \in Units |-> {} ] =>
       \A u \in Units : Delivered(u)

-----------------------------------------------------------------------------
(* The error stream *)

Streaming == options.verbose \/ options.stream_errors

Buffer(u) == consumers[u].diagnostics

(* How many of the unit's diagnostics were printed. *)
PrintedCount(u) == Len(reported[u]) - Len(Buffer(u))

(* The phase that reports about the unit next, 4 when none does. *)
NextPhase(u) ==
  CASE pc = "Lex"   -> IF u < unit THEN 2 ELSE 1
    [] pc = "Parse" -> IF u < unit THEN 3 ELSE 2
    [] pc = "Check" -> IF u < unit THEN 4 ELSE 3
    [] OTHER        -> 4

ReportedInv ==
  \A u \in Units :
    /\ ~Started => reported[u] = <<>>
    /\ \A k \in DOMAIN reported[u] :
         /\ reported[u][k].nr = k
         /\ reported[u][k].unit = u
         /\ PhaseNumber(reported[u][k]) < NextPhase(u)

(* A consumer holds the last diagnostics of its unit. *)
BufferInv ==
  \A u \in Units :
    /\ pc \notin {"args", "validate", "done"} => consumers[u].sorting = ~Streaming
    /\ ~consumers[u].sorting => Buffer(u) = <<>>
    /\ Len(Buffer(u)) <= Len(reported[u])
    /\ \A i \in DOMAIN Buffer(u) : Buffer(u)[i] = reported[u][PrintedCount(u) + i]

(* When a consumer is known to be empty. *)
FlushedInv ==
  \A u \in Units :
    \/ pc = "Check" /\ u < unit /\ units[u] # {}
    \/ pc = "errors" /\ units[u] # {}
    \/ pc \in {"Lower", "CodeGen", "destroy", "done"}
    \/ pc = "flush" /\ u < unit
    => Buffer(u) = <<>>

(* The log holds each of the others once. *)
LogInv ==
  \A u \in Units :
    /\ \A i \in DOMAIN log : IsDiagnostic(log[i]) /\ log[i].unit = u =>
         /\ log[i].nr \in 1 .. PrintedCount(u)
         /\ log[i] = reported[u][log[i].nr]
         /\ \A j \in 1 .. i - 1 : log[j] # log[i]
    /\ \A k \in 1 .. PrintedCount(u) : \E i \in DOMAIN log : log[i] = reported[u][k]

FlushFlags == {"dump_tokens", "dump_parse_tree"} \intersect options.dumps

(* What is kept waits for the next flush, and is separated from what was   *)
(* printed by the last one.                                                *)
SeparationInv ==
  \A u \in Units :
    /\ \A i, j \in DOMAIN Buffer(u) : ~DumpSeparates(Buffer(u)[i], Buffer(u)[j])
    /\ Reporting /\ units[u] # {} =>
         \A i \in DOMAIN Buffer(u) : \A flag \in FlushFlags :
           PhaseNumber(Buffer(u)[i]) <= DumpPhase[flag] => NextPhase(u) <= DumpPhase[flag]
    /\ ~Streaming =>
         \A i \in DOMAIN log : IsDiagnostic(log[i]) /\ log[i].unit = u =>
           /\ \A j \in DOMAIN Buffer(u) : DumpSeparates(log[i], Buffer(u)[j])
           /\ NextPhase(u) <= 3 =>
                \E flag \in FlushFlags :
                  PhaseNumber(log[i]) <= DumpPhase[flag] /\ DumpPhase[flag] < NextPhase(u)

(* No diagnostic that belongs before a dump is still to come. *)
DumpsInv ==
  \A u \in Units : \A i \in DOMAIN log : log[i].kind = "dump" /\ log[i].unit = u =>
    /\ log[i].what \in DOMAIN DumpPhase
    /\ \A j \in DOMAIN Buffer(u) : PhaseNumber(Buffer(u)[j]) > DumpPhase[log[i].what]
    /\ NextPhase(u) <= 3 => NextPhase(u) > DumpPhase[log[i].what]

StreamInv ==
  /\ ReportedInv /\ BufferInv /\ LogInv
  /\ SeparationInv /\ PrintedInOrder /\ DumpsInv /\ DumpsFollowDiagnostics

ReportInv == TypeOK /\ StreamInv

DriverInv ==
  /\ TypeOK
  /\ ArtifactsInv /\ ControlInv /\ LeaveInv /\ FlushedInv
  /\ OutputsInv /\ ErrorsInv /\ ExplainedInv /\ CodeInv
  /\ StreamInv

-----------------------------------------------------------------------------
(* The stable sort of Flush *)

(* The order of the sort is a strict total order of the positions. *)
LEMMA GoesBeforeOrder ==
  ASSUME NEW ds, NEW n \in Nat, DOMAIN ds = 1 .. n,
         \A i \in 1 .. n : ds[i].line \in Int /\ ds[i].column \in Int
  PROVE  /\ \A i \in 1 .. n : ~GoesBefore(ds, i, i)
         /\ \A i, j \in 1 .. n : i = j \/ GoesBefore(ds, i, j) \/ GoesBefore(ds, j, i)
         /\ \A i, j, k \in 1 .. n :
              GoesBefore(ds, i, j) /\ GoesBefore(ds, j, k) => GoesBefore(ds, i, k)
<1>1. \A i \in 1 .. n : ~GoesBefore(ds, i, i)
  BY DEF GoesBefore, IsBefore
<1>2. ASSUME NEW i \in 1 .. n, NEW j \in 1 .. n
      PROVE  i = j \/ GoesBefore(ds, i, j) \/ GoesBefore(ds, j, i)
  BY DEF GoesBefore, IsBefore
<1>3. ASSUME NEW i \in 1 .. n, NEW j \in 1 .. n, NEW k \in 1 .. n,
             GoesBefore(ds, i, j), GoesBefore(ds, j, k)
      PROVE  GoesBefore(ds, i, k)
  BY <1>3 DEF GoesBefore, IsBefore
<1> QED BY <1>1, <1>2, <1>3

(* An earlier position in the order has an earlier place. *)
LEMMA PlaceIsMonotone ==
  ASSUME NEW ds, NEW n \in Nat, DOMAIN ds = 1 .. n,
         \A i \in 1 .. n : ds[i].line \in Int /\ ds[i].column \in Int
  PROVE  /\ \A i \in 1 .. n : Place(ds, i) \in 1 .. n
         /\ \A i, j \in 1 .. n : GoesBefore(ds, i, j) => Place(ds, i) < Place(ds, j)
<1> DEFINE before(i) == { j \in 1 .. n : GoesBefore(ds, j, i) }
<1>1. IsFiniteSet(1 .. n) /\ Cardinality(1 .. n) = n
  BY FS_Interval
<1>2. ASSUME NEW i \in 1 .. n
      PROVE  /\ IsFiniteSet(before(i)) /\ Cardinality(before(i)) \in Nat
             /\ Cardinality(before(i)) < n
             /\ Place(ds, i) = Cardinality(before(i)) + 1
  <2>1. before(i) \in SUBSET (1 .. n) /\ i \notin before(i)
    BY GoesBeforeOrder
  <2>2. IsFiniteSet(before(i)) /\ Cardinality(before(i)) <= n /\ before(i) # 1 .. n
    BY <1>1, <2>1, FS_Subset
  <2>3. Cardinality(before(i)) \in Nat /\ Cardinality(before(i)) # n
    BY <1>1, <2>1, <2>2, FS_Subset, FS_CardinalityType
  <2>4. Place(ds, i) = Cardinality(before(i)) + 1
    BY DEF Place
  <2> QED BY <2>2, <2>3, <2>4
<1>3. ASSUME NEW i \in 1 .. n, NEW j \in 1 .. n, GoesBefore(ds, i, j)
      PROVE  Place(ds, i) < Place(ds, j)
  <2>1. before(i) \in SUBSET before(j)
    BY <1>3, GoesBeforeOrder
  <2>2. i \in before(j) /\ i \notin before(i)
    BY <1>3, GoesBeforeOrder
  <2> HIDE DEF before
  <2>3. before(i) # before(j)
    BY <2>2
  <2>4. /\ Cardinality(before(i)) <= Cardinality(before(j))
        /\ Cardinality(before(i)) # Cardinality(before(j))
    BY <1>2, <2>1, <2>3, FS_Subset
  <2>5. /\ Place(ds, i) = Cardinality(before(i)) + 1
        /\ Place(ds, j) = Cardinality(before(j)) + 1
        /\ Cardinality(before(i)) \in Nat /\ Cardinality(before(j)) \in Nat
    BY <1>2
  <2> QED BY <2>4, <2>5
<1> HIDE DEF before
<1> QED BY <1>2, <1>3

(* Sorting puts every element in one place, in the order of the sort. *)
LEMMA StableSortPermutes ==
  ASSUME NEW ds, NEW n \in Nat, DOMAIN ds = 1 .. n,
         \A i \in 1 .. n : ds[i].line \in Int /\ ds[i].column \in Int
  PROVE  \E p \in [1 .. n -> 1 .. n] :
           /\ \A i \in 1 .. n : \E k \in 1 .. n : p[k] = i
           /\ \A k, l \in 1 .. n : k < l => GoesBefore(ds, p[k], p[l])
           /\ StableSort(ds) = [ k \in 1 .. n |-> ds[p[k]] ]
<1> DEFINE place == [ i \in 1 .. n |-> Place(ds, i) ]
           p     == [ k \in 1 .. n |-> CHOOSE i \in 1 .. n : Place(ds, i) = k ]
<1>1. place \in [1 .. n -> 1 .. n]
  BY PlaceIsMonotone
<1>2. ASSUME NEW i \in 1 .. n, NEW j \in 1 .. n, place[i] = place[j]
      PROVE  i = j
  <2>1. Place(ds, i) = Place(ds, j)
    BY <1>2
  <2> HIDE DEF place, p
  <2>2. /\ Place(ds, i) \in Int
        /\ GoesBefore(ds, i, j) => Place(ds, i) < Place(ds, j)
        /\ GoesBefore(ds, j, i) => Place(ds, j) < Place(ds, i)
    BY PlaceIsMonotone
  <2>3. i = j \/ GoesBefore(ds, i, j) \/ GoesBefore(ds, j, i)
    BY GoesBeforeOrder
  <2> QED BY <2>1, <2>2, <2>3
<1>3. place \in Injection(1 .. n, 1 .. n)
  BY <1>1, <1>2, Fun_IsInj
<1>4. place \in Surjection(1 .. n, 1 .. n)
  BY <1>3, FS_Interval, FS_Injection
<1>5. \A k \in 1 .. n : \E i \in 1 .. n : Place(ds, i) = k
  BY <1>4 DEF Surjection
<1>6. \A k \in 1 .. n : p[k] \in 1 .. n /\ Place(ds, p[k]) = k
  BY <1>5
<1>7. p \in [1 .. n -> 1 .. n]
  BY <1>6
<1>8. StableSort(ds) = [ k \in 1 .. n |-> ds[p[k]] ]
  BY DEF StableSort
<1> HIDE DEF p
<1>9. \A i \in 1 .. n : \E k \in 1 .. n : p[k] = i
  <2>1. SUFFICES ASSUME NEW i \in 1 .. n
                 PROVE  p[Place(ds, i)] = i /\ Place(ds, i) \in 1 .. n
    OBVIOUS
  <2>2. Place(ds, i) \in 1 .. n
    BY PlaceIsMonotone
  <2> QED BY <1>2, <1>6, <2>2
<1>10. ASSUME NEW k \in 1 .. n, NEW l \in 1 .. n, k < l
       PROVE  GoesBefore(ds, p[k], p[l])
  <2>1. p[k] \in 1 .. n /\ p[l] \in 1 .. n /\ Place(ds, p[k]) < Place(ds, p[l])
    BY <1>6, <1>10
  <2>2. /\ Place(ds, p[k]) \in Int /\ Place(ds, p[l]) \in Int
        /\ GoesBefore(ds, p[l], p[k]) => Place(ds, p[l]) < Place(ds, p[k])
    BY <2>1, PlaceIsMonotone, SMTT(40)
  <2>3. p[k] # p[l] /\ ~GoesBefore(ds, p[l], p[k])
    BY <2>1, <2>2
  <2> QED BY <2>1, <2>3, GoesBeforeOrder
<1> QED BY <1>7, <1>8, <1>9, <1>10
-----------------------------------------------------------------------------
(* What a report does to the error stream *)

(* The diagnostics of a report know their unit, phase and number. *)
LEMMA DiagnosedProperties ==
  ASSUME TypeOK, NEW u \in Units, NEW phase \in {"Lex", "Parse", "Check"} \union LoadErrors,
         NEW report \in Seq(Location)
  PROVE  /\ Diagnosed(u, phase, report) \in Seq(Diagnostic)
         /\ Len(Diagnosed(u, phase, report)) = Len(report)
         /\ \A i \in 1 .. Len(report) :
              LET d == Diagnosed(u, phase, report)[i]
              IN  /\ d.unit = u /\ d.phase = phase /\ d.nr = Len(reported[u]) + i
                  /\ d.level = report[i].level
<1> DEFINE d(i) == [kind |-> "diagnostic", unit |-> u, phase |-> phase,
                    nr |-> Len(reported[u]) + i, line |-> report[i].line,
                    column |-> report[i].column, level |-> report[i].level]
<1>1. Len(reported[u]) \in Nat
  BY DEF TypeOK
<1>2. \A i \in 1 .. Len(report) : report[i] \in Location
  OBVIOUS
<1>3. \A i \in 1 .. Len(report) : d(i) \in Diagnostic
  BY <1>1, <1>2 DEF Diagnostic, Location
<1>4. Diagnosed(u, phase, report) = [ i \in 1 .. Len(report) |-> d(i) ]
  BY DEF Diagnosed
<1>5. Len(report) \in Nat
  OBVIOUS
<1>6. \A i \in 1 .. Len(report) :
        /\ d(i).unit = u /\ d(i).phase = phase /\ d(i).nr = Len(reported[u]) + i
        /\ d(i).level = report[i].level
  OBVIOUS
<1> HIDE DEF d
<1> QED BY <1>3, <1>4, <1>5, <1>6

(* prints has the elements of pending, each in one place: in the order of  *)
(* the sort, or as they were.                                              *)
Arranges(prints, pending, sorting) ==
  LET n == Len(pending)
  IN  \E p \in [1 .. n -> 1 .. n] :
        /\ \A i \in 1 .. n : \E k \in 1 .. n : p[k] = i
        /\ \A k, l \in 1 .. n : k < l =>
             IF sorting THEN GoesBefore(pending, p[k], p[l]) ELSE p[k] < p[l]
        /\ prints = [ k \in 1 .. n |-> pending[p[k]] ]

(* A report about w either keeps what is pending, or prints all of it. *)
ReportEffect(w, ds, flush, dumps, prints) ==
  LET pending == Buffer(w) \o ds
      sorting == consumers[w].sorting
  IN  /\ prints \in Seq(Diagnostic)
      /\ log' = log \o prints \o dumps
      /\ reported' = [reported EXCEPT ![w] = @ \o ds]
      /\ consumers' \in [Units -> [sorting : BOOLEAN, diagnostics : Seq(Diagnostic)]]
      /\ \A u \in Units \ {w} : consumers'[u] = consumers[u]
      /\ consumers'[w].sorting = sorting
      /\ \/ sorting /\ ~flush /\ prints = <<>> /\ Buffer(w)' = pending
         \/ (flush \/ ~sorting) /\ Arranges(prints, pending, sorting) /\ Buffer(w)' = <<>>

(* The sort of a sorting consumer arranges what is pending. *)
LEMMA SortArranges ==
  ASSUME NEW pending \in Seq(Diagnostic)
  PROVE  StableSort(pending) \in Seq(Diagnostic) /\ Arranges(StableSort(pending), pending, TRUE)
<1> DEFINE n == Len(pending)
<1>1. n \in Nat /\ DOMAIN pending = 1 .. n
  OBVIOUS
<1>2. \A i \in 1 .. n : pending[i] \in Diagnostic
  OBVIOUS
<1>3. \A i \in 1 .. n : pending[i].line \in Int /\ pending[i].column \in Int
  BY <1>2 DEF Diagnostic
<1> HIDE DEF n
<1>4. PICK p \in [1 .. n -> 1 .. n] :
        /\ \A i \in 1 .. n : \E k \in 1 .. n : p[k] = i
        /\ \A k, l \in 1 .. n : k < l => GoesBefore(pending, p[k], p[l])
        /\ StableSort(pending) = [ k \in 1 .. n |-> pending[p[k]] ]
  BY <1>1, <1>3, StableSortPermutes, ZenonT(60)
<1>5. StableSort(pending) \in Seq(Diagnostic)
  BY <1>1, <1>2, <1>4
<1>6. Arranges(StableSort(pending), pending, TRUE)
  BY <1>4 DEF Arranges, n
<1> QED BY <1>5, <1>6

(* A streaming consumer prints as reported, which arranges it too. *)
LEMMA IdentityArranges ==
  ASSUME NEW pending \in Seq(Diagnostic)
  PROVE  Arranges(pending, pending, FALSE)
<1> DEFINE n == Len(pending)
           p == [ k \in 1 .. n |-> k ]
<1>1. /\ p \in [1 .. n -> 1 .. n]
      /\ \A i \in 1 .. n : \E k \in 1 .. n : p[k] = i
      /\ \A k, l \in 1 .. n : k < l => p[k] < p[l]
      /\ pending = [ k \in 1 .. n |-> pending[p[k]] ]
  OBVIOUS
<1> QED BY <1>1 DEF Arranges

(* What Report does to the consumer, the streams and the history: the      *)
(* pending diagnostics are printed, arranged, or kept.                     *)
LEMMA ReportHasEffect ==
  ASSUME TypeOK, BufferInv, NEW w \in Units, unit = w, NEW ds \in Seq(Diagnostic),
         NEW flush \in BOOLEAN, NEW dumps \in Seq(Entry), Report(ds, flush, dumps)
  PROVE  \E prints : ReportEffect(w, ds, flush, dumps, prints)
<1> DEFINE c       == consumers[w]
           pending == c.diagnostics \o ds
           h       == HandleDiagnostics(c, ds)
           prints  == PrintedAtOnce(h, ds) \o (IF flush THEN FlushPrints(h) ELSE <<>>)
           after   == IF flush THEN Flushed(h) ELSE h
<1>1. /\ c \in [sorting : BOOLEAN, diagnostics : Seq(Diagnostic)]
      /\ ~c.sorting => c.diagnostics = <<>>
  BY DEF TypeOK, BufferInv, Buffer
<1>2. pending \in Seq(Diagnostic)
  BY <1>1
<1>3. /\ h \in [sorting : BOOLEAN, diagnostics : Seq(Diagnostic)]
      /\ h.sorting = c.sorting
      /\ h.diagnostics = IF c.sorting THEN pending ELSE <<>>
  BY <1>1, <1>2 DEF HandleDiagnostics
<1>4. /\ after \in [sorting : BOOLEAN, diagnostics : Seq(Diagnostic)]
      /\ after.sorting = c.sorting
      /\ after.diagnostics = IF flush THEN <<>> ELSE h.diagnostics
  <2> HIDE DEF h
  <2>1. Flushed(h) = [sorting |-> h.sorting, diagnostics |-> <<>>]
    BY <1>3 DEF Flushed
  <2>2. /\ Flushed(h) \in [sorting : BOOLEAN, diagnostics : Seq(Diagnostic)]
        /\ Flushed(h).sorting = c.sorting /\ Flushed(h).diagnostics = <<>>
    BY <1>3, <2>1
  <2>3. CASE flush
    BY <2>2, <2>3, Zenon
  <2>4. CASE ~flush
    BY <1>3, <2>4, Zenon
  <2> QED BY <2>3, <2>4
<1>5. /\ prints \in Seq(Diagnostic)
      /\ c.sorting /\ ~flush => prints = <<>>
      /\ c.sorting /\ flush => prints = StableSort(pending)
      /\ ~c.sorting => prints = ds /\ pending = ds
  <2>1. StableSort(<<>>) = <<>>
    BY DEF StableSort
  <2>2. StableSort(pending) \in Seq(Diagnostic)
    BY <1>2, SortArranges
  <2>3. CASE c.sorting
    BY <1>1, <1>3, <2>2, <2>3 DEF PrintedAtOnce, FlushPrints
  <2>4. CASE ~c.sorting
    BY <1>1, <1>3, <2>1, <2>4 DEF PrintedAtOnce, FlushPrints
  <2> QED BY <2>3, <2>4
<1>6. flush \/ ~c.sorting => Arranges(prints, pending, c.sorting)
  BY <1>1, <1>2, <1>5, SortArranges, IdentityArranges
<1>7. /\ consumers' = [consumers EXCEPT ![w] = after]
      /\ log' = log \o prints \o dumps
      /\ reported' = [reported EXCEPT ![w] = @ \o ds]
  <2>1. /\ consumers' = [consumers EXCEPT ![w] = after]
        /\ log' = log \o PrintedAtOnce(h, ds) \o (IF flush THEN FlushPrints(h) ELSE <<>>) \o dumps
        /\ reported' = [reported EXCEPT ![w] = @ \o ds]
    BY DEF Report
  <2>2. /\ PrintedAtOnce(h, ds) \in Seq(Entry)
        /\ (IF flush THEN FlushPrints(h) ELSE <<>>) \in Seq(Entry)
        /\ log \in Seq(Entry)
    <3>1. Seq(Diagnostic) \subseteq Seq(Entry)
      BY DEF Entry
    <3>2. FlushPrints(h) \in Seq(Diagnostic)
      BY <1>3, SortArranges DEF FlushPrints
    <3> QED BY <3>1, <3>2 DEF PrintedAtOnce, TypeOK
  <2> HIDE DEF h, after
  <2> DEFINE a == PrintedAtOnce(h, ds)
             b == IF flush THEN FlushPrints(h) ELSE <<>>
  <2>3. a \in Seq(Entry) /\ b \in Seq(Entry) /\ log \in Seq(Entry)
    BY <2>2
  <2>4. prints = a \o b /\ log' = ((log \o a) \o b) \o dumps
    BY <2>1
  <2> HIDE DEF a, b, prints
  <2>5. (log \o a) \o b = log \o (a \o b)
    BY <2>3, ConcatAssociative, SMTT(40)
  <2> QED BY <2>1, <2>4, <2>5
<1> HIDE DEF c, h, prints, after
<1>8. /\ consumers' \in [Units -> [sorting : BOOLEAN, diagnostics : Seq(Diagnostic)]]
      /\ \A u \in Units \ {w} : consumers'[u] = consumers[u]
      /\ consumers'[w] = after
  BY <1>4, <1>7 DEF TypeOK
<1> QED BY <1>3, <1>4, <1>5, <1>6, <1>7, <1>8 DEF ReportEffect, Buffer, c
-----------------------------------------------------------------------------
(* The report of ds about w goes on where the unit's diagnostics ended. *)
Continues(w, ds) ==
  /\ ds \in Seq(Diagnostic)
  /\ \A i \in 1 .. Len(ds) : ds[i].unit = w /\ ds[i].nr = Len(reported[w]) + i

NoDiagnostics(dumps) ==
  dumps \in Seq(Entry) /\ \A i \in 1 .. Len(dumps) : ~IsDiagnostic(dumps[i])

(* Where the entries of the new log come from. *)
LogGrows(prints, dumps) ==
  LET n == Len(log)
      m == Len(prints)
      l == Len(dumps)
  IN  /\ n \in Nat /\ m \in Nat /\ l \in Nat
      /\ log' \in Seq(Entry) /\ Len(log') = n + m + l
      /\ DOMAIN log' = 1 .. n + m + l
      /\ \A i \in 1 .. n : log'[i] = log[i]
      /\ \A k \in 1 .. m : log'[n + k] = prints[k]
      /\ \A k \in 1 .. l : log'[n + m + k] = dumps[k]
      /\ \A i \in DOMAIN log' : \/ i \in 1 .. n
                                \/ \E k \in 1 .. m : i = n + k
                                \/ \E k \in 1 .. l : i = n + m + k

(* The log grows by what is printed, then by the dumps. *)
LEMMA LogOfReport ==
  ASSUME TypeOK, NEW w, NEW ds, NEW flush, NEW dumps \in Seq(Entry), NEW prints,
         ReportEffect(w, ds, flush, dumps, prints)
  PROVE  LogGrows(prints, dumps)
<1> DEFINE n == Len(log)
           m == Len(prints)
<1>1. prints \in Seq(Entry)
  BY DEF ReportEffect, Entry
<1>2. log \in Seq(Entry) /\ log' = (log \o prints) \o dumps
  BY DEF ReportEffect, TypeOK
<1>3. n \in Nat /\ m \in Nat /\ Len(dumps) \in Nat
  BY <1>1, <1>2
<1>4. /\ log \o prints \in Seq(Entry) /\ Len(log \o prints) = n + m
      /\ \A i \in 1 .. n : (log \o prints)[i] = log[i]
      /\ \A k \in 1 .. m : (log \o prints)[n + k] = prints[k]
  BY <1>1, <1>2
<1>5. /\ log' \in Seq(Entry) /\ Len(log') = n + m + Len(dumps)
      /\ DOMAIN log' = 1 .. n + m + Len(dumps)
  BY <1>2, <1>4
<1>6. \A i \in 1 .. n + m : log'[i] = (log \o prints)[i]
  BY <1>2, <1>4
<1>7. \A k \in 1 .. Len(dumps) : log'[n + m + k] = dumps[k]
  BY <1>2, <1>4
<1> HIDE DEF n, m
<1>8. \A i \in 1 .. n : log'[i] = log[i]
  BY <1>3, <1>4, <1>6, SMTT(40)
<1>9. ASSUME NEW k \in 1 .. m
      PROVE  log'[n + k] = prints[k]
  <2>1. n + k \in 1 .. n + m
    BY <1>3
  <2> QED BY <1>4, <1>6, <2>1
<1>10. ASSUME NEW i \in 1 .. n + m + Len(dumps)
       PROVE  \/ i \in 1 .. n
              \/ \E k \in 1 .. m : i = n + k
              \/ \E k \in 1 .. Len(dumps) : i = n + m + k
  <2>1. CASE i \in n + 1 .. n + m
    <3>1. i - n \in 1 .. m /\ i = n + (i - n)
      BY <1>3, <2>1
    <3> QED BY <3>1
  <2>2. CASE i > n + m
    <3>1. i - (n + m) \in 1 .. Len(dumps) /\ i = n + m + (i - (n + m))
      BY <1>3, <2>2
    <3> QED BY <3>1
  <2> QED BY <1>3, <2>1, <2>2
<1> QED BY <1>3, <1>5, <1>7, <1>8, <1>9, <1>10 DEF n, m, LogGrows

(* What is pending is the rest of what was reported, and ds. *)
LEMMA PendingIsReported ==
  ASSUME TypeOK, BufferInv, NEW w \in Units, NEW ds, Continues(w, ds),
         NEW flush, NEW dumps, NEW prints, ReportEffect(w, ds, flush, dumps, prints)
  PROVE  LET pending == Buffer(w) \o ds
         IN  /\ pending \in Seq(Diagnostic)
             /\ PrintedCount(w) \in Nat
             /\ Len(reported[w]) \in Nat /\ Len(ds) \in Nat
             /\ Len(pending) \in Nat
             /\ reported' \in [Units -> Seq(Diagnostic)]
             /\ \A u \in Units \ {w} : /\ reported'[u] = reported[u]
                                       /\ Buffer(u)' = Buffer(u)
                                       /\ PrintedCount(u)' = PrintedCount(u)
             /\ Len(reported'[w]) = Len(reported[w]) + Len(ds)
             /\ Len(reported'[w]) = PrintedCount(w) + Len(pending)
             /\ \A k \in 1 .. Len(reported[w]) : reported'[w][k] = reported[w][k]
             /\ \A k \in 1 .. Len(ds) : reported'[w][Len(reported[w]) + k] = ds[k]
             /\ \A i \in 1 .. Len(pending) : pending[i] = reported'[w][PrintedCount(w) + i]
             /\ PrintedCount(w)' = Len(reported'[w]) - Len(Buffer(w)')
<1> DEFINE B == Buffer(w)
           R == reported[w]
           pending == B \o ds
<1>1. /\ B \in Seq(Diagnostic) /\ R \in Seq(Diagnostic) /\ ds \in Seq(Diagnostic)
      /\ Len(B) <= Len(R) /\ \A i \in 1 .. Len(B) : B[i] = R[Len(R) - Len(B) + i]
  <2>1. B \in Seq(Diagnostic) /\ R \in Seq(Diagnostic) /\ ds \in Seq(Diagnostic)
    BY DEF TypeOK, Buffer, Continues
  <2>2. Len(B) <= Len(R) /\ \A i \in DOMAIN B : B[i] = R[Len(R) - Len(B) + i]
    BY DEF BufferInv, PrintedCount
  <2> HIDE DEF B, R
  <2>3. DOMAIN B = 1 .. Len(B)
    BY <2>1
  <2> QED BY <2>1, <2>2, <2>3
<1>2. reported' = [reported EXCEPT ![w] = R \o ds] /\ reported'[w] = R \o ds
  BY DEF ReportEffect, TypeOK
<1>3. /\ reported' \in [Units -> Seq(Diagnostic)]
      /\ \A u \in Units \ {w} : reported'[u] = reported[u] /\ Buffer(u)' = Buffer(u)
  BY <1>1, <1>2 DEF TypeOK, ReportEffect, Buffer
<1>4. \A u \in Units \ {w} : PrintedCount(u)' = PrintedCount(u)
  BY <1>3 DEF PrintedCount
<1>5. PrintedCount(w) = Len(R) - Len(B) /\ PrintedCount(w)' = Len(reported'[w]) - Len(Buffer(w)')
  BY DEF PrintedCount
<1> HIDE DEF B, R
<1>6. /\ pending \in Seq(Diagnostic) /\ Len(pending) = Len(B) + Len(ds)
      /\ \A i \in 1 .. Len(B) : pending[i] = B[i]
      /\ \A i \in Len(B) + 1 .. Len(pending) : pending[i] = ds[i - Len(B)]
  BY <1>1
<1>7. /\ Len(R \o ds) = Len(R) + Len(ds)
      /\ \A k \in 1 .. Len(R) : (R \o ds)[k] = R[k]
      /\ \A k \in 1 .. Len(ds) : (R \o ds)[Len(R) + k] = ds[k]
  BY <1>1
<1>8. Len(R) \in Nat /\ Len(B) \in Nat /\ Len(ds) \in Nat /\ Len(pending) \in Nat
  BY <1>1, <1>6
<1> HIDE DEF pending
<1>9. ASSUME NEW i \in 1 .. Len(pending)
      PROVE  pending[i] = (R \o ds)[Len(R) - Len(B) + i]
  <2>1. CASE i <= Len(B)
    <3>1. pending[i] = B[i] /\ i \in 1 .. Len(B)
      BY <1>6, <1>8, <2>1
    <3>2. Len(R) - Len(B) + i \in 1 .. Len(R)
      BY <1>1, <1>8, <2>1
    <3> QED BY <1>1, <1>7, <3>1, <3>2
  <2>2. CASE i > Len(B)
    <3>1. pending[i] = ds[i - Len(B)] /\ i - Len(B) \in 1 .. Len(ds)
      BY <1>6, <1>8, <2>2
    <3>2. Len(R) - Len(B) + i = Len(R) + (i - Len(B))
      BY <1>8
    <3> QED BY <1>7, <3>1, <3>2
  <2>3. i \in Int /\ Len(B) \in Int
    BY <1>8
  <2>4. i <= Len(B) \/ i > Len(B)
    BY <2>3
  <2> QED BY <2>1, <2>2, <2>4
<1>10. PrintedCount(w) \in Nat /\ Len(R \o ds) = PrintedCount(w) + Len(pending)
  BY <1>1, <1>5, <1>6, <1>7, <1>8
<1> QED BY <1>2, <1>3, <1>4, <1>5, <1>6, <1>7, <1>8, <1>9, <1>10 DEF R, B, pending

Numbered(u) == \A k \in 1 .. Len(reported[u]) : reported[u][k].nr = k /\ reported[u][k].unit = u

(* The new diagnostics are numbered on. *)
LEMMA NumbersContinue ==
  ASSUME TypeOK, BufferInv, NEW w \in Units, NEW ds, Continues(w, ds), Numbered(w),
         NEW flush, NEW dumps, NEW prints, ReportEffect(w, ds, flush, dumps, prints)
  PROVE  Numbered(w)'
<1> DEFINE n == Len(reported[w])
           m == Len(ds)
<1>1. /\ n \in Nat /\ m \in Nat /\ Len(reported'[w]) = n + m
      /\ \A k \in 1 .. n : reported'[w][k] = reported[w][k]
      /\ \A k \in 1 .. m : reported'[w][n + k] = ds[k]
  BY PendingIsReported
<1>2. \A k \in 1 .. m : ds[k].nr = n + k /\ ds[k].unit = w
  BY DEF Continues
<1>3. \A k \in 1 .. n : reported[w][k].nr = k /\ reported[w][k].unit = w
  BY DEF Numbered
<1> HIDE DEF n, m
<1>4. ASSUME NEW k \in 1 .. n + m
      PROVE  reported'[w][k].nr = k /\ reported'[w][k].unit = w
  <2>1. CASE k <= n
    <3>1. k \in 1 .. n
      BY <1>1, <2>1
    <3> QED BY <1>1, <1>3, <3>1
  <2>2. CASE k > n
    <3>1. k - n \in 1 .. m /\ n + (k - n) = k
      BY <1>1, <2>2
    <3> QED BY <1>1, <1>2, <3>1
  <2> QED BY <1>1, <2>1, <2>2
<1> QED BY <1>1, <1>4 DEF Numbered

(* The order the log promises of two diagnostics that no dump separates. *)
Ordered(d, e, sorting) ==
  IF sorting THEN IsBefore(d, e) \/ (~IsBefore(e, d) /\ d.nr < e.nr) ELSE d.nr < e.nr

(* What a report prints are the next diagnostics, in order. *)
LEMMA PrintsAreNext ==
  ASSUME TypeOK, BufferInv, NEW w \in Units, NEW ds, Continues(w, ds), Numbered(w),
         NEW flush, NEW dumps, NEW prints, ReportEffect(w, ds, flush, dumps, prints)
  PROVE  /\ Len(prints) \in Nat /\ PrintedCount(w) \in Nat
         /\ PrintedCount(w)' = PrintedCount(w) + Len(prints)
         /\ PrintedCount(w)' <= Len(reported'[w])
         /\ \A k \in 1 .. Len(prints) :
              /\ prints[k] \in Diagnostic
              /\ prints[k].nr \in PrintedCount(w) + 1 .. PrintedCount(w)'
              /\ prints[k].unit = w
              /\ prints[k] = reported'[w][prints[k].nr]
              /\ \E i \in 1 .. Len(Buffer(w) \o ds) : prints[k] = (Buffer(w) \o ds)[i]
         /\ \A k, l \in 1 .. Len(prints) : k < l =>
              /\ prints[k] # prints[l]
              /\ Ordered(prints[k], prints[l], consumers[w].sorting)
         /\ \A j \in PrintedCount(w) + 1 .. PrintedCount(w)' :
              \E k \in 1 .. Len(prints) : prints[k] = reported'[w][j]
<1> DEFINE R == reported'[w]
           C == PrintedCount(w)
           pending == Buffer(w) \o ds
           n == Len(pending)
           sorting == consumers[w].sorting
<1>1. /\ pending \in Seq(Diagnostic) /\ C \in Nat /\ n \in Nat
      /\ Len(R) = C + n /\ PrintedCount(w)' = Len(R) - Len(Buffer(w)')
      /\ \A i \in 1 .. n : pending[i] = R[C + i]
  BY PendingIsReported
<1>2. \A k \in 1 .. Len(R) : R[k].nr = k /\ R[k].unit = w
  BY NumbersContinue DEF Numbered
<1>3. /\ prints \in Seq(Diagnostic)
      /\ \/ prints = <<>> /\ Buffer(w)' = pending
         \/ Arranges(prints, pending, sorting) /\ Buffer(w)' = <<>>
  BY DEF ReportEffect
<1>4. CASE prints = <<>> /\ Buffer(w)' = pending
  <2>1. Len(prints) = 0 /\ PrintedCount(w)' = C
    BY <1>1, <1>4
  <2> QED BY <1>1, <2>1
<1>5. CASE Arranges(prints, pending, sorting) /\ Buffer(w)' = <<>>
  <2> HIDE DEF R, C, pending, n
  <2>1. PICK p \in [1 .. n -> 1 .. n] :
          /\ \A i \in 1 .. n : \E k \in 1 .. n : p[k] = i
          /\ \A k, l \in 1 .. n : k < l =>
               IF sorting THEN GoesBefore(pending, p[k], p[l]) ELSE p[k] < p[l]
          /\ prints = [ k \in 1 .. n |-> pending[p[k]] ]
    BY <1>5 DEF Arranges, n
  <2>2. Len(prints) = n
    BY <1>1, <1>3, <2>1
  <2>3. PrintedCount(w)' = C + n
    BY <1>1, <1>5
  <2>4. ASSUME NEW i \in 1 .. n
        PROVE  C + i \in C + 1 .. C + n /\ pending[i] = R[C + i] /\ pending[i].nr = C + i
                 /\ pending[i].unit = w
    <3>1. C + i \in 1 .. Len(R) /\ C + i \in C + 1 .. C + n
      BY <1>1
    <3> QED BY <1>1, <1>2, <3>1, SMTT(40)
  <2>5. \A k \in 1 .. n : prints[k] = pending[p[k]] /\ p[k] \in 1 .. n /\ prints[k] \in Diagnostic
    <3>1. \A k \in 1 .. n : p[k] \in 1 .. n
      BY <2>1
    <3>2. \A k \in 1 .. n : prints[k] = pending[p[k]]
      BY <2>1
    <3>3. \A k \in 1 .. n : prints[k] \in Diagnostic
      BY <1>3, <2>2
    <3> QED BY <3>1, <3>2, <3>3
  <2>6. ASSUME NEW k \in 1 .. n
        PROVE  /\ prints[k] \in Diagnostic
               /\ prints[k].nr \in C + 1 .. C + n
               /\ prints[k].unit = w
               /\ prints[k] = R[prints[k].nr]
               /\ \E i \in 1 .. n : prints[k] = pending[i]
    BY <2>4, <2>5
  <2>7. ASSUME NEW k \in 1 .. n, NEW l \in 1 .. n, k < l
        PROVE  /\ prints[k] # prints[l]
               /\ Ordered(prints[k], prints[l], sorting)
    <3>1. /\ p[k] \in 1 .. n /\ p[l] \in 1 .. n
          /\ prints[k] = pending[p[k]] /\ prints[l] = pending[p[l]]
          /\ pending[p[k]].nr = C + p[k] /\ pending[p[l]].nr = C + p[l]
      BY <2>4, <2>5
    <3>2. IF sorting THEN GoesBefore(pending, p[k], p[l]) ELSE p[k] < p[l]
      BY <2>1, <2>7
    <3>3. p[k] # p[l]
      <4>1. pending[p[k]] \in Diagnostic
        BY <2>5
      <4>2. pending[p[k]].line \in Int /\ pending[p[k]].column \in Int
        BY <4>1 DEF Diagnostic
      <4> QED BY <3>1, <3>2, <4>2 DEF GoesBefore, IsBefore
    <3>4. prints[k].nr = C + p[k] /\ prints[l].nr = C + p[l]
      BY <3>1
    <3>5. C \in Int /\ p[k] \in Int /\ p[l] \in Int
      BY <1>1, <3>1
    <3>6. C + p[k] # C + p[l] /\ (C + p[k] < C + p[l] <=> p[k] < p[l])
      BY <3>3, <3>5
    <3>7. prints[k] # prints[l] /\ (prints[k].nr < prints[l].nr <=> p[k] < p[l])
      BY <3>4, <3>6, Zenon
    <3> QED BY <3>1, <3>2, <3>7 DEF Ordered, GoesBefore
  <2>8. ASSUME NEW j \in C + 1 .. C + n
        PROVE  \E k \in 1 .. n : prints[k] = R[j]
    <3>1. j - C \in 1 .. n /\ C + (j - C) = j
      BY <1>1
    <3>2. PICK k \in 1 .. n : p[k] = j - C
      BY <2>1, <3>1
    <3>3. prints[k] = pending[j - C] /\ pending[j - C] = R[C + (j - C)]
      BY <2>4, <2>5, <3>1, <3>2
    <3> QED BY <3>1, <3>3
  <2>9. C + n <= Len(R)
    BY <1>1
  <2> QED BY <1>1, <2>2, <2>3, <2>6, <2>7, <2>8, <2>9 DEF R, C, pending, n
<1> QED BY <1>3, <1>4, <1>5
-----------------------------------------------------------------------------
(* The steps that report *)

(* A diagnostic belongs to one of the three reporting phases. *)
LEMMA PhaseNumberType == \A d \in Diagnostic : PhaseNumber(d) \in 1 .. 3
  BY DEF PhaseNumber

(* The dump flags and their phases, written out. *)
LEMMA DumpPhaseType ==
  /\ DOMAIN DumpPhase = {"dump_tokens", "dump_parse_tree", "dump_raw_sem_ir", "dump_sem_ir",
                         "dump_llvm_ir", "dump_asm"}
  /\ DumpPhase["dump_tokens"] = 1 /\ DumpPhase["dump_parse_tree"] = 2
  /\ DumpPhase["dump_raw_sem_ir"] = 3 /\ DumpPhase["dump_sem_ir"] = 3
  /\ DumpPhase["dump_llvm_ir"] = 4 /\ DumpPhase["dump_asm"] = 5
  BY DEF DumpPhase

(* What all the steps of the loops that report about the unit w share: the *)
(* diagnostics are of the phase that is due, which flushes the consumer if *)
(* its dump is wanted, and a dump is written behind an empty consumer.     *)
ReportStep(w, ds, flush, dumps, prints) ==
  /\ w \in Units /\ unit = w /\ unit' = w + 1 /\ pc' = pc /\ options' = options
  /\ pc \in {"Lex", "Parse", "Check", "Lower", "CodeGen", "flush"}
  /\ Continues(w, ds)
  /\ \A i \in 1 .. Len(ds) : Reporting /\ PhaseNumber(ds[i]) = NextPhase(w)
  /\ \A u \in Units \ {w} : units'[u] = units[u]
  /\ Reporting => units[w] # {} \/ reported[w] = <<>>
  /\ pc \in {"Lex", "Parse"} /\ flush => \E flag \in FlushFlags : DumpPhase[flag] = NextPhase(w)
  /\ Reporting /\ ~flush /\ units'[w] # {} => \A flag \in FlushFlags : DumpPhase[flag] # NextPhase(w)
  /\ NoDiagnostics(dumps)
  /\ \A i \in 1 .. Len(dumps) : dumps[i].kind = "dump" =>
       /\ dumps[i].unit = w /\ dumps[i].what \in DOMAIN DumpPhase
       /\ Buffer(w)' = <<>>
       /\ NextPhase(w)' <= 3 => NextPhase(w)' > DumpPhase[dumps[i].what]
  /\ ReportEffect(w, ds, flush, dumps, prints)

(* The unit goes on to its next phase, and the others stay at theirs. *)
LEMMA NextPhases ==
  ASSUME TypeOK, NEW w, NEW ds, NEW flush, NEW dumps, NEW prints,
         ReportStep(w, ds, flush, dumps, prints)
  PROVE  /\ \A u \in Units \ {w} : NextPhase(u)' = NextPhase(u)
         /\ Reporting => NextPhase(w) \in 1 .. 3 /\ NextPhase(w)' = NextPhase(w) + 1
         /\ pc = "Lex" => NextPhase(w) = 1
         /\ pc = "Parse" => NextPhase(w) = 2
         /\ pc = "Check" => NextPhase(w) = 3
         /\ ~Reporting => NextPhase(w) = 4 /\ NextPhase(w)' = 4
<1>1. /\ w \in Units /\ unit = w /\ unit' = w + 1 /\ pc' = pc /\ Files \in Nat
      /\ w \in Int
  BY FilesAssumption DEF ReportStep, Units
<1>2. \A u \in Units \ {w} : u < w + 1 <=> u < w
  BY <1>1 DEF Units
<1>3. ASSUME NEW u \in Units \ {w}
      PROVE  NextPhase(u)' = NextPhase(u)
  <2>1. u < unit' <=> u < unit
    BY <1>1, <1>2
  <2> QED BY <1>1, <2>1 DEF NextPhase
<1>4. ~(w < unit) /\ w < unit'
  BY <1>1
<1> QED BY <1>1, <1>3, <1>4 DEF NextPhase, Reporting

(* What is pending waits together for the flush that is due, behind the    *)
(* dump that separates it from what was printed.                           *)
LEMMA PendingWaits ==
  ASSUME ReportInv, NEW w, NEW ds, NEW flush, NEW dumps, NEW prints,
         ReportStep(w, ds, flush, dumps, prints)
  PROVE  LET pending == Buffer(w) \o ds
         IN  \A i \in 1 .. Len(pending) :
               /\ pending[i] \in Diagnostic
               /\ Reporting => PhaseNumber(pending[i]) <= NextPhase(w)
               /\ Reporting => \A flag \in FlushFlags :
                    PhaseNumber(pending[i]) <= DumpPhase[flag] => NextPhase(w) <= DumpPhase[flag]
               /\ \A j \in 1 .. Len(pending) : ~DumpSeparates(pending[i], pending[j])
               /\ ~Streaming => \A l \in DOMAIN log : IsDiagnostic(log[l]) /\ log[l].unit = w =>
                    DumpSeparates(log[l], pending[i])
               /\ \A l \in DOMAIN log : log[l].kind = "dump" /\ log[l].unit = w =>
                    PhaseNumber(pending[i]) > DumpPhase[log[l].what]
<1> DEFINE B == Buffer(w)
           R == reported[w]
           pending == B \o ds
<1>0. TypeOK /\ BufferInv /\ SeparationInv /\ DumpsInv /\ w \in Units /\ Continues(w, ds)
        /\ ReportEffect(w, ds, flush, dumps, prints)
  BY DEF ReportInv, StreamInv, ReportStep
<1>1. B \in Seq(Diagnostic) /\ ds \in Seq(Diagnostic) /\ R \in Seq(Diagnostic)
  BY <1>0 DEF TypeOK, Buffer, Continues
<1>2. /\ Len(B) <= Len(R) /\ PrintedCount(w) = Len(R) - Len(B)
      /\ \A i \in 1 .. Len(B) : B[i] = R[PrintedCount(w) + i]
  <2>1. /\ Len(B) <= Len(R)
        /\ PrintedCount(w) = Len(R) - Len(B)
        /\ \A i \in DOMAIN B : B[i] = R[PrintedCount(w) + i]
    BY <1>0 DEF BufferInv, PrintedCount
  <2> HIDE DEF B, R
  <2> QED BY <1>1, <2>1
<1>3. \A k \in 1 .. Len(R) : PhaseNumber(R[k]) < NextPhase(w)
  <2>1. \A k \in DOMAIN R : PhaseNumber(R[k]) < NextPhase(w)
    BY <1>0 DEF ReportInv, StreamInv, ReportedInv
  <2> HIDE DEF R
  <2> QED BY <1>1, <2>1
<1>4. Reporting => NextPhase(w) \in 1 .. 3
  BY <1>0, NextPhases
<1>5. \A i \in 1 .. Len(ds) : Reporting /\ PhaseNumber(ds[i]) = NextPhase(w)
  BY DEF ReportStep
<1>6. /\ \A i, j \in DOMAIN B : ~DumpSeparates(B[i], B[j])
      /\ Reporting /\ units[w] # {} =>
         \A i \in DOMAIN B : \A flag \in FlushFlags :
           PhaseNumber(B[i]) <= DumpPhase[flag] => NextPhase(w) <= DumpPhase[flag]
      /\ ~Streaming =>
         \A l \in DOMAIN log : IsDiagnostic(log[l]) /\ log[l].unit = w =>
           /\ \A j \in DOMAIN B : DumpSeparates(log[l], B[j])
           /\ NextPhase(w) <= 3 =>
                \E flag \in FlushFlags :
                  PhaseNumber(log[l]) <= DumpPhase[flag] /\ DumpPhase[flag] < NextPhase(w)
  BY <1>0 DEF SeparationInv
<1>7. \A l \in DOMAIN log : log[l].kind = "dump" /\ log[l].unit = w =>
        /\ \A j \in DOMAIN B : PhaseNumber(B[j]) > DumpPhase[log[l].what]
        /\ NextPhase(w) <= 3 => NextPhase(w) > DumpPhase[log[l].what]
  BY <1>0 DEF DumpsInv
<1>8. Reporting => units[w] # {} \/ R = <<>>
  BY DEF ReportStep
<1>9. /\ DOMAIN B = 1 .. Len(B) /\ Len(B) \in Nat /\ Len(ds) \in Nat /\ Len(R) \in Nat
      /\ \A i \in 1 .. Len(B) : B[i] \in Diagnostic
      /\ \A i \in 1 .. Len(ds) : ds[i] \in Diagnostic
      /\ R = <<>> => Len(B) = 0
  BY <1>1, <1>2
<1>10. \A flag \in FlushFlags : DumpPhase[flag] \in Int
  BY DumpPhaseType DEF FlushFlags
<1> HIDE DEF B, R
<1>11. ASSUME NEW i \in 1 .. Len(B), Reporting
       PROVE  /\ PhaseNumber(B[i]) < NextPhase(w)
              /\ \A flag \in FlushFlags :
                   PhaseNumber(B[i]) <= DumpPhase[flag] => NextPhase(w) <= DumpPhase[flag]
  <2>1. PrintedCount(w) + i \in 1 .. Len(R)
    BY <1>2, <1>9
  <2>2. R # <<>>
    BY <1>9
  <2> QED BY <1>2, <1>3, <1>6, <1>8, <1>9, <1>11, <2>1, <2>2
<1>12. ASSUME NEW i \in 1 .. Len(B)
       PROVE  /\ B[i] \in Diagnostic
              /\ Reporting => PhaseNumber(B[i]) <= NextPhase(w)
              /\ Reporting => \A flag \in FlushFlags :
                   PhaseNumber(B[i]) <= DumpPhase[flag] => NextPhase(w) <= DumpPhase[flag]
              /\ \A j \in 1 .. Len(B) : ~DumpSeparates(B[i], B[j])
              /\ ~Streaming => \A l \in DOMAIN log : IsDiagnostic(log[l]) /\ log[l].unit = w =>
                   DumpSeparates(log[l], B[i])
              /\ \A l \in DOMAIN log : log[l].kind = "dump" /\ log[l].unit = w =>
                   PhaseNumber(B[i]) > DumpPhase[log[l].what]
  <2>1. Reporting => PhaseNumber(B[i]) <= NextPhase(w)
    <3>1. PhaseNumber(B[i]) \in Int
      BY <1>9, PhaseNumberType
    <3> QED BY <1>4, <1>11, <3>1
  <2> QED BY <1>6, <1>7, <1>9, <1>11, <2>1
<1>13. ASSUME NEW i \in 1 .. Len(ds)
       PROVE  /\ ds[i] \in Diagnostic
              /\ PhaseNumber(ds[i]) <= NextPhase(w)
              /\ \A flag \in FlushFlags :
                   PhaseNumber(ds[i]) <= DumpPhase[flag] => NextPhase(w) <= DumpPhase[flag]
              /\ \A j \in 1 .. Len(ds) : ~DumpSeparates(ds[i], ds[j])
              /\ \A j \in 1 .. Len(B) : ~DumpSeparates(ds[i], B[j]) /\ ~DumpSeparates(B[j], ds[i])
              /\ ~Streaming => \A l \in DOMAIN log : IsDiagnostic(log[l]) /\ log[l].unit = w =>
                   DumpSeparates(log[l], ds[i])
              /\ \A l \in DOMAIN log : log[l].kind = "dump" /\ log[l].unit = w =>
                   PhaseNumber(ds[i]) > DumpPhase[log[l].what]
  <2>1. Reporting /\ PhaseNumber(ds[i]) = NextPhase(w) /\ NextPhase(w) \in 1 .. 3
    BY <1>4, <1>5
  <2>2. NextPhase(w) <= NextPhase(w) /\ NextPhase(w) <= 3
    BY <2>1
  <2>3. \A j \in 1 .. Len(ds) : ~DumpSeparates(ds[i], ds[j])
    <3>1. \A j \in 1 .. Len(ds) : PhaseNumber(ds[j]) = NextPhase(w)
      BY <1>5
    <3> QED BY <1>10, <2>1, <3>1 DEF DumpSeparates, FlushFlags
  <2>4. ASSUME NEW j \in 1 .. Len(B)
        PROVE  ~DumpSeparates(ds[i], B[j]) /\ ~DumpSeparates(B[j], ds[i])
    <3>1. /\ PhaseNumber(B[j]) \in Int /\ PhaseNumber(B[j]) < NextPhase(w)
          /\ \A flag \in FlushFlags :
               PhaseNumber(B[j]) <= DumpPhase[flag] => NextPhase(w) <= DumpPhase[flag]
      BY <1>9, <1>11, <2>1, PhaseNumberType
    <3> QED BY <1>10, <2>1, <3>1 DEF DumpSeparates, FlushFlags
  <2>5. ~Streaming => \A l \in DOMAIN log : IsDiagnostic(log[l]) /\ log[l].unit = w =>
          DumpSeparates(log[l], ds[i])
    BY <1>6, <2>1, <2>2 DEF DumpSeparates, FlushFlags
  <2> QED BY <1>7, <1>9, <2>1, <2>2, <2>3, <2>4, <2>5
<1>14. /\ Len(pending) = Len(B) + Len(ds)
       /\ \A i \in 1 .. Len(pending) : \/ i \in 1 .. Len(B) /\ pending[i] = B[i]
                                       \/ \E k \in 1 .. Len(ds) : pending[i] = ds[k]
  <2>1. Len(pending) = Len(B) + Len(ds)
    BY <1>1
  <2>2. ASSUME NEW i \in 1 .. Len(B) + Len(ds), i > Len(B)
        PROVE  i - Len(B) \in 1 .. Len(ds) /\ pending[i] = ds[i - Len(B)]
    BY <1>1, <1>9, <2>2
  <2>3. \A i \in 1 .. Len(B) : pending[i] = B[i]
    BY <1>1
  <2>4. \A i \in 1 .. Len(B) + Len(ds) : i > Len(B) \/ i \in 1 .. Len(B)
    BY <1>9
  <2> HIDE DEF pending
  <2> QED BY <2>1, <2>2, <2>3, <2>4
<1> HIDE DEF pending
<1>15. SUFFICES ASSUME NEW i \in 1 .. Len(pending)
       PROVE   /\ pending[i] \in Diagnostic
               /\ Reporting => PhaseNumber(pending[i]) <= NextPhase(w)
               /\ Reporting => \A flag \in FlushFlags :
                    PhaseNumber(pending[i]) <= DumpPhase[flag] => NextPhase(w) <= DumpPhase[flag]
               /\ \A j \in 1 .. Len(pending) : ~DumpSeparates(pending[i], pending[j])
               /\ ~Streaming => \A l \in DOMAIN log : IsDiagnostic(log[l]) /\ log[l].unit = w =>
                    DumpSeparates(log[l], pending[i])
               /\ \A l \in DOMAIN log : log[l].kind = "dump" /\ log[l].unit = w =>
                    PhaseNumber(pending[i]) > DumpPhase[log[l].what]
  BY DEF pending, B
<1>16. CASE i \in 1 .. Len(B) /\ pending[i] = B[i]
  <2>1. \A j \in 1 .. Len(pending) : ~DumpSeparates(pending[i], pending[j])
    BY <1>12, <1>13, <1>14, <1>16
  <2> QED BY <1>12, <1>16, <2>1
<1>17. CASE \E k \in 1 .. Len(ds) : pending[i] = ds[k]
  <2>1. \A j \in 1 .. Len(pending) : ~DumpSeparates(pending[i], pending[j])
    BY <1>12, <1>13, <1>14, <1>17
  <2> QED BY <1>13, <1>17, <2>1
<1> QED BY <1>14, <1>16, <1>17

(* Each diagnostic is still either in the log, once, or in its consumer. *)
LEMMA ReportKeepsBuffers ==
  ASSUME ReportInv, NEW w, NEW ds, NEW flush, NEW dumps, NEW prints,
         ReportStep(w, ds, flush, dumps, prints)
  PROVE  BufferInv'
<1> DEFINE pending == Buffer(w) \o ds
<1>0. /\ TypeOK /\ BufferInv /\ w \in Units /\ Continues(w, ds)
      /\ ReportEffect(w, ds, flush, dumps, prints) /\ pc' = pc /\ options' = options
      /\ pc \notin {"args", "validate", "done"}
  BY DEF ReportInv, StreamInv, ReportStep
<1>1. /\ pending \in Seq(Diagnostic) /\ PrintedCount(w) \in Nat /\ Len(pending) \in Nat
      /\ \A u \in Units \ {w} : /\ reported'[u] = reported[u]
                                /\ Buffer(u)' = Buffer(u)
                                /\ PrintedCount(u)' = PrintedCount(u)
      /\ Len(reported'[w]) = PrintedCount(w) + Len(pending)
      /\ \A i \in 1 .. Len(pending) : pending[i] = reported'[w][PrintedCount(w) + i]
      /\ PrintedCount(w)' = Len(reported'[w]) - Len(Buffer(w)')
  BY <1>0, PendingIsReported
<1>2. /\ \A u \in Units \ {w} : consumers'[u] = consumers[u]
      /\ consumers'[w].sorting = consumers[w].sorting
      /\ \/ consumers[w].sorting /\ Buffer(w)' = pending
         \/ Buffer(w)' = <<>>
  BY <1>0 DEF ReportEffect
<1>3. Streaming' = Streaming
  BY <1>0 DEF Streaming
<1>4. \A u \in Units :
        /\ consumers[u].sorting = ~Streaming
        /\ ~consumers[u].sorting => Buffer(u) = <<>>
        /\ Len(Buffer(u)) <= Len(reported[u])
        /\ \A i \in DOMAIN Buffer(u) : Buffer(u)[i] = reported[u][PrintedCount(u) + i]
  BY <1>0 DEF BufferInv
<1> HIDE DEF pending
<1>5. ASSUME NEW u \in Units \ {w}
      PROVE  /\ (pc \notin {"args", "validate", "done"} => consumers[u].sorting = ~Streaming)'
             /\ (~consumers[u].sorting => Buffer(u) = <<>>)'
             /\ (Len(Buffer(u)) <= Len(reported[u]))'
             /\ (\A i \in DOMAIN Buffer(u) : Buffer(u)[i] = reported[u][PrintedCount(u) + i])'
  BY <1>1, <1>2, <1>3, <1>4
<1>6. /\ (pc \notin {"args", "validate", "done"} => consumers[w].sorting = ~Streaming)'
      /\ (~consumers[w].sorting => Buffer(w) = <<>>)'
  BY <1>0, <1>2, <1>3, <1>4
<1>7. /\ (Len(Buffer(w)) <= Len(reported[w]))'
      /\ (\A i \in DOMAIN Buffer(w) : Buffer(w)[i] = reported[w][PrintedCount(w) + i])'
  <2>1. CASE Buffer(w)' = pending
    <3>1. PrintedCount(w)' = PrintedCount(w) /\ Len(pending) <= Len(reported'[w])
      BY <1>1, <2>1
    <3>2. DOMAIN pending = 1 .. Len(pending)
      BY <1>1
    <3> QED BY <1>1, <2>1, <3>1, <3>2
  <2>2. CASE Buffer(w)' = <<>>
    BY <1>1, <2>2
  <2> QED BY <1>2, <2>1, <2>2
<1> QED BY <1>5, <1>6, <1>7 DEF BufferInv

(* A report numbers its diagnostics on from the ones before. *)
LEMMA ReportKeepsReported ==
  ASSUME ReportInv, NEW w, NEW ds, NEW flush, NEW dumps, NEW prints,
         ReportStep(w, ds, flush, dumps, prints)
  PROVE  ReportedInv'
<1> DEFINE n == Len(reported[w])
           m == Len(ds)
<1>0. /\ TypeOK /\ BufferInv /\ ReportedInv /\ w \in Units /\ Continues(w, ds)
      /\ ReportEffect(w, ds, flush, dumps, prints) /\ pc' = pc
      /\ pc \notin {"args", "validate"}
  BY DEF ReportInv, StreamInv, ReportStep
<1>1. /\ n \in Nat /\ m \in Nat /\ Len(reported'[w]) = n + m
      /\ reported' \in [Units -> Seq(Diagnostic)]
      /\ \A u \in Units \ {w} : reported'[u] = reported[u]
      /\ \A k \in 1 .. n : reported'[w][k] = reported[w][k]
      /\ \A k \in 1 .. m : reported'[w][n + k] = ds[k]
  BY <1>0, PendingIsReported
<1>2. reported[w] \in Seq(Diagnostic) /\ DOMAIN reported[w] = 1 .. n /\ ds \in Seq(Diagnostic)
  BY <1>0 DEF TypeOK, Continues
<1>3. Numbered(w) /\ \A k \in 1 .. n : PhaseNumber(reported[w][k]) < NextPhase(w)
  BY <1>0, <1>2 DEF ReportedInv, Numbered
<1>4. Numbered(w)'
  BY <1>0, <1>3, NumbersContinue
<1>5. /\ \A u \in Units \ {w} : NextPhase(u)' = NextPhase(u)
      /\ Reporting => NextPhase(w) \in 1 .. 3 /\ NextPhase(w)' = NextPhase(w) + 1
      /\ ~Reporting => NextPhase(w) = 4 /\ NextPhase(w)' = 4
      /\ \A i \in 1 .. m : Reporting /\ PhaseNumber(ds[i]) = NextPhase(w)
  <2>1. \A i \in 1 .. m : Reporting /\ PhaseNumber(ds[i]) = NextPhase(w)
    BY DEF ReportStep
  <2> QED BY <1>0, <2>1, NextPhases
<1>6. DOMAIN reported'[w] = 1 .. n + m
  BY <1>0, <1>1
<1> HIDE DEF n, m
<1>7. ASSUME NEW k \in 1 .. n + m
      PROVE  PhaseNumber(reported'[w][k]) < NextPhase(w)'
  <2>1. CASE k <= n
    <3>1. k \in 1 .. n
      BY <1>1, <2>1
    <3>2. reported[w][k] \in Diagnostic
      BY <1>2, <3>1 DEF n
    <3>3. PhaseNumber(reported[w][k]) \in Int /\ PhaseNumber(reported[w][k]) < NextPhase(w)
      BY <1>3, <3>1, <3>2, PhaseNumberType
    <3>4. PhaseNumber(reported[w][k]) < NextPhase(w)'
      BY <1>5, <3>3
    <3> QED BY <1>1, <3>1, <3>4
  <2>2. CASE k > n
    <3>1. k - n \in 1 .. m /\ n + (k - n) = k
      BY <1>1, <2>2
    <3>2. reported'[w][k] = ds[k - n]
      BY <1>1, <3>1
    <3>3. PhaseNumber(ds[k - n]) < NextPhase(w)'
      BY <1>5, <3>1
    <3> QED BY <3>2, <3>3
  <2> QED BY <1>1, <2>1, <2>2
<1>8. Started'
  BY <1>0 DEF Started
<1>9. ASSUME NEW u \in Units \ {w}
      PROVE  (\A k \in DOMAIN reported[u] : /\ reported[u][k].nr = k
                                            /\ reported[u][k].unit = u
                                            /\ PhaseNumber(reported[u][k]) < NextPhase(u))'
  <2>1. (\A k \in DOMAIN reported[u] : /\ reported[u][k].nr = k
                                       /\ reported[u][k].unit = u
                                       /\ PhaseNumber(reported[u][k]) < NextPhase(u))
    BY <1>0 DEF ReportedInv
  <2>2. reported'[u] = reported[u] /\ NextPhase(u)' = NextPhase(u)
    BY <1>1, <1>5
  <2>3. \A d : PhaseNumber(d)' = PhaseNumber(d)
    BY DEF PhaseNumber
  <2> QED BY <2>1, <2>2 DEF PhaseNumber
<1>10. (\A k \in DOMAIN reported[w] : /\ reported[w][k].nr = k
                                      /\ reported[w][k].unit = w
                                      /\ PhaseNumber(reported[w][k]) < NextPhase(w))'
  BY <1>1, <1>4, <1>6, <1>7 DEF Numbered, PhaseNumber
<1> QED BY <1>8, <1>9, <1>10 DEF ReportedInv

(* A report prints nothing twice and nothing that is still pending, and    *)
(* what it does not print stays in the consumer.                           *)
LEMMA ReportKeepsLog ==
  ASSUME ReportInv, NEW w, NEW ds, NEW flush, NEW dumps, NEW prints,
         ReportStep(w, ds, flush, dumps, prints)
  PROVE  LogInv' /\ log' \in Seq(Entry)
<1> DEFINE n == Len(log)
           m == Len(prints)
           C == PrintedCount(w)
<1>0. /\ TypeOK /\ BufferInv /\ ReportedInv /\ LogInv /\ w \in Units /\ Continues(w, ds)
      /\ ReportEffect(w, ds, flush, dumps, prints) /\ dumps \in Seq(Entry)
      /\ \A i \in 1 .. Len(dumps) : ~IsDiagnostic(dumps[i])
  BY DEF ReportInv, StreamInv, ReportStep, NoDiagnostics
<1>1. Numbered(w)
  BY <1>0 DEF ReportedInv, Numbered, TypeOK
<1>2. /\ n \in Nat /\ m \in Nat /\ Len(dumps) \in Nat
      /\ log' \in Seq(Entry) /\ Len(log') = n + m + Len(dumps)
      /\ DOMAIN log' = 1 .. n + m + Len(dumps)
      /\ \A i \in 1 .. n : log'[i] = log[i]
      /\ \A k \in 1 .. m : log'[n + k] = prints[k]
      /\ \A k \in 1 .. Len(dumps) : log'[n + m + k] = dumps[k]
      /\ \A i \in DOMAIN log' : \/ i \in 1 .. n
                                \/ \E k \in 1 .. m : i = n + k
                                \/ \E k \in 1 .. Len(dumps) : i = n + m + k
  <2>1. TypeOK /\ dumps \in Seq(Entry) /\ ReportEffect(w, ds, flush, dumps, prints)
    BY <1>0
  <2>2. LogGrows(prints, dumps)
    BY <2>1, LogOfReport
  <2> QED BY <2>2 DEF LogGrows
<1>3. /\ C \in Nat
      /\ PrintedCount(w)' = C + m
      /\ \A k \in 1 .. m :
           /\ prints[k] \in Diagnostic
           /\ prints[k].nr \in C + 1 .. PrintedCount(w)'
           /\ prints[k].unit = w
           /\ prints[k] = reported'[w][prints[k].nr]
      /\ \A k, l \in 1 .. m : k < l => prints[k] # prints[l]
      /\ \A j \in C + 1 .. PrintedCount(w)' : \E k \in 1 .. m : prints[k] = reported'[w][j]
  BY <1>0, <1>1, PrintsAreNext
<1>4. /\ Len(reported[w]) \in Nat
      /\ C <= Len(reported[w])
      /\ \A u \in Units \ {w} : /\ reported'[u] = reported[u]
                                /\ PrintedCount(u)' = PrintedCount(u)
      /\ \A k \in 1 .. Len(reported[w]) : reported'[w][k] = reported[w][k]
  <2>1. /\ Len(reported[w]) \in Nat
        /\ \A u \in Units \ {w} : /\ reported'[u] = reported[u]
                                  /\ PrintedCount(u)' = PrintedCount(u)
        /\ \A k \in 1 .. Len(reported[w]) : reported'[w][k] = reported[w][k]
    BY <1>0, PendingIsReported
  <2>2. Len(Buffer(w)) \in Nat
    BY <1>0 DEF TypeOK, Buffer
  <2>3. C <= Len(reported[w])
    BY <2>1, <2>2 DEF PrintedCount
  <2> QED BY <2>1, <2>3
<1>6. \A u \in Units : \A i \in 1 .. n : IsDiagnostic(log[i]) /\ log[i].unit = u =>
        /\ log[i].nr \in 1 .. PrintedCount(u)
        /\ log[i] = reported[u][log[i].nr]
        /\ \A j \in 1 .. i - 1 : log[j] # log[i]
  <2>1. DOMAIN log = 1 .. n
    BY <1>0 DEF TypeOK
  <2> QED BY <1>0, <2>1 DEF LogInv
<1>7. \A u \in Units : \A k \in 1 .. PrintedCount(u) : \E i \in 1 .. n : log[i] = reported[u][k]
  <2>1. DOMAIN log = 1 .. n
    BY <1>0 DEF TypeOK
  <2> QED BY <1>0, <2>1 DEF LogInv
<1> HIDE DEF n, m, C
<1>8. ASSUME NEW u \in Units, NEW i \in 1 .. n, IsDiagnostic(log[i]), log[i].unit = u
      PROVE  /\ log[i].nr \in 1 .. PrintedCount(u)'
             /\ log[i] = reported'[u][log[i].nr]
  <2>1. CASE u = w
    <3>1. log[i].nr \in 1 .. C /\ log[i] = reported[w][log[i].nr]
      BY <1>6, <1>8, <2>1 DEF C
    <3>2. log[i].nr \in 1 .. C + m /\ log[i].nr \in 1 .. Len(reported[w])
      BY <1>2, <1>3, <1>4, <3>1
    <3> QED BY <1>3, <1>4, <2>1, <3>1, <3>2
  <2>2. CASE u # w
    <3>1. log[i].nr \in 1 .. PrintedCount(u) /\ log[i] = reported[u][log[i].nr]
      BY <1>6, <1>8
    <3> QED BY <1>4, <2>2, <3>1
  <2> QED BY <2>1, <2>2
<1>9. ASSUME NEW i \in 1 .. n, NEW k \in 1 .. m
      PROVE  log[i] # prints[k]
  <2>1. SUFFICES ASSUME log[i] = prints[k]
                 PROVE  FALSE
    OBVIOUS
  <2>2. IsDiagnostic(log[i]) /\ log[i].unit = w
    BY <1>3, <2>1 DEF Diagnostic, IsDiagnostic
  <2>3. log[i].nr \in 1 .. C
    BY <1>0, <1>6, <2>2 DEF C
  <2>4. prints[k].nr \in C + 1 .. C + m
    BY <1>3
  <2> QED BY <1>2, <1>3, <2>1, <2>3, <2>4
<1>10. ASSUME NEW u \in Units, NEW i \in DOMAIN log', IsDiagnostic(log'[i]), log'[i].unit = u
       PROVE  /\ log'[i].nr \in 1 .. PrintedCount(u)'
              /\ log'[i] = reported'[u][log'[i].nr]
              /\ \A j \in 1 .. i - 1 : log'[j] # log'[i]
  <2>1. CASE i \in 1 .. n
    <3>1. log'[i] = log[i] /\ IsDiagnostic(log[i]) /\ log[i].unit = u
      BY <1>2, <1>10, <2>1
    <3>2. \A j \in 1 .. i - 1 : j \in 1 .. n
      BY <1>2, <2>1
    <3>3. \A j \in 1 .. i - 1 : log'[j] # log'[i]
      BY <1>2, <1>6, <2>1, <3>1, <3>2
    <3> QED BY <1>8, <2>1, <3>1, <3>3
  <2>2. CASE \E k \in 1 .. m : i = n + k
    <3>1. PICK k \in 1 .. m : i = n + k
      BY <2>2
    <3>2. log'[i] = prints[k] /\ u = w
      BY <1>2, <1>3, <1>10, <3>1
    <3>3. prints[k].nr \in 1 .. C + m
      <4>1. prints[k].nr \in C + 1 .. C + m
        BY <1>3
      <4> QED BY <1>2, <1>3, <4>1
    <3>4. ASSUME NEW j \in 1 .. i - 1
          PROVE  log'[j] # prints[k]
      <4>1. CASE j <= n
        <5>1. j \in 1 .. n
          BY <1>2, <4>1
        <5> QED BY <1>2, <1>9, <5>1
      <4>2. CASE j > n
        <5>1. j - n \in 1 .. m /\ j - n < k /\ n + (j - n) = j
          BY <1>2, <3>1, <4>2
        <5>2. log'[j] = prints[j - n]
          BY <1>2, <5>1
        <5> QED BY <1>3, <5>1, <5>2
      <4> QED BY <1>2, <3>1, <4>1, <4>2
    <3> QED BY <1>3, <3>2, <3>3, <3>4
  <2>3. CASE \E k \in 1 .. Len(dumps) : i = n + m + k
    BY <1>0, <1>2, <1>10, <2>3
  <2> QED BY <1>2, <2>1, <2>2, <2>3
<1>11. ASSUME NEW u \in Units, NEW k \in 1 .. PrintedCount(u)'
       PROVE  \E i \in DOMAIN log' : log'[i] = reported'[u][k]
  <2>0. (\A i \in 1 .. n : i \in DOMAIN log') /\ (\A l \in 1 .. m : n + l \in DOMAIN log')
    BY <1>2
  <2>1. CASE u # w
    <3>1. PICK i \in 1 .. n : log[i] = reported[u][k]
      BY <1>4, <1>7, <2>1
    <3> QED BY <1>2, <1>4, <2>0, <2>1, <3>1
  <2>2. CASE u = w /\ k <= C
    <3>1. k \in 1 .. C /\ k \in 1 .. Len(reported[w])
      BY <1>2, <1>3, <1>4, <2>2
    <3>2. PICK i \in 1 .. n : log[i] = reported[w][k]
      BY <1>0, <1>7, <3>1 DEF C
    <3> QED BY <1>2, <1>4, <2>0, <2>2, <3>1, <3>2
  <2>3. CASE u = w /\ k > C
    <3>1. k \in C + 1 .. PrintedCount(w)'
      BY <1>2, <1>3, <2>3
    <3>2. PICK l \in 1 .. m : prints[l] = reported'[w][k]
      BY <1>3, <3>1
    <3> QED BY <1>2, <2>0, <2>3, <3>2
  <2>4. k \in Int /\ C \in Int
    <3>1. PrintedCount(u)' \in Int
      <4>1. Len(reported[u]) \in Nat /\ Len(Buffer(u)) \in Nat
        BY <1>0 DEF TypeOK, Buffer
      <4>2. PrintedCount(u) \in Int
        BY <4>1 DEF PrintedCount
      <4> QED BY <1>2, <1>3, <1>4, <4>2
    <3> QED BY <1>3
  <2>5. k <= C \/ k > C
    BY <2>4
  <2> QED BY <2>1, <2>2, <2>3, <2>5
<1> QED BY <1>2, <1>10, <1>11 DEF LogInv, IsDiagnostic

(* What the lemmas above say of a step that reports. *)
LEMMA ReportFacts ==
  ASSUME ReportInv, NEW w, NEW ds, NEW flush, NEW dumps, NEW prints,
         ReportStep(w, ds, flush, dumps, prints)
  PROVE  /\ LogGrows(prints, dumps)
         /\ DOMAIN log = 1 .. Len(log)
         /\ \A k \in 1 .. Len(dumps) : dumps[k].kind # "diagnostic"
         /\ \A k \in 1 .. Len(prints) :
              /\ prints[k] \in Diagnostic /\ prints[k].kind = "diagnostic" /\ prints[k].unit = w
              /\ prints[k].nr \in PrintedCount(w) + 1 .. PrintedCount(w)'
              /\ \E i \in 1 .. Len(Buffer(w) \o ds) : prints[k] = (Buffer(w) \o ds)[i]
         /\ \A k, l \in 1 .. Len(prints) : k < l => Ordered(prints[k], prints[l], ~Streaming)
         /\ Buffer(w) \o ds \in Seq(Diagnostic)
         /\ \A u \in Units \ {w} : Buffer(u)' = Buffer(u)
         /\ \/ prints = <<>> /\ Buffer(w)' = Buffer(w) \o ds /\ ~flush /\ ~Streaming
            \/ Buffer(w)' = <<>> /\ (flush \/ Streaming)
         /\ Streaming' = Streaming /\ FlushFlags' = FlushFlags
         /\ \A d, e : DumpSeparates(d, e)' = DumpSeparates(d, e) /\ InOrder(d, e)' = InOrder(d, e)
         /\ PrintedCount(w) \in Nat /\ PrintedCount(w)' \in Nat
<1>0. /\ TypeOK /\ BufferInv /\ ReportedInv /\ w \in Units /\ Continues(w, ds)
      /\ ReportEffect(w, ds, flush, dumps, prints) /\ dumps \in Seq(Entry)
      /\ \A i \in 1 .. Len(dumps) : ~IsDiagnostic(dumps[i])
      /\ options' = options /\ pc \notin {"args", "validate", "done"}
  BY DEF ReportInv, StreamInv, ReportStep, NoDiagnostics
<1>1. Numbered(w)
  BY <1>0 DEF ReportedInv, Numbered, TypeOK
<1>2. LogGrows(prints, dumps)
  BY <1>0, LogOfReport
<1>3. consumers[w].sorting = ~Streaming
  BY <1>0 DEF BufferInv
<1>4. /\ \A k \in 1 .. Len(prints) :
           /\ prints[k] \in Diagnostic /\ prints[k].unit = w
           /\ prints[k].nr \in PrintedCount(w) + 1 .. PrintedCount(w)'
           /\ \E i \in 1 .. Len(Buffer(w) \o ds) : prints[k] = (Buffer(w) \o ds)[i]
      /\ \A k, l \in 1 .. Len(prints) : k < l =>
           Ordered(prints[k], prints[l], consumers[w].sorting)
      /\ PrintedCount(w) \in Nat /\ Len(prints) \in Nat
      /\ PrintedCount(w)' = PrintedCount(w) + Len(prints)
  BY <1>0, <1>1, PrintsAreNext
<1>5. \A d \in Diagnostic : d.kind = "diagnostic"
  BY DEF Diagnostic
<1>6. /\ Buffer(w) \o ds \in Seq(Diagnostic)
      /\ \A u \in Units \ {w} : Buffer(u)' = Buffer(u)
  BY <1>0, PendingIsReported
<1>7. \/ prints = <<>> /\ Buffer(w)' = Buffer(w) \o ds /\ ~flush /\ ~Streaming
      \/ Buffer(w)' = <<>> /\ (flush \/ Streaming)
  BY <1>0, <1>3 DEF ReportEffect
<1>8. Streaming' = Streaming /\ FlushFlags' = FlushFlags
  BY <1>0 DEF Streaming, FlushFlags
<1>9. \A d, e : DumpSeparates(d, e)' = DumpSeparates(d, e) /\ InOrder(d, e)' = InOrder(d, e)
  BY <1>0 DEF DumpSeparates, InOrder
<1>10. DOMAIN log = 1 .. Len(log)
  BY <1>0 DEF TypeOK
<1>11. \A k \in 1 .. Len(dumps) : dumps[k].kind # "diagnostic"
  BY <1>0 DEF IsDiagnostic
<1>12. PrintedCount(w)' \in Nat
  BY <1>4
<1> QED BY <1>2, <1>3, <1>4, <1>5, <1>6, <1>7, <1>8, <1>9, <1>10, <1>11, <1>12

(* What a report prints goes after what was printed of the unit: a flush   *)
(* for a dump separates them, and the sort orders the rest.                *)
LEMMA ReportKeepsOrder ==
  ASSUME ReportInv, NEW w, NEW ds, NEW flush, NEW dumps, NEW prints,
         ReportStep(w, ds, flush, dumps, prints)
  PROVE  PrintedInOrder'
<1> DEFINE n == Len(log)
           m == Len(prints)
           h == Len(dumps)
           pending == Buffer(w) \o ds
<1>1. /\ n \in Nat /\ m \in Nat /\ h \in Nat
      /\ DOMAIN log' = 1 .. n + m + h
      /\ \A i \in 1 .. n : log'[i] = log[i]
      /\ \A k \in 1 .. m : log'[n + k] = prints[k]
      /\ \A k \in 1 .. h : log'[n + m + k] = dumps[k]
      /\ \A i \in DOMAIN log' : \/ i \in 1 .. n
                                \/ \E k \in 1 .. m : i = n + k
                                \/ \E k \in 1 .. h : i = n + m + k
  <2>1. LogGrows(prints, dumps)
    BY ReportFacts
  <2> QED BY <2>1 DEF LogGrows
<1>2. /\ DOMAIN log = 1 .. n
      /\ \A k \in 1 .. h : dumps[k].kind # "diagnostic"
      /\ \A k \in 1 .. m :
           /\ prints[k] \in Diagnostic /\ prints[k].unit = w
           /\ prints[k].nr \in PrintedCount(w) + 1 .. PrintedCount(w)'
           /\ \E i \in 1 .. Len(pending) : prints[k] = pending[i]
      /\ \A k, l \in 1 .. m : k < l => Ordered(prints[k], prints[l], ~Streaming)
      /\ \A d, e : InOrder(d, e)' = InOrder(d, e)
      /\ PrintedCount(w) \in Nat
  BY ReportFacts
<1>3. \A i \in 1 .. Len(pending) :
        /\ \A j \in 1 .. Len(pending) : ~DumpSeparates(pending[i], pending[j])
        /\ ~Streaming => \A l \in DOMAIN log : IsDiagnostic(log[l]) /\ log[l].unit = w =>
             DumpSeparates(log[l], pending[i])
  BY PendingWaits
<1>4. \A l \in DOMAIN log : IsDiagnostic(log[l]) /\ log[l].unit = w =>
        log[l].nr \in 1 .. PrintedCount(w)
  BY DEF ReportInv, StreamInv, ReportStep, LogInv
<1>5. \A j \in DOMAIN log : \A i \in 1 .. j - 1 :
        IsDiagnostic(log[i]) /\ IsDiagnostic(log[j]) /\ log[i].unit = log[j].unit =>
          InOrder(log[i], log[j])
  BY DEF ReportInv, StreamInv, PrintedInOrder
<1>6. PrintedCount(w)' \in Int
  BY ReportFacts
<1> HIDE DEF n, m, h, pending
<1>7. ASSUME NEW i \in 1 .. n, NEW k \in 1 .. m, IsDiagnostic(log[i]), log[i].unit = prints[k].unit
      PROVE  InOrder(log[i], prints[k])
  <2>1. log[i].unit = w /\ i \in DOMAIN log
    BY <1>2, <1>7
  <2>2. log[i].nr \in 1 .. PrintedCount(w) /\ prints[k].nr \in PrintedCount(w) + 1 .. PrintedCount(w)'
    BY <1>2, <1>4, <1>7, <2>1
  <2>3. log[i].nr < prints[k].nr
    BY <1>2, <1>6, <2>2
  <2>4. ~Streaming => DumpSeparates(log[i], prints[k])
    BY <1>2, <1>3, <1>7, <2>1
  <2> QED BY <2>3, <2>4 DEF InOrder, Streaming
<1>8. ASSUME NEW l \in 1 .. m, NEW k \in 1 .. m, l < k
      PROVE  InOrder(prints[l], prints[k])
  <2>1. Ordered(prints[l], prints[k], ~Streaming) /\ ~DumpSeparates(prints[k], prints[l])
    BY <1>2, <1>3, <1>8
  <2> QED BY <2>1 DEF InOrder, Streaming, Ordered
<1>9. ASSUME NEW j \in DOMAIN log', NEW i \in 1 .. j - 1,
             IsDiagnostic(log'[i]), IsDiagnostic(log'[j]), log'[i].unit = log'[j].unit
      PROVE  InOrder(log'[i], log'[j])
  <2>1. CASE j \in 1 .. n
    <3>1. i \in 1 .. n /\ j \in DOMAIN log
      BY <1>1, <1>2, <2>1
    <3> QED BY <1>1, <1>5, <1>9, <2>1, <3>1
  <2>2. CASE \E k \in 1 .. m : j = n + k
    <3>1. PICK k \in 1 .. m : j = n + k
      BY <2>2
    <3>2. CASE i <= n
      <4>1. i \in 1 .. n
        BY <1>1, <3>2
      <4> QED BY <1>1, <1>7, <1>9, <3>1, <4>1
    <3>3. CASE i > n
      <4>1. i - n \in 1 .. m /\ i - n < k /\ n + (i - n) = i
        BY <1>1, <3>1, <3>3
      <4>2. log'[i] = prints[i - n] /\ log'[j] = prints[k]
        BY <1>1, <3>1, <4>1
      <4> QED BY <1>8, <4>1, <4>2
    <3> QED BY <1>1, <3>1, <3>2, <3>3
  <2>3. CASE \E k \in 1 .. h : j = n + m + k
    <3>1. PICK k \in 1 .. h : j = n + m + k
      BY <2>3
    <3>2. log'[j] = dumps[k] /\ dumps[k].kind # "diagnostic"
      BY <1>1, <1>2, <3>1
    <3> QED BY <1>9, <3>2 DEF IsDiagnostic
  <2> QED BY <1>1, <2>1, <2>2, <2>3
<1>10. ASSUME NEW j \in DOMAIN log', NEW i \in 1 .. j - 1,
             IsDiagnostic(log'[i]), IsDiagnostic(log'[j]), log'[i].unit = log'[j].unit
       PROVE  InOrder(log[i], log[j])'
  <2>1. InOrder(log'[i], log'[j])
    BY <1>9, <1>10
  <2>2. options' = options
    BY DEF ReportStep
  <2> QED BY <2>1, <2>2 DEF InOrder, DumpSeparates, IsBefore, PhaseNumber, DumpPhase
<1> QED BY <1>10 DEF PrintedInOrder, IsDiagnostic

(* What a report prints belongs to a later phase than the dumps before it  *)
(* in the log.                                                             *)
LEMMA ReportKeepsDumpsBehind ==
  ASSUME ReportInv, NEW w, NEW ds, NEW flush, NEW dumps, NEW prints,
         ReportStep(w, ds, flush, dumps, prints)
  PROVE  DumpsFollowDiagnostics'
<1> DEFINE n == Len(log)
           m == Len(prints)
           h == Len(dumps)
           pending == Buffer(w) \o ds
<1>1. /\ n \in Nat /\ m \in Nat /\ h \in Nat
      /\ DOMAIN log' = 1 .. n + m + h /\ Len(log') = n + m + h
      /\ \A i \in 1 .. n : log'[i] = log[i]
      /\ \A k \in 1 .. m : log'[n + k] = prints[k]
      /\ \A k \in 1 .. h : log'[n + m + k] = dumps[k]
      /\ \A i \in DOMAIN log' : \/ i \in 1 .. n
                                \/ \E k \in 1 .. m : i = n + k
                                \/ \E k \in 1 .. h : i = n + m + k
  <2>1. LogGrows(prints, dumps)
    BY ReportFacts
  <2> QED BY <2>1 DEF LogGrows
<1>2. /\ DOMAIN log = 1 .. n
      /\ \A k \in 1 .. h : dumps[k].kind # "diagnostic"
      /\ \A k \in 1 .. m :
           /\ prints[k] \in Diagnostic /\ prints[k].kind = "diagnostic" /\ prints[k].unit = w
           /\ \E i \in 1 .. Len(pending) : prints[k] = pending[i]
      /\ w \in Units
  <2>1. w \in Units
    BY DEF ReportStep
  <2> QED BY <2>1, ReportFacts, SMTT(40)
<1>3. \A i \in 1 .. Len(pending) : \A l \in DOMAIN log : log[l].kind = "dump" /\ log[l].unit = w =>
        PhaseNumber(pending[i]) > DumpPhase[log[l].what]
  BY PendingWaits
<1>4. \A i \in DOMAIN log : log[i].kind = "dump" =>
        \A j \in i + 1 .. n :
          ~ /\ log[j].kind = "diagnostic"
            /\ log[j].unit = log[i].unit
            /\ PhaseNumber(log[j]) <= DumpPhase[log[i].what]
  BY DEF ReportInv, StreamInv, DumpsFollowDiagnostics, IsDiagnostic
<1>5. \A i \in DOMAIN log : log[i].kind = "dump" /\ log[i].unit = w =>
        DumpPhase[log[i].what] \in Int
  <2>1. \A i \in DOMAIN log : log[i].kind = "dump" /\ log[i].unit = w =>
          log[i].what \in DOMAIN DumpPhase
    BY <1>2 DEF ReportInv, StreamInv, DumpsInv
  <2>2. \A f \in DOMAIN DumpPhase : DumpPhase[f] \in Int
    BY DumpPhaseType
  <2> QED BY <2>1, <2>2
<1> HIDE DEF n, m, h, pending
<1>6. ASSUME NEW i \in DOMAIN log', log'[i].kind = "dump", NEW j \in i + 1 .. Len(log')
      PROVE  ~ /\ log'[j].kind = "diagnostic"
               /\ log'[j].unit = log'[i].unit
               /\ PhaseNumber(log'[j]) <= DumpPhase[log'[i].what]
  <2>0. j \in DOMAIN log' /\ i \in Int /\ j \in Int /\ i < j
    BY <1>1
  <2>1. CASE j \in 1 .. n
    <3>1. i \in DOMAIN log /\ i \in 1 .. n /\ j \in i + 1 .. n
      BY <1>1, <1>2, <2>0, <2>1
    <3>2. log'[i] = log[i] /\ log'[j] = log[j]
      BY <1>1, <2>1, <3>1
    <3> QED BY <1>4, <1>6, <3>1, <3>2
  <2>2. CASE \E k \in 1 .. m : j = n + k
    <3>1. PICK k \in 1 .. m : j = n + k
      BY <2>2
    <3>2. log'[j] = prints[k]
      BY <1>1, <3>1
    <3>3. CASE i \in 1 .. n
      <4>1. log'[i] = log[i] /\ i \in DOMAIN log
        BY <1>1, <1>2, <3>3
      <4>2. PICK p \in 1 .. Len(pending) : prints[k] = pending[p]
        BY <1>2, <3>1
      <4>3. log[i].unit = w => PhaseNumber(prints[k]) > DumpPhase[log[i].what]
        BY <1>3, <1>6, <4>1, <4>2
      <4>4. /\ PhaseNumber(prints[k]) \in Int
            /\ log[i].unit = w => DumpPhase[log[i].what] \in Int
        BY <1>2, <1>5, <1>6, <3>1, <4>1, PhaseNumberType
      <4>5. prints[k].unit = w
        BY <1>2, <3>1
      <4>6. log[i].unit = w => ~(PhaseNumber(prints[k]) <= DumpPhase[log[i].what])
        BY <4>3, <4>4
      <4> QED BY <3>2, <4>1, <4>5, <4>6
    <3>4. CASE i \in n + 1 .. n + m
      <4>1. i - n \in 1 .. m /\ n + (i - n) = i
        BY <1>1, <3>4
      <4>2. log'[i] = prints[i - n] /\ prints[i - n].kind = "diagnostic"
        BY <1>1, <1>2, <4>1
      <4> QED BY <1>6, <4>2
    <3> QED BY <1>1, <2>0, <3>1, <3>3, <3>4
  <2>3. CASE \E k \in 1 .. h : j = n + m + k
    <3>1. PICK k \in 1 .. h : j = n + m + k
      BY <2>3
    <3>2. log'[j] = dumps[k] /\ dumps[k].kind # "diagnostic"
      BY <1>1, <1>2, <3>1
    <3> QED BY <3>2
  <2> QED BY <1>1, <2>0, <2>1, <2>2, <2>3
<1>7. \A i \in DOMAIN log' : log'[i].kind = "dump" =>
        \A j \in i + 1 .. Len(log') :
          ~ /\ log'[j].kind = "diagnostic"
            /\ log'[j].unit = log'[i].unit
            /\ PhaseNumber(log'[j]) <= DumpPhase[log'[i].what]
  BY <1>6
<1> QED BY <1>7 DEF DumpsFollowDiagnostics, IsDiagnostic, PhaseNumber, DumpPhase

(* Nothing that is pending after a report belongs before a dump. *)
LEMMA ReportKeepsDumps ==
  ASSUME ReportInv, NEW w, NEW ds, NEW flush, NEW dumps, NEW prints,
         ReportStep(w, ds, flush, dumps, prints)
  PROVE  DumpsInv'
<1> DEFINE n == Len(log)
           m == Len(prints)
           h == Len(dumps)
           pending == Buffer(w) \o ds
<1>1. /\ \A i \in 1 .. n : log'[i] = log[i]
      /\ \A k \in 1 .. m : log'[n + k] = prints[k]
      /\ \A k \in 1 .. h : log'[n + m + k] = dumps[k]
      /\ \A i \in DOMAIN log' : \/ i \in 1 .. n
                                \/ \E k \in 1 .. m : i = n + k
                                \/ \E k \in 1 .. h : i = n + m + k
  <2>1. LogGrows(prints, dumps)
    BY ReportFacts
  <2> QED BY <2>1 DEF LogGrows
<1>2. /\ DOMAIN log = 1 .. n /\ pending \in Seq(Diagnostic)
      /\ \A k \in 1 .. m : prints[k].kind = "diagnostic"
      /\ \A u \in Units \ {w} : Buffer(u)' = Buffer(u)
      /\ Buffer(w)' = pending \/ Buffer(w)' = <<>>
  BY ReportFacts
<1>3. \A i \in 1 .. Len(pending) : \A l \in DOMAIN log : log[l].kind = "dump" /\ log[l].unit = w =>
        PhaseNumber(pending[i]) > DumpPhase[log[l].what]
  BY PendingWaits
<1>4. \A u \in Units : \A i \in DOMAIN log : log[i].kind = "dump" /\ log[i].unit = u =>
        /\ log[i].what \in DOMAIN DumpPhase
        /\ \A j \in DOMAIN Buffer(u) : PhaseNumber(Buffer(u)[j]) > DumpPhase[log[i].what]
        /\ NextPhase(u) <= 3 => NextPhase(u) > DumpPhase[log[i].what]
  BY DEF ReportInv, StreamInv, DumpsInv
<1>5. /\ w \in Units
      /\ \A i \in 1 .. h : dumps[i].kind = "dump" =>
           /\ dumps[i].unit = w /\ dumps[i].what \in DOMAIN DumpPhase
           /\ Buffer(w)' = <<>>
           /\ NextPhase(w)' <= 3 => NextPhase(w)' > DumpPhase[dumps[i].what]
  BY DEF ReportStep
<1>6. /\ \A u \in Units \ {w} : NextPhase(u)' = NextPhase(u)
      /\ Reporting => NextPhase(w) \in 1 .. 3 /\ NextPhase(w)' = NextPhase(w) + 1
      /\ ~Reporting => NextPhase(w) = 4 /\ NextPhase(w)' = 4
  BY NextPhases DEF ReportInv
<1>7. \A f \in DOMAIN DumpPhase : DumpPhase[f] \in Int
  BY DumpPhaseType
<1> HIDE DEF n, m, h, pending
<1>8. ASSUME NEW u \in Units, NEW i \in DOMAIN log', log'[i].kind = "dump", log'[i].unit = u
      PROVE  /\ log'[i].what \in DOMAIN DumpPhase
             /\ \A j \in DOMAIN Buffer(u)' : PhaseNumber(Buffer(u)'[j]) > DumpPhase[log'[i].what]
             /\ NextPhase(u)' <= 3 => NextPhase(u)' > DumpPhase[log'[i].what]
  <2>1. CASE i \in 1 .. n
    <3>1. /\ log'[i] = log[i] /\ i \in DOMAIN log
          /\ log[i].kind = "dump" /\ log[i].unit = u
      BY <1>1, <1>2, <1>8, <2>1
    <3>2. /\ log[i].what \in DOMAIN DumpPhase
          /\ \A j \in DOMAIN Buffer(u) : PhaseNumber(Buffer(u)[j]) > DumpPhase[log[i].what]
          /\ NextPhase(u) <= 3 => NextPhase(u) > DumpPhase[log[i].what]
      BY <1>4, <3>1
    <3>3. CASE u # w
      BY <1>2, <1>6, <3>1, <3>2, <3>3
    <3>4. CASE u = w
      <4>1. \A j \in 1 .. Len(pending) : PhaseNumber(pending[j]) > DumpPhase[log[i].what]
        BY <1>3, <3>1, <3>4
      <4>2. DOMAIN pending = 1 .. Len(pending)
        BY <1>2
      <4>3. \A j \in DOMAIN Buffer(u)' : PhaseNumber(Buffer(u)'[j]) > DumpPhase[log[i].what]
        BY <1>2, <3>4, <4>1, <4>2
      <4>4. DumpPhase[log[i].what] \in Int
        BY <1>7, <3>2
      <4>5. NextPhase(w)' <= 3 => NextPhase(w)' > DumpPhase[log[i].what]
        BY <1>6, <3>2, <3>4, <4>4
      <4> QED BY <3>1, <3>2, <3>4, <4>3, <4>5
    <3> QED BY <3>3, <3>4
  <2>2. CASE \E k \in 1 .. m : i = n + k
    <3>1. log'[i].kind = "diagnostic"
      BY <1>1, <1>2, <2>2
    <3> QED BY <1>8, <3>1
  <2>3. CASE \E k \in 1 .. h : i = n + m + k
    <3>1. PICK k \in 1 .. h : i = n + m + k
      BY <2>3
    <3>2. log'[i] = dumps[k] /\ u = w
      BY <1>1, <1>5, <1>8, <3>1
    <3> QED BY <1>5, <1>8, <3>1, <3>2
  <2> QED BY <1>1, <2>1, <2>2, <2>3
<1> QED BY <1>8 DEF DumpsInv, PhaseNumber, DumpPhase

(* What is pending after a report waits for the same flush. *)
LEMMA ReportKeepsSeparation ==
  ASSUME ReportInv, NEW w, NEW ds, NEW flush, NEW dumps, NEW prints,
         ReportStep(w, ds, flush, dumps, prints)
  PROVE  SeparationInv'
<1> DEFINE n == Len(log)
           m == Len(prints)
           h == Len(dumps)
           pending == Buffer(w) \o ds
           due(d, flag, next) == PhaseNumber(d) <= DumpPhase[flag] => next <= DumpPhase[flag]
           behind(d, next) == \E flag \in FlushFlags :
                                PhaseNumber(d) <= DumpPhase[flag] /\ DumpPhase[flag] < next
<1>1. /\ \A i \in 1 .. n : log'[i] = log[i]
      /\ \A k \in 1 .. m : log'[n + k] = prints[k]
      /\ \A k \in 1 .. h : log'[n + m + k] = dumps[k]
      /\ \A i \in DOMAIN log' : \/ i \in 1 .. n
                                \/ \E k \in 1 .. m : i = n + k
                                \/ \E k \in 1 .. h : i = n + m + k
  <2>1. LogGrows(prints, dumps)
    BY ReportFacts
  <2> QED BY <2>1 DEF LogGrows
<1>2. /\ DOMAIN log = 1 .. n /\ pending \in Seq(Diagnostic)
      /\ \A k \in 1 .. h : dumps[k].kind # "diagnostic"
      /\ \A k \in 1 .. m : prints[k] \in Diagnostic /\ prints[k].unit = w
                             /\ \E i \in 1 .. Len(pending) : prints[k] = pending[i]
      /\ \A u \in Units \ {w} : Buffer(u)' = Buffer(u)
      /\ \/ prints = <<>> /\ Buffer(w)' = pending /\ ~flush /\ ~Streaming
         \/ Buffer(w)' = <<>> /\ (flush \/ Streaming)
      /\ Streaming' = Streaming /\ FlushFlags' = FlushFlags
  BY ReportFacts
<1>3. \A d, e : DumpSeparates(d, e)' = DumpSeparates(d, e)
  BY ReportFacts
<1>4. \A i \in 1 .. Len(pending) :
        /\ pending[i] \in Diagnostic
        /\ Reporting => PhaseNumber(pending[i]) <= NextPhase(w)
        /\ Reporting => \A flag \in FlushFlags : due(pending[i], flag, NextPhase(w))
        /\ \A j \in 1 .. Len(pending) : ~DumpSeparates(pending[i], pending[j])
        /\ ~Streaming => \A l \in DOMAIN log : IsDiagnostic(log[l]) /\ log[l].unit = w =>
             DumpSeparates(log[l], pending[i])
  BY PendingWaits
<1>5. \A u \in Units :
        /\ \A i, j \in DOMAIN Buffer(u) : ~DumpSeparates(Buffer(u)[i], Buffer(u)[j])
        /\ Reporting /\ units[u] # {} =>
             \A i \in DOMAIN Buffer(u) : \A flag \in FlushFlags : due(Buffer(u)[i], flag, NextPhase(u))
        /\ ~Streaming =>
             \A i \in DOMAIN log : IsDiagnostic(log[i]) /\ log[i].unit = u =>
               /\ \A j \in DOMAIN Buffer(u) : DumpSeparates(log[i], Buffer(u)[j])
               /\ NextPhase(u) <= 3 => behind(log[i], NextPhase(u))
  BY DEF ReportInv, StreamInv, SeparationInv
<1>6. /\ w \in Units /\ pc' = pc
      /\ \A u \in Units \ {w} : units'[u] = units[u]
      /\ pc \in {"Lex", "Parse"} /\ flush => \E flag \in FlushFlags : DumpPhase[flag] = NextPhase(w)
      /\ Reporting /\ ~flush /\ units'[w] # {} =>
           \A flag \in FlushFlags : DumpPhase[flag] # NextPhase(w)
  BY DEF ReportStep
<1>7. /\ \A u \in Units \ {w} : NextPhase(u)' = NextPhase(u)
      /\ Reporting => NextPhase(w) \in 1 .. 3 /\ NextPhase(w)' = NextPhase(w) + 1
      /\ pc = "Check" => NextPhase(w) = 3
      /\ ~Reporting => NextPhase(w) = 4 /\ NextPhase(w)' = 4
  BY NextPhases DEF ReportInv
<1>8. \A flag \in FlushFlags : DumpPhase[flag] \in Int
  BY DumpPhaseType DEF FlushFlags
<1>9. Reporting' = Reporting
  BY <1>6 DEF Reporting
<1>10. DOMAIN pending = 1 .. Len(pending)
  BY <1>2
<1>11. \A i \in DOMAIN log : IsDiagnostic(log[i]) => PhaseNumber(log[i]) \in Int
  <2>1. \A x \in Entry : IsDiagnostic(x) => x \in Diagnostic
    BY DEF Entry, IsDiagnostic
  <2>2. \A i \in DOMAIN log : log[i] \in Entry
    BY DEF ReportInv, StreamInv, TypeOK
  <2> QED BY <2>1, <2>2, PhaseNumberType
<1> HIDE DEF n, m, h, pending
<1>12. ASSUME NEW u \in Units
       PROVE  \A i, j \in DOMAIN Buffer(u)' : ~DumpSeparates(Buffer(u)'[i], Buffer(u)'[j])
  <2>1. CASE u # w
    BY <1>2, <1>5, <2>1
  <2>2. CASE u = w
    BY <1>2, <1>4, <1>10, <2>2
  <2> QED BY <2>1, <2>2
<1>13. ASSUME NEW u \in Units, Reporting, units'[u] # {}
       PROVE  \A i \in DOMAIN Buffer(u)' : \A flag \in FlushFlags :
                due(Buffer(u)'[i], flag, NextPhase(u)')
  <2>1. CASE u # w
    <3> HIDE DEF due
    <3> QED BY <1>2, <1>5, <1>6, <1>7, <1>13, <2>1
  <2>2. CASE u = w /\ Buffer(w)' = <<>>
    BY <2>2
  <2>3. CASE u = w /\ Buffer(w)' = pending /\ ~flush
    <3>1. ASSUME NEW i \in 1 .. Len(pending), NEW flag \in FlushFlags
          PROVE  due(pending[i], flag, NextPhase(w) + 1)
      <4>1. due(pending[i], flag, NextPhase(w)) /\ DumpPhase[flag] # NextPhase(w)
        BY <1>4, <1>6, <1>13, <2>3
      <4> QED BY <1>7, <1>8, <1>13, <4>1
    <3> HIDE DEF due
    <3> QED BY <1>7, <1>10, <1>13, <2>3, <3>1
  <2> QED BY <1>2, <2>1, <2>2, <2>3
<1>14. ASSUME NEW u \in Units, ~Streaming, NEW i \in DOMAIN log', IsDiagnostic(log'[i]),
              log'[i].unit = u
       PROVE  /\ \A j \in DOMAIN Buffer(u)' : DumpSeparates(log'[i], Buffer(u)'[j])
              /\ NextPhase(u)' <= 3 => behind(log'[i], NextPhase(u)')
  <2>1. CASE i \in 1 .. n
    <3>1. /\ log'[i] = log[i] /\ i \in DOMAIN log /\ IsDiagnostic(log[i]) /\ log[i].unit = u
      BY <1>1, <1>2, <1>14, <2>1
    <3>2. /\ \A j \in DOMAIN Buffer(u) : DumpSeparates(log[i], Buffer(u)[j])
          /\ NextPhase(u) <= 3 => behind(log[i], NextPhase(u))
      BY <1>5, <1>14, <3>1
    <3>3. CASE u # w
      <4> HIDE DEF behind
      <4> QED BY <1>2, <1>7, <3>1, <3>2, <3>3
    <3>4. CASE u = w
      <4>1. \A j \in DOMAIN Buffer(w)' : DumpSeparates(log[i], Buffer(w)'[j])
        BY <1>2, <1>4, <1>10, <1>14, <3>1, <3>4
      <4>2. NextPhase(w)' <= 3 => behind(log[i], NextPhase(w)')
        <5>1. SUFFICES ASSUME NextPhase(w)' <= 3
                       PROVE  behind(log[i], NextPhase(w)')
          OBVIOUS
        <5>2. NextPhase(w) \in Int /\ NextPhase(w) <= 3 /\ NextPhase(w)' = NextPhase(w) + 1
          BY <1>7, <5>1
        <5>3. behind(log[i], NextPhase(w))
          BY <3>2, <3>4, <5>2
        <5> QED BY <1>8, <5>2, <5>3
      <4> HIDE DEF behind
      <4> QED BY <3>1, <3>4, <4>1, <4>2
    <3> QED BY <3>3, <3>4
  <2>2. CASE \E k \in 1 .. m : i = n + k
    <3>1. PICK k \in 1 .. m : i = n + k
      BY <2>2
    <3>2. log'[i] = prints[k] /\ u = w /\ prints[k] \in Diagnostic
      BY <1>1, <1>2, <1>14, <3>1
    <3>3. flush /\ Buffer(w)' = <<>>
      <4>1. prints # <<>>
        <5>1. Len(<<>>) = 0
          OBVIOUS
        <5> QED BY <3>1, <5>1 DEF m
      <4> QED BY <1>2, <1>14, <4>1
    <3>4. NextPhase(w)' <= 3 => behind(prints[k], NextPhase(w)')
      <4>1. SUFFICES ASSUME NextPhase(w)' <= 3
                     PROVE  behind(prints[k], NextPhase(w)')
        OBVIOUS
      <4>2. /\ NextPhase(w) \in Int /\ NextPhase(w)' = NextPhase(w) + 1
            /\ Reporting /\ NextPhase(w) # 3
        BY <1>7, <4>1
      <4>3. PICK flag \in FlushFlags : DumpPhase[flag] = NextPhase(w)
        BY <1>6, <1>7, <3>3, <4>2 DEF Reporting
      <4>4. PhaseNumber(prints[k]) <= NextPhase(w)
        BY <1>2, <1>4, <3>1, <4>2
      <4>5. DumpPhase[flag] < NextPhase(w)'
        BY <4>2, <4>3
      <4> QED BY <4>3, <4>4, <4>5
    <3> HIDE DEF behind
    <3> QED BY <3>2, <3>3, <3>4
  <2>3. CASE \E k \in 1 .. h : i = n + m + k
    <3>1. PICK k \in 1 .. h : i = n + m + k
      BY <2>3
    <3>2. log'[i] = dumps[k] /\ dumps[k].kind # "diagnostic"
      BY <1>1, <1>2, <3>1
    <3> QED BY <1>14, <3>2 DEF IsDiagnostic
  <2> QED BY <1>1, <2>1, <2>2, <2>3
<1>15. options' = options
  BY DEF ReportStep
<1> QED BY <1>2, <1>9, <1>12, <1>13, <1>14, <1>15
        DEF SeparationInv, DumpSeparates, IsDiagnostic, PhaseNumber, DumpPhase

(* A step that reports keeps the invariant of the error stream. *)
LEMMA ReportKeepsStream ==
  ASSUME ReportInv, NEW w, NEW ds, NEW flush, NEW dumps, NEW prints,
         ReportStep(w, ds, flush, dumps, prints)
  PROVE  /\ StreamInv'
         /\ log' \in Seq(Entry)
         /\ reported' \in [Units -> Seq(Diagnostic)]
         /\ consumers' \in [Units -> [sorting : BOOLEAN, diagnostics : Seq(Diagnostic)]]
<1>1. /\ ReportEffect(w, ds, flush, dumps, prints) /\ TypeOK /\ BufferInv
      /\ w \in Units /\ Continues(w, ds)
  BY DEF ReportStep, ReportInv, StreamInv
<1>2. reported' \in [Units -> Seq(Diagnostic)]
  BY <1>1, PendingIsReported
<1>3. consumers' \in [Units -> [sorting : BOOLEAN, diagnostics : Seq(Diagnostic)]]
  BY <1>1 DEF ReportEffect
<1> QED BY <1>2, <1>3, ReportKeepsReported, ReportKeepsBuffers, ReportKeepsLog, ReportKeepsOrder,
           ReportKeepsDumps, ReportKeepsDumpsBehind, ReportKeepsSeparation DEF StreamInv

-----------------------------------------------------------------------------
(* The steps that do not report *)

(* The error stream is left alone; if a phase is due, it was due before.   *)
QuietStep ==
  /\ UNCHANGED <<options, consumers, log, reported>>
  /\ Started /\ pc # "done"
  /\ Started'
  /\ \A u \in Units :
       /\ NextPhase(u)' \in 1 .. 4 /\ NextPhase(u) <= NextPhase(u)'
       /\ NextPhase(u) \in 1 .. 4
       /\ Reporting' /\ units'[u] # {} =>
            Reporting /\ units[u] # {} /\ NextPhase(u)' = NextPhase(u)

(* A step that reports nothing keeps what is known of the streams. *)
LEMMA QuietKeepsStream ==
  ASSUME ReportInv, QuietStep
  PROVE  StreamInv'
<1>1. /\ options' = options /\ consumers' = consumers /\ log' = log /\ reported' = reported
      /\ \A u \in Units : NextPhase(u)' \in 1 .. 4 /\ NextPhase(u) <= NextPhase(u)'
                            /\ NextPhase(u) \in 1 .. 4
      /\ Started' /\ pc \notin {"args", "validate", "done"}
  BY DEF QuietStep, Started
<1>2. /\ \A u : Buffer(u)' = Buffer(u) /\ PrintedCount(u)' = PrintedCount(u)
      /\ Streaming' = Streaming /\ FlushFlags' = FlushFlags
      /\ \A d, e : DumpSeparates(d, e)' = DumpSeparates(d, e)
  BY <1>1 DEF Buffer, PrintedCount, Streaming, FlushFlags, DumpSeparates
<1>3. /\ \A u \in Units : \A k \in DOMAIN reported[u] : PhaseNumber(reported[u][k]) \in Int
      /\ \A i \in DOMAIN log : IsDiagnostic(log[i]) => PhaseNumber(log[i]) \in Int
  <2>1. \A x \in Entry : IsDiagnostic(x) => x \in Diagnostic
    BY DEF Entry, IsDiagnostic
  <2>2. \A i \in DOMAIN log : log[i] \in Entry
    BY DEF ReportInv, TypeOK
  <2>3. \A u \in Units : \A k \in DOMAIN reported[u] : reported[u][k] \in Diagnostic
    BY DEF ReportInv, TypeOK
  <2> QED BY <2>1, <2>2, <2>3, PhaseNumberType
<1>4. ReportedInv'
  <2>1. ASSUME NEW u \in Units, NEW k \in DOMAIN reported[u]
        PROVE  /\ reported[u][k].nr = k /\ reported[u][k].unit = u
               /\ PhaseNumber(reported[u][k]) < NextPhase(u)'
    <3>1. /\ reported[u][k].nr = k /\ reported[u][k].unit = u
          /\ PhaseNumber(reported[u][k]) < NextPhase(u)
      BY DEF ReportInv, StreamInv, ReportedInv
    <3> QED BY <1>1, <1>3, <3>1
  <2> QED BY <1>1, <2>1 DEF ReportedInv, PhaseNumber
<1>5. BufferInv'
  <2>1. \A u \in Units :
          /\ consumers[u].sorting = ~Streaming
          /\ ~consumers[u].sorting => Buffer(u) = <<>>
          /\ Len(Buffer(u)) <= Len(reported[u])
          /\ \A i \in DOMAIN Buffer(u) : Buffer(u)[i] = reported[u][PrintedCount(u) + i]
    BY <1>1 DEF ReportInv, StreamInv, BufferInv
  <2> QED BY <1>1, <1>2, <2>1 DEF BufferInv
<1>6. LogInv'
  BY <1>1, <1>2 DEF ReportInv, StreamInv, LogInv, IsDiagnostic
<1>7. PrintedInOrder'
  BY <1>1 DEF ReportInv, StreamInv, PrintedInOrder, IsDiagnostic, InOrder, DumpSeparates,
              PhaseNumber, IsBefore, DumpPhase
<1>8. DumpsFollowDiagnostics'
  BY <1>1 DEF ReportInv, StreamInv, DumpsFollowDiagnostics, IsDiagnostic, PhaseNumber, DumpPhase
<1>9. \A f \in DOMAIN DumpPhase : DumpPhase[f] \in Int
  BY DumpPhaseType
<1>10. DumpsInv'
  <2>1. ASSUME NEW u \in Units, NEW i \in DOMAIN log, log[i].kind = "dump", log[i].unit = u
        PROVE  /\ log[i].what \in DOMAIN DumpPhase
               /\ \A j \in DOMAIN Buffer(u) : PhaseNumber(Buffer(u)[j]) > DumpPhase[log[i].what]
               /\ NextPhase(u)' <= 3 => NextPhase(u)' > DumpPhase[log[i].what]
    <3>1. /\ log[i].what \in DOMAIN DumpPhase
          /\ \A j \in DOMAIN Buffer(u) : PhaseNumber(Buffer(u)[j]) > DumpPhase[log[i].what]
          /\ NextPhase(u) <= 3 => NextPhase(u) > DumpPhase[log[i].what]
      BY <2>1 DEF ReportInv, StreamInv, DumpsInv
    <3>2. DumpPhase[log[i].what] \in Int
      BY <1>9, <3>1
    <3>3. NextPhase(u)' <= 3 => NextPhase(u)' > DumpPhase[log[i].what]
      BY <1>1, <3>1, <3>2
    <3> QED BY <3>1, <3>3
  <2>2. \A u \in Units : \A i \in DOMAIN log' : log'[i].kind = "dump" /\ log'[i].unit = u =>
               /\ log'[i].what \in DOMAIN DumpPhase
               /\ \A j \in DOMAIN Buffer(u)' : PhaseNumber(Buffer(u)'[j]) > DumpPhase[log'[i].what]
               /\ NextPhase(u)' <= 3 => NextPhase(u)' > DumpPhase[log'[i].what]
    BY <1>1, <1>2, <2>1
  <2> QED BY <2>2 DEF DumpsInv, PhaseNumber, DumpPhase
<1>11. SeparationInv'
  <2>1. ASSUME NEW u \in Units
        PROVE  /\ \A i, j \in DOMAIN Buffer(u) : ~DumpSeparates(Buffer(u)[i], Buffer(u)[j])
               /\ Reporting /\ units[u] # {} =>
                    \A i \in DOMAIN Buffer(u) : \A flag \in FlushFlags :
                      PhaseNumber(Buffer(u)[i]) <= DumpPhase[flag] => NextPhase(u) <= DumpPhase[flag]
               /\ ~Streaming =>
                    \A i \in DOMAIN log : IsDiagnostic(log[i]) /\ log[i].unit = u =>
                      /\ \A j \in DOMAIN Buffer(u) : DumpSeparates(log[i], Buffer(u)[j])
                      /\ NextPhase(u) <= 3 => \E flag \in FlushFlags :
                           PhaseNumber(log[i]) <= DumpPhase[flag] /\ DumpPhase[flag] < NextPhase(u)
    BY DEF ReportInv, StreamInv, SeparationInv
  <2>2. ASSUME NEW u \in Units
        PROVE  Reporting' /\ units'[u] # {} =>
                 \A i \in DOMAIN Buffer(u) : \A flag \in FlushFlags :
                   PhaseNumber(Buffer(u)[i]) <= DumpPhase[flag] => NextPhase(u)' <= DumpPhase[flag]
    BY <2>1 DEF QuietStep
  <2>3. ASSUME NEW u \in Units, ~Streaming, NEW i \in DOMAIN log, IsDiagnostic(log[i]),
               log[i].unit = u, NextPhase(u)' <= 3
        PROVE  \E flag \in FlushFlags :
                 PhaseNumber(log[i]) <= DumpPhase[flag] /\ DumpPhase[flag] < NextPhase(u)'
    <3>1. NextPhase(u) <= 3
      BY <1>1, <2>3
    <3>2. PICK flag \in FlushFlags :
            PhaseNumber(log[i]) <= DumpPhase[flag] /\ DumpPhase[flag] < NextPhase(u)
      BY <2>1, <2>3, <3>1
    <3>3. DumpPhase[flag] \in Int
      BY <1>9, DumpPhaseType DEF FlushFlags
    <3>4. DumpPhase[flag] < NextPhase(u)'
      BY <1>1, <3>2, <3>3
    <3> QED BY <3>2, <3>4
  <2> QED BY <1>1, <1>2, <2>1, <2>2, <2>3
          DEF SeparationInv, DumpSeparates, IsDiagnostic, PhaseNumber, DumpPhase
<1> QED BY <1>4, <1>5, <1>6, <1>7, <1>8, <1>10, <1>11 DEF StreamInv

(* Before the first phase, and when there is none, nothing was reported. *)
EmptyStream ==
  /\ reported = [ u \in Units |-> <<>> ]
  /\ \A u \in Units : Buffer(u) = <<>>
  /\ \A u \in Units : pc \notin {"args", "validate", "done"} => consumers[u].sorting = ~Streaming
  /\ Len(log) = 0 \/ (Len(log) = 1 /\ pc = "done")
  /\ DOMAIN log = 1 .. Len(log)
  /\ \A i \in DOMAIN log : /\ log[i].kind # "diagnostic"
                           /\ log[i].kind = "dump" => log[i].unit = 0

(* Nothing is known of streams to which nothing was reported. *)
LEMMA EmptyStreamIsKept == EmptyStream => StreamInv
<1> SUFFICES ASSUME EmptyStream
             PROVE  StreamInv
  OBVIOUS
<1>1. ReportedInv
  BY DEF EmptyStream, ReportedInv
<1>2. BufferInv
  BY DEF EmptyStream, BufferInv
<1>3. \A u \in Units : PrintedCount(u) = 0
  BY DEF EmptyStream, PrintedCount
<1>4. \A i \in DOMAIN log : ~IsDiagnostic(log[i]) /\ ~(log[i].kind = "dump" /\ log[i].unit \in Units)
  <2>1. 0 \notin Units
    BY FilesAssumption DEF Units
  <2> QED BY <2>1 DEF EmptyStream, IsDiagnostic
<1>5. LogInv
  BY <1>3, <1>4 DEF LogInv
<1>6. SeparationInv
  BY <1>4 DEF EmptyStream, SeparationInv
<1>7. PrintedInOrder
  BY <1>4 DEF PrintedInOrder
<1>8. DumpsInv
  BY <1>4 DEF DumpsInv
<1>9. DumpsFollowDiagnostics
  <2>1. SUFFICES ASSUME NEW i \in DOMAIN log, NEW j \in i + 1 .. Len(log)
                 PROVE  FALSE
    BY DEF DumpsFollowDiagnostics
  <2> QED BY <2>1 DEF EmptyStream
<1> QED BY <1>1, <1>2, <1>5, <1>6, <1>7, <1>8, <1>9 DEF StreamInv

(* The same after a step. *)
LEMMA EmptyStreamIsKeptNext ==
  ASSUME EmptyStream'
  PROVE  StreamInv'
BY EmptyStreamIsKept, PTL
-----------------------------------------------------------------------------
(* Errors and messages stay where they are *)

(* A report forgets no error and no message, and adds those it makes. *)
LEMMA ErrorsGrow ==
  ASSUME ReportInv, NEW w, NEW ds, NEW flush, NEW dumps, NEW prints,
         ReportStep(w, ds, flush, dumps, prints)
  PROVE  /\ BlockingError' => BlockingError \/ \E i \in 1 .. Len(ds) :
                                ds[i].phase # "Parse" /\ ds[i].level = "Error"
         /\ ErrorReported => ErrorReported'
         /\ (\E i \in 1 .. Len(ds) : ds[i].level = "Error") => ErrorReported'
         /\ MessageWritten => MessageWritten'
         /\ (\E k \in 1 .. Len(dumps) : dumps[k].kind = "message") => MessageWritten'
         /\ \A i \in DOMAIN log : i \in DOMAIN log' /\ log'[i] = log[i]
         /\ \A k \in 1 .. Len(dumps) : \E i \in DOMAIN log' : log'[i] = dumps[k]
<1> DEFINE n == Len(reported[w])
           m == Len(ds)
<1>0. /\ TypeOK /\ BufferInv /\ w \in Units /\ Continues(w, ds)
      /\ ReportEffect(w, ds, flush, dumps, prints)
  BY DEF ReportInv, StreamInv, ReportStep
<1>1. /\ n \in Nat /\ m \in Nat
      /\ reported' \in [Units -> Seq(Diagnostic)]
      /\ \A u \in Units \ {w} : reported'[u] = reported[u]
      /\ Len(reported'[w]) = n + m
      /\ \A k \in 1 .. n : reported'[w][k] = reported[w][k]
      /\ \A k \in 1 .. m : reported'[w][n + k] = ds[k]
  BY <1>0, PendingIsReported
<1>2. DOMAIN reported[w] = 1 .. n /\ DOMAIN reported'[w] = 1 .. n + m
  BY <1>0, <1>1 DEF TypeOK
<1> HIDE DEF n, m
<1>3. ASSUME NEW k \in 1 .. n + m
      PROVE  \/ k \in 1 .. n /\ reported'[w][k] = reported[w][k]
             \/ \E i \in 1 .. m : reported'[w][k] = ds[i]
  <2>1. CASE k <= n
    <3>1. k \in 1 .. n
      BY <1>1, <2>1
    <3> QED BY <1>1, <3>1
  <2>2. CASE k > n
    <3>1. k - n \in 1 .. m /\ n + (k - n) = k
      BY <1>1, <2>2
    <3>2. reported'[w][k] = ds[k - n]
      BY <1>1, <3>1
    <3> QED BY <3>1, <3>2
  <2> QED BY <1>1, <2>1, <2>2
<1>4. BlockingError' => BlockingError \/ \E i \in 1 .. m : ds[i].phase # "Parse" /\ ds[i].level = "Error"
  <2>1. SUFFICES ASSUME NEW u \in Units, NEW k \in DOMAIN reported'[u],
                        reported'[u][k].phase # "Parse" /\ reported'[u][k].level = "Error"
                 PROVE  BlockingError \/ \E i \in 1 .. m : ds[i].phase # "Parse" /\ ds[i].level = "Error"
    BY DEF BlockingError
  <2>2. CASE u # w
    BY <1>1, <2>1, <2>2 DEF BlockingError
  <2>3. CASE u = w
    BY <1>0, <1>2, <1>3, <2>1, <2>3 DEF BlockingError
  <2> QED BY <2>2, <2>3
<1>5. ErrorReported => ErrorReported'
  <2>1. SUFFICES ASSUME NEW u \in Units, NEW k \in DOMAIN reported[u], reported[u][k].level = "Error"
                 PROVE  \E l \in DOMAIN reported'[u] : reported'[u][l].level = "Error"
    BY DEF ErrorReported
  <2>2. CASE u # w
    BY <1>1, <2>1, <2>2
  <2>3. CASE u = w
    <3>1. k \in 1 .. n /\ k \in 1 .. n + m
      BY <1>1, <1>2, <2>3
    <3> QED BY <1>1, <1>2, <2>1, <2>3, <3>1
  <2> QED BY <2>2, <2>3
<1>6. (\E i \in 1 .. m : ds[i].level = "Error") => ErrorReported'
  <2>1. SUFFICES ASSUME NEW i \in 1 .. m, ds[i].level = "Error"
                 PROVE  \E l \in DOMAIN reported'[w] : reported'[w][l].level = "Error"
    BY <1>0 DEF ErrorReported
  <2>2. n + i \in 1 .. n + m
    BY <1>1
  <2> QED BY <1>1, <1>2, <2>1, <2>2
<1>7. LogGrows(prints, dumps) /\ DOMAIN log = 1 .. Len(log)
  BY ReportFacts
<1>8. \A i \in DOMAIN log : i \in DOMAIN log' /\ log'[i] = log[i]
  <2>1. \A i \in 1 .. Len(log) : i \in DOMAIN log' /\ log'[i] = log[i]
    BY <1>7 DEF LogGrows
  <2> QED BY <1>7, <2>1
<1>9. ASSUME NEW k \in 1 .. Len(dumps)
      PROVE  \E i \in DOMAIN log' : log'[i] = dumps[k]
  <2>1. Len(log) + Len(prints) + k \in DOMAIN log'
    BY <1>7 DEF LogGrows
  <2>2. log'[Len(log) + Len(prints) + k] = dumps[k]
    BY <1>7 DEF LogGrows
  <2> QED BY <2>1, <2>2
<1>10. MessageWritten => MessageWritten'
  BY <1>8 DEF MessageWritten
<1>11. (\E k \in 1 .. Len(dumps) : dumps[k].kind = "message") => MessageWritten'
  BY <1>9 DEF MessageWritten
<1> QED BY <1>4, <1>5, <1>6, <1>8, <1>9, <1>10, <1>11 DEF m

(* Errors and messages stay as they are if nothing is written. *)
LEMMA QuietKeepsErrors ==
  ASSUME reported' = reported, log' = log
  PROVE  /\ BlockingError' = BlockingError /\ ErrorReported' = ErrorReported
         /\ MessageWritten' = MessageWritten
BY DEF BlockingError, ErrorReported, MessageWritten
-----------------------------------------------------------------------------
(* One lemma per action *)

(* What the phases add to each other. *)
LEMMA ArtifactFacts ==
  /\ Loaded # {} /\ Parsed # {} /\ Checked # {} /\ Lowered # {}
  /\ "source" \in Loaded /\ "source" \in Parsed /\ "source" \in Checked
  /\ "tokens" \in Loaded /\ "parse_tree" \in Parsed /\ "sem_ir" \in Checked /\ "module" \in Lowered
  /\ "module" \notin Loaded /\ "module" \notin Parsed /\ "module" \notin Checked
  /\ {} \union {"source", "tokens"} = Loaded
  /\ Loaded \union {"parse_tree"} = Parsed
  /\ Parsed \union {"sem_ir"} = Checked
  /\ Checked \union {"module"} = Lowered
  /\ Loaded \in SUBSET Artifacts /\ Parsed \in SUBSET Artifacts
  /\ Checked \in SUBSET Artifacts /\ Lowered \in SUBSET Artifacts
  /\ Loaded # Checked /\ Parsed # Checked /\ Lowered # Checked
BY DEF Loaded, Parsed, Checked, Lowered, Artifacts

(* The types of the options that matter. *)
LEMMA OptionFacts ==
  ASSUME TypeOK
  PROVE  /\ options.phase \in 1 .. 5 /\ options.dumps \in SUBSET DOMAIN DumpPhase
         /\ options.output \in {"", "-", "file"}
BY OptionsAssumption DEF TypeOK, OptionRecords

(* The phase that is due, by the step of Compile. *)
LEMMA NextPhaseValues ==
  ASSUME NEW u
  PROVE  /\ NextPhase(u) \in 1 .. 4
         /\ pc = "Lex" => NextPhase(u) = IF u < unit THEN 2 ELSE 1
         /\ pc = "Parse" => NextPhase(u) = IF u < unit THEN 3 ELSE 2
         /\ pc = "Check" => NextPhase(u) = IF u < unit THEN 4 ELSE 3
         /\ pc \notin {"Lex", "Parse", "Check"} => NextPhase(u) = 4
BY DEF NextPhase

(* The same after a step. *)
LEMMA NextPhaseValuesNext ==
  ASSUME NEW u
  PROVE  /\ NextPhase(u)' \in 1 .. 4
         /\ pc' = "Lex" => NextPhase(u)' = IF u < unit' THEN 2 ELSE 1
         /\ pc' = "Parse" => NextPhase(u)' = IF u < unit' THEN 3 ELSE 2
         /\ pc' = "Check" => NextPhase(u)' = IF u < unit' THEN 4 ELSE 3
         /\ pc' \notin {"Lex", "Parse", "Check"} => NextPhase(u)' = 4
BY DEF NextPhase

(* What a result says of the units. *)
ResultFits(value) ==
  \A u \in Units :
    /\ units[u] = {} => value = "false"
    /\ units[u] # {} => units[u] \in {Loaded, Parsed, Checked, Lowered}
    /\ options.phase = 1 => units[u] \in {{}, Loaded}
    /\ options.phase = 2 => units[u] \in {{}, Parsed}
    /\ options.phase = 3 => units[u] \in {{}, Checked}
    /\ options.phase >= 4 => units[u] \in {{}, Checked, Lowered}
    /\ options.phase >= 4 /\ units[u] = Checked => value = "false"

(* The common part of the ways to leave Compile. *)
LEMMA LeaveKeepsInvariant ==
  ASSUME DriverInv, NEW value \in {"true", "false"}, Leave(value), unit' = 1,
         UNCHANGED <<options, units, consumers, success, log, outputs, reported>>,
         pc \in {"Lex", "Parse", "Check", "errors", "Lower", "CodeGen"},
         ResultFits(value),
         value = "false" => ErrorReported \/ MessageWritten,
         value = "true" /\ options.phase = 5 => \A u \in Units : Delivered(u)
  PROVE  DriverInv'
<1>0. /\ pc' = "flush" /\ unit' = 1 /\ result' = value /\ options' = options /\ units' = units
      /\ consumers' = consumers /\ success' = success /\ log' = log /\ outputs' = outputs
      /\ reported' = reported
  BY DEF Leave
<1>1. TypeOK'
  BY <1>0, FilesAssumption DEF DriverInv, TypeOK, Steps
<1>2. QuietStep
  <2>1. \A u \in Units : NextPhase(u)' = 4 /\ NextPhase(u) \in 1 .. 4
    BY <1>0, NextPhaseValues, NextPhaseValuesNext
  <2> QED BY <1>0, <2>1 DEF QuietStep, Started, Reporting
<1>3. StreamInv'
  BY <1>2, QuietKeepsStream DEF ReportInv, DriverInv
<1>4. ArtifactsInv' /\ ControlInv' /\ OutputsInv'
  BY <1>0 DEF ArtifactsInv, ControlInv, OutputsInv, Started, Left
<1>5. LeaveInv'
  BY <1>0 DEF LeaveInv, ResultFits
<1>6. FlushedInv'
  <2>1. \A u \in Units : ~(u < 1)
    BY FilesAssumption DEF Units
  <2> QED BY <1>0, <2>1 DEF FlushedInv
<1>7. ErrorsInv'
  <2>1. BlockingError' = BlockingError
    BY <1>0, QuietKeepsErrors
  <2>2. BlockingError => pc \notin {"Lower", "CodeGen"}
    BY DEF DriverInv, ErrorsInv
  <2>3. pc \notin {"Lower", "CodeGen"} => NoOutputs
    BY DEF DriverInv, OutputsInv, Left
  <2>4. pc \notin {"Lower", "CodeGen"} => \A u \in Units : "module" \notin units[u]
    BY ArtifactFacts DEF DriverInv, ArtifactsInv
  <2>5. NoOutputs' = NoOutputs
    BY <1>0 DEF NoOutputs
  <2> QED BY <1>0, <2>1, <2>2, <2>3, <2>4, <2>5 DEF ErrorsInv, Reporting
<1>8. ExplainedInv'
  BY <1>0, QuietKeepsErrors DEF ExplainedInv, Reporting
<1>9. CodeInv'
  <2>1. \A u \in Units : Delivered(u)' = Delivered(u)
    BY <1>0 DEF Delivered, Code, OutputForm, OutputFile, replace_extension
  <2> QED BY <1>0, <2>1 DEF CodeInv
<1> QED BY <1>1, <1>3, <1>4, <1>5, <1>6, <1>7, <1>8, <1>9 DEF DriverInv

(* A loop that has ended has gone over all the units. *)
LEMMA AtEndOfLoop ==
  ASSUME DriverInv, unit = Files + 1
  PROVE  /\ \A u \in Units : u < unit /\ ~(u >= unit) /\ ~(u < 1) /\ u >= 1
         /\ TypeOK /\ options.phase \in 1 .. 5
         /\ Succeeded(success) \in {"true", "false"}
<1>1. \A u \in Units : u < unit /\ ~(u >= unit) /\ ~(u < 1) /\ u >= 1
  BY FilesAssumption DEF Units
<1>2. TypeOK
  BY DEF DriverInv
<1>3. Succeeded(success) \in {"true", "false"}
  BY DEF Succeeded
<1> QED BY <1>1, <1>2, <1>3, OptionFacts

(* The common part of the steps from one phase to the next. *)
LEMMA NextPhaseKeepsInvariant ==
  ASSUME DriverInv, unit = Files + 1, unit' = 1,
         UNCHANGED <<options, units, consumers, success, result, log, outputs, reported>>,
         \/ pc = "Lex" /\ pc' = "Parse"
         \/ pc = "Parse" /\ pc' = "Check"
         \/ pc = "Check" /\ pc' = "errors",
         ControlInv'
  PROVE  DriverInv'
<1>0. \A u \in Units : u < unit /\ ~(u >= unit) /\ ~(u < 1) /\ u >= 1
  BY AtEndOfLoop
<1>1. TypeOK'
  BY FilesAssumption DEF DriverInv, TypeOK, Steps
<1>2. QuietStep
  <2>1. \A u \in Units : NextPhase(u)' = NextPhase(u) /\ NextPhase(u) \in 1 .. 4
    BY <1>0, NextPhaseValues, NextPhaseValuesNext
  <2> QED BY <2>1 DEF QuietStep, Started, Reporting
<1>3. StreamInv'
  BY <1>2, QuietKeepsStream DEF ReportInv, DriverInv
<1>4. ArtifactsInv'
  BY <1>0 DEF DriverInv, ArtifactsInv, Started
<1>5. LeaveInv' /\ CodeInv'
  BY DEF LeaveInv, CodeInv, Left
<1>6. FlushedInv'
  BY <1>0 DEF DriverInv, FlushedInv, Buffer
<1>7. OutputsInv'
  BY DEF DriverInv, OutputsInv, NoOutputs, Left
<1>8. ErrorsInv' /\ ExplainedInv'
  BY QuietKeepsErrors DEF DriverInv, ErrorsInv, ExplainedInv, Reporting, Left
<1> QED BY <1>1, <1>3, <1>4, <1>5, <1>6, <1>7, <1>8 DEF DriverInv

(* After lexing, Compile ends or parses. *)
LEMMA EndLexKeepsInvariant ==
  ASSUME DriverInv, EndLex
  PROVE  DriverInv'
<1>0. /\ pc = "Lex" /\ unit = Files + 1 /\ unit' = 1
      /\ UNCHANGED <<options, units, consumers, success, log, outputs, reported>>
      /\ IF options.phase = 1 THEN Leave(Succeeded(success)) ELSE pc' = "Parse" /\ UNCHANGED result
  BY DEF EndLex, EndStep
<1>1. \A u \in Units : units[u] \in {{}, Loaded} /\ (success => units[u] # {})
  BY <1>0, AtEndOfLoop DEF DriverInv, ArtifactsInv
<1>2. CASE options.phase = 1
  <2>1. Leave(Succeeded(success)) /\ Succeeded(success) \in {"true", "false"}
    BY <1>0, <1>2, AtEndOfLoop
  <2>2. ResultFits(Succeeded(success))
    BY <1>1, <1>2, ArtifactFacts DEF ResultFits, Succeeded
  <2>3. Succeeded(success) = "false" => ErrorReported
    BY <1>0 DEF DriverInv, ExplainedInv, Reporting, Succeeded
  <2> QED BY <1>0, <1>2, <2>1, <2>2, <2>3, LeaveKeepsInvariant
<1>3. CASE options.phase # 1
  <2>1. ControlInv'
    BY <1>0, <1>3, AtEndOfLoop DEF ControlInv, Started
  <2> QED BY <1>0, <1>3, <2>1, NextPhaseKeepsInvariant
<1> QED BY <1>2, <1>3

(* After parsing, Compile ends or checks. *)
LEMMA EndParseKeepsInvariant ==
  ASSUME DriverInv, EndParse
  PROVE  DriverInv'
<1>0. /\ pc = "Parse" /\ unit = Files + 1 /\ unit' = 1
      /\ UNCHANGED <<options, units, consumers, success, log, outputs, reported>>
      /\ IF options.phase = 2 THEN Leave(Succeeded(success)) ELSE pc' = "Check" /\ UNCHANGED result
  BY DEF EndParse, EndStep
<1>1. \A u \in Units : units[u] \in {{}, Parsed} /\ (success => units[u] # {})
  BY <1>0, AtEndOfLoop DEF DriverInv, ArtifactsInv
<1>2. CASE options.phase = 2
  <2>1. Leave(Succeeded(success)) /\ Succeeded(success) \in {"true", "false"}
    BY <1>0, <1>2, AtEndOfLoop
  <2>2. ResultFits(Succeeded(success))
    BY <1>1, <1>2, ArtifactFacts DEF ResultFits, Succeeded
  <2>3. Succeeded(success) = "false" => ErrorReported
    BY <1>0 DEF DriverInv, ExplainedInv, Reporting, Succeeded
  <2> QED BY <1>0, <1>2, <2>1, <2>2, <2>3, LeaveKeepsInvariant
<1>3. CASE options.phase # 2
  <2>1. ControlInv'
    BY <1>0, <1>3, AtEndOfLoop DEF DriverInv, ControlInv, Started
  <2> QED BY <1>0, <1>3, <2>1, NextPhaseKeepsInvariant
<1> QED BY <1>2, <1>3

(* After checking, Compile ends or looks at the errors. *)
LEMMA EndCheckKeepsInvariant ==
  ASSUME DriverInv, EndCheck
  PROVE  DriverInv'
<1>0. /\ pc = "Check" /\ unit = Files + 1 /\ unit' = 1
      /\ UNCHANGED <<options, units, consumers, success, log, outputs, reported>>
      /\ IF options.phase = 3 THEN Leave(Succeeded(success)) ELSE pc' = "errors" /\ UNCHANGED result
  BY DEF EndCheck, EndStep
<1>1. \A u \in Units : units[u] \in {{}, Checked} /\ (success => units[u] # {})
  BY <1>0, AtEndOfLoop DEF DriverInv, ArtifactsInv
<1>2. CASE options.phase = 3
  <2>1. Leave(Succeeded(success)) /\ Succeeded(success) \in {"true", "false"}
    BY <1>0, <1>2, AtEndOfLoop
  <2>2. ResultFits(Succeeded(success))
    BY <1>1, <1>2, ArtifactFacts DEF ResultFits, Succeeded
  <2>3. Succeeded(success) = "false" => ErrorReported
    BY <1>0 DEF DriverInv, ExplainedInv, Reporting, Succeeded
  <2> QED BY <1>0, <1>2, <2>1, <2>2, <2>3, LeaveKeepsInvariant
<1>3. CASE options.phase # 3
  <2>1. ControlInv'
    BY <1>0, <1>3, AtEndOfLoop DEF DriverInv, ControlInv, Started
  <2> QED BY <1>0, <1>3, <2>1, NextPhaseKeepsInvariant
<1> QED BY <1>2, <1>3

(* Compile goes on to lowering only without errors. *)
LEMMA ProceedToLowerKeepsInvariant ==
  ASSUME DriverInv, ProceedToLower
  PROVE  DriverInv'
<1>0. /\ pc = "errors" /\ unit' = unit /\ unit = 1
      /\ UNCHANGED <<options, units, consumers, success, log, outputs, reported>>
      /\ IF success THEN pc' = "Lower" /\ UNCHANGED result ELSE Leave("false")
      /\ options.phase >= 4 /\ options.phase \in 1 .. 5
  BY OptionFacts DEF DriverInv, ControlInv, ProceedToLower
<1>1. \A u \in Units : units[u] \in {{}, Checked} /\ (success => units[u] # {})
  BY <1>0 DEF DriverInv, ArtifactsInv
<1>2. CASE ~success
  <2>1. ResultFits("false")
    BY <1>0, <1>1, ArtifactFacts DEF ResultFits
  <2>2. ErrorReported
    BY <1>0, <1>2 DEF DriverInv, ExplainedInv
  <2> QED BY <1>0, <1>2, <2>1, <2>2, LeaveKeepsInvariant
<1>3. CASE success
  <2>0. pc' = "Lower" /\ result' = result /\ \A u \in Units : ~(u < 1)
    BY <1>0, <1>3, FilesAssumption DEF Units
  <2>1. TypeOK'
    BY <1>0, <2>0, FilesAssumption DEF DriverInv, TypeOK, Steps
  <2>2. QuietStep
    <3>1. \A u \in Units : NextPhase(u)' = 4 /\ NextPhase(u) = 4
      BY <1>0, <2>0, NextPhaseValues, NextPhaseValuesNext
    <3> QED BY <1>0, <2>0, <3>1 DEF QuietStep, Started, Reporting
  <2>3. StreamInv'
    BY <2>2, QuietKeepsStream DEF ReportInv, DriverInv
  <2>4. ArtifactsInv'
    BY <1>0, <1>1, <1>3, <2>0 DEF ArtifactsInv, Started
  <2>5. ControlInv' /\ LeaveInv' /\ CodeInv'
    BY <1>0, <1>3, <2>0 DEF ControlInv, LeaveInv, CodeInv, Left, Started
  <2>6. FlushedInv'
    BY <1>0, <1>1, <1>3, <2>0 DEF DriverInv, FlushedInv, Buffer
  <2>7. OutputsInv'
    BY <1>0, <2>0 DEF DriverInv, OutputsInv, NoOutputs, Left
  <2>8. ErrorsInv' /\ ExplainedInv'
    BY <1>0, <1>3, <2>0, QuietKeepsErrors DEF DriverInv, ErrorsInv, ExplainedInv, Reporting, Left
  <2> QED BY <2>1, <2>3, <2>4, <2>5, <2>6, <2>7, <2>8 DEF DriverInv
<1> QED BY <1>2, <1>3

(* After lowering, Compile ends or generates code; no other phase is left, *)
(* so its last CHECK does not fail.                                        *)
LEMMA EndLowerKeepsInvariant ==
  ASSUME DriverInv, EndLower
  PROVE  DriverInv'
<1>0. /\ pc = "Lower" /\ unit = Files + 1 /\ unit' = 1
      /\ UNCHANGED <<options, units, consumers, success, log, outputs, reported>>
      /\ IF options.phase = 4 THEN Leave(Succeeded(success))
         ELSE pc' = (IF options.phase = 5 THEN "CodeGen" ELSE "aborted") /\ UNCHANGED result
      /\ success /\ options.phase >= 4
  BY DEF EndLower, EndStep, DriverInv, ControlInv
<1>1. \A u \in Units : units[u] = Lowered
  BY <1>0, AtEndOfLoop DEF DriverInv, ArtifactsInv
<1>2. CASE options.phase = 4
  <2>1. Leave("true")
    BY <1>0, <1>2 DEF Succeeded
  <2>2. ResultFits("true")
    BY <1>1, <1>2, ArtifactFacts DEF ResultFits
  <2>3. options.phase # 5
    BY <1>2
  <2> QED BY <1>0, <2>1, <2>2, <2>3, LeaveKeepsInvariant
<1>3. CASE options.phase # 4
  <2>0. pc' = "CodeGen" /\ result' = result /\ options.phase = 5
    BY <1>0, <1>3, AtEndOfLoop
  <2>1. TypeOK'
    BY <1>0, <2>0, FilesAssumption DEF DriverInv, TypeOK, Steps
  <2>2. QuietStep
    <3>1. \A u \in Units : NextPhase(u)' = 4 /\ NextPhase(u) = 4
      BY <1>0, <2>0, NextPhaseValues, NextPhaseValuesNext
    <3> QED BY <1>0, <2>0, <3>1 DEF QuietStep, Started, Reporting
  <2>3. StreamInv'
    BY <2>2, QuietKeepsStream DEF ReportInv, DriverInv
  <2>4. ArtifactsInv'
    BY <1>0, <1>1, <2>0 DEF ArtifactsInv, Started
  <2>5. ControlInv' /\ LeaveInv' /\ CodeInv' /\ OutputsInv'
    BY <1>0, <2>0 DEF ControlInv, LeaveInv, CodeInv, OutputsInv, Left, Started
  <2>6. FlushedInv'
    BY <1>0, <2>0 DEF DriverInv, FlushedInv, Buffer
  <2>7. ErrorsInv' /\ ExplainedInv'
    BY <1>0, <2>0, QuietKeepsErrors DEF DriverInv, ErrorsInv, ExplainedInv, Reporting, Left
  <2> QED BY <2>1, <2>3, <2>4, <2>5, <2>6, <2>7 DEF DriverInv
<1> QED BY <1>2, <1>3

(* After code generation, Compile ends. *)
LEMMA EndCodeGenKeepsInvariant ==
  ASSUME DriverInv, EndCodeGen
  PROVE  DriverInv'
<1>0. /\ pc = "CodeGen" /\ unit = Files + 1 /\ unit' = 1
      /\ UNCHANGED <<options, units, consumers, success, log, outputs, reported>>
      /\ Leave(Succeeded(success)) /\ Succeeded(success) \in {"true", "false"}
      /\ options.phase = 5
  BY AtEndOfLoop DEF EndCodeGen, DriverInv, ControlInv
<1>1. \A u \in Units : units[u] = Lowered
  BY <1>0 DEF DriverInv, ArtifactsInv
<1>2. ResultFits(Succeeded(success))
  BY <1>0, <1>1, ArtifactFacts DEF ResultFits
<1>3. Succeeded(success) = "false" => MessageWritten
  BY <1>0 DEF DriverInv, ExplainedInv, Succeeded
<1>4. Succeeded(success) = "true" => \A u \in Units : Delivered(u)
  <2>1. \A u \in Units : u \in 1 .. unit - 1
    BY <1>0, FilesAssumption DEF Units
  <2>2. success => \A u \in 1 .. unit - 1 : Delivered(u)
    BY <1>0 DEF DriverInv, CodeInv
  <2> QED BY <2>1, <2>2 DEF Succeeded
<1> QED BY <1>0, <1>2, <1>3, <1>4, LeaveKeepsInvariant

(* A unit that was not loaded is skipped, with its error known. *)
LEMMA SkipUnloadedKeepsInvariant ==
  ASSUME DriverInv, SkipUnloaded
  PROVE  DriverInv'
<1>0. /\ pc \in {"Parse", "Check"} /\ pc' = pc /\ unit \in Units /\ unit' = unit + 1
      /\ success' = FALSE /\ units[unit] = {} /\ unit \in Int
      /\ UNCHANGED <<options, units, consumers, result, log, outputs, reported>>
  <2>1. /\ pc \in {"Parse", "Check"} /\ pc' = pc /\ unit <= Files /\ unit' = unit + 1
        /\ success' = FALSE /\ "source" \notin units[unit]
        /\ UNCHANGED <<options, units, consumers, result, log, outputs, reported>>
    BY DEF SkipUnloaded, AtUnit, Advance, Has
  <2>2. unit \in 1 .. Files + 1 /\ Files \in Nat
    BY FilesAssumption DEF DriverInv, TypeOK
  <2>3. unit \in Units /\ unit \in Int
    BY <2>1, <2>2 DEF Units
  <2>4. units[unit] \in {{}, Loaded, Parsed}
    <3>1. ~(unit < unit)
      BY <2>3
    <3> QED BY <2>1, <2>3, <3>1 DEF DriverInv, ArtifactsInv
  <2> QED BY <2>1, <2>3, <2>4, ArtifactFacts
<1>1. \A u \in Units : u # unit => (u < unit' <=> u < unit)
  BY <1>0 DEF Units
<1>2. TypeOK'
  <2>1. unit' \in 1 .. Files + 1
    BY <1>0, FilesAssumption DEF Units
  <2> QED BY <1>0, <2>1 DEF DriverInv, TypeOK, Steps
<1>3. QuietStep
  <2>1. ASSUME NEW u \in Units, u # unit
        PROVE  NextPhase(u)' = NextPhase(u) /\ NextPhase(u) \in 1 .. 4
    BY <1>0, <1>1, <2>1, NextPhaseValues, NextPhaseValuesNext
  <2>2. ASSUME NEW u \in Units, u = unit
        PROVE  /\ NextPhase(u)' \in 1 .. 4 /\ NextPhase(u) \in 1 .. 4
               /\ NextPhase(u) <= NextPhase(u)' /\ units'[u] = {}
    <3>1. ~(u < unit) /\ u < unit'
      BY <1>0, <2>2
    <3> QED BY <1>0, <2>2, <3>1, NextPhaseValues, NextPhaseValuesNext
  <2> QED BY <1>0, <2>1, <2>2 DEF QuietStep, Started, Reporting
<1>4. StreamInv'
  BY <1>3, QuietKeepsStream DEF ReportInv, DriverInv
<1>5. ArtifactsInv'
  <2>1. ASSUME NEW u \in Units
        PROVE  /\ pc = "Parse" => units[u] \in (IF u < unit' THEN {{}, Parsed} ELSE {{}, Loaded})
               /\ pc = "Check" => units[u] \in (IF u < unit' THEN {{}, Checked} ELSE {{}, Parsed})
    BY <1>0, <1>1 DEF DriverInv, ArtifactsInv
  <2> QED BY <1>0, <2>1 DEF ArtifactsInv, Started
<1>6. ControlInv' /\ LeaveInv' /\ CodeInv'
  BY <1>0 DEF DriverInv, ControlInv, LeaveInv, CodeInv, Left, Started
<1>7. FlushedInv'
  BY <1>0, <1>1 DEF DriverInv, FlushedInv, Buffer
<1>8. OutputsInv'
  BY <1>0 DEF DriverInv, OutputsInv, NoOutputs, Left
<1>9. ErrorsInv' /\ ExplainedInv'
  <2>1. ErrorReported
    <3>1. ~success
      <4>1. ~(unit >= unit) \/ pc # "Lex"
        BY <1>0
      <4> QED BY <1>0, <4>1 DEF DriverInv, ArtifactsInv
    <3> QED BY <1>0, <3>1 DEF DriverInv, ExplainedInv, Reporting
  <2> QED BY <1>0, <2>1, QuietKeepsErrors DEF DriverInv, ErrorsInv, ExplainedInv, Reporting, Left
<1> QED BY <1>2, <1>4, <1>5, <1>6, <1>7, <1>8, <1>9 DEF DriverInv

(* The steps after Compile was left. *)
LEMMA AfterLeaveKeepsInvariant ==
  ASSUME DriverInv, pc \in {"flush", "destroy"}, pc' \in {"flush", "destroy", "done"},
         UNCHANGED <<options, units, success, result, outputs>>,
         TypeOK', StreamInv', ControlInv', FlushedInv',
         BlockingError' => BlockingError, ErrorReported => ErrorReported',
         MessageWritten => MessageWritten',
         \A i \in DOMAIN log : i \in DOMAIN log' /\ log'[i] = log[i]
  PROVE  DriverInv'
<1>1. ArtifactsInv'
  BY DEF ArtifactsInv, Started
<1>2. LeaveInv'
  BY DEF DriverInv, LeaveInv, Left
<1>3. OutputsInv'
  BY DEF OutputsInv, Left
<1>4. ErrorsInv'
  <2>1. NoOutputs' = NoOutputs
    BY DEF NoOutputs
  <2> QED BY <2>1 DEF DriverInv, ErrorsInv, Reporting, Left
<1>5. ExplainedInv'
  BY DEF DriverInv, ExplainedInv, Reporting, Left
<1>6. CodeInv'
  <2>1. ASSUME NEW u \in Units, Delivered(u)
        PROVE  Delivered(u)'
    BY <2>1 DEF Delivered, Code, OutputForm, OutputFile, replace_extension
  <2> QED BY <2>1 DEF DriverInv, CodeInv, Left
<1> QED BY <1>1, <1>2, <1>3, <1>4, <1>5, <1>6 DEF DriverInv

(* After the scope exit all the consumers are empty. *)
LEMMA EndFlushKeepsInvariant ==
  ASSUME DriverInv, EndFlush
  PROVE  DriverInv'
<1>0. /\ pc = "flush" /\ unit = Files + 1 /\ pc' = "destroy" /\ unit' = unit
      /\ UNCHANGED <<options, units, consumers, success, result, log, outputs, reported>>
  BY DEF EndFlush
<1>1. QuietStep
  <2>1. \A u \in Units : NextPhase(u)' = 4 /\ NextPhase(u) = 4
    BY <1>0, NextPhaseValues, NextPhaseValuesNext
  <2> QED BY <1>0, <2>1 DEF QuietStep, Started, Reporting
<1>2. StreamInv'
  BY <1>1, QuietKeepsStream DEF ReportInv, DriverInv
<1>3. TypeOK' /\ ControlInv'
  BY <1>0 DEF DriverInv, TypeOK, Steps, ControlInv, Started
<1>4. FlushedInv'
  BY <1>0, AtEndOfLoop DEF DriverInv, FlushedInv, Buffer
<1> QED BY <1>0, <1>2, <1>3, <1>4, QuietKeepsErrors, AfterLeaveKeepsInvariant

(* So the CHECK of a destroyed sorting consumer does not fail. *)
LEMMA DestroyUnitsKeepsInvariant ==
  ASSUME DriverInv, DestroyUnits
  PROVE  DriverInv'
<1>0. /\ pc = "destroy" /\ unit' = unit
      /\ UNCHANGED <<options, units, consumers, success, result, log, outputs, reported>>
      /\ pc' = IF \A u \in Units : consumers[u].diagnostics = <<>> THEN "done" ELSE "aborted"
  BY DEF DestroyUnits
<1>1. \A u \in Units : Buffer(u) = <<>>
  BY <1>0 DEF DriverInv, FlushedInv
<1>2. pc' = "done"
  BY <1>0, <1>1 DEF Buffer
<1>3. QuietStep
  <2>1. \A u \in Units : NextPhase(u)' = 4 /\ NextPhase(u) = 4
    BY <1>0, <1>2, NextPhaseValues, NextPhaseValuesNext
  <2> QED BY <1>0, <1>2, <2>1 DEF QuietStep, Started, Reporting
<1>4. StreamInv'
  BY <1>3, QuietKeepsStream DEF ReportInv, DriverInv
<1>5. TypeOK' /\ ControlInv'
  BY <1>0, <1>2 DEF DriverInv, TypeOK, Steps, ControlInv, Started
<1>6. FlushedInv'
  BY <1>0, <1>1 DEF FlushedInv, Buffer
<1> QED BY <1>0, <1>2, <1>4, <1>5, <1>6, QuietKeepsErrors, AfterLeaveKeepsInvariant

(* Nothing was done yet. *)
LEMMA NotStarted ==
  ASSUME DriverInv, pc \in {"args", "validate"}
  PROVE  /\ reported = [ u \in Units |-> <<>> ] /\ log = <<>> /\ unit = 1 /\ success
         /\ units = [ u \in Units |-> {} ] /\ \A u \in Units : Buffer(u) = <<>>
         /\ NoOutputs
<1>1. \A u \in Units : reported[u] = <<>>
  BY DEF DriverInv, StreamInv, ReportedInv, Started
<1>2. reported \in [Units -> Seq(Diagnostic)] /\ units \in [Units -> SUBSET Artifacts]
  BY DEF DriverInv, TypeOK
<1>3. \A u \in Units : units[u] = {}
  BY DEF DriverInv, ArtifactsInv, Started
<1>4. log = <<>> /\ unit = 1 /\ success
  BY DEF DriverInv, ControlInv, Started
<1>5. ASSUME NEW u \in Units
      PROVE  Buffer(u) = <<>>
  <2>1. Buffer(u) \in Seq(Diagnostic)
    BY DEF DriverInv, TypeOK, Buffer
  <2>2. Len(Buffer(u)) <= Len(reported[u])
    BY DEF DriverInv, StreamInv, BufferInv
  <2>3. Len(reported[u]) = 0
    BY <1>1
  <2> QED BY <2>1, <2>2, <2>3, EmptySeq
<1>6. NoOutputs
  BY DEF DriverInv, OutputsInv, Left
<1> QED BY <1>1, <1>2, <1>3, <1>4, <1>5, <1>6

(* Sequences of one element. *)
LEMMA SingletonIsSeq ==
  ASSUME NEW S, NEW e \in S
  PROVE  <<e>> \in Seq(S) /\ Len(<<e>>) = 1 /\ DOMAIN <<e>> = 1 .. 1 /\ <<e>>[1] = e
OBVIOUS

(* What an output file holds. *)
LEMMA FileTypes ==
  ASSUME NEW u \in Units
  PROVE  /\ NoFile \in [unit : {0} \union Units, form : Forms]
         /\ EmptyFile \in [unit : {0} \union Units, form : Forms]
         /\ Code(u) \in [unit : {0} \union Units, form : Forms]
         /\ Code(u) \in [unit : Units, form : Forms]
<1>1. OutputForm \in Forms
  BY DEF OutputForm, Forms
<1> QED BY <1>1 DEF NoFile, EmptyFile, Code, Forms

(* The two kinds of consumers are created empty. *)
LEMMA NewConsumers ==
  /\ StreamDiagnosticConsumer.sorting = FALSE /\ StreamDiagnosticConsumer.diagnostics = <<>>
  /\ StreamDiagnosticConsumer \in [sorting : BOOLEAN, diagnostics : Seq(Diagnostic)]
  /\ SortingDiagnosticConsumer.sorting = TRUE /\ SortingDiagnosticConsumer.diagnostics = <<>>
  /\ SortingDiagnosticConsumer \in [sorting : BOOLEAN, diagnostics : Seq(Diagnostic)]
BY DEF StreamDiagnosticConsumer, SortingDiagnosticConsumer

(* The driver ends before it compiles: a message explains a failure. *)
LEMMA EarlyExitKeepsInvariant ==
  ASSUME DriverInv, pc \in {"args", "validate"}, pc' = "done",
         NEW entry \in Entry, log' = log \o <<entry>>, NEW value \in {"true", "false"},
         result' = value, value = "false" => entry.kind = "message",
         entry.kind \in {"message", "dump"}, entry.kind = "dump" => entry.unit = 0,
         UNCHANGED <<options, unit, units, consumers, success, outputs, reported>>
  PROVE  DriverInv'
<1>1. log' = <<entry>> /\ log' \in Seq(Entry) /\ DOMAIN log' = 1 .. 1 /\ Len(log') = 1 /\ log'[1] = entry
  <2>1. log = <<>>
    BY NotStarted
  <2>2. log' = <<entry>>
    BY <2>1
  <2> QED BY <2>2, SingletonIsSeq
<1>2. TypeOK'
  BY <1>1 DEF DriverInv, TypeOK, Steps
<1>3. EmptyStream'
  BY <1>1, NotStarted DEF EmptyStream, Buffer
<1>4. StreamInv'
  BY <1>3, EmptyStreamIsKeptNext
<1>5. units' = [ u \in Units |-> {} ]
  BY NotStarted
<1>6. ArtifactsInv' /\ ControlInv' /\ OutputsInv'
  BY DEF ArtifactsInv, ControlInv, OutputsInv, Started, Left
<1>7. LeaveInv'
  BY <1>5 DEF LeaveInv
<1>8. FlushedInv'
  BY NotStarted DEF FlushedInv, Buffer
<1>9. ErrorsInv'
  <2>1. ~BlockingError'
    BY NotStarted DEF BlockingError
  <2> QED BY <2>1 DEF ErrorsInv
<1>10. ExplainedInv'
  <2>1. value = "false" => MessageWritten'
    BY <1>1 DEF MessageWritten
  <2> QED BY <2>1 DEF ExplainedInv, Reporting
<1>11. CodeInv'
  BY <1>5 DEF CodeInv
<1> QED BY <1>2, <1>4, <1>6, <1>7, <1>8, <1>9, <1>10, <1>11 DEF DriverInv

(* Messages are entries of the log. *)
LEMMA MessageIsEntry == \A s \in Messages : [kind |-> "message", what |-> s] \in Entry
BY DEF Entry

(* The command line is refused, asks for help, or is accepted. *)
LEMMA ParseArgsKeepsInvariant ==
  ASSUME DriverInv, ParseArgs
  PROVE  DriverInv'
<1>0. /\ pc = "args"
      /\ UNCHANGED <<options, unit, units, consumers, success, outputs, reported>>
  BY DEF ParseArgs
<1>1. CASE log' = log \o Message("command line error") /\ pc' = "done" /\ result' = "false"
  <2> DEFINE e == [kind |-> "message", what |-> "command line error"]
  <2>1. e \in Entry
    <3>1. "command line error" \in Messages
      BY DEF Messages
    <3> QED BY <3>1, MessageIsEntry
  <2>2. e.kind = "message"
    OBVIOUS
  <2>3. log' = log \o <<e>>
    BY <1>1 DEF Message
  <2> HIDE DEF e
  <2> QED BY <1>0, <1>1, <2>1, <2>2, <2>3, EarlyExitKeepsInvariant
<1>2. CASE /\ log' = log \o <<[kind |-> "dump", unit |-> 0, what |-> "help"]>>
           /\ pc' = "done" /\ result' = "true"
  <2> DEFINE e == [kind |-> "dump", unit |-> 0, what |-> "help"]
  <2>1. e \in Entry /\ e.kind = "dump" /\ e.unit = 0 /\ log' = log \o <<e>>
    BY <1>2 DEF Entry
  <2> HIDE DEF e
  <2> QED BY <1>0, <1>2, <2>1, EarlyExitKeepsInvariant
<1>3. CASE pc' = "validate" /\ UNCHANGED <<log, result>>
  <2>1. TypeOK'
    BY <1>0, <1>3 DEF DriverInv, TypeOK, Steps
  <2>2. EmptyStream'
    BY <1>0, <1>3, NotStarted DEF EmptyStream, Buffer
  <2>3. StreamInv'
    BY <2>2, EmptyStreamIsKeptNext
  <2>4. ArtifactsInv' /\ LeaveInv' /\ FlushedInv' /\ CodeInv'
    BY <1>0, <1>3, NotStarted DEF ArtifactsInv, LeaveInv, FlushedInv, CodeInv, Started, Left
  <2>5. ControlInv'
    BY <1>0, <1>3, NotStarted DEF ControlInv, Started
  <2>6. OutputsInv'
    BY <1>0, <1>3, NotStarted DEF OutputsInv, NoOutputs
  <2>7. ErrorsInv' /\ ExplainedInv'
    <3>1. ~BlockingError'
      BY <1>0, NotStarted DEF BlockingError
    <3> QED BY <1>3, <3>1 DEF ErrorsInv, ExplainedInv, Reporting, Left
  <2> QED BY <2>1, <2>3, <2>4, <2>5, <2>6, <2>7 DEF DriverInv
<1> QED BY <1>1, <1>2, <1>3 DEF ParseArgs

(* The options are refused, or the units are constructed. *)
LEMMA ValidateKeepsInvariant ==
  ASSUME DriverInv, Validate
  PROVE  DriverInv'
<1>0. /\ pc = "validate"
      /\ UNCHANGED <<options, unit, units, success, outputs, reported>>
  BY DEF Validate
<1>1. CASE /\ log' = log \o Message("dump of a later phase") /\ pc' = "done" /\ result' = "false"
           /\ UNCHANGED consumers
  <2> DEFINE e == [kind |-> "message", what |-> "dump of a later phase"]
  <2>1. e \in Entry
    <3>1. "dump of a later phase" \in Messages
      BY DEF Messages
    <3> QED BY <3>1, MessageIsEntry
  <2>2. e.kind = "message"
    OBVIOUS
  <2>3. log' = log \o <<e>>
    BY <1>1 DEF Message
  <2> HIDE DEF e
  <2> QED BY <1>0, <1>1, <2>1, <2>2, <2>3, EarlyExitKeepsInvariant
<1>2. CASE /\ pc' = "Lex" /\ UNCHANGED <<log, result>>
           /\ consumers' = [ u \in Units |-> IF options.verbose \/ options.stream_errors
                                             THEN StreamDiagnosticConsumer
                                             ELSE SortingDiagnosticConsumer ]
  <2>1. \A u \in Units : /\ consumers'[u].sorting = ~Streaming
                         /\ consumers'[u].diagnostics = <<>>
                         /\ consumers'[u] \in [sorting : BOOLEAN, diagnostics : Seq(Diagnostic)]
    <3>1. CASE Streaming
      <4>1. consumers' = [ u \in Units |-> StreamDiagnosticConsumer ]
        BY <1>2, <3>1 DEF Streaming
      <4> QED BY <3>1, <4>1, NewConsumers
    <3>2. CASE ~Streaming
      <4>1. consumers' = [ u \in Units |-> SortingDiagnosticConsumer ]
        BY <1>2, <3>2 DEF Streaming
      <4> QED BY <3>2, <4>1, NewConsumers
    <3> QED BY <3>1, <3>2
  <2>2. TypeOK'
    <3>1. consumers' \in [Units -> [sorting : BOOLEAN, diagnostics : Seq(Diagnostic)]]
      BY <1>2, <2>1
    <3> QED BY <1>0, <1>2, <3>1 DEF DriverInv, TypeOK, Steps
  <2>3. EmptyStream'
    <3>1. Streaming' = Streaming
      BY <1>0 DEF Streaming
    <3> QED BY <1>0, <1>2, <2>1, <3>1, NotStarted DEF EmptyStream, Buffer
  <2>4. StreamInv'
    BY <2>3, EmptyStreamIsKeptNext
  <2>5. ArtifactsInv'
    <3>1. \A u \in Units : ~(u < 1) /\ u >= 1
      BY FilesAssumption DEF Units
    <3> QED BY <1>0, <1>2, <3>1, NotStarted DEF ArtifactsInv, Started
  <2>6. ControlInv' /\ LeaveInv' /\ CodeInv' /\ FlushedInv'
    BY <1>0, <1>2 DEF ControlInv, LeaveInv, CodeInv, FlushedInv, Started, Left
  <2>7. OutputsInv'
    BY <1>0, NotStarted DEF OutputsInv, NoOutputs
  <2>8. ErrorsInv' /\ ExplainedInv'
    <3>1. ~BlockingError' /\ success'
      BY <1>0, NotStarted DEF BlockingError
    <3> QED BY <1>2, <3>1 DEF ErrorsInv, ExplainedInv, Reporting, Left
  <2> QED BY <2>2, <2>4, <2>5, <2>6, <2>7, <2>8 DEF DriverInv
<1> QED BY <1>1, <1>2 DEF Validate

(* The invariant holds at the start. *)
LEMMA InitEstablishesInvariant == Init => DriverInv
<1> SUFFICES ASSUME Init
             PROVE  DriverInv
  OBVIOUS
<1>0. Files \in Nat /\ Files >= 1
  BY FilesAssumption
<1>1. TypeOK
  <2>1. consumers \in [Units -> [sorting : BOOLEAN, diagnostics : Seq(Diagnostic)]]
    BY DEF Init, StreamDiagnosticConsumer
  <2>2. outputs \in [OutputNames -> [unit : {0} \union Units, form : Forms]]
    <3>1. NoFile \in [unit : {0} \union Units, form : Forms]
      BY DEF NoFile, Forms
    <3> QED BY <3>1 DEF Init
  <2>3. unit \in 1 .. Files + 1
    BY <1>0 DEF Init
  <2> QED BY <2>1, <2>2, <2>3 DEF Init, TypeOK, Steps
<1>2. EmptyStream
  BY DEF Init, EmptyStream, Buffer, StreamDiagnosticConsumer
<1>3. StreamInv
  BY <1>2, EmptyStreamIsKept
<1>4. ArtifactsInv /\ ControlInv /\ LeaveInv /\ FlushedInv /\ CodeInv
  BY DEF Init, ArtifactsInv, ControlInv, LeaveInv, FlushedInv, CodeInv, Started, Left
<1>5. OutputsInv
  BY DEF Init, OutputsInv, NoOutputs
<1>6. ErrorsInv /\ ExplainedInv
  <2>1. ~BlockingError
    BY DEF Init, BlockingError
  <2> QED BY <2>1 DEF Init, ErrorsInv, ExplainedInv, Reporting, Left
<1> QED BY <1>1, <1>3, <1>4, <1>5, <1>6 DEF DriverInv

(* A stuttering step keeps the invariant. *)
LEMMA StutteringKeepsInvariant ==
  ASSUME DriverInv, UNCHANGED vars
  PROVE  DriverInv'
<1>0. /\ options' = options /\ pc' = pc /\ unit' = unit /\ units' = units /\ consumers' = consumers
      /\ success' = success /\ result' = result /\ log' = log /\ outputs' = outputs
      /\ reported' = reported
  BY DEF vars
<1>1. TypeOK' = TypeOK
  BY <1>0 DEF TypeOK
<1>2. /\ ArtifactsInv' = ArtifactsInv /\ ControlInv' = ControlInv /\ LeaveInv' = LeaveInv
      /\ FlushedInv' = FlushedInv /\ OutputsInv' = OutputsInv
  BY <1>0 DEF ArtifactsInv, ControlInv, LeaveInv, FlushedInv, OutputsInv, Started, Left, Buffer,
              NoOutputs
<1>3. ErrorsInv' = ErrorsInv /\ ExplainedInv' = ExplainedInv
  BY <1>0, QuietKeepsErrors DEF ErrorsInv, ExplainedInv, Reporting, Left, NoOutputs
<1>4. CodeInv' = CodeInv
  BY <1>0 DEF CodeInv, Left, Delivered, Code, OutputForm, OutputFile, replace_extension
<1>5. StreamInv' = StreamInv
  <2>1. /\ \A u : Buffer(u)' = Buffer(u) /\ PrintedCount(u)' = PrintedCount(u)
                    /\ NextPhase(u)' = NextPhase(u)
        /\ Streaming' = Streaming /\ FlushFlags' = FlushFlags
    BY <1>0 DEF Buffer, PrintedCount, NextPhase, Streaming, FlushFlags
  <2>2. ReportedInv' = ReportedInv /\ BufferInv' = BufferInv /\ LogInv' = LogInv
    BY <1>0, <2>1 DEF ReportedInv, BufferInv, LogInv, Started, IsDiagnostic, PhaseNumber
  <2>3. /\ PrintedInOrder' = PrintedInOrder /\ DumpsInv' = DumpsInv
        /\ DumpsFollowDiagnostics' = DumpsFollowDiagnostics
    BY <1>0, <2>1 DEF PrintedInOrder, DumpsInv, DumpsFollowDiagnostics, IsDiagnostic, PhaseNumber,
                      InOrder, DumpSeparates, DumpPhase, IsBefore
  <2>4. SeparationInv' = SeparationInv
    BY <1>0, <2>1 DEF SeparationInv, Reporting, IsDiagnostic, PhaseNumber, DumpSeparates, DumpPhase
  <2> QED BY <2>2, <2>3, <2>4 DEF StreamInv
<1> QED BY <1>1, <1>2, <1>3, <1>4, <1>5 DEF DriverInv

(* A loop that has not ended is at a unit, and goes on to the next. *)
LEMMA UnitOfLoop ==
  ASSUME DriverInv, NEW step, AtUnit(step)
  PROVE  /\ unit \in Units /\ unit \in Int /\ unit + 1 \in 1 .. Files + 1 /\ ~(unit < unit)
         /\ unit < unit + 1 /\ \A u \in Units : u # unit => (u < unit + 1 <=> u < unit)
<1>1. unit \in 1 .. Files + 1 /\ Files \in Nat /\ unit <= Files
  BY FilesAssumption DEF DriverInv, TypeOK, AtUnit
<1> QED BY <1>1 DEF Units

(* The diagnostics of a report are of its phase. *)
LEMMA PhaseOfDiagnosed ==
  ASSUME TypeOK, NEW w \in Units, NEW phase \in {"Lex", "Parse", "Check"} \union LoadErrors,
         NEW report \in Seq(Location)
  PROVE  \A i \in 1 .. Len(Diagnosed(w, phase, report)) :
           PhaseNumber(Diagnosed(w, phase, report)[i]) =
             IF phase = "Check" THEN 3 ELSE IF phase = "Parse" THEN 2 ELSE 1
<1> DEFINE ds == Diagnosed(w, phase, report)
<1>1. \A i \in 1 .. Len(ds) : ds[i].phase = phase
  BY DiagnosedProperties
<1> HIDE DEF ds
<1>2. ASSUME NEW i \in 1 .. Len(ds)
      PROVE  PhaseNumber(ds[i]) = IF phase = "Check" THEN 3 ELSE IF phase = "Parse" THEN 2 ELSE 1
  <2>1. ds[i].phase = phase
    BY <1>1
  <2>2. CASE phase = "Check"
    BY <2>1, <2>2 DEF PhaseNumber
  <2>3. CASE phase = "Parse"
    BY <2>1, <2>3 DEF PhaseNumber
  <2>4. CASE phase # "Check" /\ phase # "Parse"
    BY <2>1, <2>4 DEF PhaseNumber
  <2> QED BY <2>2, <2>3, <2>4
<1> QED BY <1>2 DEF ds

(* The phases before lowering report as ReportStep says. *)
LEMMA PhaseReports ==
  ASSUME DriverInv, NEW w \in Units, unit = w, unit' = w + 1, pc' = pc, options' = options,
         NEW phase \in {"Lex", "Parse", "Check"} \union LoadErrors,
         \/ pc = "Lex" /\ phase \notin {"Parse", "Check"}
         \/ pc = "Parse" /\ phase = "Parse"
         \/ pc = "Check" /\ phase = "Check",
         NEW report \in Seq(Location), NEW flush \in BOOLEAN, NEW dumps,
         Report(Diagnosed(w, phase, report), flush, dumps),
         \A u \in Units \ {w} : units'[u] = units[u],
         units[w] # {} \/ pc = "Lex",
         pc \in {"Lex", "Parse"} /\ flush => \E flag \in FlushFlags : DumpPhase[flag] = NextPhase(w),
         ~flush /\ units'[w] # {} => \A flag \in FlushFlags : DumpPhase[flag] # NextPhase(w),
         NoDiagnostics(dumps),
         \A i \in 1 .. Len(dumps) : dumps[i].kind = "dump" =>
           /\ flush /\ dumps[i].unit = w /\ dumps[i].what \in DOMAIN DumpPhase
           /\ DumpPhase[dumps[i].what] <= NextPhase(w)
  PROVE  \E prints : ReportStep(w, Diagnosed(w, phase, report), flush, dumps, prints)
<1> DEFINE ds == Diagnosed(w, phase, report)
<1>1. TypeOK /\ BufferInv /\ ReportedInv
  BY DEF DriverInv, StreamInv
<1>2. /\ ds \in Seq(Diagnostic)
      /\ \A i \in 1 .. Len(ds) : ds[i].unit = w /\ ds[i].nr = Len(reported[w]) + i
  <2>1. /\ ds \in Seq(Diagnostic) /\ Len(ds) = Len(report)
        /\ \A i \in 1 .. Len(report) : ds[i].unit = w /\ ds[i].nr = Len(reported[w]) + i
    <3>1. /\ TypeOK /\ w \in Units /\ report \in Seq(Location)
          /\ phase \in {"Lex", "Parse", "Check"} \union LoadErrors
      BY <1>1
    <3> QED BY ONLY <3>1, DiagnosedProperties
  <2> HIDE DEF ds
  <2> QED BY <2>1
<1>3. \A i \in 1 .. Len(ds) :
        PhaseNumber(ds[i]) = IF phase = "Check" THEN 3 ELSE IF phase = "Parse" THEN 2 ELSE 1
  BY <1>1, PhaseOfDiagnosed
<1>4. /\ pc = "Lex" => NextPhase(w) = 1 /\ NextPhase(w)' = 2
      /\ pc = "Parse" => NextPhase(w) = 2 /\ NextPhase(w)' = 3
      /\ pc = "Check" => NextPhase(w) = 3 /\ NextPhase(w)' = 4
  <2>1. ~(w < unit) /\ w < unit'
    BY DEF Units
  <2> QED BY <2>1, NextPhaseValues, NextPhaseValuesNext
<1> HIDE DEF ds
<1>5. dumps \in Seq(Entry)
  BY DEF NoDiagnostics
<1>6. PICK prints : ReportEffect(w, ds, flush, dumps, prints)
  BY <1>1, <1>2, <1>5, ReportHasEffect DEF ds
<1>7. flush => Buffer(w)' = <<>>
  BY <1>6 DEF ReportEffect
<1>8. Reporting => units[w] # {} \/ reported[w] = <<>>
  <2>1. CASE pc = "Lex"
    <3>1. reported[w] \in Seq(Diagnostic)
      BY <1>1 DEF TypeOK
    <3>2. \A k \in DOMAIN reported[w] : PhaseNumber(reported[w][k]) < 1
      BY <1>1, <1>4, <2>1 DEF ReportedInv
    <3>3. \A k \in DOMAIN reported[w] : PhaseNumber(reported[w][k]) \in 1 .. 3
      BY <3>1, PhaseNumberType
    <3>4. 1 \notin DOMAIN reported[w]
      BY <3>2, <3>3
    <3>5. Len(reported[w]) = 0
      BY <3>1, <3>4
    <3> QED BY <3>1, <3>5, EmptySeq
  <2> QED BY <2>1
<1>9. Continues(w, ds)
  BY <1>2 DEF Continues
<1>10. \A i \in 1 .. Len(ds) : Reporting /\ PhaseNumber(ds[i]) = NextPhase(w)
  BY <1>3, <1>4 DEF Reporting
<1>11. \A i \in 1 .. Len(dumps) : dumps[i].kind = "dump" =>
         /\ dumps[i].unit = w /\ dumps[i].what \in DOMAIN DumpPhase
         /\ Buffer(w)' = <<>>
         /\ NextPhase(w)' <= 3 => NextPhase(w)' > DumpPhase[dumps[i].what]
  <2>1. \A f \in DOMAIN DumpPhase : DumpPhase[f] \in Int
    BY DumpPhaseType
  <2> QED BY <1>4, <1>7, <2>1
<1>12. ReportStep(w, ds, flush, dumps, prints)
  BY <1>6, <1>8, <1>9, <1>10, <1>11 DEF ReportStep
<1> QED BY <1>12 DEF ds

(* Later there is nothing to report, and what is left in the consumers is  *)
(* only printed by the scope exit.                                         *)
LEMMA NothingToReport ==
  ASSUME DriverInv, NEW w \in Units, unit = w, unit' = w + 1, pc' = pc, options' = options,
         pc \in {"Lower", "CodeGen", "flush"}, NEW flush \in BOOLEAN, NEW dumps,
         Report(<<>>, flush, dumps), flush = (pc = "flush"),
         \A u \in Units \ {w} : units'[u] = units[u],
         NoDiagnostics(dumps),
         \A i \in 1 .. Len(dumps) : dumps[i].kind = "dump" =>
           dumps[i].unit = w /\ dumps[i].what \in DOMAIN DumpPhase
  PROVE  \E prints : /\ ReportStep(w, <<>>, flush, dumps, prints)
                     /\ Buffer(w)' = <<>>
                     /\ \A u \in Units \ {w} : Buffer(u)' = Buffer(u)
<1>1. TypeOK /\ BufferInv
  BY DEF DriverInv, StreamInv
<1>2. Continues(w, <<>>) /\ <<>> \in Seq(Diagnostic) /\ Len(<<>>) = 0
  BY DEF Continues
<1>3. NextPhase(w)' = 4
  BY NextPhaseValuesNext
<1>4. dumps \in Seq(Entry)
  BY DEF NoDiagnostics
<1>5. PICK prints : ReportEffect(w, <<>>, flush, dumps, prints)
  BY <1>1, <1>2, <1>4, ReportHasEffect
<1>6. Buffer(w)' = <<>>
  <2>1. CASE pc = "flush"
    BY <1>5, <2>1 DEF ReportEffect
  <2>2. CASE pc # "flush"
    <3>1. Buffer(w) = <<>>
      BY <2>2 DEF DriverInv, FlushedInv
    <3>2. Buffer(w) \o <<>> = <<>>
      BY <3>1
    <3> QED BY <1>5, <3>2 DEF ReportEffect
  <2> QED BY <2>1, <2>2
<1>7. \A u \in Units \ {w} : Buffer(u)' = Buffer(u)
  BY <1>5 DEF ReportEffect, Buffer
<1>8. ~Reporting
  BY DEF Reporting
<1>9. ReportStep(w, <<>>, flush, dumps, prints)
  BY <1>2, <1>3, <1>5, <1>6, <1>8 DEF ReportStep
<1> QED BY <1>6, <1>7, <1>9

(* What remains to be shown of a phase that reports about the unit w. *)
LEMMA ReportingKeepsInvariant ==
  ASSUME DriverInv, NEW w, NEW ds, NEW flush, NEW dumps, NEW prints,
         ReportStep(w, ds, flush, dumps, prints), Reporting,
         UNCHANGED <<result, outputs>>,
         units' \in [Units -> SUBSET Artifacts], success' \in BOOLEAN,
         ArtifactsInv', FlushedInv',
         success' => success,
         (\E i \in 1 .. Len(ds) : ds[i].phase # "Parse" /\ ds[i].level = "Error") => ~success',
         ~success' => ~success \/ \E i \in 1 .. Len(ds) : ds[i].level = "Error"
  PROVE  DriverInv'
<1>0. /\ ReportInv /\ pc' = pc /\ options' = options /\ unit' = w + 1 /\ w \in Units
  BY DEF DriverInv, ReportInv, ReportStep
<1>1. /\ StreamInv' /\ log' \in Seq(Entry)
      /\ reported' \in [Units -> Seq(Diagnostic)]
      /\ consumers' \in [Units -> [sorting : BOOLEAN, diagnostics : Seq(Diagnostic)]]
  BY <1>0, ReportKeepsStream
<1>2. unit' \in 1 .. Files + 1
  BY <1>0, FilesAssumption DEF Units
<1>3. TypeOK'
  BY <1>0, <1>1, <1>2 DEF DriverInv, TypeOK
<1>4. ControlInv' /\ LeaveInv' /\ CodeInv'
  BY <1>0 DEF DriverInv, ControlInv, LeaveInv, CodeInv, Reporting, Started, Left
<1>5. OutputsInv'
  BY <1>0 DEF DriverInv, OutputsInv, NoOutputs, Left, Reporting
<1>6. /\ BlockingError' => BlockingError \/ \E i \in 1 .. Len(ds) :
                             ds[i].phase # "Parse" /\ ds[i].level = "Error"
      /\ ErrorReported => ErrorReported'
      /\ (\E i \in 1 .. Len(ds) : ds[i].level = "Error") => ErrorReported'
  BY <1>0, ErrorsGrow
<1>7. ErrorsInv'
  <2>1. BlockingError => ~success
    BY DEF DriverInv, ErrorsInv
  <2> QED BY <1>0, <1>6, <2>1 DEF ErrorsInv, Reporting, Left
<1>8. ExplainedInv'
  <2>1. ~success => ErrorReported
    BY DEF DriverInv, ExplainedInv
  <2> QED BY <1>0, <1>6, <2>1 DEF ExplainedInv, Reporting, Left
<1> QED BY <1>1, <1>3, <1>4, <1>5, <1>7, <1>8 DEF DriverInv

(* The errors of a report are those of its diagnostics. *)
LEMMA ErrorsOfDiagnosed ==
  ASSUME TypeOK, NEW w \in Units, NEW phase \in {"Lex", "Parse", "Check"} \union LoadErrors,
         NEW report \in Seq(Location)
  PROVE  LET ds == Diagnosed(w, phase, report)
         IN  /\ SeenError(report) \in BOOLEAN
             /\ (\E i \in 1 .. Len(ds) : ds[i].level = "Error") <=> SeenError(report)
             /\ phase = "Parse" => \A i \in 1 .. Len(ds) : ds[i].phase = "Parse"
<1> DEFINE ds == Diagnosed(w, phase, report)
<1>1. /\ Len(ds) = Len(report)
      /\ \A i \in 1 .. Len(report) : ds[i].level = report[i].level /\ ds[i].phase = phase
  <2>1. /\ Len(Diagnosed(w, phase, report)) = Len(report)
        /\ \A i \in 1 .. Len(report) :
             LET d == Diagnosed(w, phase, report)[i]
             IN  /\ d.unit = w /\ d.phase = phase /\ d.nr = Len(reported[w]) + i
                 /\ d.level = report[i].level
    BY DiagnosedProperties
  <2> QED BY <2>1
<1> HIDE DEF ds
<1>2. DOMAIN report = 1 .. Len(report)
  OBVIOUS
<1>3. SeenError(report) <=> \E i \in 1 .. Len(report) : report[i].level = "Error"
  BY <1>2 DEF SeenError
<1>4. SeenError(report) \in BOOLEAN
  BY DEF SeenError
<1> QED BY <1>1, <1>3, <1>4 DEF ds

(* The reports a phase may make. *)
LEMMA ReportTypes == /\ ErrorReports \subseteq Seq(Location) /\ Reports \subseteq Seq(Location)
                     /\ \A r \in ErrorReports : \A i \in DOMAIN r : r[i].level = "Error"
BY ReportsAssumption DEF ErrorReports, Location

(* An empty dump has no diagnostics. *)
LEMMA NothingDumped ==
  NoDiagnostics(<<>>) /\ Len(<<>>) = 0
BY DEF NoDiagnostics

(* A file that does not load is an error of its unit. *)
LEMMA FailToLoadKeepsInvariant ==
  ASSUME DriverInv, FailToLoad
  PROVE  DriverInv'
<1> DEFINE report == <<[line |-> -1, column |-> -1, level |-> "Error"]>>
<1>0. /\ pc = "Lex" /\ pc' = pc /\ AtUnit("Lex") /\ unit' = unit + 1 /\ success' = FALSE
      /\ UNCHANGED <<options, units, result, outputs>> /\ TypeOK
  BY DEF FailToLoad, AtUnit, Advance, DriverInv
<1>1. PICK what \in LoadErrors : Report(Diagnosed(unit, what, report), FALSE, <<>>)
  BY DEF FailToLoad
<1>2. PICK w \in Units : unit = w
  BY <1>0, UnitOfLoop
<1>3. report \in Seq(Location) /\ SeenError(report)
  <2> DEFINE l == [line |-> -1, column |-> -1, level |-> "Error"]
  <2>1. l \in Location /\ l.level = "Error"
    BY DEF Location, DiagnosticLevel
  <2> HIDE DEF l
  <2>2. <<l>> \in Seq(Location) /\ DOMAIN <<l>> = 1 .. 1 /\ <<l>>[1] = l
    BY <2>1
  <2>3. SeenError(<<l>>)
    BY <2>1, <2>2 DEF SeenError
  <2> QED BY <2>2, <2>3 DEF l
<1> HIDE DEF report
<1>4. what \notin {"Parse", "Check"} /\ what \in {"Lex", "Parse", "Check"} \union LoadErrors
  BY DEF LoadErrors
<1>5. units[w] = {}
  BY <1>0, <1>2, UnitOfLoop DEF DriverInv, ArtifactsInv
<1>6. PICK prints : ReportStep(w, Diagnosed(w, what, report), FALSE, <<>>, prints)
  <2>1. Report(Diagnosed(w, what, report), FALSE, <<>>)
    BY <1>1, <1>2
  <2>2. units'[w] = {} /\ \A u \in Units \ {w} : units'[u] = units[u]
    BY <1>0, <1>5
  <2> DEFINE flush == FALSE
             dumps == <<>>
  <2>3. /\ flush \in BOOLEAN /\ ~flush /\ Report(Diagnosed(w, what, report), flush, dumps)
        /\ NoDiagnostics(dumps) /\ Len(dumps) = 0
    BY <2>1, NothingDumped
  <2> HIDE DEF flush, dumps
  <2>4. \A i \in 1 .. Len(dumps) : dumps[i].kind = "dump" =>
          /\ flush /\ dumps[i].unit = w /\ dumps[i].what \in DOMAIN DumpPhase
          /\ DumpPhase[dumps[i].what] <= NextPhase(w)
    BY <2>3
  <2>5. \E prints : ReportStep(w, Diagnosed(w, what, report), flush, dumps, prints)
    BY <1>0, <1>2, <1>3, <1>4, <2>2, <2>3, <2>4, PhaseReports
  <2> QED BY <2>5 DEF flush, dumps
<1>7. ArtifactsInv'
  <2>1. ASSUME NEW u \in Units
        PROVE  units[u] \in (IF u < unit + 1 THEN {{}, Loaded} ELSE {{}})
    BY <1>0, <1>2, <1>5, UnitOfLoop DEF DriverInv, ArtifactsInv
  <2> QED BY <1>0, <2>1 DEF ArtifactsInv, Started
<1>8. FlushedInv'
  BY <1>0 DEF FlushedInv
<1>9. \E i \in 1 .. Len(Diagnosed(w, what, report)) : Diagnosed(w, what, report)[i].level = "Error"
  BY <1>0, <1>3, <1>4, ErrorsOfDiagnosed
<1>10. units' \in [Units -> SUBSET Artifacts]
  BY <1>0 DEF TypeOK
<1> QED BY <1>0, <1>6, <1>7, <1>8, <1>9, <1>10, ReportingKeepsInvariant DEF Reporting

(* Lexing makes the tokens; errors are remembered in success. *)
LEMMA RunLexKeepsInvariant ==
  ASSUME DriverInv, RunLex
  PROVE  DriverInv'
<1> DEFINE flush == "dump_tokens" \in options.dumps
<1>0. /\ pc = "Lex" /\ pc' = pc /\ AtUnit("Lex") /\ unit' = unit + 1
      /\ UNCHANGED <<options, result, outputs>> /\ TypeOK /\ success \in BOOLEAN
      /\ units' = [units EXCEPT ![unit] = @ \union {"source", "tokens"}]
  BY DEF RunLex, AtUnit, Advance, DriverInv, Make, TypeOK
<1>1. PICK r \in ErrorReports : /\ Report(Diagnosed(unit, "Lex", r), flush, <<>>)
                                /\ success' = (success /\ ~SeenError(r))
  BY DEF RunLex, Advance
<1>2. PICK w \in Units : unit = w
  BY <1>0, UnitOfLoop
<1>3. units[w] = {}
  BY <1>0, <1>2, UnitOfLoop DEF DriverInv, ArtifactsInv
<1>4. units'[w] = Loaded /\ \A u \in Units \ {w} : units'[u] = units[u]
  BY <1>0, <1>2, <1>3, ArtifactFacts DEF TypeOK
<1>5. /\ flush => \E flag \in FlushFlags : DumpPhase[flag] = 1
      /\ ~flush => \A flag \in FlushFlags : DumpPhase[flag] # 1
  BY DumpPhaseType DEF FlushFlags
<1>6. PICK prints : ReportStep(w, Diagnosed(w, "Lex", r), flush, <<>>, prints)
  <2>1. Report(Diagnosed(w, "Lex", r), flush, <<>>) /\ flush \in BOOLEAN
    BY <1>1, <1>2
  <2>2. NextPhase(w) = 1
    BY <1>0, <1>2, UnitOfLoop, NextPhaseValues
  <2>3. r \in Seq(Location)
    BY ReportTypes
  <2> HIDE DEF flush
  <2> QED BY <1>0, <1>2, <1>4, <1>5, <2>1, <2>2, <2>3, NothingDumped, PhaseReports
<1>7. ArtifactsInv'
  <2>1. ASSUME NEW u \in Units
        PROVE  /\ units'[u] \in (IF u < unit + 1 THEN {{}, Loaded} ELSE {{}})
               /\ success => units'[u] # {} \/ u >= unit + 1
    <3>1. CASE u = w
      <4>1. u < unit + 1
        BY <1>0, <1>2, <3>1, UnitOfLoop
      <4> QED BY <1>4, <3>1, <4>1, ArtifactFacts
    <3>2. CASE u # w
      <4>1. /\ units[u] \in (IF u < unit THEN {{}, Loaded} ELSE {{}})
            /\ success => units[u] # {} \/ u >= unit
        BY <1>0 DEF DriverInv, ArtifactsInv
      <4>2. u < unit + 1 <=> u < unit
        BY <1>0, <1>2, <3>2, UnitOfLoop
      <4>3. u >= unit => u >= unit + 1
        BY <1>0, <1>2, <3>2, UnitOfLoop DEF Units
      <4> QED BY <1>4, <3>2, <4>1, <4>2, <4>3
    <3> QED BY <3>1, <3>2
  <2> QED BY <1>0, <1>1, <2>1 DEF ArtifactsInv, Started
<1>8. FlushedInv'
  BY <1>0 DEF FlushedInv
<1>9. (\E i \in 1 .. Len(Diagnosed(w, "Lex", r)) : Diagnosed(w, "Lex", r)[i].level = "Error")
        <=> SeenError(r)
  BY <1>0, ReportTypes, ErrorsOfDiagnosed
<1>10. units' \in [Units -> SUBSET Artifacts]
  BY <1>0, <1>2, <1>4, ArtifactFacts DEF TypeOK
<1>11. success' \in BOOLEAN /\ (success' => success) /\ (~success' => ~success \/ SeenError(r))
         /\ (SeenError(r) => ~success')
  BY <1>0, <1>1
<1> HIDE DEF flush
<1> QED BY <1>0, <1>6, <1>7, <1>8, <1>9, <1>10, <1>11, ReportingKeepsInvariant DEF Reporting

(* A dump is of its unit and its flag, and was asked for. *)
LEMMA DumpFacts ==
  ASSUME NEW w \in Units, NEW flag \in DOMAIN DumpPhase
  PROVE  /\ NoDiagnostics(Dump(w, flag))
         /\ \A i \in 1 .. Len(Dump(w, flag)) :
              /\ Dump(w, flag)[i].unit = w /\ Dump(w, flag)[i].what = flag
              /\ flag \in options.dumps
<1> DEFINE e == [kind |-> "dump", unit |-> w, what |-> flag]
<1>1. e \in Entry /\ ~IsDiagnostic(e) /\ e.unit = w /\ e.what = flag
  BY DEF Entry, IsDiagnostic
<1>2. Dump(w, flag) = IF flag \in options.dumps THEN <<e>> ELSE <<>>
  BY DEF Dump
<1> HIDE DEF e
<1>3. CASE flag \in options.dumps
  <2>1. Dump(w, flag) = <<e>>
    BY <1>2, <1>3
  <2>2. /\ <<e>> \in Seq(Entry) /\ Len(<<e>>) = 1 /\ <<e>>[1] = e
    BY <1>1, SingletonIsSeq
  <2> QED BY <1>1, <1>3, <2>1, <2>2 DEF NoDiagnostics
<1>4. CASE flag \notin options.dumps
  <2>1. Dump(w, flag) = <<>>
    BY <1>2, <1>4
  <2> QED BY <2>1, NothingDumped
<1> QED BY <1>3, <1>4

(* Parsing finds the tokens and makes the tree. *)
LEMMA RunParseKeepsInvariant ==
  ASSUME DriverInv, RunParse
  PROVE  DriverInv'
<1> DEFINE flush == "dump_parse_tree" \in options.dumps
<1>0. /\ pc = "Parse" /\ AtUnit("Parse") /\ "source" \in units[unit] /\ TypeOK
      /\ UNCHANGED <<options, result>> /\ success \in BOOLEAN
  BY DEF RunParse, AtUnit, Has, DriverInv, TypeOK
<1>1. PICK w \in Units : unit = w
  BY <1>0, UnitOfLoop
<1>2. units[w] = Loaded
  <2>1. units[w] \in {{}, Loaded}
    BY <1>0, <1>1, UnitOfLoop DEF DriverInv, ArtifactsInv
  <2> QED BY <1>0, <1>1, <2>1
<1>3. Has("tokens")
  BY <1>1, <1>2, ArtifactFacts DEF Has
<1>4. /\ units' = [units EXCEPT ![unit] = @ \union {"parse_tree"}] /\ UNCHANGED outputs
      /\ pc' = pc /\ unit' = unit + 1
  BY <1>3 DEF RunParse, Make, Advance
<1>5. PICK r \in ErrorReports :
        /\ Report(Diagnosed(unit, "Parse", r), flush, Dump(unit, "dump_parse_tree"))
        /\ \E has_errors \in {FALSE, SeenError(r)} : success' = (success /\ ~has_errors)
  BY <1>3 DEF RunParse, Advance
<1>6. units'[w] = Parsed /\ \A u \in Units \ {w} : units'[u] = units[u]
  BY <1>0, <1>1, <1>2, <1>4, ArtifactFacts DEF TypeOK
<1>7. /\ flush => \E flag \in FlushFlags : DumpPhase[flag] = 2
      /\ ~flush => \A flag \in FlushFlags : DumpPhase[flag] # 2
  BY DumpPhaseType DEF FlushFlags
<1>8. PICK prints : ReportStep(w, Diagnosed(w, "Parse", r), flush, Dump(w, "dump_parse_tree"), prints)
  <2> DEFINE dumps == Dump(w, "dump_parse_tree")
  <2>1. Report(Diagnosed(w, "Parse", r), flush, dumps) /\ flush \in BOOLEAN
    BY <1>1, <1>5
  <2>2. NextPhase(w) = 2
    BY <1>0, <1>1, UnitOfLoop, NextPhaseValues
  <2>3. r \in Seq(Location) /\ units[w] # {}
    BY <1>2, ReportTypes, ArtifactFacts
  <2>4. /\ NoDiagnostics(dumps)
        /\ \A i \in 1 .. Len(dumps) :
             /\ flush /\ dumps[i].unit = w /\ dumps[i].what \in DOMAIN DumpPhase
             /\ DumpPhase[dumps[i].what] <= 2
    BY DumpFacts, DumpPhaseType
  <2> HIDE DEF flush, dumps
  <2>5. \E prints : ReportStep(w, Diagnosed(w, "Parse", r), flush, dumps, prints)
    BY <1>0, <1>1, <1>4, <1>6, <1>7, <2>1, <2>2, <2>3, <2>4, PhaseReports
  <2> QED BY <2>5 DEF dumps
<1>9. ArtifactsInv'
  <2>1. ASSUME NEW u \in Units
        PROVE  /\ units'[u] \in (IF u < unit + 1 THEN {{}, Parsed} ELSE {{}, Loaded})
               /\ success => units'[u] # {}
    <3>1. CASE u = w
      <4>1. u < unit + 1
        BY <1>0, <1>1, <3>1, UnitOfLoop
      <4> QED BY <1>6, <3>1, <4>1, ArtifactFacts
    <3>2. CASE u # w
      <4>1. /\ units[u] \in (IF u < unit THEN {{}, Parsed} ELSE {{}, Loaded})
            /\ success => units[u] # {}
        BY <1>0 DEF DriverInv, ArtifactsInv
      <4>2. u < unit + 1 <=> u < unit
        BY <1>0, <1>1, <3>2, UnitOfLoop
      <4> QED BY <1>6, <3>2, <4>1, <4>2
    <3> QED BY <3>1, <3>2
  <2> QED BY <1>0, <1>4, <1>5, <2>1 DEF ArtifactsInv, Started
<1>10. FlushedInv'
  BY <1>0, <1>4 DEF FlushedInv
<1>11. /\ (\E i \in 1 .. Len(Diagnosed(w, "Parse", r)) : Diagnosed(w, "Parse", r)[i].level = "Error")
            <=> SeenError(r)
       /\ \A i \in 1 .. Len(Diagnosed(w, "Parse", r)) : Diagnosed(w, "Parse", r)[i].phase = "Parse"
       /\ SeenError(r) \in BOOLEAN
  BY <1>0, ReportTypes, ErrorsOfDiagnosed
<1>12. units' \in [Units -> SUBSET Artifacts]
  BY <1>0, <1>1, <1>4, <1>6, ArtifactFacts DEF TypeOK
<1>13. success' \in BOOLEAN /\ (success' => success) /\ (~success' => ~success \/ SeenError(r))
  BY <1>0, <1>5
<1> HIDE DEF flush
<1> QED BY <1>0, <1>4, <1>8, <1>9, <1>10, <1>11, <1>12, <1>13, ReportingKeepsInvariant DEF Reporting

(* Checking finds the tree, and flushes the consumer in any case. *)
LEMMA RunCheckKeepsInvariant ==
  ASSUME DriverInv, RunCheck
  PROVE  DriverInv'
<1>0. /\ pc = "Check" /\ AtUnit("Check") /\ "source" \in units[unit] /\ TypeOK
      /\ UNCHANGED <<options, result>> /\ success \in BOOLEAN
  BY DEF RunCheck, AtUnit, Has, DriverInv, TypeOK
<1>1. PICK w \in Units : unit = w
  BY <1>0, UnitOfLoop
<1>2. units[w] = Parsed
  <2>1. units[w] \in {{}, Parsed}
    BY <1>0, <1>1, UnitOfLoop DEF DriverInv, ArtifactsInv
  <2> QED BY <1>0, <1>1, <2>1
<1>3. Has("parse_tree")
  BY <1>1, <1>2, ArtifactFacts DEF Has
<1>4. /\ units' = [units EXCEPT ![unit] = @ \union {"sem_ir"}] /\ UNCHANGED outputs
      /\ pc' = pc /\ unit' = unit + 1
  BY <1>3 DEF RunCheck, Make, Advance
<1>5. PICK r \in Reports :
        /\ Report(Diagnosed(unit, "Check", r), TRUE,
                  Dump(unit, "dump_raw_sem_ir") \o Dump(unit, "dump_sem_ir"))
        /\ success' = (success /\ ~SeenError(r))
  BY <1>3 DEF RunCheck, Advance
<1>6. units'[w] = Checked /\ \A u \in Units \ {w} : units'[u] = units[u]
  BY <1>0, <1>1, <1>2, <1>4, ArtifactFacts DEF TypeOK
<1> DEFINE dumps == Dump(w, "dump_raw_sem_ir") \o Dump(w, "dump_sem_ir")
           flush == TRUE
<1>7. PICK prints : ReportStep(w, Diagnosed(w, "Check", r), flush, dumps, prints)
  <2>1. Report(Diagnosed(w, "Check", r), flush, dumps) /\ flush \in BOOLEAN /\ flush
    BY <1>1, <1>5
  <2>2. NextPhase(w) = 3
    BY <1>0, <1>1, UnitOfLoop, NextPhaseValues
  <2>3. r \in Seq(Location) /\ units[w] # {}
    BY <1>2, ReportTypes, ArtifactFacts
  <2>4. /\ NoDiagnostics(dumps)
        /\ \A i \in 1 .. Len(dumps) :
             /\ dumps[i].unit = w /\ dumps[i].what \in DOMAIN DumpPhase
             /\ DumpPhase[dumps[i].what] <= 3
    <3> DEFINE a == Dump(w, "dump_raw_sem_ir")
               b == Dump(w, "dump_sem_ir")
    <3>1. /\ a \in Seq(Entry) /\ b \in Seq(Entry)
          /\ \A i \in 1 .. Len(a) : /\ ~IsDiagnostic(a[i]) /\ a[i].unit = w
                                    /\ a[i].what = "dump_raw_sem_ir"
          /\ \A i \in 1 .. Len(b) : /\ ~IsDiagnostic(b[i]) /\ b[i].unit = w
                                    /\ b[i].what = "dump_sem_ir"
      BY DumpFacts, DumpPhaseType DEF NoDiagnostics
    <3> HIDE DEF a, b
    <3>2. /\ a \o b \in Seq(Entry) /\ Len(a \o b) = Len(a) + Len(b)
          /\ \A i \in 1 .. Len(a) + Len(b) :
               (a \o b)[i] = IF i <= Len(a) THEN a[i] ELSE b[i - Len(a)]
      BY <3>1
    <3>3. Len(a) \in Nat /\ Len(b) \in Nat
      BY <3>1
    <3>4. ASSUME NEW i \in 1 .. Len(a) + Len(b)
          PROVE  \/ \E k \in 1 .. Len(a) : (a \o b)[i] = a[k]
                 \/ \E k \in 1 .. Len(b) : (a \o b)[i] = b[k]
      <4>1. CASE i <= Len(a)
        <5>1. i \in 1 .. Len(a)
          BY <3>3, <4>1
        <5> QED BY <3>2, <4>1, <5>1
      <4>2. CASE ~(i <= Len(a))
        <5>1. i - Len(a) \in 1 .. Len(b)
          BY <3>3, <4>2
        <5> QED BY <3>2, <4>2, <5>1
      <4> QED BY <4>1, <4>2
    <3>5. \A i \in 1 .. Len(a \o b) :
             /\ ~IsDiagnostic((a \o b)[i]) /\ (a \o b)[i].unit = w
             /\ (a \o b)[i].what \in {"dump_raw_sem_ir", "dump_sem_ir"}
      BY <3>1, <3>2, <3>4
    <3>6. dumps = a \o b
      BY DEF a, b
    <3> HIDE DEF dumps
    <3> QED BY <3>2, <3>5, <3>6, DumpPhaseType DEF NoDiagnostics
  <2> HIDE DEF flush, dumps
  <2> QED BY <1>0, <1>1, <1>4, <1>6, <2>1, <2>2, <2>3, <2>4, PhaseReports
<1>8. Buffer(w)' = <<>> /\ \A u \in Units \ {w} : Buffer(u)' = Buffer(u)
  <2> HIDE DEF dumps
  <2> QED BY <1>7 DEF ReportStep, ReportEffect, Buffer
<1>9. ArtifactsInv'
  <2>1. ASSUME NEW u \in Units
        PROVE  /\ units'[u] \in (IF u < unit + 1 THEN {{}, Checked} ELSE {{}, Parsed})
               /\ success => units'[u] # {}
    <3>1. CASE u = w
      <4>1. u < unit + 1
        BY <1>0, <1>1, <3>1, UnitOfLoop
      <4> QED BY <1>6, <3>1, <4>1, ArtifactFacts
    <3>2. CASE u # w
      <4>1. /\ units[u] \in (IF u < unit THEN {{}, Checked} ELSE {{}, Parsed})
            /\ success => units[u] # {}
        BY <1>0 DEF DriverInv, ArtifactsInv
      <4>2. u < unit + 1 <=> u < unit
        BY <1>0, <1>1, <3>2, UnitOfLoop
      <4> QED BY <1>6, <3>2, <4>1, <4>2
    <3> QED BY <3>1, <3>2
  <2> QED BY <1>0, <1>4, <1>5, <2>1 DEF ArtifactsInv, Started
<1>10. FlushedInv'
  <2>1. ASSUME NEW u \in Units, u < unit + 1, units'[u] # {}
        PROVE  Buffer(u)' = <<>>
    <3>1. CASE u = w
      BY <1>8, <3>1
    <3>2. CASE u # w
      <4>1. u < unit /\ units[u] # {}
        BY <1>0, <1>1, <1>6, <2>1, <3>2, UnitOfLoop
      <4> QED BY <1>0, <1>8, <3>2, <4>1 DEF DriverInv, FlushedInv
    <3> QED BY <3>1, <3>2
  <2> QED BY <1>0, <1>4, <2>1 DEF FlushedInv
<1>11. /\ (\E i \in 1 .. Len(Diagnosed(w, "Check", r)) : Diagnosed(w, "Check", r)[i].level = "Error")
            <=> SeenError(r)
       /\ SeenError(r) \in BOOLEAN
  BY <1>0, ReportTypes, ErrorsOfDiagnosed
<1>12. units' \in [Units -> SUBSET Artifacts]
  BY <1>0, <1>1, <1>4, <1>6, ArtifactFacts DEF TypeOK
<1>13. success' \in BOOLEAN /\ (success' => success) /\ (~success' => ~success \/ SeenError(r))
         /\ (SeenError(r) => ~success')
  BY <1>0, <1>5
<1> HIDE DEF flush, dumps
<1> QED BY <1>0, <1>4, <1>7, <1>9, <1>10, <1>11, <1>12, <1>13, ReportingKeepsInvariant DEF Reporting

(* Lowering finds the checked file: there is no error. *)
LEMMA RunLowerKeepsInvariant ==
  ASSUME DriverInv, RunLower
  PROVE  DriverInv'
<1>0. /\ pc = "Lower" /\ AtUnit("Lower") /\ TypeOK /\ UNCHANGED <<options, result>> /\ success
  BY DEF RunLower, AtUnit, DriverInv, ControlInv
<1>1. PICK w \in Units : unit = w
  BY <1>0, UnitOfLoop
<1>2. units[w] = Checked
  BY <1>0, <1>1, UnitOfLoop DEF DriverInv, ArtifactsInv
<1>3. Has("sem_ir")
  BY <1>1, <1>2, ArtifactFacts DEF Has
<1>4. /\ units' = [units EXCEPT ![unit] = @ \union {"module"}] /\ UNCHANGED outputs
      /\ pc' = pc /\ unit' = unit + 1 /\ success'
      /\ Report(<<>>, FALSE, Dump(unit, "dump_llvm_ir"))
  BY <1>0, <1>3 DEF RunLower, Make, Advance
<1>5. units'[w] = Lowered /\ \A u \in Units \ {w} : units'[u] = units[u]
  BY <1>0, <1>1, <1>2, <1>4, ArtifactFacts DEF TypeOK
<1> DEFINE dumps == Dump(w, "dump_llvm_ir")
           flush == FALSE
<1>6. PICK prints : /\ ReportStep(w, <<>>, flush, dumps, prints)
                    /\ Buffer(w)' = <<>>
                    /\ \A u \in Units \ {w} : Buffer(u)' = Buffer(u)
  <2>1. Report(<<>>, flush, dumps) /\ flush \in BOOLEAN /\ ~flush
    BY <1>1, <1>4
  <2>2. /\ NoDiagnostics(dumps)
        /\ \A i \in 1 .. Len(dumps) : dumps[i].unit = w /\ dumps[i].what \in DOMAIN DumpPhase
    BY DumpFacts, DumpPhaseType
  <2> HIDE DEF flush, dumps
  <2>3. flush = (pc = "flush")
    BY <1>0, <2>1
  <2> QED BY <1>0, <1>1, <1>4, <1>5, <2>1, <2>2, <2>3, NothingToReport
<1> HIDE DEF flush, dumps
<1>7. ReportInv
  BY DEF DriverInv, ReportInv
<1>8. /\ StreamInv' /\ log' \in Seq(Entry)
      /\ reported' \in [Units -> Seq(Diagnostic)]
      /\ consumers' \in [Units -> [sorting : BOOLEAN, diagnostics : Seq(Diagnostic)]]
  BY <1>6, <1>7, ReportKeepsStream
<1>9. TypeOK'
  <2>1. units' \in [Units -> SUBSET Artifacts]
    BY <1>0, <1>1, <1>4, <1>5, ArtifactFacts DEF TypeOK
  <2>2. unit' \in 1 .. Files + 1
    BY <1>0, <1>4, UnitOfLoop
  <2> QED BY <1>0, <1>4, <1>8, <2>1, <2>2 DEF TypeOK
<1>10. ArtifactsInv'
  <2>1. ASSUME NEW u \in Units
        PROVE  units'[u] = (IF u < unit + 1 THEN Lowered ELSE Checked)
    <3>1. CASE u = w
      <4>1. u < unit + 1
        BY <1>0, <1>1, <3>1, UnitOfLoop
      <4> QED BY <1>5, <3>1, <4>1
    <3>2. CASE u # w
      <4>1. units[u] = (IF u < unit THEN Lowered ELSE Checked)
        BY <1>0 DEF DriverInv, ArtifactsInv
      <4>2. u < unit + 1 <=> u < unit
        BY <1>0, <1>1, <3>2, UnitOfLoop
      <4> QED BY <1>5, <3>2, <4>1, <4>2
    <3> QED BY <3>1, <3>2
  <2> QED BY <1>0, <1>4, <2>1 DEF ArtifactsInv, Started
<1>11. FlushedInv'
  BY <1>0, <1>4, <1>6 DEF DriverInv, FlushedInv
<1>12. ControlInv' /\ LeaveInv' /\ CodeInv' /\ ExplainedInv'
  BY <1>0, <1>4 DEF DriverInv, ControlInv, LeaveInv, CodeInv, ExplainedInv, Reporting, Started, Left
<1>13. OutputsInv'
  BY <1>0, <1>4 DEF DriverInv, OutputsInv, NoOutputs, Left
<1>14. ErrorsInv'
  <2>1. BlockingError' => BlockingError
    BY <1>6, <1>7, ErrorsGrow, NothingDumped
  <2>2. ~BlockingError
    BY <1>0 DEF DriverInv, ErrorsInv
  <2> QED BY <2>1, <2>2 DEF ErrorsInv
<1> QED BY <1>8, <1>9, <1>10, <1>11, <1>12, <1>13, <1>14 DEF DriverInv

(* What remains to be shown of code generation for the unit w. *)
LEMMA CodeGenKeepsInvariant ==
  ASSUME DriverInv, NEW w \in Units, unit = w, unit' = w + 1, pc = "CodeGen", pc' = pc,
         UNCHANGED <<options, units, result>>, NEW dumps, Report(<<>>, FALSE, dumps),
         NoDiagnostics(dumps), \A i \in 1 .. Len(dumps) : dumps[i].kind # "dump",
         NEW ok \in BOOLEAN, success' = (success /\ ok),
         ~ok => \E k \in 1 .. Len(dumps) : dumps[k].kind = "message",
         outputs' \in [OutputNames -> [unit : {0} \union Units, form : Forms]],
         ok => \A u \in Units : OutputFile(u) # OutputFile(w) =>
           outputs'[OutputFile(u)] = outputs[OutputFile(u)],
         ok /\ options.output = "-" =>
           \E k \in 1 .. Len(dumps) : dumps[k] = [kind |-> "code", code |-> Code(w)],
         ok /\ options.output # "-" => outputs'[OutputFile(w)] = Code(w)
  PROVE  DriverInv'
<1> DEFINE flush == FALSE
<1>1. PICK prints : /\ ReportStep(w, <<>>, flush, dumps, prints)
                    /\ Buffer(w)' = <<>>
                    /\ \A u \in Units \ {w} : Buffer(u)' = Buffer(u)
  <2>1. Report(<<>>, flush, dumps) /\ flush \in BOOLEAN /\ ~flush
    OBVIOUS
  <2> HIDE DEF flush
  <2>2. flush = (pc = "flush")
    BY <2>1
  <2>3. \A u \in Units \ {w} : units'[u] = units[u]
    OBVIOUS
  <2>4. \A i \in 1 .. Len(dumps) : dumps[i].kind = "dump" =>
          dumps[i].unit = w /\ dumps[i].what \in DOMAIN DumpPhase
    OBVIOUS
  <2> QED BY <2>1, <2>2, <2>3, <2>4, NothingToReport
<1> HIDE DEF flush
<1>2. ReportInv /\ TypeOK /\ success \in BOOLEAN
  BY DEF DriverInv, ReportInv, TypeOK
<1>3. /\ StreamInv' /\ log' \in Seq(Entry)
      /\ reported' \in [Units -> Seq(Diagnostic)]
      /\ consumers' \in [Units -> [sorting : BOOLEAN, diagnostics : Seq(Diagnostic)]]
  BY <1>1, <1>2, ReportKeepsStream
<1>4. TypeOK'
  <2>1. unit' \in 1 .. Files + 1
    BY FilesAssumption DEF Units
  <2>2. success' \in BOOLEAN
    BY <1>2
  <2> QED BY <1>2, <1>3, <2>1, <2>2 DEF TypeOK
<1>5. ArtifactsInv'
  BY DEF DriverInv, ArtifactsInv, Started
<1>6. FlushedInv'
  BY <1>1 DEF DriverInv, FlushedInv
<1>7. ControlInv' /\ LeaveInv' /\ OutputsInv'
  BY DEF DriverInv, ControlInv, LeaveInv, OutputsInv, Started, Left
<1>8. /\ BlockingError' => BlockingError
      /\ MessageWritten => MessageWritten'
      /\ (\E k \in 1 .. Len(dumps) : dumps[k].kind = "message") => MessageWritten'
      /\ \A i \in DOMAIN log : i \in DOMAIN log' /\ log'[i] = log[i]
      /\ \A k \in 1 .. Len(dumps) : \E i \in DOMAIN log' : log'[i] = dumps[k]
  BY <1>1, <1>2, ErrorsGrow, NothingDumped
<1>9. ErrorsInv'
  <2>1. ~BlockingError
    BY DEF DriverInv, ErrorsInv
  <2> QED BY <1>8, <2>1 DEF ErrorsInv
<1>10. ExplainedInv'
  <2>1. ~success' => MessageWritten'
    <3>1. ~success => MessageWritten
      BY DEF DriverInv, ExplainedInv
    <3> QED BY <1>2, <1>8, <3>1
  <2> QED BY <2>1 DEF ExplainedInv, Reporting, Left
<1>11. CodeInv'
  <2>1. SUFFICES ASSUME success', NEW u \in 1 .. unit' - 1
                 PROVE  Delivered(u)'
    BY DEF CodeInv, Left
  <2>2. ok /\ success /\ u \in Units /\ u \in 1 .. w
    BY <1>2, <2>1, FilesAssumption DEF Units
  <2>3. \A v : Code(v)' = Code(v) /\ OutputFile(v)' = OutputFile(v)
    BY DEF Code, OutputForm, OutputFile, replace_extension
  <2>9. Files \in Nat /\ w \in u .. Files
    BY <2>2, FilesAssumption DEF Units
  <2>4. CASE u = w
    <3>1. options.output = "-" => \E i \in DOMAIN log' : log'[i] = [kind |-> "code", code |-> Code(u)]
      BY <1>8, <2>2, <2>4
    <3>2. options.output # "-" => outputs'[OutputFile(u)] = Code(w) /\ OutputFile(w) = OutputFile(u)
      BY <2>2, <2>4
    <3> QED BY <2>3, <2>9, <3>1, <3>2 DEF Delivered
  <2>5. CASE u # w
    <3>1. u \in 1 .. unit - 1
      BY <2>2, <2>5 DEF Units
    <3>2. Delivered(u)
      BY <2>2, <3>1 DEF DriverInv, CodeInv
    <3>3. options.output = "-" => \E i \in DOMAIN log' : log'[i] = [kind |-> "code", code |-> Code(u)]
      BY <1>8, <3>2 DEF Delivered
    <3>4. CASE options.output # "-" /\ OutputFile(u) = OutputFile(w)
      <4>1. outputs'[OutputFile(u)] = Code(w)
        BY <2>2, <3>4
      <4> QED BY <2>3, <2>9, <3>4, <4>1 DEF Delivered
    <3>5. CASE options.output # "-" /\ OutputFile(u) # OutputFile(w)
      <4>1. outputs'[OutputFile(u)] = outputs[OutputFile(u)]
        BY <2>2, <3>5
      <4> QED BY <2>3, <3>2, <3>5, <4>1 DEF Delivered
    <3>6. CASE options.output = "-"
      BY <2>3, <3>3, <3>6 DEF Delivered
    <3> QED BY <3>4, <3>5, <3>6
  <2> QED BY <2>4, <2>5
<1> QED BY <1>3, <1>4, <1>5, <1>6, <1>7, <1>9, <1>10, <1>11 DEF DriverInv

(* A message is no diagnostic and no dump. *)
LEMMA MessageFacts ==
  ASSUME NEW what \in Messages
  PROVE  /\ NoDiagnostics(Message(what)) /\ Len(Message(what)) = 1
         /\ Message(what)[1].kind = "message"
         /\ \A i \in 1 .. Len(Message(what)) : Message(what)[i].kind # "dump"
<1> DEFINE e == [kind |-> "message", what |-> what]
<1>1. e \in Entry /\ e.kind = "message"
  BY MessageIsEntry
<1>2. Message(what) = <<e>>
  BY DEF Message
<1> HIDE DEF e
<1>3. <<e>> \in Seq(Entry) /\ Len(<<e>>) = 1 /\ <<e>>[1] = e
  BY <1>1, SingletonIsSeq
<1> QED BY <1>1, <1>2, <1>3 DEF NoDiagnostics, IsDiagnostic

(* A code generation that fails says so. *)
LEMMA FailCodeGenKeepsInvariant ==
  ASSUME DriverInv, NEW w \in Units, unit = w, pc = "CodeGen", NEW what \in Messages, FailCodeGen(what),
         UNCHANGED <<options, units, result>>,
         outputs' \in [OutputNames -> [unit : {0} \union Units, form : Forms]]
  PROVE  DriverInv'
<1> DEFINE dumps == Message(what)
           ok == FALSE
<1>1. Report(<<>>, FALSE, dumps) /\ success' = (success /\ ok) /\ pc' = pc /\ unit' = w + 1
  BY DEF FailCodeGen, Advance
<1>2. /\ NoDiagnostics(dumps) /\ \A i \in 1 .. Len(dumps) : dumps[i].kind # "dump"
      /\ Len(dumps) = 1 /\ dumps[1].kind = "message"
  BY MessageFacts
<1>3. ok \in BOOLEAN /\ ~ok
  OBVIOUS
<1> HIDE DEF dumps, ok
<1>4. \E k \in 1 .. Len(dumps) : dumps[k].kind = "message"
  BY <1>2
<1> QED BY <1>1, <1>2, <1>3, <1>4, CodeGenKeepsInvariant

(* The output file of a unit is one of the files there may be. *)
LEMMA OutputFileIsName ==
  ASSUME TypeOK, NEW u \in Units
  PROVE  OutputFile(u) \in OutputNames
<1>1. options \in OptionRecords
  BY OptionsAssumption DEF TypeOK
<1>2. options.input_file_names[u] \in InputNames
  BY <1>1 DEF OptionRecords
<1> QED BY <1>2 DEF OutputFile, OutputNames

(* Code generation finds the module; its code goes to a file of its own,   *)
(* to the stream, or to the file the units share.                          *)
LEMMA RunCodeGenKeepsInvariant ==
  ASSUME DriverInv, RunCodeGen
  PROVE  DriverInv'
<1>0. /\ pc = "CodeGen" /\ AtUnit("CodeGen") /\ TypeOK /\ UNCHANGED <<options, result>>
      /\ outputs \in [OutputNames -> [unit : {0} \union Units, form : Forms]]
  BY DEF RunCodeGen, AtUnit, DriverInv, TypeOK
<1>1. PICK w \in Units : unit = w
  BY <1>0, UnitOfLoop
<1>2. Has("module")
  BY <1>0, <1>1, ArtifactFacts DEF DriverInv, ArtifactsInv, Has
<1>3. \A u \in Units : OutputFile(u) \in OutputNames
  BY <1>0, OutputFileIsName
<1>5. ASSUME NEW file \in [unit : {0} \union Units, form : Forms],
             outputs' = [outputs EXCEPT ![OutputFile(unit)] = file]
      PROVE  /\ outputs' \in [OutputNames -> [unit : {0} \union Units, form : Forms]]
             /\ \A u \in Units : OutputFile(u) # OutputFile(w) =>
                  outputs'[OutputFile(u)] = outputs[OutputFile(u)]
             /\ outputs'[OutputFile(w)] = file
  BY <1>0, <1>1, <1>3, <1>5
<1>6. CASE FailCodeGen("invalid target") /\ UNCHANGED <<units, outputs>>
  <2>1. "invalid target" \in Messages
    BY DEF Messages
  <2> QED BY <1>0, <1>1, <1>6, <2>1, FailCodeGenKeepsInvariant
<1>7. CASE FailCodeGen("could not open output file") /\ UNCHANGED <<units, outputs>>
  <2>1. "could not open output file" \in Messages
    BY DEF Messages
  <2> QED BY <1>0, <1>1, <1>7, <2>1, FailCodeGenKeepsInvariant
<1>8. CASE /\ FailCodeGen("unable to emit") /\ UNCHANGED units
           /\ outputs' = IF options.output = "-" THEN outputs
                         ELSE [outputs EXCEPT ![OutputFile(unit)] = EmptyFile]
  <2>1. "unable to emit" \in Messages
    BY DEF Messages
  <2>2. EmptyFile \in [unit : {0} \union Units, form : Forms]
    BY <1>1, FileTypes
  <2>3. outputs' \in [OutputNames -> [unit : {0} \union Units, form : Forms]]
    BY <1>0, <1>5, <1>8, <2>2
  <2> QED BY <1>0, <1>1, <1>8, <2>1, <2>3, FailCodeGenKeepsInvariant
<1>9. CASE /\ IF options.output = "-"
              THEN /\ Report(<<>>, FALSE, <<[kind |-> "code", code |-> Code(unit)]>>)
                   /\ UNCHANGED outputs
              ELSE /\ Report(<<>>, FALSE, <<>>)
                   /\ outputs' = [outputs EXCEPT ![OutputFile(unit)] = Code(unit)]
           /\ Advance(TRUE)
           /\ UNCHANGED units
  <2> DEFINE ok == TRUE
  <2>0. ok \in BOOLEAN /\ ok /\ success' = (success /\ ok) /\ pc' = pc /\ unit' = w + 1
    BY <1>1, <1>9 DEF Advance
  <2>1. CASE options.output = "-"
    <3> DEFINE e == [kind |-> "code", code |-> Code(w)]
               dumps == <<e>>
    <3>1. Report(<<>>, FALSE, dumps) /\ UNCHANGED outputs
      BY <1>1, <1>9, <2>1
    <3>2. e \in Entry /\ e.kind = "code"
      BY FileTypes DEF Entry
    <3> HIDE DEF e
    <3>3. dumps \in Seq(Entry) /\ Len(dumps) = 1 /\ dumps[1] = e
      BY <3>2, SingletonIsSeq
    <3> HIDE DEF dumps
    <3>4. NoDiagnostics(dumps) /\ \A i \in 1 .. Len(dumps) : dumps[i].kind # "dump"
      BY <3>2, <3>3 DEF NoDiagnostics, IsDiagnostic
    <3>5. \E k \in 1 .. Len(dumps) : dumps[k] = [kind |-> "code", code |-> Code(w)]
      BY <3>3 DEF e
    <3> HIDE DEF ok
    <3> QED BY <1>0, <1>1, <1>9, <2>0, <2>1, <3>1, <3>4, <3>5, CodeGenKeepsInvariant
  <2>2. CASE options.output # "-"
    <3>1. Report(<<>>, FALSE, <<>>) /\ outputs' = [outputs EXCEPT ![OutputFile(unit)] = Code(w)]
      BY <1>1, <1>9, <2>2
    <3>2. /\ outputs' \in [OutputNames -> [unit : {0} \union Units, form : Forms]]
          /\ \A u \in Units : OutputFile(u) # OutputFile(w) =>
               outputs'[OutputFile(u)] = outputs[OutputFile(u)]
          /\ outputs'[OutputFile(w)] = Code(w)
      BY <1>5, <3>1, FileTypes
    <3> DEFINE dumps == <<>>
    <3>3. Report(<<>>, FALSE, dumps) /\ NoDiagnostics(dumps) /\ Len(dumps) = 0
      BY <3>1, NothingDumped
    <3> HIDE DEF ok, dumps
    <3>4. \A i \in 1 .. Len(dumps) : dumps[i].kind # "dump"
      BY <3>3
    <3> QED BY <1>0, <1>1, <1>9, <2>0, <2>2, <3>2, <3>3, <3>4, CodeGenKeepsInvariant
  <2> QED BY <2>1, <2>2
<1> QED BY <1>2, <1>6, <1>7, <1>8, <1>9 DEF RunCodeGen

(* The scope exit flushes the unit. *)
LEMMA FlushUnitKeepsInvariant ==
  ASSUME DriverInv, FlushUnit
  PROVE  DriverInv'
<1>0. /\ pc = "flush" /\ AtUnit("flush") /\ Report(<<>>, TRUE, <<>>) /\ unit' = unit + 1 /\ pc' = pc
      /\ UNCHANGED <<options, units, success, result, outputs>> /\ ReportInv /\ TypeOK
  BY DEF FlushUnit, AtUnit, DriverInv, ReportInv
<1>1. PICK w \in Units : unit = w
  BY <1>0, UnitOfLoop
<1> DEFINE flush == TRUE
<1>2. PICK prints : /\ ReportStep(w, <<>>, flush, <<>>, prints)
                    /\ Buffer(w)' = <<>>
                    /\ \A u \in Units \ {w} : Buffer(u)' = Buffer(u)
  <2> DEFINE dumps == <<>>
  <2>1. /\ flush \in BOOLEAN /\ flush /\ Report(<<>>, flush, dumps) /\ NoDiagnostics(dumps)
        /\ Len(dumps) = 0
    BY <1>0, NothingDumped
  <2> HIDE DEF flush, dumps
  <2>2. flush = (pc = "flush")
    BY <1>0, <2>1
  <2>3. unit' = w + 1 /\ \A u \in Units \ {w} : units'[u] = units[u]
    BY <1>0, <1>1
  <2>4. \A i \in 1 .. Len(dumps) : dumps[i].kind = "dump" =>
          dumps[i].unit = w /\ dumps[i].what \in DOMAIN DumpPhase
    BY <2>1
  <2>5. \E prints : /\ ReportStep(w, <<>>, flush, dumps, prints)
                    /\ Buffer(w)' = <<>>
                    /\ \A u \in Units \ {w} : Buffer(u)' = Buffer(u)
    BY <1>0, <1>1, <2>1, <2>2, <2>3, <2>4, NothingToReport
  <2> QED BY <2>5 DEF dumps
<1> HIDE DEF flush
<1>3. /\ StreamInv' /\ log' \in Seq(Entry)
      /\ reported' \in [Units -> Seq(Diagnostic)]
      /\ consumers' \in [Units -> [sorting : BOOLEAN, diagnostics : Seq(Diagnostic)]]
  BY <1>0, <1>2, ReportKeepsStream
<1>4. TypeOK'
  <2>1. unit' \in 1 .. Files + 1
    BY <1>0, UnitOfLoop
  <2> QED BY <1>0, <1>3, <2>1 DEF TypeOK
<1>5. ControlInv'
  BY <1>0 DEF DriverInv, ControlInv, Started
<1>6. FlushedInv'
  <2>1. ASSUME NEW u \in Units, u < unit + 1
        PROVE  Buffer(u)' = <<>>
    <3>1. CASE u # w
      <4>1. u < unit
        BY <1>0, <1>1, <2>1, <3>1, UnitOfLoop
      <4> QED BY <1>0, <1>2, <3>1, <4>1 DEF DriverInv, FlushedInv
    <3> QED BY <1>2, <3>1
  <2> QED BY <1>0, <2>1 DEF FlushedInv
<1>7. /\ BlockingError' => BlockingError
      /\ ErrorReported => ErrorReported'
      /\ MessageWritten => MessageWritten'
      /\ \A i \in DOMAIN log : i \in DOMAIN log' /\ log'[i] = log[i]
  BY <1>0, <1>2, ErrorsGrow, NothingDumped
<1> QED BY <1>0, <1>3, <1>4, <1>5, <1>6, <1>7, AfterLeaveKeepsInvariant

-----------------------------------------------------------------------------
(* The inductive invariant *)

(* Every action and every stuttering step keeps the invariant. *)
LEMMA NextKeepsInvariant ==
  ASSUME DriverInv, [Next]_vars
  PROVE  DriverInv'
<1>1. CASE ParseArgs
  BY <1>1, ParseArgsKeepsInvariant
<1>2. CASE Validate
  BY <1>2, ValidateKeepsInvariant
<1>3. CASE FailToLoad
  BY <1>3, FailToLoadKeepsInvariant
<1>4. CASE RunLex
  BY <1>4, RunLexKeepsInvariant
<1>5. CASE EndLex
  BY <1>5, EndLexKeepsInvariant
<1>6. CASE SkipUnloaded
  BY <1>6, SkipUnloadedKeepsInvariant
<1>7. CASE RunParse
  BY <1>7, RunParseKeepsInvariant
<1>8. CASE EndParse
  BY <1>8, EndParseKeepsInvariant
<1>9. CASE RunCheck
  BY <1>9, RunCheckKeepsInvariant
<1>10. CASE EndCheck
  BY <1>10, EndCheckKeepsInvariant
<1>11. CASE ProceedToLower
  BY <1>11, ProceedToLowerKeepsInvariant
<1>12. CASE RunLower
  BY <1>12, RunLowerKeepsInvariant
<1>13. CASE EndLower
  BY <1>13, EndLowerKeepsInvariant
<1>14. CASE RunCodeGen
  BY <1>14, RunCodeGenKeepsInvariant
<1>15. CASE EndCodeGen
  BY <1>15, EndCodeGenKeepsInvariant
<1>16. CASE FlushUnit
  BY <1>16, FlushUnitKeepsInvariant
<1>17. CASE EndFlush
  BY <1>17, EndFlushKeepsInvariant
<1>18. CASE DestroyUnits
  BY <1>18, DestroyUnitsKeepsInvariant
<1>19. CASE UNCHANGED vars
  BY <1>19, StutteringKeepsInvariant
<1>20. CASE Terminated
  BY <1>20, StutteringKeepsInvariant DEF Terminated
<1> QED BY <1>1, <1>2, <1>3, <1>4, <1>5, <1>6, <1>7, <1>8, <1>9, <1>10, <1>11, <1>12, <1>13,
           <1>14, <1>15, <1>16, <1>17, <1>18, <1>19, <1>20 DEF Next

(* Of the driver's states with any number of files, options and reports:   *)
(* what the units have fits the step Compile is at, errors are remembered  *)
(* until it is left, and each diagnostic that was reported is either on    *)
(* the error stream, once and in order, or waits in its unit's consumer.   *)
THEOREM DriverIsInvariant == Spec => []DriverInv
<1>1. Init => DriverInv
  BY InitEstablishesInvariant
<1>2. DriverInv /\ [Next]_vars => DriverInv'
  BY NextKeepsInvariant
<1> QED BY <1>1, <1>2, PTL DEF Spec

(* No COCKTAIL_CHECK of Driver.cc fails: the phases that run after the     *)
(* failures of earlier ones find what they need, and the consumers are     *)
(* empty when the units are destroyed.                                     *)
THEOREM ChecksAlwaysHold == Spec => []ChecksHold
<1>1. DriverInv => ChecksHold
  BY DEF DriverInv, TypeOK, Steps, ChecksHold
<1> QED BY <1>1, DriverIsInvariant, PTL

(* Every diagnostic of every file is printed once, and the diagnostics of  *)
(* a file in the order of their locations: neither a dump's early Flush    *)
(* nor the one of the scope exit loses, repeats or misplaces one.          *)
THEOREM DiagnosticsAreAlwaysPrinted == Spec => []DiagnosticsArePrinted
<1>1. DriverInv => DiagnosticsArePrinted
  <2> SUFFICES ASSUME DriverInv
               PROVE  DiagnosticsArePrinted
    OBVIOUS
  <2>0. /\ log \in Seq(Entry) /\ reported \in [Units -> Seq(Diagnostic)]
        /\ consumers \in [Units -> [sorting : BOOLEAN, diagnostics : Seq(Diagnostic)]]
        /\ BufferInv /\ LogInv /\ PrintedInOrder /\ FlushedInv
    BY DEF DriverInv, TypeOK, StreamInv
  <2>1. \A u \in Units : /\ Len(reported[u]) \in Nat /\ Len(Buffer(u)) \in Nat
                         /\ DOMAIN reported[u] = 1 .. Len(reported[u])
                         /\ PrintedCount(u) <= Len(reported[u])
    BY <2>0 DEF Buffer, PrintedCount
  <2>2. ASSUME NEW i \in DOMAIN log, IsDiagnostic(log[i])
        PROVE  /\ log[i].nr \in DOMAIN reported[log[i].unit]
               /\ log[i] = reported[log[i].unit][log[i].nr]
               /\ \A j \in 1 .. i - 1 : log[j] # log[i]
    <3>1. PICK u \in Units : log[i].unit = u
      <4>1. log[i] \in Entry
        BY <2>0
      <4>2. log[i] \in Diagnostic
        BY <2>2, <4>1 DEF Entry, IsDiagnostic
      <4> QED BY <4>2 DEF Diagnostic
    <3>2. /\ log[i].nr \in 1 .. PrintedCount(u)
          /\ log[i] = reported[u][log[i].nr]
          /\ \A j \in 1 .. i - 1 : log[j] # log[i]
      BY <2>0, <2>2, <3>1 DEF LogInv
    <3>3. log[i].nr \in DOMAIN reported[u]
      BY <2>1, <3>2 DEF PrintedCount
    <3> QED BY <3>1, <3>2, <3>3
  <2>3. ASSUME pc = "done", NEW u \in Units, NEW k \in DOMAIN reported[u]
        PROVE  \E i \in DOMAIN log : log[i] = reported[u][k]
    <3>1. Buffer(u) = <<>>
      BY <2>0, <2>3 DEF FlushedInv
    <3>2. k \in 1 .. PrintedCount(u)
      BY <2>1, <2>3, <3>1 DEF PrintedCount
    <3> QED BY <2>0, <2>3, <3>2 DEF LogInv
  <2> QED BY <2>0, <2>2, <2>3 DEF DiagnosticsArePrinted, PrintedOnce
<1> QED BY <1>1, DriverIsInvariant, PTL

(* What is dumped of a phase comes after all that was reported about the   *)
(* file up to that phase.                                                  *)
THEOREM DumpsAlwaysFollowDiagnostics == Spec => []DumpsFollowDiagnostics
<1>1. DriverInv => DumpsFollowDiagnostics
  BY DEF DriverInv, StreamInv
<1> QED BY <1>1, DriverIsInvariant, PTL

(* When RunCommand returns false the error stream says why, in a message   *)
(* or a diagnostic of an error, whichever step failed.                     *)
THEOREM FailureIsAlwaysExplained == Spec => []FailureIsExplained
<1>1. DriverInv => FailureIsExplained
  <2> SUFFICES ASSUME DriverInv, pc = "done", result = "false"
               PROVE  \E i \in DOMAIN log : \/ log[i].kind = "message"
                                            \/ IsDiagnostic(log[i]) /\ log[i].level = "Error"
    BY DEF FailureIsExplained
  <2>0. /\ reported \in [Units -> Seq(Diagnostic)] /\ LogInv /\ FlushedInv
        /\ ErrorReported \/ MessageWritten
    BY DEF DriverInv, TypeOK, StreamInv, ExplainedInv, Left
  <2>1. CASE MessageWritten
    BY <2>1 DEF MessageWritten
  <2>2. CASE ErrorReported
    <3>0. PICK u \in Units : \E k \in DOMAIN reported[u] : reported[u][k].level = "Error"
      BY <2>2 DEF ErrorReported
    <3>1. PICK k \in DOMAIN reported[u] : reported[u][k].level = "Error"
      BY <3>0
    <3>2. Buffer(u) = <<>> /\ reported[u] \in Seq(Diagnostic)
      BY <2>0, <3>1 DEF FlushedInv
    <3>3. k \in 1 .. PrintedCount(u)
      BY <3>1, <3>2 DEF PrintedCount
    <3>4. PICK i \in DOMAIN log : log[i] = reported[u][k]
      BY <2>0, <3>1, <3>3 DEF LogInv
    <3>5. reported[u][k].kind = "diagnostic"
      <4>1. reported[u][k] \in Diagnostic
        BY <3>1, <3>2
      <4> QED BY <4>1 DEF Diagnostic
    <3> QED BY <3>1, <3>4, <3>5 DEF IsDiagnostic
  <2> QED BY <2>0, <2>1, <2>2
<1> QED BY <1>1, DriverIsInvariant, PTL

(* Once the lexer or the checker reported an error, or a file did not      *)
(* load, no file is lowered and no output file is touched.                 *)
THEOREM NoCodeIsMadeFromErrors == Spec => []NoCodeFromErrors
<1>1. DriverInv => NoCodeFromErrors
  <2> SUFFICES ASSUME DriverInv, BlockingError
               PROVE  NoOutputs /\ \A u \in Units : "module" \notin units[u]
    BY DEF NoCodeFromErrors, BlockingError, NoOutputs
  <2>1. pc \in Steps /\ ErrorsInv /\ OutputsInv /\ ArtifactsInv
    BY DEF DriverInv, TypeOK
  <2>2. CASE Left
    BY <2>1, <2>2 DEF ErrorsInv
  <2>3. CASE ~Left
    <3>1. pc \in {"args", "validate", "Lex", "Parse", "Check", "errors"}
      BY <2>1, <2>3 DEF Steps, Left, ErrorsInv
    <3>2. NoOutputs
      BY <2>1, <2>3, <3>1 DEF OutputsInv
    <3>3. ASSUME NEW u \in Units
          PROVE  units[u] \in {{}, Loaded, Parsed, Checked}
      BY <2>1, <3>1 DEF ArtifactsInv, Started
    <3>4. "module" \notin {} \union Loaded \union Parsed \union Checked
      BY DEF Loaded, Parsed, Checked
    <3> QED BY <3>2, <3>3, <3>4
  <2> QED BY <2>2, <2>3
<1> QED BY <1>1, DriverIsInvariant, PTL

(* Every loaded file goes through all the phases before lowering that were *)
(* asked for, whatever the others reported; and if RunCommand returns true *)
(* each file has exactly what the phases that were asked for make.         *)
THEOREM PhasesAreAlwaysComplete == Spec => []PhasesAreComplete
<1>1. DriverInv => PhasesAreComplete
  <2> SUFFICES ASSUME DriverInv, pc = "done", NEW u \in Units
               PROVE  /\ "source" \in units[u] /\ options.phase >= 2 => "parse_tree" \in units[u]
                      /\ "source" \in units[u] /\ options.phase >= 3 => "sem_ir" \in units[u]
                      /\ result = "true" /\ units # [ v \in Units |-> {} ] =>
                           {"tokens", "parse_tree", "sem_ir", "module"} \intersect units[u] =
                           {"tokens"} \union (IF options.phase >= 2 THEN {"parse_tree"} ELSE {})
                                      \union (IF options.phase >= 3 THEN {"sem_ir"} ELSE {})
                                      \union (IF options.phase >= 4 THEN {"module"} ELSE {})
    BY DEF PhasesAreComplete
  <2>1. LeaveInv /\ Left /\ options.phase \in 1 .. 5
    BY OptionFacts DEF DriverInv, Left, TypeOK
  <2>2. CASE units = [ v \in Units |-> {} ]
    BY <2>2
  <2>3. CASE units # [ v \in Units |-> {} ]
    <3>1. /\ units[u] = {} => result = "false"
          /\ options.phase = 1 => units[u] \in {{}, Loaded}
          /\ options.phase = 2 => units[u] \in {{}, Parsed}
          /\ options.phase = 3 => units[u] \in {{}, Checked}
          /\ options.phase >= 4 => units[u] \in {{}, Checked, Lowered}
          /\ options.phase >= 4 /\ units[u] = Checked => result = "false"
      BY <2>1, <2>3 DEF LeaveInv
    <3>2. CASE options.phase = 1
      BY <3>1, <3>2 DEF Loaded
    <3>3. CASE options.phase = 2
      BY <3>1, <3>3 DEF Parsed, Loaded
    <3>4. CASE options.phase = 3
      BY <3>1, <3>4 DEF Checked, Parsed, Loaded
    <3>5. CASE options.phase >= 4
      <4>1. options.phase >= 2 /\ options.phase >= 3 /\ options.phase # 1
        BY <2>1, <3>5
      <4>2. {"parse_tree", "sem_ir"} \in SUBSET Checked /\ {"parse_tree", "sem_ir"} \in SUBSET Lowered
        BY DEF Lowered, Checked, Parsed
      <4>3. {"tokens", "parse_tree", "sem_ir", "module"} \intersect Lowered =
              {"tokens", "parse_tree", "sem_ir", "module"}
        BY DEF Lowered, Checked, Parsed, Loaded
      <4>4. result = "true" => units[u] = Lowered
        BY <3>1, <3>5
      <4>5. units[u] \in {{}, Checked, Lowered}
        BY <3>1, <3>5
      <4>6. {"tokens"} \union (IF options.phase >= 2 THEN {"parse_tree"} ELSE {})
                       \union (IF options.phase >= 3 THEN {"sem_ir"} ELSE {})
                       \union (IF options.phase >= 4 THEN {"module"} ELSE {}) =
            {"tokens", "parse_tree", "sem_ir", "module"}
        BY <3>5, <4>1
      <4>7. "source" \in units[u] => "parse_tree" \in units[u] /\ "sem_ir" \in units[u]
        BY <4>2, <4>5
      <4> QED BY <4>3, <4>4, <4>6, <4>7
    <3> QED BY <2>1, <3>2, <3>3, <3>4, <3>5
  <2> QED BY <2>2, <2>3
<1> QED BY <1>1, DriverIsInvariant, PTL

(* Files that have the same output file share it, and its name has the     *)
(* stem of their own.                                                      *)
LEMMA OutputFilesAreShared ==
  ASSUME TypeOK, NEW u \in Units, NEW v \in Units, OutputFile(v) = OutputFile(u)
  PROVE  /\ ShareOutput(u, v)
         /\ options.output # "file" => OutputFile(u).stem = options.input_file_names[u].stem
<1>1. CASE options.output = "file"
  BY <1>1 DEF ShareOutput
<1>2. CASE options.output # "file"
  <2> DEFINE form == IF options.asm_output THEN ".s" ELSE ".o"
  <2>1. /\ OutputFile(u) = [stem |-> options.input_file_names[u].stem, extension |-> form]
        /\ OutputFile(v) = [stem |-> options.input_file_names[v].stem, extension |-> form]
    BY <1>2 DEF OutputFile, replace_extension
  <2> HIDE DEF form
  <2>2. /\ OutputFile(u).stem = options.input_file_names[u].stem
        /\ OutputFile(v).stem = options.input_file_names[v].stem
    BY <2>1
  <2> QED BY <2>2 DEF ShareOutput
<1> QED BY <1>1, <1>2

(* After a successful code generation the code of each file is in the      *)
(* stream, or in a file of the right name unless a later input shares its  *)
(* output file and took its place, for any names of the input files.       *)
THEOREM CodeIsAlwaysDelivered == Spec => []CodeIsDelivered
<1>1. DriverInv => CodeIsDelivered
  <2> SUFFICES ASSUME DriverInv, pc = "done", result = "true", options.phase = 5,
                      units # [ v \in Units |-> {} ], NEW u \in Units
               PROVE  IF options.output = "-"
                      THEN \E i \in DOMAIN log : log[i] = [kind |-> "code", code |-> Code(u)]
                      ELSE \/ \E name \in DOMAIN outputs :
                                /\ outputs[name] = Code(u)
                                /\ options.output # "file" =>
                                     name.stem = options.input_file_names[u].stem
                           \/ \E v \in u + 1 .. Files : ShareOutput(u, v)
    BY DEF CodeIsDelivered
  <2>1. Delivered(u) /\ DOMAIN outputs = OutputNames /\ TypeOK
    BY DEF DriverInv, TypeOK, CodeInv, Left
  <2>2. CASE options.output = "-"
    BY <2>1, <2>2 DEF Delivered
  <2>3. CASE options.output # "-"
    <3>1. PICK v \in u .. Files : OutputFile(v) = OutputFile(u) /\ outputs[OutputFile(u)] = Code(v)
      BY <2>1, <2>3 DEF Delivered
    <3>2. v \in Units /\ (v = u \/ v \in u + 1 .. Files)
      BY <3>1, FilesAssumption DEF Units
    <3>3. /\ ShareOutput(u, v)
          /\ options.output # "file" => OutputFile(u).stem = options.input_file_names[u].stem
      BY <2>1, <3>1, <3>2, OutputFilesAreShared
    <3>4. OutputFile(u) \in DOMAIN outputs
      BY <2>1, OutputFileIsName
    <3> QED BY <2>3, <3>1, <3>2, <3>3, <3>4
  <2> QED BY <2>2, <2>3
<1> QED BY <1>1, DriverIsInvariant, PTL

=============================================================================
