# Verification of the Cocktail compiler

This directory holds TLA+ models of the Cocktail compiler, the TLC
configurations that check them on small instances, and theorems checked by
TLAPS. Paths below are relative to the repository.

## 1. The system

The driver (`lib/Driver/Driver.cc`) takes source files through six phases:
read, lex, parse, check, lower, generate code. Each phase runs over all the files
before the next one begins, produces one immutable table per file for the
next (token buffer, parse tree, SemIR, LLVM module), reports to a diagnostic
consumer, and returns whether it succeeded. Everything runs in one thread. What
is hard is not concurrency but long sequences of legal steps: explicit stacks
that replace recursion, error recovery that must leave those stacks and the
token position consistent, and consistency checks (`COCKTAIL_CHECK`,
`COCKTAIL_FATAL`) that abort the compiler when they are not.

| component | state it keeps | operations | what makes it correct |
|---|---|---|---|
| Parser (`lib/Parse`) | token position, state stack, node array, `has_errors_` | one handler per state of `State.def`; recovery helpers of `Context` | never aborts, ends, produces a well-formed tree that covers the tokens, reports every error once |
| Operator precedence (`lib/Parse/Precedence.cc`) | a constant priority table | `ForLeading`, `ForTrailing`, `GetPriority` | the table is a strict order; expressions nest as it allows |
| Lexer (`lib/Lex/TokenizedBuffer.cc`) | token and line tables, open groups, column, literal storage, identifiers | `SkipWhitespace`, one `Lex...` per class of token, `CloseInvalidOpenGroups` | every opener matched, in nesting order; every token reads back its own text, line, white space and value |
| Numeric literals (`lib/Lex/NumericLiteral.cc`) | the parts of one literal | `Lex`, the `Check...` functions, `GetMantissa`, `GetExponent` | accepts the grammar, computes the value at any width |
| String literals (`lib/Lex/StringLiteral.cc`) | the content left, the result, the last escape | `Lex`, indentation, escapes, trimming | scanner and expander agree; what was written as an escape stays |
| Diagnostics (`include/Cocktail/Diagnostics`) | buffered diagnostics, error flag | `Emit`, `HandleDiagnostic`, `Flush` | nothing lost, sorted stably, flushed before destruction |
| Check (`lib/Check`) | node stack, node block stacks, scopes, declaration names, pending blocks, return scopes | one handler per parse node kind, `Convert` | stacks balanced, names resolve to the innermost scope, each block finalised once |
| SemIR (`lib/SemIR`) | node, block, type, scope tables | `Add*`, `Get*`, type stringification | ids stay valid, types are canonical |
| Lower, CodeGen (`lib/Lower`, `lib/CodeGen`) | LLVM module, block and value maps | one handler per SemIR node | every block lowered once, locals defined before use |
| Driver (`lib/Driver`) | phase results, options | `RunLex` ... `RunCodeGen`, flush | no phase reads a missing result; failure is reported |
| Command line (`lib/Common/CommandLine.cc`) | options, subcommands, positions | build, parse, finalize | every argument consumed once, requirements enforced |
| ParseBK (`lib/ParseBK`) | | | the former recursive-descent parser; not called by the driver |
| Experimental (`experimental`) | environment, heap, action stack | step of the interpreter, type checker | a prototype of its own |
| CppRefactor, tools, testing | | | clang-based refactorings and test scaffolding |

All of the compiler from the command line to LLVM's blocks is modelled. Theorems
are proved about the lexer, the parser, the scopes of the checker, the driver and the
command line. Parser, checker and lowering are composed (`Pipeline`), since the
interesting inputs of each are what the one before produces, errors included. The
driver is modelled over arbitrary reports of the phases: which diagnostics a phase
emits is an input there.

### How the parser works

`Tree::Parse` adds a `FileStart` leaf, pushes `DeclarationScopeLoop` and then
runs the handler of the top state until the stack is empty. A handler pops its
state, looks at the next token, adds nodes, moves the position and pushes the
states that continue. `AddLeafNode` appends a node of size 1. `AddNode` appends
a node that covers everything since the `subtree_start` its state remembers from
when it was pushed, possibly hundreds of steps earlier. On errors a handler
emits a diagnostic, marks the node it adds or the state below
(`ReturnErrorOnState`), and skips tokens by group (`FindNextOf`) or by
line and indentation (`SkipPastLikelyEnd`). At the end `Tree::Verify` recomputes
the structure from the bracket or child count of each node kind and aborts if
the sizes do not agree.

### How the lexer works

`TokenizedBuffer::Lex` alternates `SkipWhitespace` with a function chosen from a
table by the next character. Each function consumes its text, moves the column,
sets the indent of the line if it is the first on it, and adds one token. The
lexer remembers no offsets: a token has a line and a column, and its text is
found again by lexing the source at that place, so the starts of lines and the
columns must stay exact over comments and literals of several lines. A token
knows only afterwards that white space follows it (`NoteWhitespace`). Opening
symbols go on a stack. A closing symbol first closes, by recovery tokens and one
diagnostic each, all inner groups of other kinds (`CloseInvalidOpenGroups`), and
becomes an error token when no group is open. The end of the text closes all
that is left.

### How the checker and the lowering work

`CheckParseTree` visits the tree in postorder and runs the handler of each node.
A handler pops what its children left on the node stack, whose entries have a
kind the handler insists on, and adds nodes to the block on top of the node
block stack. Branches pop a block before its code is complete and push the block
that control goes to, so blocks are finished in another order than they were
begun. Names are kept twice: `scope_stack_` says which names a scope added,
`name_lookup_` what each name means, innermost last; `DeclarationNameStack`
resolves qualified names a word at a time. Types are nodes, made canonical by a
profile, so that equal types have equal ids. `Convert` turns an expression into
a value, a reference or an initialization of a given type. It may have to add
the storage it initializes before the code that uses it, which is why such code
goes to a `PendingBlock` first and is inserted, merged or spliced later.

`LowerToLLVM` goes over the blocks of each function. It creates a basic block at
the first mention of a SemIR block, makes a synthetic block after a conditional
branch and reuses that block for the next target if nothing was put in it, and
fills phis from the block the builder is at.

### How the driver and the command line work

`Driver::RunCommand` describes its options to the command line library, which
parses the arguments level by level: options, subcommand or positional
arguments, and what follows a `--`; at the end of each level defaults are
applied and required options looked for. `Compile` then makes a unit per file
with a consumer that sorts diagnostics by location until it is flushed, and runs
the phases. Errors stop a file only if the next phase has nothing to work on, and
all files before lowering. Every return passes a scope exit that flushes the
units; a consumer destroyed with diagnostics aborts.

## 2. Modules

| module | what it models |
|---|---|
| `TokenBuffer` | `TokenKind.def`: classes of tokens, matching symbols, expected nodes per token; what the lexer hands to the parser: tokens, `StartsFile`, `EndsFile`, `GroupsMatched` |
| `CharacterSet` | `CharacterSet.h`, the table of identifier bytes, and the `StringRef` helpers (external) |
| `TokenSpellings` | the symbols of `TokenKind.def` with their spellings, longest first; keywords are a constant |
| `NumericLiteral` | `NumericLiteral.cc` as operators: scan, checks, mantissa, exponent with its width |
| `StringLiteral` | `StringLiteral::Lex` and `Introducer::Lex` as operators |
| `StringLiteralValue` | `ComputeValue` as a state machine: one action per iteration of the loops over lines and text |
| `Lexer` | `TokenizedBuffer::Lex` and `TokenizedBuffer::Lexer` (18 actions), and `Buffer`, the accessors the parser uses |
| `NumericLiteralProperties`, `StringLiteralProperties`, `LexerProperties` | the properties of the lexer, a grammar of numbers, and the texts of the runs on literals |
| `MCLexer` | the texts of the lexer's runs |
| `LexerProofs` | the inductive invariant of the lexer and its theorems |
| `Precedence` | `Precedence.cc`: levels, marked order, closure, priority table, groups of operators |
| `NodeKinds` | `NodeKind.def`: bracket or child count of each node kind |
| `ParseContext` | `Context.h`, `Context.cc`: the variables and every helper of `Context` |
| `ParseDeclarations` | handlers of declarations, names, parameters, patterns, packages (28 actions) |
| `ParseExpressions` | handlers of operators, postfix expressions, if expressions, tuples, arrays, structs, periods (27 actions) |
| `ParseStatements` | handlers of statements, conditions, blocks (17 actions) |
| `Parser` | `Tree::Parse` and `Tree::Verify`: `Init`, `Finish`, `Next`, `Spec`, `FairSpec` |
| `ParserProperties` | the properties |
| `MCTokens` | construction of small token buffers |
| `MCParser` | the inputs of the runs `files` and `expressions` |
| `ParserProofs` | the inductive invariants `Inductive` and `Quiet`; lemmas on sequences, the tree, the stack, and a step; one proof step per handler; the theorems |
| `ErrorProofs` | the inductive invariant `Kept` and the theorem that no error is lost |
| `PrecedenceProofs` | the inductive invariant `Operators` and the theorem that operators nest as the table says |
| `SemIR` | `File.h`, `File.cc`, `Node.h`: the tables, what is read back of them, `Verify` |
| `ScopeTable` | `scope_stack_` and `name_lookup_` with the operations of `Context` on them, and the environment they stand for |
| `ScopedEnvironment` | lexical scoping as a stack of environments: the specification `ScopeTable` implements |
| `ScopeProofs` | the operations of `ScopeTable` in any order as a specification, and the proof that it implements `ScopedEnvironment` |
| `CheckContext` | `Context`, `NodeStack`, `NodeBlockStack`, `DeclarationNameStack`, type canonicalization: operators on the context record |
| `Convert` | `Convert.cc` and `PendingBlock.h` |
| `Check` | `CheckParseTree`: one action per handler of `lib/Check/Handle*.cc` |
| `Lower` | `FileContext`, `FunctionContext` and the handlers of `lib/Lower` |
| `Pipeline` | parser, checker and lowering of one file, in sequence (`INSTANCE Parser`) |
| `CheckProperties`, `MCCheck` | their properties, and the programs of the runs |
| `Diagnostics` | the consumers of `DiagnosticEmitter.h` and `SortingDiagnosticConsumer.h` |
| `Driver` | `Driver.cc`: validation, the phases, flushing, dumps, output files |
| `DriverProperties`, `MCDriver` | its properties; options and reports of the run |
| `DriverProofs` | the inductive invariant of the driver, lemmas on the sort of a flush, and its theorems |
| `CommandLine` | `CommandLine.cc`: the builder and the parser |
| `CommandLineProperties`, `MCCommandLine` | its properties; descriptions (that of `Driver.cc` among them) and argument lists of the run |
| `CommandLineProofs` | the inductive invariant of the command line and its theorems |

State and code of the parser correspond as follows.

| variable | code |
|---|---|
| `tokens` | the `TokenizedBuffer`; a token has its kind, line, the indent of its line, `has_trailing_space` and, for an opener, the index of its closer |
| `position` | `Context::position_`, counted from 1 |
| `state_stack` | `Context::state_stack_`, entries with the fields of `StateStackEntry` |
| `nodes` | `Tree::node_impls_` with kind, `has_error`, token, `subtree_size` |
| `has_errors` | `Tree::has_errors_` |
| `diagnosed` | the tokens at which the emitter was called; the messages are left out |
| `status` | `"parsing"` inside the loop, `"done"` after `Verify`, `"aborted"` after a failed CHECK, a FATAL or an `llvm_unreachable` |

An action is a whole handler: pop, nodes, position, pushes, marks and
diagnostics in one step (`Step`, or `CheckedStep` where the handler contains a
CHECK beyond those of the helpers). Families of states that `State.def` lists
together and that share one function in the code (`...AsRegular`,
`...AsDeduced`) share one action that quantifies over the members. Token text is
left out: an identifier is the kind `Identifier`.

State and code of the lexer correspond as follows. Offsets and columns count from 0
as in the code, tokens and lines from 1.

| variable | code |
|---|---|
| `source`, `offset` | the source text and how much of it `source_text` has dropped |
| `token_infos`, `line_infos` | `token_infos_`, `line_infos_` with the fields of `TokenInfo` and `LineInfo`; `value` is the union of identifier, literal index, matching token and error length |
| `current_column`, `set_indent`, `open_groups` | the members of `Lexer` of that name; the current line is the last one |
| `identifiers`, `literal_ints`, `literal_strings` | the storages; an entry of a literal storage is the token it belongs to, its value is the business of `NumericLiteral` and `StringLiteralValue` |
| `diagnostics` | name, offset, and the line `GetLocation` computes when it is emitted |
| `skip_from`, `closing_for`, `phase` | the local variables and the place in the loop of `Lex` |

A loop inside a function (`SkipWhitespace`, `CloseInvalidOpenGroups`, the expansion
of a string) takes one step per iteration. A character is a string of length
one; `UTF8` stands for any byte above `0x7F`. The value of a terminated string may
emit a diagnostic at any place inside the literal.

`IsTokenBuffer` is what `Tree::Parse` requires: start and end of file in place,
every opener matched by the closer of its kind, groups properly nested. It is an
`ASSUME` about the constant `TokenBuffers`, and TLC evaluates it on the inputs of
each run. `LexerProofs` proves that every buffer the lexer returns satisfies it
but for one conjunct, `StartsFile` (finding 1). Buffers with lexical errors are
included: recovery tokens repair groups, and an unmatched closer becomes a token
of kind `Error`.

State and code of the checker and the lowering correspond as follows. A name is a
string, an integer literal its value, and a node has the kind, the type, the
parse node and the arguments of `SemIR::Node`.

| variable | code |
|---|---|
| `tree`, `tokens`, `texts` | the parse tree, the buffer, and the text of names and numbers |
| `cx` | `Check::Context`: a record with a field per member (`node_stack`, `node_block_stack`, `params_or_args_stack`, `scope_stack`, `name_lookup`, `return_scope_stack`, `declaration_name_stack`, `canonical_types`), the SemIR file `ir`, and `fatal`, set by the first CHECK that fails |
| `visited`, `outcome` | the loop of `CheckParseTree`: running, done, stopped by a TODO, aborted |
| `lw` | `FileContext` and the `FunctionContext` at hand: blocks and locals made, the builder's block, and of each basic block its successors, incoming edges and terminators |

A handler is one action. It is written as a composition of operators from context to context
in the order of the calls in the code; what a call returns is the field `ret`. Handlers
that do nothing share an action, and so do those that only report that the construct is
not supported.

State and code of the driver: `units` has for each file which of the tables exist,
`consumers` the consumer with its buffered diagnostics, `success` and `result` the variables of
`Compile`, `log` the error stream and `outputs` the files written, by name. A name is a stem and an
extension; the default name of an output is what `replace_extension` makes of the input's, so
that two inputs may have one output. Loading a file,
finding the target, opening and writing an output may each fail. A phase takes one step per
unit, and so does the flush at the end. Of the command line: `builders` and
`commands` are what the builder calls make, `parser` the members of `Parser`, `storage` what
the options point to. A description is data, a sequence of builder calls. A word of the command line
is a record that says how many dashes it has, which name and which value; the splitting of
the text into these is the one thing left out.

### The refinement

`ScopedEnvironment` says what a programmer expects of names: a stack of scopes, names
declared in the innermost one only, scopes entered and left in nesting order, nothing
changed outside. The checker keeps no such stack. `Environment(scope_stack,
name_lookup)` computes it from the two tables: the *i*-th scope maps each of its names to the entry of
`name_lookup` that belongs to it, counted by how many scopes up to *i* declare the name.
`CheckProperties` instantiates the abstract specification with this mapping, and `ScopesAreLexical`
states that the pipeline implements it, and that `LookupUnqualified`
returns what the environment means by the name, on what the handlers really do with the
tables; `ScopeProofs` proves both for the three operations in any order. The mapping would be
undefined, or a step would change an outer scope, if a handler left a
scope it had not entered, added to another scope than the top, or lost
a shadowed meaning.

## 3. Runs

Each run of the parser enumerates every balanced sequence of at most *n* tokens over a small
alphabet, between a fixed prefix and suffix that bring the parser to the
construct in question. The alphabets hold the tokens the handlers of
the construct distinguish, plus one or two that belong to no place, so all the
valid forms and all the ways of cutting and garbling them up to that length are
covered.

| run | inputs | properties |
|---|---|---|
| `files` | up to 4 tokens of a file, 3 of a type's member, 4 of a package directive, variables, two-line layouts; up to 5 tokens in `( )`, 4 in `[ ]`, 4 in a qualified name; up to 4 after `if`, `while`, `for`, in two halves of a header; jumps on one and two lines | `TreeIsComplete`, `GroupsAreRespected`, `StackNested`, `ErrorsAreDiagnosed`, `Terminates` |
| `expressions` | up to 4 operators and operands, if expressions, assignments, every white space for 3 tokens of `* -`; up to 5 tokens in tuples, calls, arrays, indexing, struct literals | `TreeIsComplete`, `PrecedenceRespected`, `OnlyOperatorErrorsUnmarked`, `Postorder` |
| `lexing` | every text up to 5 of `( ) { } ;` and blank; up to 5 of a letter, `/ $ =`, blank, newline; `'''` literals with up to 3 characters between other tokens, and up to 4 of `" \ # )` and newline; up to 5 of `i f 1 . _` and blank, and up to 3 of a non-ASCII byte, `u 8 0` | `BufferIsWellFormed`, `GroupInvariant`, `TokensReadBack`, `DiagnosticsAreRight`, `LexingEnds` |
| `numeric_literals` | a digit and what may follow: any of `0 1 _ x b . e` to length 7, digits, separators and points to length 9 in each radix, exponents with either letter and sign to length 8, long fractions to length 13 | `RecognizesTheGrammar`, `ValueIsDenoted` |
| `string_values` | literals of one line with up to 3 characters at two hash levels, of several lines with up to 5, escapes by number, and every string of 3 characters quoted | `ScannerAndExpanderAgree`, `LinesAreTrimmed`, `ValueIsComputed` |
| `checking` | some 250 programs: each form of expression in each place it can be used, conditionals and returns in every arrangement of two levels, shadowing, arrays, pointers, structs, namespaces, entry points; seven types against ten values; wrong calls, operands, indices and declarations; syntax errors | `NeverAborts`, `ScopesAreLexical`, `TypesAreCanonical`, `NoSilentErrors`, `WellTyped`, `BlocksAreClosed`, `NodesAreInOnePlace`, `OperandsDominateUses`, `PhisMatchPredecessors` |
| `driver` | two files, up to two diagnostics of each phase about each, 18 sets of options, one of them with two files of the same stem, failures of every step on files | `ChecksHold`, `DiagnosticsArePrinted`, `DumpsFollowDiagnostics`, `FailureIsExplained`, `NoCodeFromErrors`, `PhasesAreComplete`, `CodeIsDelivered` |
| `command_line` | the driver's description, four others with every kind of argument, one with a short name of two characters, and descriptions the builder refuses; all short lists of the words that concern each | `OptionsKeepLastValue`, `PositionalsAreKept`, `OneOutcome`, `BuiltCommandsParse` |
| `start_of_file` | the comments of `lexing` | `ParserFindsStart` is violated |
| `syntax_errors` | `let x: i32;` in a function, and `fn F;` | `NeverAborts` is violated |
| `mixed_elements` | an array of pairs made of a variable and a call | `OperandsDominateUses` is violated |
| `required_files` | the driver's description | `RequiredArgumentsAreGiven` is violated |

What the properties of the parser say:

* `TreeIsComplete`: no token buffer makes a CHECK fail or `Tree::Verify` reject
  (`NeverAborts`); parsing ends at the end of the file and not at a `}`
  (`WholeFileParsed`); in a tree without errors every token labels exactly the
  nodes its kind promises, where `Verify` compares totals only (`OneNodePerToken`).
* `GroupsAreRespected`: while a state will still close a group, recovery has not
  left the group (`InsideOpenGroups`), and the node that closes it is labelled with
  the token that closes the group its start node opened, although most handlers
  consume the closer without looking (`GroupsClosedByTheirMatch`).
* `Postorder`, `StackNested`: see the proofs.
* `ErrorsAreDiagnosed`, `OnlyOperatorErrorsUnmarked`: marks and diagnostics imply
  each other, operators excepted.
* `PrecedenceRespected`: an operator nests under another only as the priority
  table allows, or it was diagnosed.
* `Terminates`: parsing ends.

Of the lexer:

* `BufferIsWellFormed`: the finished buffer ends with its only `EndOfFile`, all
  groups are matched and nested.
* `GroupInvariant`: at every step the open groups are the openers without a
  closer, in order; see the proofs.
* `TokensReadBack`: read back through line, column and kind as `GetTokenText`
  does, the tokens lie in the source in order with only white space and comments
  between them (`SourceIsCovered`); `HasLeadingWhitespace` is true exactly when
  something was skipped, recovery tokens or not (`WhitespaceIsKept`); line start
  plus column is the offset, with a line after each newline passed, those inside
  literals included (`LinesFollowSource`); each literal refers to its own storage
  entries, a real one to two (`LiteralsAreStored`).
* `DiagnosticsAreRight`: the line computed when a diagnostic is emitted is the
  line it is about, and an error or recovery token implies a diagnostic.
* `RecognizesTheGrammar`, `ValueIsDenoted`: the number scanner and the checks
  against a grammar written down independently of them, and the value against a
  sum over the places of the digits.
* `ScannerAndExpanderAgree`: the expander never meets a mark without a character
  behind it (a failed CHECK), and a string written with escapes reads back as
  itself.
* `LinesAreTrimmed`: the blanks at the end of a line are gone, and without
  diagnostics each line has the indentation of the closing delimiter or is blank.
* `LexingEnds`, `ValueIsComputed`: the loops end.

Of the checker and the lowering:

* `NeverAborts`: no handler finds its stacks in another state than it
  expects, `File::Verify` accepts the IR, and what is accepted is lowered, unless
  it holds a node whose lowering is a TODO.
* `ScopesAreLexical`: the refinement above.
* `TypesAreCanonical`: two type ids denote the same structure only if they are
  equal; a structure is computed from the nodes, `const const T` being `const T`.
* `NoSilentErrors`: accepted code has no error operand and no node of error type.
* `WellTyped`: every node of accepted code has operands of the types and
  categories its kind stands for, whatever conversions produced them.
* `BlocksAreClosed`: the blocks of a function are exactly those control can reach
  from the first, each ends in a terminator and belongs to one function.
* `NodesAreInOnePlace`: a node is in one block once, also after pending blocks were
  inserted, merged or spliced.
* `OperandsDominateUses`: an operand is computed before its use on every path.
* `PhisMatchPredecessors`: in a lowered function a phi has one value from each
  predecessor of its block, also when blocks were merged.

Of the driver and the command line:

* `ChecksHold`: each phase finds the tables it dereferences, consumers are
  flushed when destroyed.
* `DiagnosticsArePrinted`: each diagnostic is printed once, sorted stably by location
  between two flushes. `DumpsFollowDiagnostics`: a dump comes after what
  was reported up to its phase.
* `FailureIsExplained`: a failing command has printed a message or an error.
* `NoCodeFromErrors`: no file is lowered or opened for writing after an error
  of the lexer or the checker in any file.
* `PhasesAreComplete`: errors of one file or phase do not hide those of another,
  and success means that every file went through all that was asked for.
* `CodeIsDelivered`: after success each file's code is in the stream, or in a file with
  the name it was asked for, unless a later input has the same output: by `--output`, or
  by default because it has the same stem. The code that is lost is exactly that.
* `OptionsKeepLastValue`: an option that shares its letter with no other holds what its
  last mention says, all mentions if it appends, or its default, at every level of
  subcommands.
* `PositionalsAreKept`: the positional values of the command line are held in
  order, none lost or doubled, and `--` separates them.
* `OneOutcome`: an error is printed exactly if the parse fails; otherwise one
  action runs, with all required options given.
* `BuiltCommandsParse`: a description that passes the builder's checks fails none
  of the parser's but for two things the builder does not ask: an option of the
  selected command has a short name that is not one character of ASCII (a CHECK of
  `PopulateMaps`, `CommandLine.cc:758`; `ArgInfo` asks for a letter), or nothing says
  what the selected command does (a FATAL, `CommandLine.cc:1133`). Commands that are not
  selected do not matter.

**Bounds.** A handler looks at one token at a time and at the top of the stack, so
an error in recovery shows as soon as a construct, a token that does not belong
and what follows the recovery are all present; four or five free tokens inside a
fixed frame give that for each construct. Two lines with either indentation are
what `SkipPastLikelyEnd` distinguishes. The input bounds are the lengths in
the `MC` modules; the specification itself has none (the `1 << 20` limit
of the state stack is left out).

The lexer looks at most three characters ahead, at the innermost group and
at the current line. Five brackets hold a mismatch below another one; five
characters hold a comment or a word with what precedes and follows it; five
characters of a multi-line literal hold an escape, an escaped newline, and a
blank line after it. Nine characters of a number hold a prefix, two groups and a
misplaced separator; thirteen hold a hexadecimal fraction that carries a negative
exponent out of its width. Two
constants stand for limits of the code: `DigitLimit` (1000 digits, in
`CanLexInteger`) and `ExponentWidth` (the least width of an exponent, 64 bits);
both are small so that the texts reach and cross them. With 64 bits, and four bits for
each digit of a larger exponent, no source text makes the exponent wrap; the
scaled width shows what the arithmetic does at its edge.

A handler of the checker looks at the top entries of its stacks; programs that nest two
constructs, and follow them by a use, cover what one leaves for the other. `IntBits` and `WordBits` (4 and
8 for 32 and 64) are the widths an array bound passes through; a literal must fit the second
to be lowered. Two files are the
least that errors of one can affect the other; two diagnostics per phase, out of order or at one
place, are what sorting can get wrong. Argument lists are long enough for every
option to be given twice, and for a `--` between two positional arguments.

**Fairness.** `FairSpec` of the parser has weak fairness of `Next`: the loop of `Tree::Parse` is a
plain loop of a single thread which nothing suspends. Each state has exactly one
enabled handler, so no stronger assumption enters. The loops of `Lex` and of the string
expansion are plain loops too, and their `Spec` has weak fairness of `Next`. The driver and the command line
have no liveness property: their loops are over a fixed list and end by their shape.

**Deadlock** is checked: `Terminated` keeps a finished parser alive, so a deadlock
would be a state without a handler for its top. `Finished` does the same for the
lexer: a deadlock would be a character no function takes. In the runs on literals
the machine stops when the text has its full length or the value is complete,
and deadlock is not checked. `Pipeline`, `Driver` and `CommandLine` stutter at their end, and
deadlock is checked: it would be a node without a handler or a step without a case.

### Findings

1. `start_of_file`. `Tree::Parse` begins with
   `ConsumeChecked(StartOfFile)` (`Tree.cc:26`); no code adds such a token, so at
   this commit the check fails on every buffer the lexer returns. The parser is
   modelled on buffers that have the token.
2. `syntax_errors`. The driver checks trees the parser found errors in. `let x: i32;` and
   `fn F;` are closed as complete declarations without their missing children and
   without an `InvalidParse` node, on which the checker would stop; the
   handlers pop what is not there and a CHECK of `NodeStack` aborts.
3. `mixed_elements`. `let a: [(i32, i32); 2] = (t, G());` with a variable `t`:
   storing the first element by copy inserts the array's temporary into the block
   (`Convert.cc:714`), behind the call of `G`, which was there before. The second element is
   then initialized in place: the index into the temporary is spliced over the return slot of
   the call (`Convert.cc:66`), before the temporary. Lowering fails the CHECK
   "Missing local".
4. `required_files`. The check for required positional arguments in `FinalizeParse` is
   commented out, so `compile` without a file succeeds, although
   `CommandLine.h:303` promises an error.

Further disagreements met while modelling, without a run of their own:

* `DiagnoseOperatorFixity` and the prefix-operator errors of `HandleExpression`
  report errors without marking the tree, although `Tree.h:200` describes
  `has_errors_` as telling whether any error was encountered; `RunParse` then
  returns success. `OnlyOperatorErrorsUnmarked` states that this is the only such case.
* `HandleParenExpressionParameterFinish` re-pushes its state with the error flag of
  the element it has just finished, so that a later element goes unreported: `d` in
  `(+, c d)`. `ConsumeListToken` means the flag not to "error a second time on the
  same element".
* `last_escape_length` starts at 0 on every line of a multi-line string. After an
  escaped newline the result still ends in the line before; if an empty line follows,
  trimming takes a blank that was written `\t`, which the comment at
  `StringLiteral.cc:353` means to exclude.
* `LexError` does not set the indent of its line, so a comment after unrecognized
  characters (`$//`) is not reported as trailing (`TokenizedBuffer.cc:260`).
* The comment at `Driver.cc:596` says that diagnostics are flushed in the order of the
  arguments. Every file runs a phase before any runs the next, and a dump flushes its
  unit after that phase (`:408`, `:431`, `:454`), so with dumps the diagnostics of
  several files interleave by phase, and a file that failed to load comes last.
* An array bound is narrowed from 64 bits to `int` before a constant index is
  compared with it (`HandleIndex.cc:24`): a bound of 2^31 turns negative and, compared
  unsigned, accepts every index; a bound of 2^32 turns 0 and rejects every index.
* `CommandLine.h` says that subcommands inherit the version of their parent; the
  code does not pass it on. Short names given
  twice are resolved by the order of a hash table.
* `CommandLine.h:349` says that the default of an option that appends is used where the
  option is given without a value, and that nothing is appended where it is not given.
  `FinalizeParsedOptions` sets the default of every option not given, and `SetOptionDefault`
  (`CommandLine.cc:778`) knows only single values: it writes the default through a pointer that
  `Append` set to a sequence. In the model `Corrupt` stands for what is left of the sequence; no
  description of the run, and no option of the driver, has both a default and `Append`.
* `--dump-tokens` flushes and prints nothing, `--dump-asm` is not read,
  `--dump-raw-sem-ir` is not validated against the phase, and `SourceBuffer.cc:38` and `:58` report the
  error of another call than the one that failed.
* Several files may have one output: the `--output`, or by default the input's name with its
  extension replaced (`Driver.cc:525`), so that `a.x` and `a.y` both write `a.o`, as does a
  file given twice. The last one is kept and the compilation succeeds without a word. An
  input `a.o` is overwritten itself.
* Other programs on which the checker or the lowering aborts, left out of the programs
  of `checking`: a short-circuit operator in a file-scope initializer, a type named
  by a `let`, functions used as operands (`1 + F`, `*F`, `F.x`), and an integer literal of more than
  64 bits, on which `getZExtValue` asserts (`Lower/Handle.cc:201`); so does the mantissa of a
  real literal (`:239`), whose value the model leaves out. Lowering has
  no code for file-scope variables, string literals and binary operators.

## 4. Proofs

Each theorem but the refinement has the form `Spec => []P`. Where `P` is a property of
a run, TLC shows it on the inputs of the run and the theorem for every value of the
constants.

### The parser: structure

`Soundness`, `TreeIsPostorder` and `StatesAreNested` hold for every set
`TokenBuffers`; the proofs use no assumption on it.

`AddNode` trusts `subtree_start`. The array is a postorder forest
(`Postorder`) only if the subtrees it closes are whole, that is, if no
existing subtree crosses the remembered start (`IsCut`). `Postorder` alone is
not inductive: popping a state says nothing about its start. The invariant
`Inductive`, which is `Sound(state_stack, nodes, Len(nodes))`, adds
that every entry that may close a node starts at a cut, that starts
are ordered along the stack, and that none lies past the bound `c`, here the end
of the array. With `c` as a parameter the same predicate describes the stack while
a handler runs:

* `Pop`: taking the top away leaves `Sound` with `c` = the popped start;
* `Leaf`, `Close`: adding a leaf, or a node over a cut at or above `c`, keeps it;
* `Push`: an entry that starts at `c` may be pushed; `Raise`: at the end of the
  handler `c` may go up to the end of the array;
* `Replace`: marking the entry below (`ReturnErrorOnState`) changes no start.

The order is what makes `Close` work: a node over the popped start cannot cross the
start of an entry below. `DeclarationScopeLoop` is exempt. Its start may be
stale, since `HandleTypeAfterParams` pushes it before it adds the definition start
node; no node is ever closed with it.

`DeclarationSound`, `ExpressionSound` and `StatementSound` have one step per
handler; `NextSound` and PTL give the theorems.

### The parser: errors

`ErrorsAreAlwaysDiagnosed`: for every set `TokenBuffers`, no node and no state is marked
before a diagnostic was emitted. Again no assumption on `TokenBuffers` is used.

Most handlers mark and report together, but some mark in silence. `HandleCodeBlockFinish`
and `ConsumeAndAddCloseSymbol` mark the node they add when the token their state
remembers is not an opener, and trust that somebody reported the missing opener
before. So that nothing is marked yet does not carry over a step. `Quiet` adds what they trust:
while nothing was diagnosed, each entry of the stack whose state closes a group
(`SquareStates`, `ParenStates`, `CodeBlockFinish`) remembers an opener of the right kind
(`TidyEntry`). One handler writes to the token of an entry it did not push:
`HandleIfExpressionFinishElse` hands its own token to the entry below. Therefore `CleanStack`
also says that no state of an if-expression lies on a state that trusts its
token, and the same of the two states before it, which turn into it. An entry
may be pushed anywhere unless it belongs to an if-expression (`CleanEntry`).

A handler that diagnoses ends the obligation at once (`NoisyStep`, `DiagnosticsStay`: diagnostics
are not withdrawn). The others must leave tree and stack clean, which is what
`DeclarationQuiet`, `ExpressionQuiet` and `StatementQuiet` show, one step per
handler.

The converse, `NoErrorIsLost` (`ErrorProofs`): when the tree is returned without an erroneous
node, only operators were diagnosed, for which the code indeed leaves no mark (section 3). A
handler that diagnoses something may add an erroneous node at once, mark the state it pushes
again, or mark the state below and trust that one to make a node of it. Not every
handler does: `HandleExpressionLoopForPrefix` or `HandleIfExpressionFinish` add a node with
the mark, but `HandleStatement` or `HandleExpression` do not look at it. So the property is
not inductive. `Kept` adds where marks may be left:

* `Carriers`: the states whose handlers never drop a mark. Each adds a node with it or
  hands it to another carrier;
* `Passing`: the states whose handlers mark the state below for what they diagnose. Each lies
  directly on a carrier (`Resting`); the bottom of the stack is no such state;
* once anything else than an operator was diagnosed, there is an erroneous node or a marked
  carrier on the stack.

When the stack is empty, no mark is left on it, and the property follows. The states that an erroneous expression
marks below it need not be carriers: those expressions have added an `InvalidParse` node
first. `Safe(b, ns, ds)` is the invariant in the midst of a handler, with the stack, the tree and
what is diagnosed as parameters; `SafeClose`, `SafeFault`, `SafeMark`, `SafeListError` and others
say how the ways to add a node or a mark keep it, and `DeclarationKept`, `ExpressionKept` and
`StatementKept` have a step per handler. No assumption on `TokenBuffers` is used.

### The parser: precedence

`OperatorsNestAsTheTableSays` (`PrecedenceProofs`): in the tree of any token buffer, at any moment, an
operator is the operand of another only if the priority table lets it, or it was
diagnosed. `PrecedenceRespected` reads operands off the finished nodes. The
handlers never do: they compare the precedences that the states on the stack carry.
The invariant `Operators` ties the two together:

* a state that waits for the operand of an operator carries the level of that operator and was
  accepted under its ambient precedence, or diagnosed (`KnowsOperator`);
* whatever lies on such a state has its level as the ambient precedence, and begins where the
  left operand ends (`LiesOn`);
* what is parsed between a state of the loop and its successor is a single subtree
  (`OneSubtree`), so that the last node is the operand; if it is an operator, the state carries its level
  (`TopFits`); a postfix expression is never an operator;
* each operator node fits its operands (`NodeFits`). `ShortCircuitOperand`, which `and` and `or`
  put over their left operand, is looked through (`LeftFits`).

An erroneous subexpression ends its states early and leaves an `InvalidParse` node, which is
no operator; an if-expression is parsed with the level of `if` and ends as `IfExpressionElse`, no operator either.
The proof of a handler follows the invariant through it (`Settled`, with the stack, the tree
and the diagnosed tokens as parameters). Handlers of declarations and statements keep it since
they push no state of an operator (`Plain`), with one lemma for all ways to push and mark.
It rests on `Inductive`, for the starts of subtrees, and on no
assumption about `TokenBuffers`. That the priority table is what the comments of `Precedence.cc`
draw is not part of it: the theorem holds for the table as the code computes it.

### The lexer

`GroupsAreKept` and `BuffersAreWellFormed` hold for every set `Sources` of texts and every
set `Keywords` that `KeywordsAssumption` admits (spellings of keyword kinds).

`BufferIsWellFormed` speaks of the finished buffer only. What carries it there is
`GroupInvariant`: the stack holds openers in increasing order, an opener outside it
and its closer refer to each other, each closer has an opener, and two
groups nest, where a group still on the stack counts as ending after everything. The
inductive invariant `IInv` adds that the token table is a sequence of records,
that no token before the end is `EndOfFile`, and that a finished lexer has an empty
stack and one `EndOfFile`, the last token. The lemmas follow the three ways a token can
be added: `PlainToken` (no group symbol: nothing changes), `OpeningToken` (the new token goes on
top of the stack), `ClosingToken` (it closes the top; every group opened since then is
closed, so nesting holds); `SpacedToken` says that noting white space disturbs none of it.
Recovery tokens and closers of the source are both instances of
`ClosingToken`. `SkipStep`, `TokenStep` and `CloseStep` then have one step
per action.

### The scopes of the checker

`ScopesSpec` takes `PushScope`, `PopScope` and `AddNameToLookup` in any order the checker's
own checks permit, for any sets `Names` and `Entities`.

`TablesAlwaysAgree` is the inductive invariant (`Agreement`): a name has an entry in
`name_lookup_` exactly if some scope declares it, with as many entities as scopes
that do. It is why `LookupName` may CHECK that no entry is empty, and why `PopScope`
finds every name it has to take back. With it, `ScopeTableImplementsScopes` shows that
each operation is the step of `ScopedEnvironment` it stands for under the mapping
`Environment`: entering a scope leaves the mapped scopes alone and adds an empty one, leaving
removes the last, and declaring changes the last only. The lemmas are about counting: `Declaring(ss, i, n)`,
the scopes up to the *i*-th that declare `n`, grows by one
exactly at those scopes, so it numbers the entities of `n`, and a scope below the
top keeps its numbers when the top changes. `LookupsAreAlwaysLexical` then follows
from the last entity being that of the innermost declaring scope.

### The driver

The theorems hold for any number of files, any set of options and any reports
and input names (`FilesAssumption`, `OptionsAssumption`, `ReportsAssumption`: one file at least, option records,
sequences of places with levels). All seven safety properties of the run are proved from one
invariant, `DriverInv`, whose parts are:

* `ArtifactsInv`, `ControlInv`, `LeaveInv`: what each unit has made, given the phase and the unit
  the loop is at, and how that survives leaving `Compile` from any of its returns;
* `OutputsInv`, `ErrorsInv`, `CodeInv`: nothing was written before code generation;
  an error of lexer or checker leaves `success` false until lowering is passed by;
  of each unit that was finished, its output file holds the code, or that of a later unit with
  the same output file;
* `ExplainedInv`: a cleared `success` has an error or a message as its reason;
* `ReportedInv`, `BufferInv`, `LogInv`, `FlushedInv`: what a unit reported is what its consumer
  holds together with what was printed of it, without doubles, and an
  empty consumer when units are destroyed;
* `SeparationInv`, `DumpsInv`: between what was printed and what is held lies the dump
  that flushed, so the order of printing is the order of the sort within one flush only.

`ChecksHold`, `NoCodeFromErrors`, `FailureIsExplained` and `CodeIsDelivered` are not inductive,
since they mention a phase's product only where it is used or the end only;
`DiagnosticsArePrinted` is not since it speaks of the end. The sort is
proved once, from its definition by ranks (`GoesBefore`, `Place`): `Place` is a permutation that respects
`GoesBefore`, hence sorted, stable, and of the same diagnostics.

### The command line

The theorems hold for any description of commands and any argument list.
`CommandLinesAssumption` says that lists are sequences, that the name of a short
argument is a sequence of letters, and that `--` has two dashes.

`CommandLineInv` says of the builder that the table is closed under subcommands, that
no command has both positional arguments and subcommands, and that its option names are
distinct (`TableInv`); of the parser that the selected command is in the table and its tables
of letters belong to it (`ParserInv`), that what is parsed and what is not make up the
arguments (`ArgsInv`), that the words parsed so far are the path to the selected
command (`WordsInv`), that an option noted as parsed is mentioned by an argument parsed so far, and that
one with an action of its own which is mentioned has been acted on, except for
letters still to come of the argument at hand (`MentionInv`). The last is what `OneOutcome` needs: the code looks for required options among those it noted
as parsed, level by level, while the property speaks of the argument list as a
whole. `BuiltCommandsAlwaysParse` needs `TableInv` and `ParserInv`: each CHECK of the parser is one of the builder's
promises, but for the two which the property excepts. A command with a short name that does not fit
aborts when it is selected, and is the selected one from then on (`UnfitShortNamesKeepInvariant`).

### Limits

Only model-checked:

* liveness everywhere: fairness is out of the prover's reach;
* of the parser, `TreeIsComplete` with the child counts of `Verify`, and `GroupsAreRespected`: both
  need that no recovery leaves a group, which depends on the brackets of every state on the
  stack at once;
* of the lexer, positions and text of tokens, lines, white space and storage (`TokensReadBack`,
  `DiagnosticsAreRight`), and the literals: `NumericLiteral` and `StringLiteral` compute by
  recursion over the text, and induction over data is beyond the prover;
* of the checker and the lowering, all but the scopes: `Convert` follows recursive functions
  of the code with `RECURSIVE` operators, about which the prover cannot reason. That the
  handlers use the scopes in the ways `ScopesSpec` allows is what the run shows
  (`ScopesAreLexical`);
* of the command line, `OptionsKeepLastValue` and `PositionalsAreKept`: the value of
  an appending option and the owner of a positional argument are computed over the whole list.

## 5. Not modelled

* LLVM: what values and instructions the lowering builds, and code generation
  beyond success and failure.
* Printing: `Tree::Print`, the SemIR formatter and `StringifyType`, help texts, the
  verbose log. They read state and change none.
* The text of diagnostics; a diagnostic is its place and, where it matters, its name
  and level.
* Splitting a command line argument into dashes, name and value, and the conversion of numerals, which are
  given as data.
* The limits of `1 << 20` entries of the parser's and the checker's stacks, which only
  guard against endless loops.
* ParseBK is superseded code. CppRefactor, tools, tests and benchmarks are not part
  of the compiler. The experimental interpreter shares no code with it.

## 6. Plan

1. Done: lexer, literals, parser, precedence, checker, lowering, diagnostics, driver and
   command line; the proofs of section 4.
2. Proofs to come: of the parser, `GroupsAreRespected`; of the lexer, the lines and columns.
3. More programs for `checking`: namespaces in namespaces, structs in arrays, deeper nesting of
   conditionals.
