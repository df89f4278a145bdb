---------------------------- MODULE CommandLine ----------------------------
(***************************************************************************)
(* The command line library of lib/Common/CommandLine.cc: a tree of        *)
(* commands is described by the calls its build callbacks make, then the   *)
(* arguments of the program are parsed against it, one at a time.          *)
(*                                                                         *)
(* An argument is what its spelling tells the parser: the number of dashes *)
(* it starts with, whether "no-" follows, its name (for one dash the       *)
(* sequence of its letters) and the value after the first "=".  Its text   *)
(* is the whole of it, the value a positional argument gets.               *)
(***************************************************************************)
EXTENDS Integers, Sequences, SequencesExt, FiniteSets, TLC

CONSTANTS
  Descriptions,     \* the calls of the root's build callback, with the version
  CommandLines(_),  \* the argument lists tried on a description
  InvalidNames,     \* names that are too short, begin with "no-" or are misspelt
  InvalidShortNames,  \* short names of several characters or outside of ASCII
  AsInteger,        \* the texts that denote an int, with their values
  NoValue, NoAction, Unset, Corrupt, Refused

\* A command line is a list of arguments; the name of one with one dash is
\* the sequence of its letters, and "--" has two.
ASSUME CommandLinesAssumption ==
  \A d \in Descriptions : \A list \in CommandLines(d) :
    /\ list \in Seq(ToSet(list))
    /\ \A i \in DOMAIN list : /\ list[i].dashes = 1 => list[i].name \in Seq(ToSet(list[i].name))
                              /\ list[i].text = "--" => list[i].dashes = 2

VARIABLES
  description,      \* the description being built
  builders,         \* the builders at work, the innermost last
  commands,         \* the commands by path: the names that lead to them
  storage,          \* what the storage of every argument holds
  args, unparsed,   \* the arguments, and those not parsed yet
  parser,           \* the members of Parser that parsing changes
  mode,             \* "build", "parse", "suffix", "ended" or "aborted"
  outcome           \* the result, the number of errors and the actions run

vars == <<description, builders, commands, storage, args, unparsed, parser,
          mode, outcome>>

-----------------------------------------------------------------------------
(***************************************************************************)
(* The calls of a build callback.  The arguments are kept as the calls     *)
(* that added them; a flag has a default in any case.                      *)
(***************************************************************************)
NewArg(do, kind, name) ==
  [do |-> do, kind |-> kind, name |-> name, short |-> NoValue,
   default |-> NoValue, values |-> {}, required |-> FALSE, append |-> FALSE,
   meta |-> NoAction]

AddFlag(name) == [NewArg("option", "Flag", name) EXCEPT !.default = "false"]
AddIntegerOption(name) == NewArg("option", "Integer", name)
AddStringOption(name) == NewArg("option", "String", name)

\* OneOfImpl: the value marked as default is not NoValue when there is one.
AddOneOfOption(name, values, default) ==
  [NewArg("option", "OneOf", name) EXCEPT !.values = values, !.default = default]

AddMetaActionOption(name, action) ==
  [NewArg("option", "MetaActionOnly", name) EXCEPT !.meta = action]

AddStringPositionalArg(name) == NewArg("positional", "String", name)
AddIntegerPositionalArg(name) == NewArg("positional", "Integer", name)
AddOneOfPositionalArg(name, values) ==
  [NewArg("positional", "OneOf", name) EXCEPT !.values = values]

Required(arg) == [arg EXCEPT !.required = TRUE]
AppendValues(arg) == [arg EXCEPT !.append = TRUE]
ShortName(arg, letter) == [arg EXCEPT !.short = letter]
Default(arg, value) == [arg EXCEPT !.default = value]
MetaAction(arg, action) == [arg EXCEPT !.meta = action]

AddSubcommand(name, version, calls) ==
  [do |-> "subcommand", name |-> name, version |-> version, calls |-> calls]

RequiresSubcommand == [do |-> "kind", kind |-> "RequiresSubcommand", action |-> NoAction]
Do(action) == [do |-> "kind", kind |-> "Action", action |-> action]
Meta(action) == [do |-> "kind", kind |-> "MetaAction", action |-> action]

NewCommand(version) ==
  [kind |-> "Invalid", action |-> NoAction, version |-> version,
   options |-> <<>>, positional_args |-> <<>>, subcommands |-> <<>>]

AddCommand(table, path, version) ==
  [other \in DOMAIN table \union {path} |-> IF other = path THEN NewCommand(version)
                                             ELSE table[other]]

Builder(path, calls) == [path |-> path, calls |-> calls, finalized |-> FALSE]

-----------------------------------------------------------------------------
(***************************************************************************)
(* Building                                                                *)
(***************************************************************************)
Names(entries) == { entries[i].name : i \in DOMAIN entries }

IsValidName(name) == name \notin InvalidNames

Storage(path, arg) == <<path, arg.do, arg.name>>

Abort ==
  /\ mode' = "aborted"
  /\ UNCHANGED <<description, builders, commands, storage, args, unparsed,
                 parser, outcome>>

\* The innermost builder makes its next call.
AtCall(do) == /\ mode = "build"
              /\ builders # <<>>
              /\ Last(builders).calls # <<>>
              /\ Head(Last(builders).calls).do = do

Called == Append(Front(builders), [Last(builders) EXCEPT !.calls = Tail(@)])

AddStorage(path, arg) ==
  storage' = storage
    @@ (Storage(path, arg) :> IF arg.append THEN <<>> ELSE Unset)

AddArgImpl ==
  LET path == Last(builders).path
      arg == Head(Last(builders).calls)
  IN /\ AtCall("option")
     /\ IF /\ IsValidName(arg.name)
           /\ arg.name \notin Names(commands[path].options)
           /\ ~(arg.kind = "OneOf" /\ arg.append /\ arg.default # NoValue)
        THEN /\ commands' = [commands EXCEPT ![path].options = Append(@, arg)]
             /\ AddStorage(path, arg)
             /\ builders' = Called
             /\ UNCHANGED <<description, args, unparsed, parser, mode, outcome>>
        ELSE Abort

AddPositionalArgImpl ==
  LET path == Last(builders).path
      arg == Head(Last(builders).calls)
      before == commands[path].positional_args
  IN /\ AtCall("positional")
     /\ IF /\ IsValidName(arg.name)
           /\ commands[path].subcommands = <<>>
           /\ arg.required /\ before # <<>> => Last(before).required
        THEN /\ commands' = [commands EXCEPT ![path].positional_args = Append(@, arg)]
             /\ AddStorage(path, arg)
             /\ builders' = Called
             /\ UNCHANGED <<description, args, unparsed, parser, mode, outcome>>
        ELSE Abort

BuildSubcommand ==
  LET path == Last(builders).path
      call == Head(Last(builders).calls)
      sub == Append(path, call.name)
  IN /\ AtCall("subcommand")
     /\ IF /\ IsValidName(call.name)
           /\ ~Contains(commands[path].subcommands, call.name)
           /\ commands[path].positional_args = <<>>
        THEN /\ commands' = AddCommand([commands EXCEPT ![path].subcommands = Append(@, call.name)],
                                       sub, call.version)
             /\ builders' = Append(Called, Builder(sub, call.calls))
             /\ UNCHANGED <<description, storage, args, unparsed, parser, mode, outcome>>
        ELSE Abort

\* Mutant: a subcommand may be required where there is none.
SetKindUnchecked ==
  LET path == Last(builders).path
      call == Head(Last(builders).calls)
  IN /\ AtCall("kind")
     /\ IF commands[path].kind = "Invalid"
        THEN /\ commands' = [commands EXCEPT ![path].kind = call.kind,
                                             ![path].action = call.action]
             /\ builders' = Called
             /\ UNCHANGED <<description, storage, args, unparsed, parser, mode, outcome>>
        ELSE Abort

SetKind ==
  LET path == Last(builders).path
      call == Head(Last(builders).calls)
  IN /\ AtCall("kind")
     /\ IF /\ commands[path].kind = "Invalid"
           /\ call.kind = "RequiresSubcommand"
                => /\ commands[path].subcommands # <<>>
                   /\ commands[path].positional_args = <<>>
        THEN /\ commands' = [commands EXCEPT ![path].kind = call.kind,
                                             ![path].action = call.action]
             /\ builders' = Called
             /\ UNCHANGED <<description, storage, args, unparsed, parser, mode, outcome>>
        ELSE Abort

(***************************************************************************)
(* Finalize lets the MetaPrinter make its own calls on the builder: help,  *)
(* and version where the command has one, as subcommands too where the     *)
(* command has any.                                                        *)
(***************************************************************************)
RegisterWithCommand(path) ==
  LET cmd == commands[path]
      If(condition, call) == IF condition THEN <<call>> ELSE <<>>
      Printing(name) == AddSubcommand(name, FALSE, <<Meta(<<name, path>>)>>)
      nested == cmd.subcommands # <<>>
  IN If(nested, Printing("help"))
     \o If(nested /\ cmd.version, Printing("version"))
     \o <<MetaAction(AddOneOfOption("help", {"full", "short"}, "full"), <<"help", path>>)>>
     \o If(cmd.version, AddMetaActionOption("version", <<"version", path>>))

Finalize ==
  /\ mode = "build" /\ builders # <<>>
  /\ Last(builders).calls = <<>> /\ ~Last(builders).finalized
  /\ builders' = Append(Front(builders),
                        [Last(builders) EXCEPT !.finalized = TRUE,
                                               !.calls = RegisterWithCommand(Last(builders).path)])
  /\ UNCHANGED <<description, commands, storage, args, unparsed, parser, mode, outcome>>

EndBuild ==
  /\ mode = "build" /\ builders # <<>>
  /\ Last(builders).calls = <<>> /\ Last(builders).finalized
  /\ builders' = Front(builders)
  /\ UNCHANGED <<description, commands, storage, args, unparsed, parser, mode, outcome>>

-----------------------------------------------------------------------------
(***************************************************************************)
(* Parsing.  PopulateMaps walks a hash map: of two options with the same   *)
(* short name either may get the entry of the table.                       *)
(***************************************************************************)
Command == commands[parser.command]

Option(name) == Command.options[CHOOSE i \in DOMAIN Command.options :
                                  Command.options[i].name = name]

ShortOptionTables(options) ==
  LET shorts == { options[i].short : i \in DOMAIN options } \ {NoValue}
  IN { table \in [shorts -> Names(options)] :
         \A letter \in shorts : \E i \in DOMAIN options :
           /\ options[i].short = letter
           /\ options[i].name = table[letter] }

\* The checks of PopulateMaps; the builder has none for short names.
ShortNamesFit(options) == \A i \in DOMAIN options : options[i].short \notin InvalidShortNames

\* The parser is at the command of this path, and option_map_ keeps for
\* every option of it whether it was parsed.
PopulateMaps(path) ==
  /\ UNCHANGED outcome
  /\ IF ShortNamesFit(commands[path].options)
     THEN /\ mode' = "parse"
          /\ \E table \in ShortOptionTables(commands[path].options) :
               parser' = [parser EXCEPT !.command = path, !.parsed = {},
                                        !.short_option_table = table]
     ELSE /\ mode' = "aborted"
          /\ parser' = [parser EXCEPT !.command = path]

NewParser ==
  [command |-> <<>>, parsed |-> {}, short_option_table |-> <<>>,
   positional_arg_index |-> 0, appending |-> FALSE, empty_positional |-> FALSE,
   letters |-> <<>>, value |-> NoValue, meta_action |-> NoAction]

StartParse ==
  /\ mode = "build" /\ builders = <<>>
  /\ \E list \in CommandLines(description) : args' = list /\ unparsed' = list
  /\ PopulateMaps(<<>>)
  /\ UNCHANGED <<description, builders, commands, storage>>

\* Parse returns ParseResult::Error, having printed this many errors.
Fail(count) ==
  /\ mode' = "ended"
  /\ outcome' = [outcome EXCEPT !.result = "Error", !.errors = @ + count]

Succeed(result, action) ==
  /\ mode' = "ended"
  /\ outcome' = [outcome EXCEPT !.result = result, !.ran = Append(@, action)]

Proceed == UNCHANGED <<mode, outcome>>

(***************************************************************************)
(* What ParseArg leaves in the storage of an argument that held old, or    *)
(* Refused.  SetOptionDefault writes through the pointer to a single value *)
(* also where the argument appends to a sequence.                          *)
(***************************************************************************)
Stored(arg, value, old) == IF arg.append THEN Append(old, value) ELSE value

SetOptionDefault(arg) == IF arg.append THEN Corrupt ELSE arg.default

ParseNegatedFlag(arg, value) ==
  IF arg.kind = "Flag" /\ value = NoValue THEN "false" ELSE Refused

ParseFlag(value) == IF value = NoValue THEN "true"
                    ELSE IF value \in {"true", "false"} THEN value ELSE Refused

ParseNoValue(arg, old) ==
  IF arg.kind = "MetaActionOnly" THEN old
  ELSE IF arg.default = NoValue THEN Refused ELSE SetOptionDefault(arg)

ParseValue(arg, value, old) ==
  CASE arg.kind = "Integer" /\ value \in DOMAIN AsInteger
                           -> Stored(arg, AsInteger[value], old)
    [] arg.kind = "String" -> Stored(arg, value, old)
    [] arg.kind = "OneOf" /\ value \in arg.values -> Stored(arg, value, old)
    [] OTHER               -> Refused

Parsed(arg, value, negated, old) ==
  CASE negated             -> ParseNegatedFlag(arg, value)
    [] ~negated /\ arg.kind = "Flag" -> ParseFlag(value)
    [] ~negated /\ arg.kind # "Flag" /\ value = NoValue -> ParseNoValue(arg, old)
    [] OTHER               -> ParseValue(arg, value, old)

\* The meta action of the argument replaces the current one, refused or not.
ParseArg(p, arg, value, negated) ==
  LET key == Storage(p.command, arg)
      new == Parsed(arg, value, negated, storage[key])
  IN /\ parser' = [p EXCEPT !.meta_action = IF arg.meta = NoAction THEN @ ELSE arg.meta]
     /\ \/ new = Refused /\ Fail(1) /\ UNCHANGED storage
        \/ new # Refused /\ Proceed /\ storage' = [storage EXCEPT ![key] = new]

\* Mutant: an option that was parsed is not marked.
MarkedNever(p, name) == p

Marked(p, name) == [p EXCEPT !.parsed = @ \union {name}]

-----------------------------------------------------------------------------
(***************************************************************************)
(* The loop of Parse: which of its branches the next argument takes.       *)
(***************************************************************************)
IsEnd(arg) == arg.text = "--"
IsLong(arg) == arg.dashes = 2 /\ ~IsEnd(arg)
IsShort(arg) == arg.dashes = 1 /\ arg.text # "-"
IsWord(arg) == ~IsEnd(arg) /\ ~IsLong(arg) /\ ~IsShort(arg)

InLoop == mode = "parse" /\ parser.letters = <<>> /\ unparsed # <<>>
Current == Head(unparsed)

Taken == /\ unparsed' = Tail(unparsed)
         /\ UNCHANGED <<description, builders, commands, args>>

Kept == UNCHANGED <<description, builders, commands, args, unparsed>>

ParseLongOption ==
  /\ InLoop /\ IsLong(Current) /\ Taken
  /\ IF Current.name \in Names(Command.options)
     THEN ParseArg(Marked(parser, Current.name), Option(Current.name),
                   Current.value, Current.negated)
     ELSE Fail(1) /\ UNCHANGED <<parser, storage>>

\* A value is refused for a group of letters.
ParseShortOptionSeq ==
  /\ InLoop /\ IsShort(Current) /\ Taken
  /\ UNCHANGED storage
  /\ IF Current.value # NoValue /\ Len(Current.name) # 1
     THEN Fail(1) /\ UNCHANGED parser
     ELSE /\ parser' = [parser EXCEPT !.letters = Current.name, !.value = Current.value]
          /\ Proceed

ParseShortOption ==
  LET letter == Head(parser.letters)
      p == [parser EXCEPT !.letters = Tail(@)]
  IN /\ mode = "parse" /\ parser.letters # <<>> /\ Kept
     /\ IF letter \in DOMAIN parser.short_option_table
        THEN LET name == parser.short_option_table[letter]
             IN ParseArg(Marked(p, name), Option(name), p.value, FALSE)
        ELSE Fail(1) /\ UNCHANGED <<parser, storage>>

ParsePositionalArg(p, arg) ==
  LET i == p.positional_arg_index + 1
      positional == Command.positional_args[i]
      next == IF positional.append THEN p.positional_arg_index ELSE i
  IN IF i > Len(Command.positional_args)
     THEN Fail(1) /\ UNCHANGED <<parser, storage>>
     ELSE ParseArg([p EXCEPT !.appending = positional.append,
                             !.positional_arg_index = next],
                   positional, arg.text, FALSE)

\* The loop checks that a command has not both positional arguments and subcommands.
ParsePositional ==
  /\ InLoop /\ IsWord(Current) /\ Command.positional_args # <<>>
  /\ IF Command.subcommands = <<>>
     THEN Taken /\ ParsePositionalArg(parser, Current)
     ELSE Abort

UnexpectedWord ==
  /\ InLoop /\ IsWord(Current)
  /\ Command.positional_args = <<>> /\ Command.subcommands = <<>>
  /\ Taken /\ Fail(1) /\ UNCHANGED <<parser, storage>>

(***************************************************************************)
(* FinalizeParsedOptions: the options of the current command that were not *)
(* parsed get their defaults, and the required ones among them are         *)
(* reported.                                                               *)
(***************************************************************************)
Unparsed == { o \in ToSet(Command.options) : o.name \notin parser.parsed }

MissingOptions == { o \in Unparsed : o.required }

WithDefaults ==
  LET defaulted == { o \in Unparsed : o.default # NoValue /\ o.meta = NoAction }
      keys == { Storage(parser.command, o) : o \in defaulted }
  IN [key \in DOMAIN storage |->
        IF key \in keys THEN SetOptionDefault(Option(key[3])) ELSE storage[key]]

\* Mutant: the required options of the parent are not verified.
ParseSubcommandUnverified ==
  /\ InLoop /\ IsWord(Current) /\ Taken
  /\ Command.positional_args = <<>> /\ Command.subcommands # <<>>
  /\ IF ~Contains(Command.subcommands, Current.text)
     THEN Fail(1) /\ UNCHANGED <<parser, storage>>
     ELSE /\ storage' = WithDefaults
          /\ PopulateMaps(Append(parser.command, Current.text))

ParseSubcommand ==
  LET sub == Current.text
  IN /\ InLoop /\ IsWord(Current) /\ Taken
     /\ Command.positional_args = <<>> /\ Command.subcommands # <<>>
     /\ IF ~Contains(Command.subcommands, sub)
        THEN Fail(1) /\ UNCHANGED <<parser, storage>>
        ELSE /\ storage' = WithDefaults
             /\ IF MissingOptions # {}
                THEN Fail(Cardinality(MissingOptions)) /\ UNCHANGED parser
                ELSE PopulateMaps(Append(parser.command, sub))

-----------------------------------------------------------------------------
(***************************************************************************)
(* "--" ends the options: what follows is positional, and a further "--"   *)
(* ends a sequence or skips an argument.                                   *)
(***************************************************************************)
SwitchToSuffix ==
  /\ InLoop /\ IsEnd(Current) /\ Kept
  /\ UNCHANGED <<parser, storage>>
  /\ IF parser.positional_arg_index < Len(Command.positional_args)
     THEN mode' = "suffix" /\ UNCHANGED outcome
     ELSE Fail(1)

InSuffix == mode = "suffix" /\ unparsed # <<>>

ParseSuffixArg ==
  /\ InSuffix /\ ~IsEnd(Current) /\ Taken
  /\ ParsePositionalArg([parser EXCEPT !.empty_positional = FALSE], Current)

\* Mutant: "--" does not end a sequence of values.
SkipPositionalOnlyEmpty ==
  LET next == parser.positional_arg_index + (IF parser.empty_positional THEN 1 ELSE 0)
  IN /\ InSuffix /\ IsEnd(Current) /\ Taken
     /\ UNCHANGED storage
     /\ parser' = [parser EXCEPT !.positional_arg_index = next,
                                 !.appending = FALSE, !.empty_positional = TRUE]
     /\ Proceed

SkipPositional ==
  LET skips == parser.appending \/ parser.empty_positional
      next == parser.positional_arg_index + (IF skips THEN 1 ELSE 0)
  IN /\ InSuffix /\ IsEnd(Current) /\ Taken
     /\ UNCHANGED storage
     /\ parser' = [parser EXCEPT !.positional_arg_index = next,
                                 !.appending = FALSE, !.empty_positional = TRUE]
     /\ IF skips /\ next >= Len(Command.positional_args) THEN Fail(1) ELSE Proceed

-----------------------------------------------------------------------------
(***************************************************************************)
(* FinalizeParse.  A meta action goes before all that could be missing;    *)
(* the check that required positional arguments were given is commented    *)
(* out in the code.  PrintSubcommands needs a subcommand to print.         *)
(***************************************************************************)
AtEnd == mode \in {"parse", "suffix"} /\ parser.letters = <<>> /\ unparsed = <<>>

FinalizeMeta ==
  /\ AtEnd /\ parser.meta_action # NoAction
  /\ Succeed("MetaSuccess", parser.meta_action)
  /\ Kept /\ UNCHANGED <<parser, storage>>

FinalizeParse ==
  LET kind == Command.kind
      last == parser.positional_arg_index + (IF parser.appending THEN 1 ELSE 0)
  IN /\ AtEnd /\ parser.meta_action = NoAction
     /\ IF MissingOptions = {} =>
             /\ parser.appending => parser.positional_arg_index < Len(Command.positional_args)
             /\ kind # "Invalid"
             /\ kind = "RequiresSubcommand" => Command.subcommands # <<>>
        THEN /\ storage' = WithDefaults
             /\ Kept
             /\ IF MissingOptions # {}
                THEN Fail(Cardinality(MissingOptions)) /\ UNCHANGED parser
                ELSE /\ parser' = [parser EXCEPT !.positional_arg_index = last]
                     /\ \/ kind = "RequiresSubcommand" /\ Fail(1)
                        \/ kind = "Action" /\ Succeed("Success", Command.action)
                        \/ kind = "MetaAction" /\ Succeed("MetaSuccess", Command.action)
        ELSE Abort

-----------------------------------------------------------------------------
Init ==
  /\ description \in Descriptions
  /\ builders = <<Builder(<<>>, description.calls)>>
  /\ commands = [path \in {<<>>} |-> NewCommand(description.version)]
  /\ storage = <<>>
  /\ args = <<>> /\ unparsed = <<>>
  /\ parser = NewParser
  /\ mode = "build"
  /\ outcome = [result |-> "None", errors |-> 0, ran |-> <<>>]

Ended == mode \in {"ended", "aborted"} /\ UNCHANGED vars

Build == AddArgImpl \/ AddPositionalArgImpl \/ BuildSubcommand \/ SetKind
           \/ Finalize \/ EndBuild

Parse == StartParse \/ ParseLongOption \/ ParseShortOptionSeq \/ ParseShortOption
           \/ ParsePositional \/ UnexpectedWord \/ ParseSubcommand
           \/ SwitchToSuffix \/ ParseSuffixArg \/ SkipPositional
           \/ FinalizeMeta \/ FinalizeParse

Next == Build \/ Parse \/ Ended

Spec == Init /\ [][Next]_vars
=============================================================================
