----------------------- MODULE CommandLineProperties -----------------------
(***************************************************************************)
(* What include/Cocktail/Common/CommandLine.h promises of a command line   *)
(* as a whole, stated over the list of arguments and not over the steps of *)
(* the parser.                                                             *)
(***************************************************************************)
EXTENDS CommandLine

Successful == outcome.result = "Success"

\* Does the i-th argument come before the first "--"?
BeforeSuffix(i) == \A j \in 1 .. i : ~IsEnd(args[j])

InOrder(positions) == SetToSortSeq(positions, <)

\* The number of words before the i-th argument: the first ones name subcommands.
WordsBefore(i) == Cardinality({ j \in 1 .. i - 1 : IsWord(args[j]) })

Depth == Len(parser.command)

DepthOf(i) == IF WordsBefore(i) < Depth THEN WordsBefore(i) ELSE Depth

CommandAt(depth) == SubSeq(parser.command, 1, depth)

-----------------------------------------------------------------------------
(***************************************************************************)
(* What one argument says of an option: a word is no option, a long name   *)
(* names its option, a group of letters every option it has the letter of. *)
(***************************************************************************)
Mentions(arg, option) ==
  \/ IsLong(arg) /\ arg.name = option.name
  \/ IsShort(arg) /\ option.short \in ToSet(arg.name)

Denoted(arg, option) ==
  CASE option.kind = "Flag" -> IF IsLong(arg) /\ arg.negated THEN "false"
                               ELSE IF arg.value = NoValue THEN "true" ELSE arg.value
    [] option.kind = "Integer" /\ arg.value # NoValue -> AsInteger[arg.value]
    [] option.kind # "Flag" /\ arg.value = NoValue -> option.default
    [] OTHER -> arg.value

MentionsOf(depth, option) ==
  { i \in DOMAIN args : /\ BeforeSuffix(i) /\ DepthOf(i) = depth
                        /\ Mentions(args[i], option) }

\* The parser knows one of the options that share a letter, the others not.
OwnsLetter(depth, option) ==
  option.short # NoValue =>
    \A other \in ToSet(commands[CommandAt(depth)].options) :
      other.short = option.short => other = option

OptionValue(depth, option) ==
  LET at == InOrder(MentionsOf(depth, option))
      given == [k \in DOMAIN at |-> args[at[k]]]
  IN IF option.append THEN [k \in DOMAIN given |-> Denoted(given[k], option)]
     ELSE IF given # <<>> THEN Denoted(Last(given), option)
     ELSE IF option.default # NoValue THEN option.default ELSE Unset

(***************************************************************************)
(* Options keep their last value: when a command line was accepted, every  *)
(* option of every command on the way to the selected one that shares its  *)
(* letter with no other holds what its last mention says, or all its       *)
(* mentions where it appends, or else its default, whatever was parsed in  *)
(* between by ParseLongOption, ParseShortOptionSeq and                     *)
(* FinalizeParsedOptions.                                                  *)
(***************************************************************************)
OptionsKeepLastValue ==
  Successful =>
    \A depth \in 0 .. Depth :
      \A option \in ToSet(commands[CommandAt(depth)].options) :
        option.meta = NoAction /\ OwnsLetter(depth, option) =>
          storage[Storage(CommandAt(depth), option)] = OptionValue(depth, option)

(***************************************************************************)
(* Where the values of positional arguments are in the command line: the   *)
(* words that name no subcommand, and after the first "--" all but the     *)
(* further ones.                                                           *)
(***************************************************************************)
Positions ==
  InOrder({ i \in DOMAIN args :
              \/ BeforeSuffix(i) /\ IsWord(args[i]) /\ WordsBefore(i) >= Depth
              \/ ~BeforeSuffix(i) /\ ~IsEnd(args[i]) })

Given(text, positional) ==
  IF positional.kind = "Integer" THEN AsInteger[text] ELSE text

HeldBy(positional) ==
  LET held == storage[Storage(parser.command, positional)]
  IN IF positional.append THEN held ELSE IF held = Unset THEN <<>> ELSE <<held>>

\* What each positional argument holds, and the one that holds the k-th value.
Held == [i \in DOMAIN Command.positional_args |-> HeldBy(Command.positional_args[i])]

Owner(k) ==
  CHOOSE i \in DOMAIN Held : /\ Len(FlattenSeq(SubSeq(Held, 1, i - 1))) < k
                             /\ k <= Len(FlattenSeq(SubSeq(Held, 1, i)))

(***************************************************************************)
(* No positional argument is lost: when a command line was accepted, the   *)
(* positional arguments hold, in their order, the positional values of the *)
(* command line, none dropped, doubled or moved past another; and values   *)
(* that follow each other are in the same sequence exactly when no "--"    *)
(* stands between them (ParsePositionalArg and ParsePositionalSuffix).     *)
(***************************************************************************)
PositionalsAreKept ==
  Successful =>
    /\ Len(FlattenSeq(Held)) = Len(Positions)
    /\ \A k \in DOMAIN Positions :
         FlattenSeq(Held)[k] = Given(args[Positions[k]].text,
                                     Command.positional_args[Owner(k)])
    /\ \A k \in 1 .. Len(Positions) - 1 :
         Command.positional_args[Owner(k)].append =>
           (Owner(k) = Owner(k + 1)) =
             ~\E i \in Positions[k] .. Positions[k + 1] : IsEnd(args[i])

(***************************************************************************)
(* One outcome: an error has been printed when and only when Error is      *)
(* returned; otherwise exactly one action ran; and the action of the       *)
(* selected command runs only when the required options of all commands on *)
(* the way were given, and none that stands for an action of its own.      *)
(***************************************************************************)
OneOutcome ==
  mode = "ended" =>
    /\ (outcome.result = "Error") = (outcome.errors > 0)
    /\ (outcome.result = "Error") = (outcome.ran = <<>>)
    /\ Len(outcome.ran) <= 1
    /\ Successful =>
         /\ outcome.ran = <<Command.action>>
         /\ \A depth \in 0 .. Depth :
              \A option \in ToSet(commands[CommandAt(depth)].options) :
                /\ option.required => MentionsOf(depth, option) # {}
                /\ option.meta # NoAction /\ OwnsLetter(depth, option) =>
                     MentionsOf(depth, option) = {}

(***************************************************************************)
(* Built commands parse: a description that passes the checks of the       *)
(* CommandBuilder fails no check of the Parser, whatever the arguments,    *)
(* but for two things nobody checks before: the selected command has a     *)
(* short name that is not the single letter ArgInfo asks for, or nothing   *)
(* says what the command does.                                             *)
(***************************************************************************)
BuiltCommandsParse ==
  mode = "aborted" =>
    \/ builders # <<>>
    \/ ~ShortNamesFit(Command.options)
    \/ Command.kind = "Invalid"

-----------------------------------------------------------------------------
(***************************************************************************)
(* Required arguments are given: CommandLine.h says of Required that "if   *)
(* an argument is not provided explicitly in the command line the parse    *)
(* will produce an error".  It is not so for positional arguments.         *)
(***************************************************************************)
RequiredArgumentsAreGiven ==
  Successful => \A i \in DOMAIN Command.positional_args :
                  Command.positional_args[i].required
                    => HeldBy(Command.positional_args[i]) # <<>>
=============================================================================
