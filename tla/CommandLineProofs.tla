-------------------------- MODULE CommandLineProofs --------------------------
(***************************************************************************)
(* The command line library keeps its promises for any description of      *)
(* commands and any arguments.                                             *)
(***************************************************************************)
EXTENDS CommandLineProperties, FiniteSetTheorems, SequenceTheorems, TLAPS

IsSequence(s) == s \in Seq(ToSet(s))

IsCommand(c) ==
  /\ c = [kind |-> c.kind, action |-> c.action, version |-> c.version, options |-> c.options,
          positional_args |-> c.positional_args, subcommands |-> c.subcommands]
  /\ IsSequence(c.options) /\ IsSequence(c.positional_args) /\ IsSequence(c.subcommands)

IsParser(p) ==
  p = [command |-> p.command, parsed |-> p.parsed, short_option_table |-> p.short_option_table,
       positional_arg_index |-> p.positional_arg_index, appending |-> p.appending,
       empty_positional |-> p.empty_positional, letters |-> p.letters, value |-> p.value,
       meta_action |-> p.meta_action]

Initially == [result |-> "None", errors |-> 0, ran |-> <<>>]

(* Whatever the elements of a sequence are, it is one. *)
LEMMA SequenceIsOne ==
  ASSUME NEW S, NEW s \in Seq(S)
  PROVE  IsSequence(s)
<1> DEFINE T == ToSet(s)
<1>1. Len(s) \in Nat /\ DOMAIN s = 1 .. Len(s) /\ s = [i \in 1 .. Len(s) |-> s[i]]
  OBVIOUS
<1>2. \A i \in 1 .. Len(s) : s[i] \in T
  BY <1>1 DEF ToSet
<1> HIDE DEF T
<1>3. s \in Seq(T)
  BY <1>1, <1>2
<1> QED BY <1>3 DEF IsSequence, T

(* Appending to a sequence, whatever its elements. *)
LEMMA AppendToSequence ==
  ASSUME NEW s, IsSequence(s), NEW e
  PROVE  /\ IsSequence(Append(s, e)) /\ Append(s, e) # <<>>
         /\ Len(s) \in Nat /\ Len(Append(s, e)) = Len(s) + 1
         /\ DOMAIN Append(s, e) = 1 .. Len(s) + 1
         /\ \A i \in 1 .. Len(s) : Append(s, e)[i] = s[i]
         /\ Append(s, e)[Len(s) + 1] = e
         /\ ToSet(Append(s, e)) = ToSet(s) \union {e}
<1> DEFINE S == ToSet(s) \union {e}
<1>1. s \in Seq(S)
  BY DEF IsSequence
<1> HIDE DEF S
<1>2. /\ Append(s, e) \in Seq(S) /\ Append(s, e) # <<>> /\ Len(s) \in Nat
      /\ Len(Append(s, e)) = Len(s) + 1 /\ DOMAIN Append(s, e) = 1 .. Len(s) + 1
      /\ \A i \in 1 .. Len(s) : Append(s, e)[i] = s[i]
      /\ Append(s, e)[Len(s) + 1] = e /\ DOMAIN s = 1 .. Len(s)
  BY <1>1, AppendProperties DEF S
<1>3. ToSet(Append(s, e)) = S
  <2>1. ASSUME NEW x \in ToSet(s)
        PROVE  x \in ToSet(Append(s, e))
    BY <1>2 DEF ToSet
  <2>2. e \in ToSet(Append(s, e))
    BY <1>2 DEF ToSet
  <2>3. ToSet(Append(s, e)) \subseteq S
    BY <1>2 DEF ToSet, S
  <2> QED BY <2>1, <2>2, <2>3 DEF S
<1> QED BY <1>2, <1>3 DEF IsSequence, S

-----------------------------------------------------------------------------
(* The commands *)

CommandInv(c) ==
  /\ IsCommand(c)
  /\ c.positional_args = <<>> \/ c.subcommands = <<>>
  /\ c.kind = "RequiresSubcommand" => c.subcommands # <<>>
  /\ \A i, j \in DOMAIN c.options : c.options[i].name = c.options[j].name => i = j

(* Every subcommand is in the table, by the path that leads to it. *)
TableInv ==
  /\ <<>> \in DOMAIN commands
  /\ \A path \in DOMAIN commands :
       /\ CommandInv(commands[path])
       /\ \A i \in DOMAIN commands[path].subcommands :
            Append(path, commands[path].subcommands[i]) \in DOMAIN commands

(* A command is built without anything. *)
LEMMA NewCommandIsBuilt ==
  ASSUME NEW version
  PROVE  CommandInv(NewCommand(version)) /\ NewCommand(version).subcommands = <<>>
<1>1. IsSequence(<<>>)
  BY DEF IsSequence
<1> QED BY <1>1 DEF CommandInv, IsCommand, NewCommand

(* An option with a name of its own may be added. *)
LEMMA OptionIsAdded ==
  ASSUME NEW c, CommandInv(c), NEW arg, arg.name \notin Names(c.options)
  PROVE  LET d == [c EXCEPT !.options = Append(@, arg)]
         IN  CommandInv(d) /\ d.subcommands = c.subcommands
<1> DEFINE d == [c EXCEPT !.options = Append(@, arg)]
<1>1. /\ IsSequence(c.options) /\ IsSequence(c.positional_args) /\ IsSequence(c.subcommands)
      /\ c = [kind |-> c.kind, action |-> c.action, version |-> c.version, options |-> c.options,
              positional_args |-> c.positional_args, subcommands |-> c.subcommands]
  BY DEF CommandInv, IsCommand
<1>2. d = [kind |-> c.kind, action |-> c.action, version |-> c.version,
           options |-> Append(c.options, arg),
           positional_args |-> c.positional_args, subcommands |-> c.subcommands]
  <2> DEFINE more == Append(c.options, arg)
  <2>1. d = [c EXCEPT !.options = more]
    OBVIOUS
  <2> HIDE DEF d, more
  <2>2. d = [kind |-> c.kind, action |-> c.action, version |-> c.version,
             options |-> more,
             positional_args |-> c.positional_args, subcommands |-> c.subcommands]
    BY <1>1, <2>1
  <2> QED BY <2>2 DEF more
<1>3. /\ d = [kind |-> d.kind, action |-> d.action, version |-> d.version, options |-> d.options,
              positional_args |-> d.positional_args, subcommands |-> d.subcommands]
      /\ d.options = Append(c.options, arg) /\ d.positional_args = c.positional_args
      /\ d.subcommands = c.subcommands /\ d.kind = c.kind
  BY <1>2
<1> HIDE DEF d
<1>4. IsCommand(d)
  BY <1>1, <1>3, AppendToSequence DEF IsCommand
<1>5. ASSUME NEW i \in DOMAIN d.options, NEW j \in DOMAIN d.options,
             d.options[i].name = d.options[j].name
      PROVE  i = j
  <2>1. /\ Len(c.options) \in Nat /\ DOMAIN d.options = 1 .. Len(c.options) + 1
        /\ \A k \in 1 .. Len(c.options) : d.options[k] = c.options[k]
        /\ d.options[Len(c.options) + 1] = arg
    BY <1>1, <1>3, AppendToSequence
  <2>2. DOMAIN c.options = 1 .. Len(c.options)
    BY <1>1 DEF IsSequence
  <2>3. \A k \in 1 .. Len(c.options) : c.options[k].name # arg.name
    BY <2>2 DEF Names
  <2>4. \A k, l \in 1 .. Len(c.options) : c.options[k].name = c.options[l].name => k = l
    BY <2>2 DEF CommandInv
  <2> QED BY <1>5, <2>1, <2>3, <2>4
<1>6. CommandInv(d)
  BY <1>3, <1>4, <1>5 DEF CommandInv
<1> QED BY <1>3, <1>6 DEF d

(* A positional argument may be added where there are no subcommands. *)
LEMMA PositionalIsAdded ==
  ASSUME NEW c, CommandInv(c), NEW arg, c.subcommands = <<>>
  PROVE  LET d == [c EXCEPT !.positional_args = Append(@, arg)]
         IN  CommandInv(d) /\ d.subcommands = c.subcommands
<1> DEFINE d == [c EXCEPT !.positional_args = Append(@, arg)]
<1>1. /\ IsSequence(c.options) /\ IsSequence(c.positional_args) /\ IsSequence(c.subcommands)
      /\ c = [kind |-> c.kind, action |-> c.action, version |-> c.version, options |-> c.options,
              positional_args |-> c.positional_args, subcommands |-> c.subcommands]
  BY DEF CommandInv, IsCommand
<1>2. d = [kind |-> c.kind, action |-> c.action, version |-> c.version, options |-> c.options,
           positional_args |-> Append(c.positional_args, arg), subcommands |-> c.subcommands]
  <2> DEFINE more == Append(c.positional_args, arg)
  <2>1. d = [c EXCEPT !.positional_args = more]
    OBVIOUS
  <2> HIDE DEF d, more
  <2>2. d = [kind |-> c.kind, action |-> c.action, version |-> c.version, options |-> c.options,
             positional_args |-> more, subcommands |-> c.subcommands]
    BY <1>1, <2>1
  <2> QED BY <2>2 DEF more
<1>3. /\ d = [kind |-> d.kind, action |-> d.action, version |-> d.version, options |-> d.options,
              positional_args |-> d.positional_args, subcommands |-> d.subcommands]
      /\ d.options = c.options /\ d.positional_args = Append(c.positional_args, arg)
      /\ d.subcommands = c.subcommands /\ d.kind = c.kind
  BY <1>2
<1> HIDE DEF d
<1>4. IsCommand(d)
  BY <1>1, <1>3, AppendToSequence DEF IsCommand
<1>5. CommandInv(d)
  BY <1>3, <1>4 DEF CommandInv
<1> QED BY <1>3, <1>5 DEF d

(* A subcommand may be added where there are no positional arguments. *)
LEMMA SubcommandIsAdded ==
  ASSUME NEW c, CommandInv(c), NEW name, c.positional_args = <<>>
  PROVE  LET d == [c EXCEPT !.subcommands = Append(@, name)]
         IN  CommandInv(d) /\ d.subcommands = Append(c.subcommands, name)
<1> DEFINE d == [c EXCEPT !.subcommands = Append(@, name)]
<1>1. /\ IsSequence(c.options) /\ IsSequence(c.positional_args) /\ IsSequence(c.subcommands)
      /\ c = [kind |-> c.kind, action |-> c.action, version |-> c.version, options |-> c.options,
              positional_args |-> c.positional_args, subcommands |-> c.subcommands]
  BY DEF CommandInv, IsCommand
<1>2. d = [kind |-> c.kind, action |-> c.action, version |-> c.version, options |-> c.options,
           positional_args |-> c.positional_args, subcommands |-> Append(c.subcommands, name)]
  <2> DEFINE more == Append(c.subcommands, name)
  <2>1. d = [c EXCEPT !.subcommands = more]
    OBVIOUS
  <2> HIDE DEF d, more
  <2>2. d = [kind |-> c.kind, action |-> c.action, version |-> c.version, options |-> c.options,
             positional_args |-> c.positional_args, subcommands |-> more]
    BY <1>1, <2>1
  <2> QED BY <2>2 DEF more
<1>3. /\ d = [kind |-> d.kind, action |-> d.action, version |-> d.version, options |-> d.options,
              positional_args |-> d.positional_args, subcommands |-> d.subcommands]
      /\ d.options = c.options /\ d.positional_args = c.positional_args
      /\ d.subcommands = Append(c.subcommands, name) /\ d.kind = c.kind
  BY <1>2
<1> HIDE DEF d
<1>4. IsCommand(d) /\ d.subcommands # <<>>
  BY <1>1, <1>3, AppendToSequence DEF IsCommand
<1>5. CommandInv(d)
  BY <1>3, <1>4 DEF CommandInv
<1> QED BY <1>3, <1>5 DEF d

(* The kind of a command may be set, to require a subcommand only where    *)
(* there is one.                                                           *)
LEMMA KindIsSet ==
  ASSUME NEW c, CommandInv(c), NEW kind, NEW action,
         kind = "RequiresSubcommand" => c.subcommands # <<>>
  PROVE  LET d == [c EXCEPT !.kind = kind, !.action = action]
         IN  CommandInv(d) /\ d.subcommands = c.subcommands
<1> DEFINE d == [c EXCEPT !.kind = kind, !.action = action]
<1>1. /\ IsSequence(c.options) /\ IsSequence(c.positional_args) /\ IsSequence(c.subcommands)
      /\ c = [kind |-> c.kind, action |-> c.action, version |-> c.version, options |-> c.options,
              positional_args |-> c.positional_args, subcommands |-> c.subcommands]
  BY DEF CommandInv, IsCommand
<1>2. d = [kind |-> kind, action |-> action, version |-> c.version, options |-> c.options,
           positional_args |-> c.positional_args, subcommands |-> c.subcommands]
  <2> DEFINE e == [c EXCEPT !.kind = kind]
  <2>1. e = [kind |-> kind, action |-> c.action, version |-> c.version, options |-> c.options,
             positional_args |-> c.positional_args, subcommands |-> c.subcommands]
    BY <1>1
  <2>2. d = [e EXCEPT !.action = action]
    OBVIOUS
  <2> HIDE DEF e, d
  <2> QED BY <2>1, <2>2
<1>3. /\ d = [kind |-> d.kind, action |-> d.action, version |-> d.version, options |-> d.options,
              positional_args |-> d.positional_args, subcommands |-> d.subcommands]
      /\ d.options = c.options /\ d.positional_args = c.positional_args
      /\ d.subcommands = c.subcommands /\ d.kind = kind
  BY <1>2
<1> HIDE DEF d
<1>4. IsCommand(d)
  BY <1>1, <1>3 DEF IsCommand
<1>5. CommandInv(d)
  BY <1>3, <1>4 DEF CommandInv
<1> QED BY <1>3, <1>5 DEF d

(* Changing a command, but not its subcommands, keeps the table. *)
LEMMA ChangedCommandKeepsTable ==
  ASSUME TableInv, NEW path, NEW d,
         path \in DOMAIN commands => CommandInv(d) /\ d.subcommands = commands[path].subcommands,
         commands' = [commands EXCEPT ![path] = d]
  PROVE  TableInv'
<1>1. DOMAIN commands' = DOMAIN commands
  OBVIOUS
<1>2. ASSUME NEW p \in DOMAIN commands
      PROVE  /\ CommandInv(commands'[p])
             /\ \A i \in DOMAIN commands'[p].subcommands :
                  Append(p, commands'[p].subcommands[i]) \in DOMAIN commands
  <2>1. commands'[p] = IF p = path THEN d ELSE commands[p]
    OBVIOUS
  <2>2. CommandInv(commands[p]) /\ \A i \in DOMAIN commands[p].subcommands :
          Append(p, commands[p].subcommands[i]) \in DOMAIN commands
    BY DEF TableInv
  <2> QED BY <2>1, <2>2
<1> QED BY <1>1, <1>2 DEF TableInv

-----------------------------------------------------------------------------
(* The arguments *)

(* How many arguments are parsed. *)
Done == Len(args) - Len(unparsed)

Parsing == mode \in {"parse", "suffix"}

ParserInv ==
  /\ IsParser(parser)
  /\ parser.command \in DOMAIN commands /\ IsSequence(parser.command)
  /\ parser.positional_arg_index \in Nat
  /\ parser.appending => parser.positional_arg_index < Len(Command.positional_args)
  /\ IsSequence(parser.letters)
  /\ parser.short_option_table \in ShortOptionTables(Command.options)

ArgsInv ==
  /\ IsSequence(args)
  /\ \A i \in DOMAIN args : /\ args[i].dashes = 1 => IsSequence(args[i].name)
                            /\ IsEnd(args[i]) => args[i].dashes = 2
  /\ IsSequence(unparsed) /\ Len(unparsed) <= Len(args)
  /\ \A i \in 1 .. Len(unparsed) : unparsed[i] = args[Done + i]
  /\ mode = "parse" => \A i \in 1 .. Done : ~IsEnd(args[i])
  /\ mode = "suffix" => parser.letters = <<>> /\ \E i \in 1 .. Done + 1 : IsEnd(args[i])

(* The words that were parsed name the commands on the way, until one of   *)
(* them has positional arguments.                                          *)
WordsInv ==
  mode = "parse" =>
    /\ Depth <= WordsBefore(Done + 1)
    /\ Command.positional_args = <<>> => WordsBefore(Done + 1) = Depth

(* The options that the arguments parsed so far mention were parsed, but   *)
(* for the letters that are left of the last one.                          *)
MentionInv ==
  /\ \A d \in 0 .. Depth - 1 : \A o \in ToSet(commands[CommandAt(d)].options) :
       o.required => \E i \in 1 .. Done : i \in MentionsOf(d, o)
  /\ \A o \in ToSet(Command.options) : o.name \in parser.parsed =>
       \E i \in 1 .. Done : i \in MentionsOf(Depth, o)
  /\ parser.meta_action = NoAction =>
       \A d \in 0 .. Depth : \A o \in ToSet(commands[CommandAt(d)].options) :
         o.meta # NoAction /\ OwnsLetter(d, o) =>
           \A i \in 1 .. Done : i \in MentionsOf(d, o) =>
             i = Done /\ IsShort(args[i]) /\ o.short \in ToSet(parser.letters)
  /\ parser.letters # <<>> =>
       /\ Done \in DOMAIN args /\ BeforeSuffix(Done) /\ DepthOf(Done) = Depth
       /\ IsShort(args[Done]) /\ ToSet(parser.letters) \subseteq ToSet(args[Done].name)

ParsingInv == Parsing => ParserInv /\ ArgsInv /\ WordsInv /\ MentionInv

CommandLineInv ==
  /\ description \in Descriptions
  /\ TableInv
  /\ mode \in {"build", "parse", "suffix", "ended", "aborted"}
  /\ mode \in {"parse", "suffix", "ended"} => builders = <<>>
  /\ mode = "build" => parser = NewParser
  /\ mode # "ended" => outcome = Initially
  /\ ParsingInv
  /\ OneOutcome /\ BuiltCommandsParse

(* How many words come before an argument. *)
LEMMA WordsAreCounted ==
  /\ WordsBefore(1) = 0
  /\ \A i \in Nat : /\ WordsBefore(i + 1) \in Nat
                    /\ WordsBefore(i + 2) =
                         WordsBefore(i + 1) + IF IsWord(args[i + 1]) THEN 1 ELSE 0
<1> DEFINE W(i) == { j \in 1 .. i - 1 : IsWord(args[j]) }
<1>1. \A i \in Nat : IsFiniteSet(W(i + 1))
  <2> SUFFICES ASSUME NEW i \in Nat
               PROVE  IsFiniteSet(W(i + 1))
    OBVIOUS
  <2>1. W(i + 1) \in SUBSET (1 .. i)
    OBVIOUS
  <2>2. IsFiniteSet(1 .. i)
    BY FS_Interval
  <2> QED BY <2>1, <2>2, FS_Subset
<1>2. WordsBefore(1) = 0
  <2>1. W(1) = {}
    OBVIOUS
  <2> QED BY <2>1, FS_EmptySet DEF WordsBefore
<1>3. ASSUME NEW i \in Nat
      PROVE  /\ WordsBefore(i + 1) \in Nat
             /\ WordsBefore(i + 2) =
                  WordsBefore(i + 1) + IF IsWord(args[i + 1]) THEN 1 ELSE 0
  <2>1. WordsBefore(i + 1) = Cardinality(W(i + 1)) /\ WordsBefore(i + 2) = Cardinality(W(i + 2))
    BY DEF WordsBefore
  <2>2. i + 1 \notin W(i + 1)
    OBVIOUS
  <2>3. W(i + 2) = IF IsWord(args[i + 1]) THEN W(i + 1) \union {i + 1} ELSE W(i + 1)
    <3>1. 1 .. (i + 2) - 1 = (1 .. (i + 1) - 1) \union {i + 1}
      OBVIOUS
    <3> QED BY <3>1
  <2>4. IsFiniteSet(W(i + 1))
    BY <1>1
  <2> HIDE DEF W
  <2>5. Cardinality(W(i + 1)) \in Nat
    BY <2>4, FS_CardinalityType
  <2>6. Cardinality(W(i + 1) \union {i + 1}) = Cardinality(W(i + 1)) + 1
    BY <2>2, <2>4, FS_AddElement
  <2> QED BY <2>1, <2>3, <2>5, <2>6
<1> QED BY <1>2, <1>3

(* An earlier argument has no more words before it. *)
LEMMA WordsAreMonotone ==
  ASSUME NEW i \in Nat, NEW j \in 1 .. i
  PROVE  WordsBefore(j) <= WordsBefore(i + 1) /\ WordsBefore(j) \in Nat
<1> DEFINE W(n) == { m \in 1 .. n - 1 : IsWord(args[m]) }
<1>1. W(j) \in SUBSET W(i + 1) /\ W(i + 1) \in SUBSET (1 .. i)
  OBVIOUS
<1>2. IsFiniteSet(1 .. i)
  BY FS_Interval
<1>3. WordsBefore(i + 1) = Cardinality(W(i + 1)) /\ WordsBefore(j) = Cardinality(W(j))
  BY DEF WordsBefore
<1> HIDE DEF W
<1>4. IsFiniteSet(W(i + 1))
  BY <1>1, <1>2, FS_Subset
<1>5. IsFiniteSet(W(j)) /\ Cardinality(W(j)) <= Cardinality(W(i + 1))
  BY <1>1, <1>4, FS_Subset
<1> QED BY <1>3, <1>5, FS_CardinalityType

(* What depends on the arguments and the path of the command only. *)
LEMMA SameCommand ==
  ASSUME args' = args, commands' = commands, parser'.command = parser.command
  PROVE  /\ Depth' = Depth /\ Command' = Command
         /\ \A i : WordsBefore(i)' = WordsBefore(i) /\ DepthOf(i)' = DepthOf(i)
         /\ \A i : BeforeSuffix(i)' = BeforeSuffix(i)
         /\ \A d : CommandAt(d)' = CommandAt(d)
         /\ \A d, o : MentionsOf(d, o)' = MentionsOf(d, o) /\ OwnsLetter(d, o)' = OwnsLetter(d, o)
<1>1. Depth' = Depth /\ Command' = Command
  BY DEF Depth, Command
<1>2. \A i : WordsBefore(i)' = WordsBefore(i)
  BY DEF WordsBefore
<1>3. \A i : DepthOf(i)' = DepthOf(i)
  BY <1>1, <1>2 DEF DepthOf
<1>4. \A i : BeforeSuffix(i)' = BeforeSuffix(i)
  BY DEF BeforeSuffix
<1>5. \A d : CommandAt(d)' = CommandAt(d)
  BY DEF CommandAt
<1>6. \A d, o : MentionsOf(d, o)' = MentionsOf(d, o)
  BY <1>3, <1>4 DEF MentionsOf
<1>7. \A d, o : OwnsLetter(d, o)' = OwnsLetter(d, o)
  BY <1>5 DEF OwnsLetter
<1> QED BY <1>1, <1>2, <1>3, <1>4, <1>5, <1>6, <1>7

(* The path of the selected command, and the argument to parse next. *)
LEMMA SelectedCommand ==
  ASSUME ParserInv, TableInv
  PROVE  /\ Depth \in Nat /\ CommandAt(Depth) = parser.command
         /\ commands[CommandAt(Depth)] = Command /\ CommandInv(Command)
<1>1. parser.command \in Seq(ToSet(parser.command)) /\ CommandInv(Command)
  BY DEF ParserInv, IsSequence, TableInv, Command
<1>2. Depth \in Nat
  BY <1>1 DEF Depth
<1>3. CommandAt(Depth) = parser.command
  BY <1>1, SubSeqFull DEF CommandAt, Depth
<1> QED BY <1>1, <1>2, <1>3 DEF Command

(* Nothing is left of an empty sequence. *)
LEMMA EmptySequence == ToSet(<<>>) = {} /\ IsSequence(<<>>)
BY DEF ToSet, IsSequence

(* An argument is taken from the list. *)
LEMMA TakenArgument ==
  ASSUME ArgsInv, unparsed # <<>>, unparsed' = Tail(unparsed), args' = args
  PROVE  /\ Done \in Nat /\ Done + 1 \in DOMAIN args /\ DOMAIN args = 1 .. Len(args)
         /\ Len(args) \in Nat /\ args[Done + 1] = Current /\ Done' = Done + 1
         /\ IsSequence(unparsed') /\ Len(unparsed') <= Len(args)
         /\ \A i \in 1 .. Len(unparsed') : unparsed'[i] = args[Done' + i]
<1>1. /\ unparsed \in Seq(ToSet(unparsed)) /\ args \in Seq(ToSet(args))
      /\ Len(unparsed) <= Len(args)
  BY DEF ArgsInv, IsSequence
<1>2. /\ Len(unparsed) \in Nat /\ Len(unparsed) > 0 /\ Len(args) \in Nat
      /\ Tail(unparsed) \in Seq(ToSet(unparsed)) /\ Len(Tail(unparsed)) = Len(unparsed) - 1
      /\ \A i \in 1 .. Len(unparsed) - 1 : Tail(unparsed)[i] = unparsed[i + 1]
      /\ Head(unparsed) = unparsed[1] /\ DOMAIN args = 1 .. Len(args)
  BY <1>1, HeadTailProperties, EmptySeq
<1>3. Done \in Nat /\ Done + 1 \in DOMAIN args /\ Done' = Done + 1
  BY <1>1, <1>2 DEF Done
<1>4. args[Done + 1] = Current
  BY <1>2 DEF ArgsInv, Current
<1>5. IsSequence(unparsed') /\ Len(unparsed') <= Len(args)
  <2>1. IsSequence(Tail(unparsed))
    BY <1>2, SequenceIsOne
  <2> QED BY <1>1, <1>2, <2>1
<1>6. ASSUME NEW i \in 1 .. Len(unparsed')
      PROVE  unparsed'[i] = args[Done' + i]
  <2>1. i + 1 \in 1 .. Len(unparsed) /\ unparsed'[i] = unparsed[i + 1]
    BY <1>2
  <2>2. unparsed[i + 1] = args[Done + (i + 1)]
    BY <2>1 DEF ArgsInv
  <2>3. Done + (i + 1) = Done' + i
    BY <1>2, <1>3
  <2> QED BY <2>1, <2>2, <2>3
<1> QED BY <1>2, <1>3, <1>4, <1>5, <1>6

(* The argument of the loop that comes next concerns the selected command. *)
LEMMA NextMention ==
  ASSUME ParserInv, TableInv, ArgsInv, WordsInv, InLoop, ~IsEnd(Current),
         Done \in Nat, Done + 1 \in DOMAIN args, args[Done + 1] = Current
  PROVE  /\ BeforeSuffix(Done + 1) /\ DepthOf(Done + 1) = Depth
         /\ \A d, o : Done + 1 \in MentionsOf(d, o) <=> d = Depth /\ Mentions(Current, o)
<1>1. mode = "parse"
  BY DEF InLoop
<1>2. BeforeSuffix(Done + 1)
  <2>1. \A i \in 1 .. Done : ~IsEnd(args[i])
    BY <1>1 DEF ArgsInv
  <2>2. \A i \in 1 .. Done + 1 : i \in 1 .. Done \/ i = Done + 1
    OBVIOUS
  <2> QED BY <2>1, <2>2 DEF BeforeSuffix
<1>3. DepthOf(Done + 1) = Depth
  <2>1. Depth <= WordsBefore(Done + 1) /\ WordsBefore(Done + 1) \in Nat /\ Depth \in Nat
    BY <1>1, WordsAreCounted, SelectedCommand DEF WordsInv
  <2> QED BY <2>1 DEF DepthOf
<1> QED BY <1>2, <1>3 DEF MentionsOf

(* An argument before the suffix is taken and the command stays: what the  *)
(* step makes of the argument must agree with what it mentions.            *)
LEMMA LoopStepKeepsInvariant ==
  ASSUME CommandLineInv, InLoop, ~IsEnd(Current), Taken, Proceed,
         IsParser(parser'), parser'.command = parser.command,
         parser'.short_option_table = parser.short_option_table,
         parser'.positional_arg_index \in Nat,
         parser'.appending => parser'.positional_arg_index < Len(Command.positional_args),
         IsSequence(parser'.letters),
         parser'.letters # <<>> => IsShort(Current) /\ ToSet(parser'.letters) \subseteq ToSet(Current.name),
         IsWord(Current) => Command.positional_args # <<>>,
         \A o \in ToSet(Command.options) : o.name \in parser'.parsed =>
           o.name \in parser.parsed \/ Mentions(Current, o),
         parser'.meta_action = NoAction =>
           /\ parser.meta_action = NoAction
           /\ \A o \in ToSet(Command.options) :
                o.meta # NoAction /\ OwnsLetter(Depth, o) /\ Mentions(Current, o) =>
                  IsShort(Current) /\ o.short \in ToSet(parser'.letters)
  PROVE  CommandLineInv'
<1>0. /\ mode = "parse" /\ mode' = mode /\ outcome' = outcome /\ parser.letters = <<>>
      /\ unparsed # <<>> /\ unparsed' = Tail(unparsed)
      /\ UNCHANGED <<description, builders, commands, args>>
      /\ ParserInv /\ TableInv /\ ArgsInv /\ WordsInv /\ MentionInv
  BY DEF CommandLineInv, InLoop, ParsingInv, Parsing, Taken, Proceed
<1>1. /\ Done \in Nat /\ Done + 1 \in DOMAIN args /\ DOMAIN args = 1 .. Len(args)
      /\ Len(args) \in Nat /\ args[Done + 1] = Current /\ Done' = Done + 1
      /\ IsSequence(unparsed') /\ Len(unparsed') <= Len(args)
      /\ \A i \in 1 .. Len(unparsed') : unparsed'[i] = args[Done' + i]
  BY <1>0, TakenArgument
<1>2. /\ BeforeSuffix(Done + 1) /\ DepthOf(Done + 1) = Depth
      /\ \A d, o : Done + 1 \in MentionsOf(d, o) <=> d = Depth /\ Mentions(Current, o)
  BY <1>0, <1>1, NextMention
<1>3. /\ Depth' = Depth /\ Command' = Command
      /\ \A i : WordsBefore(i)' = WordsBefore(i) /\ DepthOf(i)' = DepthOf(i)
      /\ \A i : BeforeSuffix(i)' = BeforeSuffix(i)
      /\ \A d : CommandAt(d)' = CommandAt(d)
      /\ \A d, o : MentionsOf(d, o)' = MentionsOf(d, o) /\ OwnsLetter(d, o)' = OwnsLetter(d, o)
  BY <1>0, SameCommand
<1>4. /\ Depth \in Nat /\ CommandAt(Depth) = parser.command
      /\ commands[CommandAt(Depth)] = Command /\ CommandInv(Command)
  BY <1>0, SelectedCommand
<1>5. TableInv'
  BY <1>0 DEF TableInv
<1>6. ParserInv'
  BY <1>0, <1>3 DEF ParserInv
<1>7. ArgsInv'
  <2>1. \A i \in 1 .. Done + 1 : ~IsEnd(args[i])
    BY <1>2 DEF BeforeSuffix
  <2> QED BY <1>0, <1>1, <2>1 DEF ArgsInv
<1>8. WordsInv'
  <2>1. /\ Depth <= WordsBefore(Done + 1)
        /\ Command.positional_args = <<>> => WordsBefore(Done + 1) = Depth
    BY <1>0 DEF WordsInv
  <2>2. /\ WordsBefore(Done + 1) \in Nat
        /\ WordsBefore(Done + 2) = WordsBefore(Done + 1) + IF IsWord(Current) THEN 1 ELSE 0
    BY <1>1, WordsAreCounted
  <2>3. Done' + 1 = Done + 2
    BY <1>1
  <2>4. /\ Depth <= WordsBefore(Done + 2)
        /\ Command.positional_args = <<>> => WordsBefore(Done + 2) = Depth
    BY <1>4, <2>1, <2>2
  <2>5. WordsBefore(Done + 1)' = WordsBefore(Done + 2)
    BY <1>0, <2>3 DEF WordsBefore
  <2> QED BY <1>3, <2>4, <2>5 DEF WordsInv
<1>9. ASSUME NEW i \in 1 .. Done + 1
      PROVE  i \in 1 .. Done \/ i = Done + 1
  BY <1>1
<1>10. ToSet(parser.letters) = {} /\ \A i \in 1 .. Done : i \in 1 .. Done + 1
  BY <1>0, <1>1, EmptySequence
<1>11. MentionInv'
  <2>1. ASSUME NEW d \in 0 .. Depth - 1, NEW o \in ToSet(commands[CommandAt(d)].options), o.required
        PROVE  \E i \in 1 .. Done + 1 : i \in MentionsOf(d, o)
    BY <1>0, <1>10, <2>1 DEF MentionInv
  <2>2. ASSUME NEW o \in ToSet(Command.options), o.name \in parser'.parsed
        PROVE  \E i \in 1 .. Done + 1 : i \in MentionsOf(Depth, o)
    <3>1. CASE o.name \in parser.parsed
      BY <1>0, <1>10, <3>1 DEF MentionInv
    <3>2. CASE Mentions(Current, o)
      <4>1. Done + 1 \in 1 .. Done + 1
        BY <1>1
      <4> QED BY <1>2, <3>2, <4>1
    <3> QED BY <2>2, <3>1, <3>2
  <2>3. ASSUME parser'.meta_action = NoAction, NEW d \in 0 .. Depth,
               NEW o \in ToSet(commands[CommandAt(d)].options),
               o.meta # NoAction, OwnsLetter(d, o), NEW i \in 1 .. Done + 1, i \in MentionsOf(d, o)
        PROVE  i = Done + 1 /\ IsShort(args[i]) /\ o.short \in ToSet(parser'.letters)
    <3>1. CASE i \in 1 .. Done
      BY <1>0, <1>10, <2>3, <3>1 DEF MentionInv
    <3>2. CASE i = Done + 1
      <4>1. d = Depth /\ Mentions(Current, o)
        BY <1>2, <2>3, <3>2
      <4>2. o \in ToSet(Command.options)
        BY <1>4, <4>1
      <4> QED BY <1>1, <2>3, <3>2, <4>1, <4>2
    <3> QED BY <1>9, <3>1, <3>2
  <2>4. ASSUME parser'.letters # <<>>
        PROVE  /\ Done + 1 \in DOMAIN args /\ BeforeSuffix(Done + 1) /\ DepthOf(Done + 1) = Depth
               /\ IsShort(args[Done + 1]) /\ ToSet(parser'.letters) \subseteq ToSet(args[Done + 1].name)
    BY <1>1, <1>2, <2>4
  <2>5. BeforeSuffix(Done)' = BeforeSuffix(Done + 1) /\ DepthOf(Done)' = DepthOf(Done + 1)
    BY <1>0, <1>1, <1>3 DEF BeforeSuffix, DepthOf, WordsBefore
  <2> QED BY <1>0, <1>1, <1>3, <2>1, <2>2, <2>3, <2>4, <2>5 DEF MentionInv
<1>12. OneOutcome' /\ BuiltCommandsParse'
  BY <1>0 DEF OneOutcome, BuiltCommandsParse
<1> QED BY <1>0, <1>5, <1>6, <1>7, <1>8, <1>11, <1>12 DEF CommandLineInv, ParsingInv, Parsing

(* Parsing ends with an error, and says so. *)
LEMMA FailureKeepsInvariant ==
  ASSUME CommandLineInv, Parsing, NEW count \in Nat \ {0}, Fail(count),
         UNCHANGED <<description, builders, commands>>
  PROVE  CommandLineInv'
<1>1. mode' = "ended" /\ outcome = Initially /\ builders = <<>> /\ mode # "ended"
  BY DEF Fail, Parsing, CommandLineInv
<1>2. outcome'.result = "Error" /\ outcome'.errors = count /\ outcome'.ran = <<>>
  <2> DEFINE o == [outcome EXCEPT !.result = "Error"]
  <2>1. o = [result |-> "Error", errors |-> 0, ran |-> <<>>]
    BY <1>1 DEF Initially
  <2>2. outcome' = [o EXCEPT !.errors = 0 + count]
    BY <1>1, <2>1 DEF Fail, Initially
  <2> HIDE DEF o
  <2> QED BY <2>1, <2>2
<1>3. OneOutcome'
  BY <1>2, EmptySeq DEF OneOutcome, Successful
<1>4. TableInv'
  BY DEF CommandLineInv, TableInv
<1> QED BY <1>1, <1>3, <1>4 DEF CommandLineInv, ParsingInv, Parsing, BuiltCommandsParse

(* The option that has a name. *)
LEMMA NamedOption ==
  ASSUME CommandInv(Command), NEW name \in Names(Command.options)
  PROVE  /\ Option(name) \in ToSet(Command.options) /\ Option(name).name = name
         /\ \A o \in ToSet(Command.options) : o.name = name => o = Option(name)
<1> DEFINE i == CHOOSE k \in DOMAIN Command.options : Command.options[k].name = name
<1>1. i \in DOMAIN Command.options /\ Command.options[i].name = name
  BY DEF Names
<1>2. Option(name) = Command.options[i]
  BY DEF Option
<1> HIDE DEF i
<1>3. ASSUME NEW o \in ToSet(Command.options), o.name = name
      PROVE  o = Option(name)
  <2>1. PICK j \in DOMAIN Command.options : o = Command.options[j]
    BY DEF ToSet
  <2>2. i = j
    BY <1>1, <1>3, <2>1 DEF CommandInv
  <2> QED BY <1>2, <2>1, <2>2
<1> QED BY <1>1, <1>2, <1>3 DEF ToSet

(* ParseArg sets the meta action of the argument, if it has one. *)
LEMMA ParsedArgument ==
  ASSUME NEW p, IsParser(p), NEW arg,
         parser' = [p EXCEPT !.meta_action = IF arg.meta = NoAction THEN p.meta_action ELSE arg.meta]
  PROVE  /\ IsParser(parser')
         /\ parser'.command = p.command /\ parser'.parsed = p.parsed
         /\ parser'.short_option_table = p.short_option_table
         /\ parser'.positional_arg_index = p.positional_arg_index
         /\ parser'.appending = p.appending /\ parser'.letters = p.letters
         /\ parser'.meta_action = IF arg.meta = NoAction THEN p.meta_action ELSE arg.meta
<1>1. p = [command |-> p.command, parsed |-> p.parsed, short_option_table |-> p.short_option_table,
           positional_arg_index |-> p.positional_arg_index, appending |-> p.appending,
           empty_positional |-> p.empty_positional, letters |-> p.letters, value |-> p.value,
           meta_action |-> p.meta_action]
  BY DEF IsParser
<1> DEFINE meta == IF arg.meta = NoAction THEN p.meta_action ELSE arg.meta
<1>2. parser' = [p EXCEPT !.meta_action = meta]
  OBVIOUS
<1> HIDE DEF meta
<1>3. parser' = [command |-> p.command, parsed |-> p.parsed,
                 short_option_table |-> p.short_option_table,
                 positional_arg_index |-> p.positional_arg_index, appending |-> p.appending,
                 empty_positional |-> p.empty_positional, letters |-> p.letters, value |-> p.value,
                 meta_action |-> meta]
  BY <1>1, <1>2
<1> QED BY <1>3 DEF IsParser, meta

(* An option is marked as parsed. *)
LEMMA MarkedParser ==
  ASSUME NEW p, IsParser(p), NEW name
  PROVE  /\ IsParser(Marked(p, name)) /\ Marked(p, name).parsed = p.parsed \union {name}
         /\ Marked(p, name).command = p.command
         /\ Marked(p, name).short_option_table = p.short_option_table
         /\ Marked(p, name).positional_arg_index = p.positional_arg_index
         /\ Marked(p, name).appending = p.appending /\ Marked(p, name).letters = p.letters
         /\ Marked(p, name).meta_action = p.meta_action
<1>1. p = [command |-> p.command, parsed |-> p.parsed, short_option_table |-> p.short_option_table,
           positional_arg_index |-> p.positional_arg_index, appending |-> p.appending,
           empty_positional |-> p.empty_positional, letters |-> p.letters, value |-> p.value,
           meta_action |-> p.meta_action]
  BY DEF IsParser
<1>2. Marked(p, name) = [p EXCEPT !.parsed = p.parsed \union {name}]
  BY DEF Marked
<1>3. Marked(p, name) =
        [command |-> p.command, parsed |-> p.parsed \union {name},
         short_option_table |-> p.short_option_table,
         positional_arg_index |-> p.positional_arg_index, appending |-> p.appending,
         empty_positional |-> p.empty_positional, letters |-> p.letters, value |-> p.value,
         meta_action |-> p.meta_action]
  BY <1>1, <1>2
<1> QED BY <1>3 DEF IsParser

(* A long option is refused, or parsed and marked. *)
LEMMA ParseLongOptionKeepsInvariant ==
  ASSUME CommandLineInv, ParseLongOption
  PROVE  CommandLineInv'
<1>0. /\ InLoop /\ IsLong(Current) /\ Taken /\ mode = "parse" /\ Parsing /\ parser.letters = <<>>
      /\ UNCHANGED <<description, builders, commands>> /\ ParserInv /\ TableInv
  BY DEF ParseLongOption, InLoop, Parsing, Taken, CommandLineInv, ParsingInv
<1>1. CASE Fail(1)
  BY <1>0, <1>1, FailureKeepsInvariant
<1>2. CASE /\ Current.name \in Names(Command.options)
           /\ ParseArg(Marked(parser, Current.name), Option(Current.name), Current.value, Current.negated)
           /\ Proceed
  <2> DEFINE name == Current.name
             p    == Marked(parser, name)
             arg  == Option(name)
  <2>1. CommandInv(Command)
    BY <1>0, SelectedCommand
  <2>2. arg \in ToSet(Command.options) /\ \A o \in ToSet(Command.options) : o.name = name => o = arg
    BY <1>2, <2>1, NamedOption
  <2>3. /\ IsParser(p) /\ p.command = parser.command /\ p.parsed = parser.parsed \union {name}
        /\ p.short_option_table = parser.short_option_table
        /\ p.positional_arg_index = parser.positional_arg_index
        /\ p.appending = parser.appending /\ p.letters = parser.letters
        /\ p.meta_action = parser.meta_action
    BY <1>0, MarkedParser DEF ParserInv
  <2> HIDE DEF p, arg, name
  <2>4. /\ IsParser(parser') /\ parser'.command = p.command /\ parser'.parsed = p.parsed
        /\ parser'.short_option_table = p.short_option_table
        /\ parser'.positional_arg_index = p.positional_arg_index
        /\ parser'.appending = p.appending /\ parser'.letters = p.letters
        /\ parser'.meta_action = IF arg.meta = NoAction THEN p.meta_action ELSE arg.meta
    <3>1. parser' = [p EXCEPT !.meta_action = IF arg.meta = NoAction THEN p.meta_action
                                               ELSE arg.meta]
      BY <1>2 DEF ParseArg, p, arg, name
    <3> QED BY <2>3, <3>1, ParsedArgument
  <2>5. ~IsEnd(Current) /\ ~IsWord(Current) /\ ~IsShort(Current)
    BY <1>0 DEF IsLong, IsShort, IsWord
  <2>6. \A o \in ToSet(Command.options) : Mentions(Current, o) <=> o.name = name
    BY <1>0, <2>5 DEF Mentions, name
  <2>7. \A o \in ToSet(Command.options) : o.name \in parser'.parsed =>
          o.name \in parser.parsed \/ Mentions(Current, o)
    BY <2>3, <2>4, <2>6
  <2>8. parser'.meta_action = NoAction =>
          /\ parser.meta_action = NoAction
          /\ \A o \in ToSet(Command.options) :
               o.meta # NoAction /\ OwnsLetter(Depth, o) /\ Mentions(Current, o) =>
                 IsShort(Current) /\ o.short \in ToSet(parser'.letters)
    BY <2>2, <2>3, <2>4, <2>6
  <2>9. /\ parser'.positional_arg_index \in Nat /\ IsSequence(parser'.letters)
        /\ parser'.letters = <<>> /\ parser'.command = parser.command
        /\ parser'.short_option_table = parser.short_option_table
        /\ parser'.appending => parser'.positional_arg_index < Len(Command.positional_args)
    BY <1>0, <2>3, <2>4 DEF ParserInv
  <2> QED BY <1>0, <1>2, <2>4, <2>5, <2>7, <2>8, <2>9, LoopStepKeepsInvariant
<1>3. ASSUME Current.name \in Names(Command.options)
      PROVE  ParseArg(Marked(parser, Current.name), Option(Current.name), Current.value, Current.negated)
  BY <1>3 DEF ParseLongOption
<1>4. Current.name \in Names(Command.options) => Fail(1) \/ Proceed
  BY <1>3 DEF ParseArg
<1> QED BY <1>1, <1>2, <1>3, <1>4 DEF ParseLongOption
(* The first element of a sequence, and the others. *)
LEMMA HeadAndTail ==
  ASSUME NEW s, IsSequence(s), s # <<>>
  PROVE  IsSequence(Tail(s)) /\ ToSet(s) = {Head(s)} \union ToSet(Tail(s))
<1>1. s \in Seq(ToSet(s))
  BY DEF IsSequence
<1>2. /\ Len(s) \in Nat /\ Len(s) > 0 /\ DOMAIN s = 1 .. Len(s) /\ Head(s) = s[1]
      /\ Tail(s) \in Seq(ToSet(s)) /\ Len(Tail(s)) = Len(s) - 1
      /\ DOMAIN Tail(s) = 1 .. Len(s) - 1
      /\ \A i \in 1 .. Len(s) - 1 : Tail(s)[i] = s[i + 1]
  BY <1>1, HeadTailProperties, EmptySeq
<1>3. IsSequence(Tail(s))
  BY <1>2, SequenceIsOne
<1>4. ASSUME NEW x \in ToSet(s), x # Head(s)
      PROVE  x \in ToSet(Tail(s))
  <2>1. PICK i \in 1 .. Len(s) : x = s[i]
    BY <1>2 DEF ToSet
  <2>2. i # 1
    BY <1>2, <1>4, <2>1
  <2>3. i - 1 \in 1 .. Len(s) - 1 /\ (i - 1) + 1 = i
    BY <1>2, <2>2
  <2>4. Tail(s)[i - 1] = x
    BY <1>2, <2>1, <2>3
  <2> QED BY <1>2, <2>3, <2>4 DEF ToSet
<1>5. ToSet(Tail(s)) \subseteq ToSet(s)
  <2>1. ASSUME NEW i \in 1 .. Len(s) - 1
        PROVE  Tail(s)[i] \in ToSet(s)
    <3>1. i + 1 \in 1 .. Len(s)
      BY <1>2
    <3> QED BY <1>2, <3>1 DEF ToSet
  <2> QED BY <1>2, <2>1 DEF ToSet
<1>6. Head(s) \in ToSet(s)
  BY <1>2 DEF ToSet
<1> QED BY <1>3, <1>4, <1>5, <1>6

(* The letters of an argument are left to the next steps. *)
LEMMA ParseShortOptionSeqKeepsInvariant ==
  ASSUME CommandLineInv, ParseShortOptionSeq
  PROVE  CommandLineInv'
<1>0. /\ InLoop /\ IsShort(Current) /\ Taken /\ mode = "parse" /\ Parsing /\ parser.letters = <<>>
      /\ UNCHANGED <<description, builders, commands, args>> /\ unparsed' = Tail(unparsed)
      /\ unparsed # <<>> /\ ParserInv /\ TableInv /\ ArgsInv
  BY DEF ParseShortOptionSeq, InLoop, Parsing, Taken, CommandLineInv, ParsingInv
<1>1. CASE Fail(1)
  BY <1>0, <1>1, FailureKeepsInvariant
<1>2. CASE parser' = [parser EXCEPT !.letters = Current.name, !.value = Current.value] /\ Proceed
  <2> DEFINE q == [parser EXCEPT !.letters = Current.name]
  <2>1. parser = [command |-> parser.command, parsed |-> parser.parsed,
                  short_option_table |-> parser.short_option_table,
                  positional_arg_index |-> parser.positional_arg_index,
                  appending |-> parser.appending, empty_positional |-> parser.empty_positional,
                  letters |-> parser.letters, value |-> parser.value,
                  meta_action |-> parser.meta_action]
    BY <1>0 DEF ParserInv, IsParser
  <2>2. q = [command |-> parser.command, parsed |-> parser.parsed,
             short_option_table |-> parser.short_option_table,
             positional_arg_index |-> parser.positional_arg_index,
             appending |-> parser.appending, empty_positional |-> parser.empty_positional,
             letters |-> Current.name, value |-> parser.value,
             meta_action |-> parser.meta_action]
    BY <2>1
  <2>3. parser' = [q EXCEPT !.value = Current.value]
    BY <1>2
  <2> HIDE DEF q
  <2>4. parser' = [command |-> parser.command, parsed |-> parser.parsed,
                   short_option_table |-> parser.short_option_table,
                   positional_arg_index |-> parser.positional_arg_index,
                   appending |-> parser.appending, empty_positional |-> parser.empty_positional,
                   letters |-> Current.name, value |-> Current.value,
                   meta_action |-> parser.meta_action]
    BY <2>2, <2>3
  <2>5. /\ IsParser(parser') /\ parser'.command = parser.command
        /\ parser'.parsed = parser.parsed
        /\ parser'.short_option_table = parser.short_option_table
        /\ parser'.positional_arg_index = parser.positional_arg_index
        /\ parser'.appending = parser.appending /\ parser'.letters = Current.name
        /\ parser'.meta_action = parser.meta_action
    BY <2>4 DEF IsParser
  <2>6. IsSequence(Current.name) /\ ~IsEnd(Current)
    <3>1. Done + 1 \in DOMAIN args /\ args[Done + 1] = Current
      BY <1>0, TakenArgument
    <3>2. Current.dashes = 1
      BY <1>0 DEF IsShort
    <3> QED BY <1>0, <3>1, <3>2 DEF ArgsInv
  <2>7. ~IsLong(Current) /\ ~IsWord(Current)
    BY <1>0 DEF IsLong, IsShort, IsWord
  <2>9. parser'.meta_action = NoAction =>
          /\ parser.meta_action = NoAction
          /\ \A o \in ToSet(Command.options) :
               o.meta # NoAction /\ OwnsLetter(Depth, o) /\ Mentions(Current, o) =>
                 IsShort(Current) /\ o.short \in ToSet(parser'.letters)
    BY <2>5, <2>7 DEF Mentions
  <2>10. /\ parser'.positional_arg_index \in Nat
         /\ parser'.appending => parser'.positional_arg_index < Len(Command.positional_args)
    BY <1>0, <2>5 DEF ParserInv
  <2> QED BY <1>0, <1>2, <2>5, <2>6, <2>7, <2>9, <2>10, LoopStepKeepsInvariant
<1> QED BY <1>1, <1>2 DEF ParseShortOptionSeq
(* The option of a letter has it for its short name. *)
LEMMA LetteredOption ==
  ASSUME CommandInv(Command), parser.short_option_table \in ShortOptionTables(Command.options),
         NEW letter \in DOMAIN parser.short_option_table,
         NEW name, name = parser.short_option_table[letter]
  PROVE  /\ name \in Names(Command.options) /\ letter # NoValue
         /\ Option(name) \in ToSet(Command.options) /\ Option(name).short = letter
         /\ \A o \in ToSet(Command.options) : o.name = name => o = Option(name)
<1> DEFINE options == Command.options
           shorts  == { options[i].short : i \in DOMAIN options } \ {NoValue}
           table   == parser.short_option_table
<1>1. /\ table \in [shorts -> Names(options)]
      /\ \A l \in shorts : \E i \in DOMAIN options :
           options[i].short = l /\ options[i].name = table[l]
  BY DEF ShortOptionTables
<1> HIDE DEF options, shorts, table
<1>2. letter \in shorts
  BY <1>1 DEF table
<1>3. letter # NoValue
  BY <1>2 DEF shorts
<1>4. PICK i \in DOMAIN options : options[i].short = letter /\ options[i].name = table[letter]
  BY <1>1, <1>2
<1>5. name \in Names(options) /\ options[i].name = name
  BY <1>4 DEF Names, table
<1>6. /\ Option(name) \in ToSet(options)
      /\ \A o \in ToSet(options) : o.name = name => o = Option(name)
  BY <1>5, NamedOption DEF options
<1>7. options[i] \in ToSet(options)
  BY DEF ToSet
<1>8. Option(name).short = letter
  BY <1>4, <1>5, <1>6, <1>7
<1> QED BY <1>3, <1>5, <1>6, <1>8 DEF options

(* A letter is refused, or its option parsed and marked. *)
LEMMA ParseShortOptionKeepsInvariant ==
  ASSUME CommandLineInv, ParseShortOption
  PROVE  CommandLineInv'
<1>0. /\ mode = "parse" /\ Parsing /\ parser.letters # <<>>
      /\ UNCHANGED <<description, builders, commands, args, unparsed>>
      /\ ParserInv /\ TableInv /\ ArgsInv /\ WordsInv /\ MentionInv
  BY DEF ParseShortOption, Parsing, Kept, CommandLineInv, ParsingInv
<1>1. CASE Fail(1)
  BY <1>0, <1>1, FailureKeepsInvariant
<1> DEFINE letter == Head(parser.letters)
           q      == [parser EXCEPT !.letters = Tail(parser.letters)]
           name   == parser.short_option_table[letter]
           p      == Marked(q, name)
           arg    == Option(name)
<1>2. CASE letter \in DOMAIN parser.short_option_table /\ ParseArg(p, arg, q.value, FALSE) /\ Proceed
  <2>1. /\ CommandInv(Command) /\ Depth \in Nat /\ CommandAt(Depth) = parser.command
        /\ commands[CommandAt(Depth)] = Command
    BY <1>0, SelectedCommand
  <2>2. /\ arg \in ToSet(Command.options) /\ arg.short = letter /\ letter # NoValue
        /\ \A o \in ToSet(Command.options) : o.name = name => o = arg
    <3> HIDE DEF letter
    <3> QED BY <1>0, <1>2, <2>1, LetteredOption DEF ParserInv
  <2>3. /\ IsParser(q) /\ q.command = parser.command /\ q.parsed = parser.parsed
        /\ q.short_option_table = parser.short_option_table
        /\ q.positional_arg_index = parser.positional_arg_index
        /\ q.appending = parser.appending /\ q.letters = Tail(parser.letters)
        /\ q.meta_action = parser.meta_action
    <3>1. parser = [command |-> parser.command, parsed |-> parser.parsed,
                    short_option_table |-> parser.short_option_table,
                    positional_arg_index |-> parser.positional_arg_index,
                    appending |-> parser.appending, empty_positional |-> parser.empty_positional,
                    letters |-> parser.letters, value |-> parser.value,
                    meta_action |-> parser.meta_action]
      BY <1>0 DEF ParserInv, IsParser
    <3> DEFINE rest == Tail(parser.letters)
    <3>2. q = [parser EXCEPT !.letters = rest]
      OBVIOUS
    <3> HIDE DEF q, rest
    <3>3. q = [command |-> parser.command, parsed |-> parser.parsed,
               short_option_table |-> parser.short_option_table,
               positional_arg_index |-> parser.positional_arg_index,
               appending |-> parser.appending, empty_positional |-> parser.empty_positional,
               letters |-> rest, value |-> parser.value, meta_action |-> parser.meta_action]
      BY <3>1, <3>2
    <3> QED BY <3>3 DEF IsParser, rest
  <2> HIDE DEF letter, q, name, arg
  <2>4. /\ IsParser(p) /\ p.command = q.command /\ p.parsed = q.parsed \union {name}
        /\ p.short_option_table = q.short_option_table
        /\ p.positional_arg_index = q.positional_arg_index
        /\ p.appending = q.appending /\ p.letters = q.letters
        /\ p.meta_action = q.meta_action
    BY <2>3, MarkedParser
  <2> HIDE DEF p
  <2>5. /\ IsParser(parser') /\ parser'.command = p.command /\ parser'.parsed = p.parsed
        /\ parser'.short_option_table = p.short_option_table
        /\ parser'.positional_arg_index = p.positional_arg_index
        /\ parser'.appending = p.appending /\ parser'.letters = p.letters
        /\ parser'.meta_action = IF arg.meta = NoAction THEN p.meta_action ELSE arg.meta
    <3>1. parser' = [p EXCEPT !.meta_action = IF arg.meta = NoAction THEN p.meta_action
                                               ELSE arg.meta]
      BY <1>2 DEF ParseArg
    <3> QED BY <2>4, <3>1, ParsedArgument
  <2>6. /\ parser'.command = parser.command /\ parser'.parsed = parser.parsed \union {name}
        /\ parser'.short_option_table = parser.short_option_table
        /\ parser'.positional_arg_index = parser.positional_arg_index
        /\ parser'.appending = parser.appending /\ parser'.letters = Tail(parser.letters)
        /\ parser'.meta_action = IF arg.meta = NoAction THEN parser.meta_action ELSE arg.meta
    BY <2>3, <2>4, <2>5
  <2>7. /\ IsSequence(Tail(parser.letters))
        /\ ToSet(parser.letters) = {letter} \union ToSet(Tail(parser.letters))
    BY <1>0, HeadAndTail DEF ParserInv, letter
  <2>8. /\ Depth' = Depth /\ Command' = Command
        /\ \A i : WordsBefore(i)' = WordsBefore(i) /\ DepthOf(i)' = DepthOf(i)
        /\ \A i : BeforeSuffix(i)' = BeforeSuffix(i)
        /\ \A d : CommandAt(d)' = CommandAt(d)
        /\ \A d, o : MentionsOf(d, o)' = MentionsOf(d, o) /\ OwnsLetter(d, o)' = OwnsLetter(d, o)
    BY <1>0, <2>6, SameCommand
  <2>9. mode' = mode /\ outcome' = outcome /\ Done' = Done
    BY <1>0, <1>2 DEF Proceed, Done
  <2>10. TableInv'
    BY <1>0 DEF TableInv
  <2>11. ParserInv'
    BY <1>0, <2>5, <2>6, <2>7, <2>8 DEF ParserInv
  <2>12. ArgsInv'
    BY <1>0, <2>9 DEF ArgsInv
  <2>13. WordsInv'
    <3>1. WordsBefore(Done + 1)' = WordsBefore(Done + 1)
      BY <1>0, <2>9 DEF WordsBefore
    <3> QED BY <1>0, <2>8, <2>9, <3>1 DEF WordsInv
  <2>14. MentionInv'
    <3>1. /\ Done \in DOMAIN args /\ BeforeSuffix(Done) /\ DepthOf(Done) = Depth
          /\ IsShort(args[Done]) /\ ToSet(parser.letters) \subseteq ToSet(args[Done].name)
      BY <1>0 DEF MentionInv
    <3>2. Done \in 1 .. Done
      <4>1. DOMAIN args = 1 .. Len(args) /\ Len(args) \in Nat
        BY <1>0 DEF ArgsInv, IsSequence
      <4> QED BY <3>1, <4>1
    <3>3. ASSUME NEW o \in ToSet(Command.options), o.name \in parser'.parsed
          PROVE  \E i \in 1 .. Done : i \in MentionsOf(Depth, o)
      <4>1. CASE o.name \in parser.parsed
        BY <1>0, <4>1 DEF MentionInv
      <4>2. CASE o.name = name
        <5>1. o.short \in ToSet(args[Done].name)
          BY <2>2, <2>7, <3>1, <4>2
        <5>2. Done \in MentionsOf(Depth, o)
          BY <3>1, <5>1 DEF MentionsOf, Mentions
        <5> QED BY <3>2, <5>2
      <4> QED BY <2>6, <3>3, <4>1, <4>2
    <3>4. ASSUME parser'.meta_action = NoAction, NEW d \in 0 .. Depth,
                 NEW o \in ToSet(commands[CommandAt(d)].options),
                 o.meta # NoAction, OwnsLetter(d, o), NEW i \in 1 .. Done, i \in MentionsOf(d, o)
          PROVE  i = Done /\ IsShort(args[i]) /\ o.short \in ToSet(parser'.letters)
      <4>1. parser.meta_action = NoAction /\ arg.meta = NoAction
        BY <2>6, <3>4
      <4>2. i = Done /\ IsShort(args[i]) /\ o.short \in ToSet(parser.letters)
        BY <1>0, <3>4, <4>1 DEF MentionInv
      <4>3. d = Depth
        BY <3>1, <3>4, <4>2 DEF MentionsOf
      <4>4. o.short # letter
        <5>1. SUFFICES ASSUME o.short = letter
                       PROVE  FALSE
          OBVIOUS
        <5>2. arg \in ToSet(commands[CommandAt(d)].options)
          BY <2>1, <2>2, <4>3
        <5>3. arg = o
          BY <2>2, <3>4, <5>1, <5>2 DEF OwnsLetter
        <5> QED BY <3>4, <4>1, <5>3
      <4> QED BY <2>6, <2>7, <4>2, <4>4
    <3>5. ToSet(parser'.letters) \subseteq ToSet(args[Done].name)
      BY <2>6, <2>7, <3>1
    <3>6. \A d \in 0 .. Depth - 1 : \A o \in ToSet(commands[CommandAt(d)].options) :
            o.required => \E i \in 1 .. Done : i \in MentionsOf(d, o)
      BY <1>0 DEF MentionInv
    <3>7. BeforeSuffix(Done)' = BeforeSuffix(Done) /\ DepthOf(Done)' = DepthOf(Done)
      BY <1>0, <2>8, <2>9 DEF BeforeSuffix, DepthOf, WordsBefore
    <3> QED BY <1>0, <2>8, <2>9, <3>1, <3>3, <3>4, <3>5, <3>6, <3>7 DEF MentionInv
  <2>15. OneOutcome' /\ BuiltCommandsParse'
    BY <1>0, <2>9 DEF OneOutcome, BuiltCommandsParse
  <2> QED BY <1>0, <2>9, <2>10, <2>11, <2>12, <2>13, <2>14, <2>15
          DEF CommandLineInv, ParsingInv, Parsing
<1>3. ASSUME letter \in DOMAIN parser.short_option_table
      PROVE  ParseArg(p, arg, q.value, FALSE)
  BY <1>3 DEF ParseShortOption
<1>4. letter \in DOMAIN parser.short_option_table => Fail(1) \/ Proceed
  <2> HIDE DEF p, arg, q, letter
  <2> QED BY <1>3 DEF ParseArg
<1>5. letter \notin DOMAIN parser.short_option_table => Fail(1)
  BY DEF ParseShortOption
<1> HIDE DEF p, arg, q, letter, name
<1> QED BY <1>1, <1>2, <1>3, <1>4, <1>5
(* A value is refused, or goes to the positional argument whose turn it is. *)
LEMMA ParsedPositional ==
  ASSUME CommandInv(Command), NEW p, IsParser(p), p.positional_arg_index \in Nat, NEW arg,
         ParsePositionalArg(p, arg)
  PROVE  \/ Fail(1)
         \/ /\ Proceed /\ IsParser(parser')
            /\ parser'.command = p.command /\ parser'.parsed = p.parsed
            /\ parser'.short_option_table = p.short_option_table
            /\ parser'.letters = p.letters /\ parser'.positional_arg_index \in Nat
            /\ parser'.appending => parser'.positional_arg_index < Len(Command.positional_args)
            /\ parser'.meta_action = NoAction => p.meta_action = NoAction
<1> DEFINE index      == p.positional_arg_index + 1
           positional == Command.positional_args[index]
           appending  == positional.append
           next       == IF appending THEN p.positional_arg_index ELSE index
           q          == [p EXCEPT !.appending = appending]
           r          == [q EXCEPT !.positional_arg_index = next]
<1>1. /\ index > Len(Command.positional_args) => Fail(1)
      /\ ~(index > Len(Command.positional_args)) => ParseArg(r, positional, arg.text, FALSE)
  BY DEF ParsePositionalArg
<1>2. Len(Command.positional_args) \in Nat
  <2>1. Command.positional_args \in Seq(ToSet(Command.positional_args))
    BY DEF CommandInv, IsCommand, IsSequence
  <2> QED BY <2>1
<1>3. /\ next \in Nat
      /\ ~(index > Len(Command.positional_args)) /\ appending => next < Len(Command.positional_args)
  BY <1>2
<1> HIDE DEF index, positional, appending, next
<1>4. p = [command |-> p.command, parsed |-> p.parsed, short_option_table |-> p.short_option_table,
           positional_arg_index |-> p.positional_arg_index, appending |-> p.appending,
           empty_positional |-> p.empty_positional, letters |-> p.letters, value |-> p.value,
           meta_action |-> p.meta_action]
  BY DEF IsParser
<1>5. q = [command |-> p.command, parsed |-> p.parsed, short_option_table |-> p.short_option_table,
           positional_arg_index |-> p.positional_arg_index, appending |-> appending,
           empty_positional |-> p.empty_positional, letters |-> p.letters, value |-> p.value,
           meta_action |-> p.meta_action]
  BY <1>4
<1> HIDE DEF q
<1>6. r = [command |-> p.command, parsed |-> p.parsed, short_option_table |-> p.short_option_table,
           positional_arg_index |-> next, appending |-> appending,
           empty_positional |-> p.empty_positional, letters |-> p.letters, value |-> p.value,
           meta_action |-> p.meta_action]
  BY <1>5
<1> HIDE DEF r
<1>7. /\ IsParser(r) /\ r.command = p.command /\ r.parsed = p.parsed
      /\ r.short_option_table = p.short_option_table /\ r.positional_arg_index = next
      /\ r.appending = appending /\ r.letters = p.letters /\ r.meta_action = p.meta_action
  BY <1>6 DEF IsParser
<1>8. CASE ~(index > Len(Command.positional_args)) /\ ~Fail(1)
  <2>1. /\ Proceed
        /\ parser' = [r EXCEPT !.meta_action = IF positional.meta = NoAction THEN r.meta_action
                                                ELSE positional.meta]
    BY <1>1, <1>8 DEF ParseArg
  <2>2. /\ IsParser(parser') /\ parser'.command = r.command /\ parser'.parsed = r.parsed
        /\ parser'.short_option_table = r.short_option_table
        /\ parser'.positional_arg_index = r.positional_arg_index
        /\ parser'.appending = r.appending /\ parser'.letters = r.letters
        /\ parser'.meta_action = IF positional.meta = NoAction THEN r.meta_action
                                  ELSE positional.meta
    BY <1>7, <2>1, ParsedArgument
  <2> QED BY <1>3, <1>7, <1>8, <2>1, <2>2
<1> QED BY <1>1, <1>8

(* A word is a positional argument. *)
LEMMA ParsePositionalKeepsInvariant ==
  ASSUME CommandLineInv, ParsePositional
  PROVE  CommandLineInv'
<1>0. /\ InLoop /\ IsWord(Current) /\ Command.positional_args # <<>> /\ mode = "parse" /\ Parsing
      /\ parser.letters = <<>> /\ ParserInv /\ TableInv
  BY DEF ParsePositional, InLoop, Parsing, CommandLineInv, ParsingInv
<1>1. CommandInv(Command)
  BY <1>0, SelectedCommand
<1>2. Taken /\ ParsePositionalArg(parser, Current)
  BY <1>0, <1>1 DEF ParsePositional, CommandInv
<1>3. UNCHANGED <<description, builders, commands>>
  BY <1>2 DEF Taken
<1>4. CASE Fail(1)
  BY <1>0, <1>3, <1>4, FailureKeepsInvariant
<1>5. CASE ~Fail(1)
  <2>1. /\ Proceed /\ IsParser(parser')
        /\ parser'.command = parser.command /\ parser'.parsed = parser.parsed
        /\ parser'.short_option_table = parser.short_option_table
        /\ parser'.letters = parser.letters /\ parser'.positional_arg_index \in Nat
        /\ parser'.appending => parser'.positional_arg_index < Len(Command.positional_args)
        /\ parser'.meta_action = NoAction => parser.meta_action = NoAction
    <3>1. IsParser(parser) /\ parser.positional_arg_index \in Nat
      BY <1>0 DEF ParserInv
    <3> QED BY <1>1, <1>2, <1>5, <3>1, ParsedPositional
  <2>2. ~IsLong(Current) /\ ~IsShort(Current) /\ ~IsEnd(Current)
    BY <1>0 DEF IsWord
  <2>3. \A o : ~Mentions(Current, o)
    BY <2>2 DEF Mentions
  <2>4. parser'.letters = <<>> /\ IsSequence(parser'.letters)
    BY <1>0, <2>1, EmptySequence
  <2> QED BY <1>0, <1>2, <2>1, <2>2, <2>3, <2>4, LoopStepKeepsInvariant
<1> QED BY <1>4, <1>5

(* A word that can be nothing is an error. *)
LEMMA UnexpectedWordKeepsInvariant ==
  ASSUME CommandLineInv, UnexpectedWord
  PROVE  CommandLineInv'
<1>1. Parsing /\ Fail(1) /\ UNCHANGED <<description, builders, commands>>
  BY DEF UnexpectedWord, InLoop, Parsing, Taken
<1> QED BY <1>1, FailureKeepsInvariant
(* The elements of a sequence are finitely many. *)
LEMMA ElementsAreFinite ==
  ASSUME NEW s, IsSequence(s)
  PROVE  IsFiniteSet(ToSet(s))
<1>1. Len(s) \in Nat /\ DOMAIN s = 1 .. Len(s)
  BY DEF IsSequence
<1> DEFINE T == ToSet(s)
           f == [i \in 1 .. Len(s) |-> s[i]]
<1>2. IsFiniteSet(1 .. Len(s))
  BY <1>1, FS_Interval
<1>3. f \in Surjection(1 .. Len(s), T)
  BY <1>1 DEF Surjection, ToSet
<1> HIDE DEF f, T
<1>4. IsFiniteSet(T)
  BY <1>2, <1>3, FS_Surjection
<1> QED BY <1>4 DEF T

(* The prefixes of a sequence stay when something is appended. *)
LEMMA PrefixOfAppend ==
  ASSUME NEW s, IsSequence(s), NEW e, NEW d \in 0 .. Len(s)
  PROVE  SubSeq(Append(s, e), 1, d) = SubSeq(s, 1, d)
<1> DEFINE t == Append(s, e)
           a == SubSeq(t, 1, d)
           b == SubSeq(s, 1, d)
           S == ToSet(s)
<1>1. Len(s) \in Nat /\ \A i \in 1 .. Len(s) : t[i] = s[i]
  BY AppendToSequence
<1>2. \A i \in 1 .. Len(s) : s[i] \in S
  BY DEF IsSequence
<1>3. \A i \in 1 .. d : i \in 1 .. Len(s)
  BY <1>1
<1> HIDE DEF t, S
<1>4. \A i \in 1 .. d : t[i] \in S /\ s[i] \in S /\ t[i] = s[i]
  BY <1>1, <1>2, <1>3
<1>5. d \in Nat
  BY <1>1
<1>6. /\ a \in Seq(S) /\ Len(a) = IF 1 <= d THEN d - 1 + 1 ELSE 0
      /\ \A i \in 1 .. d - 1 + 1 : a[i] = t[1 + i - 1]
  BY <1>4, <1>5, SubSeqProperties
<1>7. /\ b \in Seq(S) /\ Len(b) = IF 1 <= d THEN d - 1 + 1 ELSE 0
      /\ \A i \in 1 .. d - 1 + 1 : b[i] = s[1 + i - 1]
  BY <1>4, <1>5, SubSeqProperties
<1> HIDE DEF a, b
<1>8. Len(a) = d /\ Len(b) = d
  BY <1>5, <1>6, <1>7
<1>9. \A i \in 1 .. d : a[i] = b[i]
  BY <1>4, <1>5, <1>6, <1>7
<1>10. a = b
  BY <1>6, <1>7, <1>8, <1>9
<1> QED BY <1>10 DEF a, b, t

(* The required options that were not parsed are reported. *)
LEMMA MissingOptionsFail ==
  ASSUME CommandLineInv, Parsing, MissingOptions # {}, Fail(Cardinality(MissingOptions)),
         UNCHANGED <<description, builders, commands>>
  PROVE  CommandLineInv'
<1> DEFINE M == MissingOptions
           n == Cardinality(M)
<1>1. CommandInv(Command)
  BY SelectedCommand DEF CommandLineInv, ParsingInv
<1>2. IsFiniteSet(ToSet(Command.options))
  BY <1>1, ElementsAreFinite DEF CommandInv, IsCommand
<1>3. M \in SUBSET ToSet(Command.options)
  BY DEF MissingOptions, Unparsed
<1> HIDE DEF M
<1>4. IsFiniteSet(M)
  BY <1>2, <1>3, FS_Subset
<1>5. M # {} /\ Fail(n)
  BY DEF M
<1>6. n \in Nat /\ n # 0
  BY <1>4, <1>5, FS_CardinalityType, FS_EmptySet
<1>7. n \in Nat \ {0}
  BY <1>6
<1>8. \E count \in Nat \ {0} : Fail(count)
  <2>1. \E count \in Nat \ {0} : count = n
    BY <1>7
  <2>2. PICK count \in Nat \ {0} : count = n
    BY <2>1
  <2> QED BY <1>5, <2>2 DEF Fail
<1>9. PICK count \in Nat \ {0} : Fail(count)
  BY <1>8
<1> QED BY <1>9, FailureKeepsInvariant

(* A command with a short name that does not fit: the parser aborts at it. *)
LEMMA UnfitShortNamesKeepInvariant ==
  ASSUME CommandLineInv, NEW path, IsParser(parser), mode # "ended",
         UNCHANGED <<description, builders, commands>>,
         PopulateMaps(path), ~ShortNamesFit(commands[path].options)
  PROVE  CommandLineInv'
<1>1. /\ mode' = "aborted" /\ outcome' = outcome /\ outcome = Initially /\ TableInv
      /\ parser' = [parser EXCEPT !.command = path] /\ description' \in Descriptions
  BY DEF PopulateMaps, CommandLineInv
<1>2. parser'.command = path
  BY <1>1 DEF IsParser
<1>3. Command' = commands[path]
  BY <1>2 DEF Command
<1>4. BuiltCommandsParse'
  BY <1>3 DEF BuiltCommandsParse, ShortNamesFit
<1>5. TableInv' /\ OneOutcome'
  BY <1>1 DEF TableInv, OneOutcome
<1> QED BY <1>1, <1>4, <1>5 DEF CommandLineInv, ParsingInv, Parsing

(* A subcommand is selected: the words so far are the path that leads to   *)
(* it, and so what the arguments so far mention is the same as before.     *)
LEMMA SelectionKeepsInvariant ==
  ASSUME CommandLineInv, InLoop, IsWord(Current), Taken,
         Command.positional_args = <<>>, Contains(Command.subcommands, Current.text),
         MissingOptions = {}, PopulateMaps(Append(parser.command, Current.text)),
         ShortNamesFit(commands[Append(parser.command, Current.text)].options)
  PROVE  CommandLineInv'
<1> DEFINE path == Append(parser.command, Current.text)
<1>0. /\ mode = "parse" /\ mode' = mode /\ outcome' = outcome /\ parser.letters = <<>>
      /\ unparsed # <<>> /\ unparsed' = Tail(unparsed)
      /\ UNCHANGED <<description, builders, commands, args>>
      /\ ParserInv /\ TableInv /\ ArgsInv /\ WordsInv /\ MentionInv
  BY DEF CommandLineInv, InLoop, ParsingInv, Parsing, Taken, PopulateMaps
<1>1. /\ Done \in Nat /\ Done + 1 \in DOMAIN args /\ DOMAIN args = 1 .. Len(args)
      /\ Len(args) \in Nat /\ args[Done + 1] = Current /\ Done' = Done + 1
      /\ IsSequence(unparsed') /\ Len(unparsed') <= Len(args)
      /\ \A i \in 1 .. Len(unparsed') : unparsed'[i] = args[Done' + i]
  BY <1>0, TakenArgument
<1>2. /\ Depth \in Nat /\ CommandAt(Depth) = parser.command
      /\ commands[CommandAt(Depth)] = Command /\ CommandInv(Command)
  BY <1>0, SelectedCommand
<1>3. path \in DOMAIN commands
  <2>1. PICK i \in 1 .. Len(Command.subcommands) : Command.subcommands[i] = Current.text
    BY DEF Contains
  <2>2. DOMAIN Command.subcommands = 1 .. Len(Command.subcommands)
    BY <1>2 DEF CommandInv, IsCommand, IsSequence
  <2>3. parser.command \in DOMAIN commands /\ Command = commands[parser.command]
    BY <1>0 DEF ParserInv, Command
  <2> QED BY <1>0, <2>1, <2>2, <2>3 DEF TableInv
<1>4. /\ IsSequence(path) /\ Len(path) = Depth + 1
      /\ \A d \in 0 .. Depth : SubSeq(path, 1, d) = CommandAt(d)
  <2>1. IsSequence(parser.command)
    BY <1>0 DEF ParserInv
  <2>2. ASSUME NEW d \in 0 .. Len(parser.command)
        PROVE  SubSeq(path, 1, d) = SubSeq(parser.command, 1, d)
    BY <2>1, PrefixOfAppend
  <2> QED BY <2>1, <2>2, AppendToSequence DEF Depth, CommandAt
<1> HIDE DEF path
<1>5. PICK table \in ShortOptionTables(commands[path].options) :
        parser' = [parser EXCEPT !.command = path, !.parsed = {}, !.short_option_table = table]
  BY DEF PopulateMaps, path
<1>6. /\ IsParser(parser') /\ parser'.command = path /\ parser'.parsed = {}
      /\ parser'.short_option_table = table
      /\ parser'.positional_arg_index = parser.positional_arg_index
      /\ parser'.appending = parser.appending /\ parser'.letters = parser.letters
      /\ parser'.meta_action = parser.meta_action
  <2> DEFINE none == {}
             q == [parser EXCEPT !.command = path]
             r == [q EXCEPT !.parsed = none]
  <2>1. parser' = [r EXCEPT !.short_option_table = table]
    BY <1>5
  <2> HIDE DEF none
  <2>2. parser = [command |-> parser.command, parsed |-> parser.parsed,
                  short_option_table |-> parser.short_option_table,
                  positional_arg_index |-> parser.positional_arg_index,
                  appending |-> parser.appending, empty_positional |-> parser.empty_positional,
                  letters |-> parser.letters, value |-> parser.value,
                  meta_action |-> parser.meta_action]
    BY <1>0 DEF ParserInv, IsParser
  <2>3. q = [command |-> path, parsed |-> parser.parsed,
             short_option_table |-> parser.short_option_table,
             positional_arg_index |-> parser.positional_arg_index,
             appending |-> parser.appending, empty_positional |-> parser.empty_positional,
             letters |-> parser.letters, value |-> parser.value,
             meta_action |-> parser.meta_action]
    BY <2>2
  <2> HIDE DEF q
  <2>4. r = [command |-> path, parsed |-> none,
             short_option_table |-> parser.short_option_table,
             positional_arg_index |-> parser.positional_arg_index,
             appending |-> parser.appending, empty_positional |-> parser.empty_positional,
             letters |-> parser.letters, value |-> parser.value,
             meta_action |-> parser.meta_action]
    BY <2>3
  <2> HIDE DEF r
  <2>5. parser' = [command |-> path, parsed |-> none, short_option_table |-> table,
                   positional_arg_index |-> parser.positional_arg_index,
                   appending |-> parser.appending, empty_positional |-> parser.empty_positional,
                   letters |-> parser.letters, value |-> parser.value,
                   meta_action |-> parser.meta_action]
    BY <2>1, <2>4
  <2> QED BY <2>5 DEF IsParser, none
<1>7. /\ Depth' = Depth + 1 /\ Command' = commands[path]
      /\ \A i : WordsBefore(i)' = WordsBefore(i) /\ BeforeSuffix(i)' = BeforeSuffix(i)
      /\ \A d \in 0 .. Depth : CommandAt(d)' = CommandAt(d)
  BY <1>0, <1>4, <1>6 DEF Depth, Command, WordsBefore, BeforeSuffix, CommandAt
<1>8. /\ WordsBefore(Done + 1) = Depth /\ WordsBefore(Done + 2) = Depth + 1
  <2>1. WordsBefore(Done + 1) = Depth
    BY <1>0 DEF WordsInv
  <2> QED BY <1>1, <1>2, <2>1, WordsAreCounted
<1>9. ASSUME NEW i \in 1 .. Done
      PROVE  DepthOf(i)' = DepthOf(i) /\ DepthOf(i) \in 0 .. Depth
  <2>1. WordsBefore(i) <= Depth /\ WordsBefore(i) \in Nat
    BY <1>1, <1>8, WordsAreMonotone
  <2>2. DepthOf(i)' = IF WordsBefore(i) < Depth + 1 THEN WordsBefore(i) ELSE Depth + 1
    BY <1>7 DEF DepthOf
  <2> QED BY <1>2, <2>1, <2>2 DEF DepthOf
<1>10. \A d, o : \A i \in 1 .. Done : i \in MentionsOf(d, o)' <=> i \in MentionsOf(d, o)
  BY <1>0, <1>7, <1>9 DEF MentionsOf
<1>11. \A d, o : Done + 1 \notin MentionsOf(d, o)'
  <2>1. \A o : ~Mentions(Current, o)
    BY DEF IsWord, Mentions
  <2> QED BY <1>0, <1>1, <2>1 DEF MentionsOf
<1>12. TableInv'
  BY <1>0 DEF TableInv
<1>13. ParserInv'
  <2>1. ~parser.appending
    <3>1. Len(Command.positional_args) = 0
      BY EmptySeq
    <3> QED BY <1>0, <3>1 DEF ParserInv
  <2>2. parser.positional_arg_index \in Nat /\ IsSequence(parser.letters)
    BY <1>0 DEF ParserInv
  <2> QED BY <1>0, <1>3, <1>4, <1>6, <1>7, <2>1, <2>2 DEF ParserInv
<1>14. ArgsInv'
  <2>1. ~IsEnd(Current)
    BY DEF IsWord
  <2>2. \A i \in 1 .. Done : ~IsEnd(args[i])
    BY <1>0 DEF ArgsInv
  <2>3. \A i \in 1 .. Done + 1 : i \in 1 .. Done \/ i = Done + 1
    BY <1>1
  <2>4. \A i \in 1 .. Done + 1 : ~IsEnd(args[i])
    BY <1>1, <2>1, <2>2, <2>3
  <2> QED BY <1>0, <1>1, <2>4 DEF ArgsInv
<1>15. WordsInv'
  <2>1. WordsBefore(Done + 1)' = WordsBefore(Done + 2)
    <3>1. Done' + 1 = Done + 2
      BY <1>1
    <3> QED BY <1>0, <3>1 DEF WordsBefore
  <2> QED BY <1>2, <1>7, <1>8, <2>1 DEF WordsInv
<1>16. ASSUME NEW i \in 1 .. Done + 1
       PROVE  i \in 1 .. Done \/ i = Done + 1
  BY <1>1
<1>17. \A i \in 1 .. Done : i \in 1 .. Done + 1
  BY <1>1
<1>18. MentionInv'
  <2>1. ASSUME NEW d \in 0 .. Depth, NEW o \in ToSet(commands[CommandAt(d)].options), o.required
        PROVE  \E i \in 1 .. Done + 1 : i \in MentionsOf(d, o)'
    <3>1. \E i \in 1 .. Done : i \in MentionsOf(d, o)
      <4>1. CASE d = Depth
        <5>1. o \in ToSet(Command.options)
          BY <1>2, <4>1
        <5>2. o.name \in parser.parsed
          BY <2>1, <5>1 DEF MissingOptions, Unparsed
        <5> QED BY <1>0, <4>1, <5>1, <5>2 DEF MentionInv
      <4>2. CASE d # Depth
        <5>1. d \in 0 .. Depth - 1
          BY <1>2, <4>2
        <5> QED BY <1>0, <2>1, <5>1 DEF MentionInv
      <4> QED BY <4>1, <4>2
    <3> QED BY <1>10, <1>17, <3>1
  <2>2. ASSUME parser'.meta_action = NoAction, NEW d \in 0 .. Depth + 1,
               NEW o \in ToSet(commands[CommandAt(d)'].options),
               o.meta # NoAction, OwnsLetter(d, o)', NEW i \in 1 .. Done + 1, i \in MentionsOf(d, o)'
        PROVE  FALSE
    <3>1. i \in 1 .. Done
      BY <1>11, <1>16, <2>2
    <3>2. i \in MentionsOf(d, o)
      BY <1>10, <2>2, <3>1
    <3>3. d \in 0 .. Depth
      BY <1>9, <3>1, <3>2 DEF MentionsOf
    <3>4. CommandAt(d)' = CommandAt(d)
      BY <1>7, <3>3
    <3>5. OwnsLetter(d, o) /\ o \in ToSet(commands[CommandAt(d)].options)
      BY <1>0, <2>2, <3>4 DEF OwnsLetter
    <3>6. parser.meta_action = NoAction
      BY <1>6, <2>2
    <3>7. o.short \in ToSet(parser.letters)
      BY <1>0, <2>2, <3>1, <3>2, <3>3, <3>5, <3>6 DEF MentionInv
    <3> QED BY <1>0, <3>7, EmptySequence
  <2>3. parser'.letters = <<>> /\ parser'.parsed = {} /\ Depth' - 1 = Depth
    BY <1>0, <1>2, <1>6, <1>7
  <2>4. \A d \in 0 .. Depth' - 1 : \A o \in ToSet(commands'[CommandAt(d)'].options) :
          o.required => \E i \in 1 .. Done' : i \in MentionsOf(d, o)'
    BY <1>0, <1>1, <1>7, <2>1, <2>3
  <2>5. parser'.meta_action = NoAction =>
         \A d \in 0 .. Depth' : \A o \in ToSet(commands'[CommandAt(d)'].options) :
           o.meta # NoAction /\ OwnsLetter(d, o)' =>
             \A i \in 1 .. Done' : i \in MentionsOf(d, o)' =>
               i = Done' /\ IsShort(args'[i]) /\ o.short \in ToSet(parser'.letters)
    BY <1>0, <1>1, <1>7, <2>2
  <2> QED BY <2>3, <2>4, <2>5 DEF MentionInv
<1>19. OneOutcome' /\ BuiltCommandsParse'
  BY <1>0 DEF OneOutcome, BuiltCommandsParse
<1> QED BY <1>0, <1>12, <1>13, <1>14, <1>15, <1>18, <1>19 DEF CommandLineInv, ParsingInv, Parsing

(* A word names no subcommand, or the options of the command are complete  *)
(* or not when the subcommand is selected.                                 *)
LEMMA ParseSubcommandKeepsInvariant ==
  ASSUME CommandLineInv, ParseSubcommand
  PROVE  CommandLineInv'
<1>1. /\ InLoop /\ IsWord(Current) /\ Taken /\ Parsing /\ Command.positional_args = <<>>
      /\ UNCHANGED <<description, builders, commands>>
  BY DEF ParseSubcommand, InLoop, Parsing, Taken
<1>2. CASE Fail(1)
  BY <1>1, <1>2, FailureKeepsInvariant
<1>3. CASE MissingOptions # {} /\ Fail(Cardinality(MissingOptions))
  BY <1>1, <1>3, MissingOptionsFail
<1>4. CASE /\ Contains(Command.subcommands, Current.text) /\ MissingOptions = {}
           /\ PopulateMaps(Append(parser.command, Current.text))
  <2>1. CASE ShortNamesFit(commands[Append(parser.command, Current.text)].options)
    BY <1>1, <1>4, <2>1, SelectionKeepsInvariant
  <2>2. CASE ~ShortNamesFit(commands[Append(parser.command, Current.text)].options)
    <3>1. IsParser(parser) /\ mode # "ended"
      BY <1>1 DEF CommandLineInv, ParsingInv, ParserInv, Parsing
    <3> QED BY <1>1, <1>4, <2>2, <3>1, UnfitShortNamesKeepInvariant
  <2> QED BY <2>1, <2>2
<1> QED BY <1>2, <1>3, <1>4 DEF ParseSubcommand
(* "--" ends the options; it is not taken yet. *)
LEMMA SwitchToSuffixKeepsInvariant ==
  ASSUME CommandLineInv, SwitchToSuffix
  PROVE  CommandLineInv'
<1>0. /\ mode = "parse" /\ Parsing /\ parser.letters = <<>> /\ unparsed # <<>> /\ IsEnd(Current)
      /\ UNCHANGED <<description, builders, commands, args, unparsed, parser>>
      /\ ParserInv /\ TableInv /\ ArgsInv /\ WordsInv /\ MentionInv
  BY DEF SwitchToSuffix, InLoop, Parsing, Kept, CommandLineInv, ParsingInv
<1>1. CASE Fail(1)
  BY <1>0, <1>1, FailureKeepsInvariant
<1>2. CASE mode' = "suffix" /\ UNCHANGED outcome
  <2>1. Done \in Nat /\ args[Done + 1] = Current
    <3>1. unparsed \in Seq(ToSet(unparsed)) /\ args \in Seq(ToSet(args))
      BY <1>0 DEF ArgsInv, IsSequence
    <3>2. Len(unparsed) \in Nat /\ Len(unparsed) > 0 /\ Len(args) \in Nat /\ Head(unparsed) = unparsed[1]
      BY <1>0, <3>1, EmptySeq
    <3> QED BY <1>0, <3>2 DEF ArgsInv, Current, Done
  <2>2. \E i \in 1 .. Done + 1 : IsEnd(args[i])
    <3>1. Done + 1 \in 1 .. Done + 1
      BY <2>1
    <3> QED BY <1>0, <2>1, <3>1
  <2>3. Done' = Done /\ Command' = Command /\ Depth' = Depth
    BY <1>0 DEF Done, Command, Depth
  <2>4. /\ \A i : WordsBefore(i)' = WordsBefore(i) /\ DepthOf(i)' = DepthOf(i)
        /\ \A i : BeforeSuffix(i)' = BeforeSuffix(i)
        /\ \A d : CommandAt(d)' = CommandAt(d)
        /\ \A d, o : MentionsOf(d, o)' = MentionsOf(d, o) /\ OwnsLetter(d, o)' = OwnsLetter(d, o)
    BY <1>0, SameCommand
  <2>5. TableInv' /\ ParserInv'
    BY <1>0, <2>3 DEF TableInv, ParserInv
  <2>6. ArgsInv'
    BY <1>0, <1>2, <2>2, <2>3 DEF ArgsInv
  <2>7. WordsInv'
    BY <1>2 DEF WordsInv
  <2>8. MentionInv'
    BY <1>0, <2>3, <2>4 DEF MentionInv
  <2>9. OneOutcome' /\ BuiltCommandsParse'
    BY <1>2 DEF OneOutcome, BuiltCommandsParse
  <2> QED BY <1>0, <1>2, <2>5, <2>6, <2>7, <2>8, <2>9 DEF CommandLineInv, ParsingInv, Parsing
<1> QED BY <1>1, <1>2 DEF SwitchToSuffix

(* An argument after the options is taken: it mentions none. *)
LEMMA SuffixStepKeepsInvariant ==
  ASSUME CommandLineInv, InSuffix, Taken, Proceed,
         IsParser(parser'), parser'.command = parser.command, parser'.parsed = parser.parsed,
         parser'.short_option_table = parser.short_option_table,
         parser'.letters = parser.letters, parser'.positional_arg_index \in Nat,
         parser'.appending => parser'.positional_arg_index < Len(Command.positional_args),
         parser'.meta_action = NoAction => parser.meta_action = NoAction
  PROVE  CommandLineInv'
<1>0. /\ mode = "suffix" /\ mode' = mode /\ outcome' = outcome /\ parser.letters = <<>>
      /\ unparsed # <<>> /\ unparsed' = Tail(unparsed)
      /\ UNCHANGED <<description, builders, commands, args>>
      /\ ParserInv /\ TableInv /\ ArgsInv /\ MentionInv
  BY DEF CommandLineInv, InSuffix, ParsingInv, Parsing, Taken, Proceed, ArgsInv
<1>1. /\ Done \in Nat /\ Done + 1 \in DOMAIN args /\ DOMAIN args = 1 .. Len(args)
      /\ Len(args) \in Nat /\ args[Done + 1] = Current /\ Done' = Done + 1
      /\ IsSequence(unparsed') /\ Len(unparsed') <= Len(args)
      /\ \A i \in 1 .. Len(unparsed') : unparsed'[i] = args[Done' + i]
  BY <1>0, TakenArgument
<1>2. PICK end \in 1 .. Done + 1 : IsEnd(args[end])
  BY <1>0 DEF ArgsInv
<1>3. /\ Depth' = Depth /\ Command' = Command
      /\ \A i : WordsBefore(i)' = WordsBefore(i) /\ DepthOf(i)' = DepthOf(i)
      /\ \A i : BeforeSuffix(i)' = BeforeSuffix(i)
      /\ \A d : CommandAt(d)' = CommandAt(d)
      /\ \A d, o : MentionsOf(d, o)' = MentionsOf(d, o) /\ OwnsLetter(d, o)' = OwnsLetter(d, o)
  BY <1>0, SameCommand
<1>4. \A d, o : Done + 1 \notin MentionsOf(d, o)
  BY <1>2 DEF MentionsOf, BeforeSuffix
<1>5. TableInv'
  BY <1>0 DEF TableInv
<1>6. ParserInv'
  BY <1>0, <1>3 DEF ParserInv
<1>7. ArgsInv'
  <2>1. end \in 1 .. Done' + 1
    BY <1>1
  <2> QED BY <1>0, <1>1, <1>2, <2>1 DEF ArgsInv
<1>8. WordsInv'
  BY <1>0 DEF WordsInv
<1>9. ASSUME NEW i \in 1 .. Done + 1
      PROVE  i \in 1 .. Done \/ i = Done + 1
  BY <1>1
<1>10. \A i \in 1 .. Done : i \in 1 .. Done + 1
  BY <1>1
<1>11. MentionInv'
  <2>1. ASSUME NEW d \in 0 .. Depth - 1, NEW o \in ToSet(commands[CommandAt(d)].options), o.required
        PROVE  \E i \in 1 .. Done + 1 : i \in MentionsOf(d, o)
    BY <1>0, <1>10, <2>1 DEF MentionInv
  <2>2. ASSUME NEW o \in ToSet(Command.options), o.name \in parser'.parsed
        PROVE  \E i \in 1 .. Done + 1 : i \in MentionsOf(Depth, o)
    BY <1>0, <1>10, <2>2 DEF MentionInv
  <2>3. ASSUME parser'.meta_action = NoAction, NEW d \in 0 .. Depth,
               NEW o \in ToSet(commands[CommandAt(d)].options),
               o.meta # NoAction, OwnsLetter(d, o), NEW i \in 1 .. Done + 1, i \in MentionsOf(d, o)
        PROVE  FALSE
    <3>1. i \in 1 .. Done
      BY <1>4, <1>9, <2>3
    <3>2. o.short \in ToSet(parser.letters)
      BY <1>0, <2>3, <3>1 DEF MentionInv
    <3> QED BY <1>0, <3>2, EmptySequence
  <2> QED BY <1>0, <1>1, <1>3, <2>1, <2>2, <2>3 DEF MentionInv
<1>12. OneOutcome' /\ BuiltCommandsParse'
  BY <1>0 DEF OneOutcome, BuiltCommandsParse
<1> QED BY <1>0, <1>5, <1>6, <1>7, <1>8, <1>11, <1>12 DEF CommandLineInv, ParsingInv, Parsing

(* After the options every argument is positional. *)
LEMMA ParseSuffixArgKeepsInvariant ==
  ASSUME CommandLineInv, ParseSuffixArg
  PROVE  CommandLineInv'
<1>0. /\ InSuffix /\ Taken /\ Parsing /\ ParserInv /\ TableInv
      /\ UNCHANGED <<description, builders, commands>>
  BY DEF ParseSuffixArg, InSuffix, Parsing, Taken, CommandLineInv, ParsingInv
<1> DEFINE none == FALSE
           p    == [parser EXCEPT !.empty_positional = none]
<1>1. ParsePositionalArg(p, Current)
  BY DEF ParseSuffixArg
<1> HIDE DEF none
<1>2. parser = [command |-> parser.command, parsed |-> parser.parsed,
                short_option_table |-> parser.short_option_table,
                positional_arg_index |-> parser.positional_arg_index,
                appending |-> parser.appending, empty_positional |-> parser.empty_positional,
                letters |-> parser.letters, value |-> parser.value,
                meta_action |-> parser.meta_action]
  BY <1>0 DEF ParserInv, IsParser
<1>3. p = [command |-> parser.command, parsed |-> parser.parsed,
           short_option_table |-> parser.short_option_table,
           positional_arg_index |-> parser.positional_arg_index,
           appending |-> parser.appending, empty_positional |-> none,
           letters |-> parser.letters, value |-> parser.value,
           meta_action |-> parser.meta_action]
  BY <1>2
<1> HIDE DEF p
<1>4. /\ IsParser(p) /\ p.command = parser.command /\ p.parsed = parser.parsed
      /\ p.short_option_table = parser.short_option_table
      /\ p.positional_arg_index = parser.positional_arg_index
      /\ p.letters = parser.letters /\ p.meta_action = parser.meta_action
  BY <1>3 DEF IsParser
<1>5. CommandInv(Command) /\ p.positional_arg_index \in Nat
  BY <1>0, <1>4, SelectedCommand DEF ParserInv
<1>6. CASE Fail(1)
  BY <1>0, <1>6, FailureKeepsInvariant
<1>7. CASE ~Fail(1)
  <2>1. /\ Proceed /\ IsParser(parser')
        /\ parser'.command = p.command /\ parser'.parsed = p.parsed
        /\ parser'.short_option_table = p.short_option_table
        /\ parser'.letters = p.letters /\ parser'.positional_arg_index \in Nat
        /\ parser'.appending => parser'.positional_arg_index < Len(Command.positional_args)
        /\ parser'.meta_action = NoAction => p.meta_action = NoAction
    BY <1>1, <1>4, <1>5, <1>7, ParsedPositional
  <2> QED BY <1>0, <1>4, <2>1, SuffixStepKeepsInvariant
<1> QED BY <1>6, <1>7

(* A further "--" ends a sequence or skips an argument. *)
LEMMA SkipPositionalKeepsInvariant ==
  ASSUME CommandLineInv, SkipPositional
  PROVE  CommandLineInv'
<1>0. /\ InSuffix /\ Taken /\ Parsing /\ ParserInv /\ TableInv
      /\ UNCHANGED <<description, builders, commands>>
  BY DEF SkipPositional, InSuffix, Parsing, Taken, CommandLineInv, ParsingInv
<1>1. CASE Fail(1)
  BY <1>0, <1>1, FailureKeepsInvariant
<1>2. CASE Proceed
  <2> DEFINE skips == parser.appending \/ parser.empty_positional
             next  == parser.positional_arg_index + (IF skips THEN 1 ELSE 0)
             no    == FALSE
             yes   == TRUE
             q     == [parser EXCEPT !.positional_arg_index = next]
             r     == [q EXCEPT !.appending = no]
  <2>1. parser' = [r EXCEPT !.empty_positional = yes]
    BY DEF SkipPositional
  <2>2. next \in Nat
    BY <1>0 DEF ParserInv
  <2> HIDE DEF next, no, yes
  <2>3. parser = [command |-> parser.command, parsed |-> parser.parsed,
                  short_option_table |-> parser.short_option_table,
                  positional_arg_index |-> parser.positional_arg_index,
                  appending |-> parser.appending, empty_positional |-> parser.empty_positional,
                  letters |-> parser.letters, value |-> parser.value,
                  meta_action |-> parser.meta_action]
    BY <1>0 DEF ParserInv, IsParser
  <2>4. q = [command |-> parser.command, parsed |-> parser.parsed,
             short_option_table |-> parser.short_option_table,
             positional_arg_index |-> next,
             appending |-> parser.appending, empty_positional |-> parser.empty_positional,
             letters |-> parser.letters, value |-> parser.value,
             meta_action |-> parser.meta_action]
    BY <2>3
  <2> HIDE DEF q
  <2>5. r = [command |-> parser.command, parsed |-> parser.parsed,
             short_option_table |-> parser.short_option_table,
             positional_arg_index |-> next,
             appending |-> no, empty_positional |-> parser.empty_positional,
             letters |-> parser.letters, value |-> parser.value,
             meta_action |-> parser.meta_action]
    BY <2>4
  <2> HIDE DEF r
  <2>6. parser' = [command |-> parser.command, parsed |-> parser.parsed,
                   short_option_table |-> parser.short_option_table,
                   positional_arg_index |-> next, appending |-> no, empty_positional |-> yes,
                   letters |-> parser.letters, value |-> parser.value,
                   meta_action |-> parser.meta_action]
    BY <2>1, <2>5
  <2>7. /\ IsParser(parser') /\ parser'.command = parser.command
        /\ parser'.parsed = parser.parsed
        /\ parser'.short_option_table = parser.short_option_table
        /\ parser'.letters = parser.letters /\ parser'.positional_arg_index = next
        /\ parser'.appending = no /\ parser'.meta_action = parser.meta_action
    BY <2>6 DEF IsParser
  <2>8. ~parser'.appending /\ parser'.positional_arg_index \in Nat
    BY <2>2, <2>7 DEF no
  <2> QED BY <1>0, <1>2, <2>7, <2>8, SuffixStepKeepsInvariant
<1> QED BY <1>1, <1>2 DEF SkipPositional
(* The outcome of an action, from the one at the start. *)
LEMMA SucceededOutcome ==
  ASSUME outcome = Initially, NEW result, NEW action, Succeed(result, action)
  PROVE  /\ mode' = "ended" /\ outcome'.result = result /\ outcome'.errors = 0
         /\ outcome'.ran = <<action>> /\ outcome'.ran # <<>> /\ Len(outcome'.ran) = 1
<1> DEFINE ran == Append(outcome.ran, action)
           q   == [outcome EXCEPT !.result = result]
<1>1. mode' = "ended" /\ outcome' = [q EXCEPT !.ran = ran]
  BY DEF Succeed, Initially
<1>2. ran = <<action>> /\ ran # <<>> /\ Len(ran) = 1
  <2>1. outcome.ran = <<>>
    BY DEF Initially
  <2>2. ran = Append(<<>>, action)
    BY <2>1
  <2> HIDE DEF ran
  <2> QED BY <2>2
<1> HIDE DEF ran
<1>3. q = [result |-> result, errors |-> 0, ran |-> <<>>]
  BY DEF Initially
<1> HIDE DEF q
<1>4. outcome' = [result |-> result, errors |-> 0, ran |-> ran]
  BY <1>1, <1>3
<1> QED BY <1>1, <1>2, <1>4

(* A meta action is run instead of the action of the command. *)
LEMMA FinalizeMetaKeepsInvariant ==
  ASSUME CommandLineInv, FinalizeMeta
  PROVE  CommandLineInv'
<1>1. /\ Parsing /\ builders = <<>> /\ outcome = Initially /\ mode # "ended"
      /\ Succeed("MetaSuccess", parser.meta_action) /\ UNCHANGED <<description, builders, commands>>
  BY DEF FinalizeMeta, AtEnd, Parsing, Kept, CommandLineInv
<1>2. PICK action : action = parser.meta_action
  OBVIOUS
<1>3. /\ mode' = "ended" /\ outcome'.result = "MetaSuccess" /\ outcome'.errors = 0
      /\ outcome'.ran # <<>> /\ Len(outcome'.ran) = 1
  <2>1. Succeed("MetaSuccess", action)
    BY <1>1, <1>2 DEF Succeed
  <2> QED BY <1>1, <2>1, SucceededOutcome
<1>4. OneOutcome'
  BY <1>3 DEF OneOutcome, Successful
<1>5. TableInv'
  BY <1>1 DEF CommandLineInv, TableInv
<1> QED BY <1>1, <1>3, <1>4, <1>5 DEF CommandLineInv, ParsingInv, Parsing, BuiltCommandsParse

(* When all arguments are parsed and no required option is missing, what   *)
(* the arguments mention is what a success promises.                       *)
LEMMA AllIsMentioned ==
  ASSUME ParserInv, TableInv, ArgsInv, MentionInv, parser.letters = <<>>, unparsed = <<>>,
         MissingOptions = {}, parser.meta_action = NoAction,
         NEW d \in 0 .. Depth, NEW o \in ToSet(commands[CommandAt(d)].options)
  PROVE  /\ o.required => MentionsOf(d, o) # {}
         /\ o.meta # NoAction /\ OwnsLetter(d, o) => MentionsOf(d, o) = {}
<1>1. Depth \in Nat /\ commands[CommandAt(Depth)] = Command
  BY SelectedCommand
<1>2. DOMAIN args = 1 .. Done
  <2>1. Len(args) \in Nat /\ DOMAIN args = 1 .. Len(args)
    BY DEF ArgsInv, IsSequence
  <2>2. Len(unparsed) = 0
    BY EmptySeq
  <2> QED BY <2>1, <2>2 DEF Done
<1>3. ASSUME o.required
      PROVE  \E i \in 1 .. Done : i \in MentionsOf(d, o)
  <2>1. CASE d = Depth
    <3>1. o \in ToSet(Command.options)
      BY <1>1, <2>1
    <3>2. o.name \in parser.parsed
      BY <1>3, <3>1 DEF MissingOptions, Unparsed
    <3> QED BY <2>1, <3>1, <3>2 DEF MentionInv
  <2>2. CASE d # Depth
    <3>1. d \in 0 .. Depth - 1
      BY <1>1, <2>2
    <3> QED BY <1>3, <3>1 DEF MentionInv
  <2> QED BY <2>1, <2>2
<1>4. ASSUME o.meta # NoAction, OwnsLetter(d, o), NEW i \in MentionsOf(d, o)
      PROVE  FALSE
  <2>1. i \in 1 .. Done
    BY <1>2, <1>4 DEF MentionsOf
  <2>2. o.short \in ToSet(parser.letters)
    BY <1>4, <2>1 DEF MentionInv
  <2> QED BY <2>2, EmptySequence
<1> QED BY <1>3, <1>4

(* The action of the selected command is run, or it is an error that an    *)
(* option or a subcommand is missing.                                      *)
LEMMA FinalizeParseKeepsInvariant ==
  ASSUME CommandLineInv, FinalizeParse
  PROVE  CommandLineInv'
<1>0. /\ Parsing /\ parser.letters = <<>> /\ unparsed = <<>> /\ parser.meta_action = NoAction
      /\ ParserInv /\ TableInv /\ ArgsInv /\ MentionInv
      /\ builders = <<>> /\ outcome = Initially
  BY DEF FinalizeParse, AtEnd, Parsing, CommandLineInv, ParsingInv
<1>1. CommandInv(Command)
  BY <1>0, SelectedCommand
<1>2. CASE /\ MissingOptions # {} /\ Fail(Cardinality(MissingOptions))
           /\ UNCHANGED <<description, builders, commands>>
  BY <1>0, <1>2, MissingOptionsFail
<1>3. CASE Fail(1) /\ UNCHANGED <<description, builders, commands>>
  BY <1>0, <1>3, FailureKeepsInvariant
<1>4. CASE Abort /\ Command.kind = "Invalid"
  <2>1. /\ mode' = "aborted" /\ UNCHANGED <<description, builders, commands, parser, outcome>>
    BY <1>4 DEF Abort
  <2>2. Command' = Command
    BY <2>1 DEF Command
  <2>3. TableInv' /\ BuiltCommandsParse' /\ OneOutcome'
    BY <1>0, <1>4, <2>1, <2>2 DEF TableInv, BuiltCommandsParse, OneOutcome
  <2> QED BY <1>0, <2>1, <2>3 DEF CommandLineInv, ParsingInv, Parsing
<1>5. CASE /\ MissingOptions = {} /\ Kept
           /\ \E last : parser' = [parser EXCEPT !.positional_arg_index = last]
           /\ \E result \in {"Success", "MetaSuccess"} : Succeed(result, Command.action)
  <2>1. PICK result \in {"Success", "MetaSuccess"} : Succeed(result, Command.action)
    BY <1>5
  <2>2. PICK action : action = Command.action
    OBVIOUS
  <2>3. /\ mode' = "ended" /\ outcome'.result = result /\ outcome'.errors = 0
        /\ outcome'.ran = <<action>> /\ outcome'.ran # <<>> /\ Len(outcome'.ran) = 1
    <3>1. Succeed(result, action)
      BY <2>1, <2>2 DEF Succeed
    <3> QED BY <1>0, <3>1, SucceededOutcome
  <2>4. UNCHANGED <<description, builders, commands, args, unparsed>>
    BY <1>5 DEF Kept
  <2>5. parser'.command = parser.command
    <3>1. PICK last : parser' = [parser EXCEPT !.positional_arg_index = last]
      BY <1>5
    <3>2. parser = [command |-> parser.command, parsed |-> parser.parsed,
                    short_option_table |-> parser.short_option_table,
                    positional_arg_index |-> parser.positional_arg_index,
                    appending |-> parser.appending, empty_positional |-> parser.empty_positional,
                    letters |-> parser.letters, value |-> parser.value,
                    meta_action |-> parser.meta_action]
      BY <1>0 DEF ParserInv, IsParser
    <3> QED BY <3>1, <3>2
  <2>6. /\ Depth' = Depth /\ Command' = Command
        /\ \A d : CommandAt(d)' = CommandAt(d)
        /\ \A d, o : MentionsOf(d, o)' = MentionsOf(d, o) /\ OwnsLetter(d, o)' = OwnsLetter(d, o)
    BY <2>4, <2>5, SameCommand
  <2>7. \A d \in 0 .. Depth : \A o \in ToSet(commands[CommandAt(d)].options) :
          /\ o.required => MentionsOf(d, o) # {}
          /\ o.meta # NoAction /\ OwnsLetter(d, o) => MentionsOf(d, o) = {}
    BY <1>0, <1>5, AllIsMentioned
  <2>8. OneOutcome'
    BY <2>2, <2>3, <2>4, <2>6, <2>7 DEF OneOutcome, Successful
  <2>9. TableInv'
    BY <1>0, <2>4 DEF TableInv
  <2> QED BY <1>0, <2>3, <2>4, <2>8, <2>9 DEF CommandLineInv, ParsingInv, Parsing, BuiltCommandsParse
<1>6. CASE MissingOptions = {} /\ Command.kind = "Invalid"
  BY <1>4, <1>6 DEF FinalizeParse
<1>7. CASE MissingOptions # {}
  BY <1>2, <1>7 DEF FinalizeParse, Kept
<1>8. CASE MissingOptions = {} /\ Command.kind # "Invalid"
  <2>1. /\ parser.appending => parser.positional_arg_index < Len(Command.positional_args)
        /\ Command.kind = "RequiresSubcommand" => Command.subcommands # <<>>
    BY <1>0, <1>1 DEF ParserInv, CommandInv
  <2>2. /\ Kept /\ \E last : parser' = [parser EXCEPT !.positional_arg_index = last]
        /\ \/ Fail(1) \/ Succeed("Success", Command.action) \/ Succeed("MetaSuccess", Command.action)
    BY <1>8, <2>1 DEF FinalizeParse
  <2> QED BY <1>3, <1>5, <1>8, <2>2 DEF Kept
<1> QED BY <1>6, <1>7, <1>8
-----------------------------------------------------------------------------
(* Building keeps the invariant when it keeps the table of the commands.   *)
LEMMA BuildStepKeepsInvariant ==
  ASSUME CommandLineInv, mode = "build", TableInv',
         UNCHANGED <<description, parser, mode, outcome>>
  PROVE  CommandLineInv'
BY DEF CommandLineInv, ParsingInv, Parsing, OneOutcome, BuiltCommandsParse

(* A description that the builder refuses is refused before any parsing. *)
LEMMA RefusedDescription ==
  ASSUME CommandLineInv, mode = "build", builders # <<>>, Abort
  PROVE  CommandLineInv'
<1>1. mode' = "aborted" /\ UNCHANGED <<description, builders, commands, parser, outcome>>
  BY DEF Abort
<1>2. TableInv'
  BY <1>1 DEF CommandLineInv, TableInv
<1> QED BY <1>1, <1>2 DEF CommandLineInv, ParsingInv, Parsing, OneOutcome, BuiltCommandsParse

(* Options and positional arguments are added, and the kind is set, by     *)
(* calls on the builder of a command that is in the table.                 *)
LEMMA CallsKeepInvariant ==
  ASSUME CommandLineInv, AddArgImpl \/ AddPositionalArgImpl \/ SetKind
  PROVE  CommandLineInv'
<1> DEFINE path == Last(builders).path
           call == Head(Last(builders).calls)
           c    == commands[path]
<1>1. mode = "build" /\ builders # <<>> /\ TableInv
  BY DEF AddArgImpl, AddPositionalArgImpl, SetKind, AtCall, CommandLineInv
<1>2. path \in DOMAIN commands => CommandInv(c)
  BY <1>1 DEF TableInv
<1>3. CASE Abort
  BY <1>1, <1>3, RefusedDescription
<1>4. CASE AddArgImpl /\ ~Abort
  <2> DEFINE d == [c EXCEPT !.options = Append(@, call)]
  <2>1. /\ call.name \notin Names(c.options) /\ commands' = [commands EXCEPT ![path] = d]
        /\ UNCHANGED <<description, parser, mode, outcome>>
    BY <1>4 DEF AddArgImpl
  <2>2. path \in DOMAIN commands => CommandInv(d) /\ d.subcommands = c.subcommands
    <3> HIDE DEF path, call, c
    <3> QED BY <1>2, <2>1, OptionIsAdded
  <2>3. TableInv'
    <3> HIDE DEF path, d
    <3> QED BY <1>1, <2>1, <2>2, ChangedCommandKeepsTable
  <2> QED BY <1>1, <2>1, <2>3, BuildStepKeepsInvariant
<1>5. CASE AddPositionalArgImpl /\ ~Abort
  <2> DEFINE d == [c EXCEPT !.positional_args = Append(@, call)]
  <2>1. /\ c.subcommands = <<>> /\ commands' = [commands EXCEPT ![path] = d]
        /\ UNCHANGED <<description, parser, mode, outcome>>
    BY <1>5 DEF AddPositionalArgImpl
  <2>2. path \in DOMAIN commands => CommandInv(d) /\ d.subcommands = c.subcommands
    <3> HIDE DEF path, call, c
    <3> QED BY <1>2, <2>1, PositionalIsAdded
  <2>3. TableInv'
    <3> HIDE DEF path, d
    <3> QED BY <1>1, <2>1, <2>2, ChangedCommandKeepsTable
  <2> QED BY <1>1, <2>1, <2>3, BuildStepKeepsInvariant
<1>6. CASE SetKind /\ ~Abort
  <2> DEFINE kind   == call.kind
             action == call.action
             d      == [c EXCEPT !.kind = kind, !.action = action]
  <2>1. /\ kind = "RequiresSubcommand" => c.subcommands # <<>>
        /\ commands' = [commands EXCEPT ![path].kind = kind, ![path].action = action]
        /\ UNCHANGED <<description, parser, mode, outcome>>
    BY <1>6 DEF SetKind
  <2>2. path \in DOMAIN commands => CommandInv(d) /\ d.subcommands = c.subcommands
    <3> HIDE DEF path, call, c, kind, action
    <3> QED BY <1>2, <2>1, KindIsSet
  <2>3. commands' = [commands EXCEPT ![path] = d]
    <3> HIDE DEF path, kind, action
    <3> QED BY <2>1
  <2>4. TableInv'
    <3> HIDE DEF path, d
    <3> QED BY <1>1, <2>2, <2>3, ChangedCommandKeepsTable
  <2> QED BY <1>1, <2>1, <2>4, BuildStepKeepsInvariant
<1> QED BY <1>3, <1>4, <1>5, <1>6

(* A subcommand is added to its parent and to the table. *)
LEMMA BuildSubcommandKeepsInvariant ==
  ASSUME CommandLineInv, BuildSubcommand
  PROVE  CommandLineInv'
<1> DEFINE path    == Last(builders).path
           call    == Head(Last(builders).calls)
           name    == call.name
           version == call.version
           sub     == Append(path, name)
           c       == commands[path]
           d       == [c EXCEPT !.subcommands = Append(@, name)]
           table   == [commands EXCEPT ![path] = d]
<1>1. mode = "build" /\ builders # <<>> /\ TableInv
  BY DEF BuildSubcommand, AtCall, CommandLineInv
<1>2. CASE Abort
  BY <1>1, <1>2, RefusedDescription
<1>3. CASE ~Abort
  <2>1. /\ c.positional_args = <<>> /\ commands' = AddCommand(table, sub, version)
        /\ UNCHANGED <<description, parser, mode, outcome>>
    BY <1>3 DEF BuildSubcommand
  <2>2. path \in DOMAIN commands => CommandInv(d) /\ d.subcommands = Append(c.subcommands, name)
    <3>1. path \in DOMAIN commands => CommandInv(c)
      BY <1>1 DEF TableInv
    <3> HIDE DEF name, c
    <3> QED BY <2>1, <3>1, SubcommandIsAdded
  <2>3. path \in DOMAIN commands => IsSequence(c.subcommands)
    BY <1>1 DEF TableInv, CommandInv, IsCommand
  <2> HIDE DEF path, name, version, d, call
  <2>4. DOMAIN table = DOMAIN commands
    OBVIOUS
  <2>5. /\ DOMAIN commands' = DOMAIN commands \union {sub}
        /\ \A p \in DOMAIN commands' : commands'[p] = IF p = sub THEN NewCommand(version)
                                                       ELSE table[p]
    BY <2>1, <2>4 DEF AddCommand
  <2>6. ASSUME NEW p \in DOMAIN commands'
        PROVE  /\ CommandInv(commands'[p])
               /\ \A i \in DOMAIN commands'[p].subcommands :
                    Append(p, commands'[p].subcommands[i]) \in DOMAIN commands'
    <3>1. CASE p = sub
      <4>1. commands'[p] = NewCommand(version)
        BY <2>5, <3>1
      <4>2. CommandInv(commands'[p]) /\ commands'[p].subcommands = <<>>
        BY <4>1, NewCommandIsBuilt
      <4> QED BY <4>2
    <3>2. CASE p # sub /\ p # path
      <4>1. p \in DOMAIN commands /\ commands'[p] = commands[p]
        BY <2>5, <3>2
      <4> QED BY <1>1, <2>5, <4>1 DEF TableInv
    <3>3. CASE p # sub /\ p = path
      <4>1. p \in DOMAIN commands /\ commands'[p] = d
        BY <2>5, <3>3
      <4>2. CommandInv(d) /\ d.subcommands = Append(c.subcommands, name) /\ IsSequence(c.subcommands)
        BY <2>2, <2>3, <3>3, <4>1
      <4>3. \A i \in DOMAIN c.subcommands : Append(path, c.subcommands[i]) \in DOMAIN commands
        BY <1>1, <3>3, <4>1 DEF TableInv
      <4>4. /\ Len(c.subcommands) \in Nat
            /\ DOMAIN d.subcommands = 1 .. Len(c.subcommands) + 1
            /\ \A i \in 1 .. Len(c.subcommands) : d.subcommands[i] = c.subcommands[i]
            /\ d.subcommands[Len(c.subcommands) + 1] = name
        <5> HIDE DEF c
        <5> QED BY <4>2, AppendToSequence
      <4>5. DOMAIN c.subcommands = 1 .. Len(c.subcommands)
        BY <4>2 DEF IsSequence
      <4>6. ASSUME NEW i \in DOMAIN d.subcommands
            PROVE  Append(path, d.subcommands[i]) \in DOMAIN commands'
        <5>1. CASE i \in 1 .. Len(c.subcommands)
          BY <2>5, <4>3, <4>4, <4>5, <5>1
        <5>2. CASE i = Len(c.subcommands) + 1
          BY <2>5, <4>4, <5>2
        <5> QED BY <4>4, <5>1, <5>2
      <4> QED BY <3>3, <4>1, <4>2, <4>6
    <3> QED BY <3>1, <3>2, <3>3
  <2>7. <<>> \in DOMAIN commands'
    BY <1>1, <2>5 DEF TableInv
  <2>8. TableInv'
    BY <2>6, <2>7 DEF TableInv
  <2> QED BY <1>1, <2>1, <2>8, BuildStepKeepsInvariant
<1> QED BY <1>2, <1>3
(* Parsing starts at the root of the commands, with all arguments. *)
LEMMA FittingStartKeepsInvariant ==
  ASSUME CommandLineInv, StartParse, ShortNamesFit(commands[<<>>].options)
  PROVE  CommandLineInv'
<1> DEFINE root == <<>>
<1>0. /\ mode = "build" /\ mode' = "parse" /\ builders = <<>> /\ parser = NewParser
      /\ UNCHANGED <<description, builders, commands, outcome>>
      /\ description \in Descriptions /\ TableInv /\ outcome = Initially
  BY DEF StartParse, PopulateMaps, CommandLineInv
<1>1. PICK list \in CommandLines(description) : args' = list /\ unparsed' = list
  BY DEF StartParse
<1>2. /\ IsSequence(list)
      /\ \A i \in DOMAIN list : /\ list[i].dashes = 1 => IsSequence(list[i].name)
                                /\ list[i].text = "--" => list[i].dashes = 2
  BY <1>0, CommandLinesAssumption DEF IsSequence
<1>3. Len(list) \in Nat /\ DOMAIN list = 1 .. Len(list)
  BY <1>2 DEF IsSequence
<1>4. PICK table \in ShortOptionTables(commands[root].options) :
        parser' = [parser EXCEPT !.command = root, !.parsed = {}, !.short_option_table = table]
  BY DEF StartParse, PopulateMaps
<1>5. /\ IsParser(parser') /\ parser'.command = <<>> /\ parser'.parsed = {}
      /\ parser'.short_option_table = table /\ parser'.positional_arg_index = 0
      /\ parser'.appending = FALSE /\ parser'.letters = <<>>
  BY <1>0, <1>4 DEF NewParser, IsParser
<1>6. Done' = 0 /\ Depth' = 0 /\ Command' = commands[root]
  <2>1. Len(<<>>) = 0
    OBVIOUS
  <2> QED BY <1>0, <1>1, <1>3, <1>5, <2>1 DEF Done, Depth, Command
<1>7. TableInv'
  BY <1>0 DEF TableInv
<1>8. ParserInv'
  <2>1. root \in DOMAIN commands /\ IsSequence(root)
    BY <1>0, EmptySequence DEF TableInv
  <2> QED BY <1>0, <1>5, <1>6, <2>1 DEF ParserInv
<1>9. ArgsInv'
  <2>1. \A i \in 1 .. Len(list) : list[i] = list[0 + i]
    BY <1>3
  <2>2. Len(list) <= Len(list)
    BY <1>3
  <2> QED BY <1>0, <1>1, <1>2, <1>3, <1>6, <2>1, <2>2 DEF ArgsInv, IsEnd
<1>10. WordsInv'
  <2>1. { j \in 1 .. (Done' + 1) - 1 : IsWord(args'[j]) } = {}
    BY <1>6
  <2>2. WordsBefore(Done + 1)' = 0
    BY <2>1, FS_EmptySet DEF WordsBefore
  <2> QED BY <1>6, <2>2 DEF WordsInv
<1>11. MentionInv'
  BY <1>5, <1>6 DEF MentionInv
<1>12. OneOutcome' /\ BuiltCommandsParse'
  BY <1>0 DEF OneOutcome, BuiltCommandsParse
<1> QED BY <1>0, <1>7, <1>8, <1>9, <1>10, <1>11, <1>12 DEF CommandLineInv, ParsingInv, Parsing

(* Parsing starts, or the root has a short name that does not fit. *)
LEMMA StartParseKeepsInvariant ==
  ASSUME CommandLineInv, StartParse
  PROVE  CommandLineInv'
<1>1. CASE ShortNamesFit(commands[<<>>].options)
  BY <1>1, FittingStartKeepsInvariant
<1>2. CASE ~ShortNamesFit(commands[<<>>].options)
  <2>1. /\ mode # "ended" /\ UNCHANGED <<description, builders, commands>>
        /\ PopulateMaps(<<>>) /\ parser = NewParser
    BY DEF StartParse, CommandLineInv
  <2>2. IsParser(parser)
    BY <2>1 DEF NewParser, IsParser
  <2> QED BY <1>2, <2>1, <2>2, UnfitShortNamesKeepInvariant
<1> QED BY <1>1, <1>2

(* Nothing of the invariant changes when nothing changes. *)
LEMMA StutteringKeepsInvariant ==
  ASSUME CommandLineInv, UNCHANGED vars
  PROVE  CommandLineInv'
<1>1. /\ UNCHANGED <<description, builders, commands, args, unparsed, parser, mode, outcome>>
      /\ parser'.command = parser.command
  BY DEF vars
<1>2. /\ Depth' = Depth /\ Command' = Command
      /\ \A i : WordsBefore(i)' = WordsBefore(i) /\ DepthOf(i)' = DepthOf(i)
      /\ \A i : BeforeSuffix(i)' = BeforeSuffix(i)
      /\ \A d : CommandAt(d)' = CommandAt(d)
      /\ \A d, o : MentionsOf(d, o)' = MentionsOf(d, o) /\ OwnsLetter(d, o)' = OwnsLetter(d, o)
  BY <1>1, SameCommand
<1>3. Done' = Done
  BY <1>1 DEF Done
<1>4. TableInv' <=> TableInv
  BY <1>1 DEF TableInv
<1>5. ParserInv' <=> ParserInv
  BY <1>1, <1>2 DEF ParserInv
<1>6. ArgsInv' <=> ArgsInv
  BY <1>1, <1>3 DEF ArgsInv
<1>7. WordsInv' <=> WordsInv
  <2>1. WordsBefore(Done + 1)' = WordsBefore(Done + 1)
    BY <1>1, <1>3 DEF WordsBefore
  <2> QED BY <1>1, <1>2, <2>1 DEF WordsInv
<1>8. MentionInv' <=> MentionInv
  <2>1. BeforeSuffix(Done)' = BeforeSuffix(Done) /\ DepthOf(Done)' = DepthOf(Done)
    BY <1>1, <1>2, <1>3 DEF BeforeSuffix, DepthOf, WordsBefore
  <2> QED BY <1>1, <1>2, <1>3, <2>1 DEF MentionInv
<1>9. (OneOutcome' <=> OneOutcome) /\ (BuiltCommandsParse' <=> BuiltCommandsParse)
  BY <1>1, <1>2 DEF OneOutcome, BuiltCommandsParse, Successful, ShortNamesFit
<1> QED BY <1>1, <1>4, <1>5, <1>6, <1>7, <1>8, <1>9 DEF CommandLineInv, ParsingInv, Parsing

(* Before the first call of the build callback there is the root only. *)
LEMMA InitImpliesInvariant == Init => CommandLineInv
<1> SUFFICES ASSUME Init
             PROVE  CommandLineInv
  OBVIOUS
<1>1. /\ commands = [path \in {<<>>} |-> NewCommand(description.version)]
      /\ mode = "build" /\ parser = NewParser /\ outcome = Initially /\ description \in Descriptions
  BY DEF Init, Initially
<1>2. TableInv
  <2>1. CommandInv(commands[<<>>]) /\ commands[<<>>].subcommands = <<>>
    BY <1>1, NewCommandIsBuilt
  <2> QED BY <1>1, <2>1 DEF TableInv
<1> QED BY <1>1, <1>2 DEF CommandLineInv, ParsingInv, Parsing, OneOutcome, BuiltCommandsParse

(* Every step keeps the invariant. *)
LEMMA NextKeepsInvariant ==
  ASSUME CommandLineInv, [Next]_vars
  PROVE  CommandLineInv'
<1>1. CASE AddArgImpl \/ AddPositionalArgImpl \/ SetKind
  BY <1>1, CallsKeepInvariant
<1>2. CASE BuildSubcommand
  BY <1>2, BuildSubcommandKeepsInvariant
<1>3. CASE Finalize \/ EndBuild
  <2>1. mode = "build" /\ UNCHANGED <<description, commands, parser, mode, outcome>>
    BY <1>3 DEF Finalize, EndBuild
  <2>2. TableInv'
    BY <2>1 DEF CommandLineInv, TableInv
  <2> QED BY <2>1, <2>2, BuildStepKeepsInvariant
<1>4. CASE StartParse
  BY <1>4, StartParseKeepsInvariant
<1>5. CASE ParseLongOption
  BY <1>5, ParseLongOptionKeepsInvariant
<1>6. CASE ParseShortOptionSeq
  BY <1>6, ParseShortOptionSeqKeepsInvariant
<1>7. CASE ParseShortOption
  BY <1>7, ParseShortOptionKeepsInvariant
<1>8. CASE ParsePositional
  BY <1>8, ParsePositionalKeepsInvariant
<1>9. CASE UnexpectedWord
  BY <1>9, UnexpectedWordKeepsInvariant
<1>10. CASE ParseSubcommand
  BY <1>10, ParseSubcommandKeepsInvariant
<1>11. CASE SwitchToSuffix
  BY <1>11, SwitchToSuffixKeepsInvariant
<1>12. CASE ParseSuffixArg
  BY <1>12, ParseSuffixArgKeepsInvariant
<1>13. CASE SkipPositional
  BY <1>13, SkipPositionalKeepsInvariant
<1>14. CASE FinalizeMeta
  BY <1>14, FinalizeMetaKeepsInvariant
<1>15. CASE FinalizeParse
  BY <1>15, FinalizeParseKeepsInvariant
<1>16. CASE UNCHANGED vars
  BY <1>16, StutteringKeepsInvariant
<1> QED BY <1>1, <1>2, <1>3, <1>4, <1>5, <1>6, <1>7, <1>8, <1>9, <1>10, <1>11, <1>12, <1>13,
           <1>14, <1>15, <1>16 DEF Next, Build, Parse, Ended

-----------------------------------------------------------------------------
(* The invariant holds of every description of commands and every command  *)
(* line: the table of the commands stays closed under its subcommands, and *)
(* what Parser remembers agrees with what the arguments mention.           *)
THEOREM CommandLineIsInvariant == Spec => []CommandLineInv
BY InitImpliesInvariant, NextKeepsInvariant, PTL DEF Spec

(* One outcome, for any commands and arguments: Parse prints an error if   *)
(* and only if it returns Error, runs one action otherwise, and runs the   *)
(* action of the command only when the required options of all commands on *)
(* the way are in the arguments and no option with an action of its own.   *)
THEOREM AlwaysOneOutcome == Spec => []OneOutcome
<1>1. CommandLineInv => OneOutcome
  BY DEF CommandLineInv
<1> QED BY <1>1, CommandLineIsInvariant, PTL

(* Built commands parse, for any commands and arguments: no check of the   *)
(* Parser fails on commands that the CommandBuilder let pass, unless the   *)
(* selected command has a short name that is not the single letter which   *)
(* ArgInfo asks for and PopulateMaps checks first, or was never given a    *)
(* kind.                                                                   *)
THEOREM BuiltCommandsAlwaysParse == Spec => []BuiltCommandsParse
<1>1. CommandLineInv => BuiltCommandsParse
  BY DEF CommandLineInv
<1> QED BY <1>1, CommandLineIsInvariant, PTL
=============================================================================
