--------------------------- MODULE MCCommandLine ---------------------------
(***************************************************************************)
(* The driver's own command line, some that use what the driver does not   *)
(* (several positional arguments, required and appending options, nested   *)
(* subcommands, letters that options share, a command without an action, a *)
(* short name of two characters), and descriptions the builder refuses;    *)
(* each with all short lists of the arguments that concern it.  The one    *)
(* with an appending default is for the run that is about it.              *)
(***************************************************************************)
EXTENDS CommandLineProperties

Word(text) ==
  [text |-> text, dashes |-> 0, negated |-> FALSE, name |-> text, value |-> NoValue]
Long(name) ==
  [text |-> "--" \o name, dashes |-> 2, negated |-> FALSE, name |-> name, value |-> NoValue]
LongValue(name, value) ==
  [text |-> "--" \o name \o "=" \o value, dashes |-> 2, negated |-> FALSE,
   name |-> name, value |-> value]
Negated(name) ==
  [text |-> "--no-" \o name, dashes |-> 2, negated |-> TRUE, name |-> name,
   value |-> NoValue]
Short(text, letters) ==
  [text |-> text, dashes |-> 1, negated |-> FALSE, name |-> letters, value |-> NoValue]
ShortValue(text, letters, value) == [Short(text, letters) EXCEPT !.value = value]
Dash == Short("-", <<>>)
End == [Word("--") EXCEPT !.dashes = 2, !.name = ""]

-----------------------------------------------------------------------------
(* The command line of the driver as lib/Driver/Driver.cc describes it. *)
Phases == {"lex", "parse", "check", "lower", "codegen"}

CompileFlags ==
  <<"asm-output", "force-obj-output", "stream-errors", "dump-tokens",
    "dump-parse-tree", "preorder-parse-tree", "dump-raw-sem-ir", "dump-sem-ir",
    "builtin-sem-ir", "dump-llvm-ir", "dump-asm">>

CompileOptions ==
  <<Required(AppendValues(AddStringPositionalArg("FILE"))),
    AddOneOfOption("phase", Phases, "codegen"),
    AddStringOption("output"),
    Default(AddStringOption("target"), "host")>>
  \o [i \in DOMAIN CompileFlags |-> AddFlag(CompileFlags[i])]

Options ==
  <<ShortName(AddFlag("verbose"), "v"),
    AddSubcommand("compile", FALSE, Append(CompileOptions, Do("Compile"))),
    RequiresSubcommand>>

DriverDescription == [version |-> TRUE, calls |-> Options]

-----------------------------------------------------------------------------
Diff ==
  [version |-> FALSE,
   calls |-> <<ShortName(AddFlag("all"), "a"),
               ShortName(Default(AddFlag("brief"), "true"), "b"),
               ShortName(Default(AddIntegerOption("context"), 3), "c"),
               AppendValues(AddIntegerOption("width")),
               Required(AppendValues(AddStringPositionalArg("OLD"))),
               AppendValues(AddStringPositionalArg("NEW")),
               Do("Diff")>>]

Copy ==
  [version |-> TRUE,
   calls |-> <<ShortName(Required(AddStringOption("mode")), "m"),
               AppendValues(AddOneOfOption("keep", {"time", "owner"}, NoValue)),
               AddStringPositionalArg("SOURCE"),
               AddStringPositionalArg("TARGET"),
               AppendValues(AddStringPositionalArg("MORE")),
               Do("Copy")>>]

Repeat ==
  [version |-> FALSE,
   calls |-> <<AddIntegerPositionalArg("COUNT"),
               AppendValues(AddOneOfPositionalArg("WHAT", {"a", "b"})),
               AppendValues(AddIntegerPositionalArg("DELAYS")),
               Do("Repeat")>>]

Remote ==
  [version |-> FALSE,
   calls |-> <<ShortName(Required(AddFlag("config")), "c"),
               AddSubcommand("remote", TRUE,
                 <<ShortName(AddFlag("config"), "f"),
                   AddSubcommand("add", FALSE, <<Required(AddStringOption("url")), Do("Add")>>),
                   Do("List")>>),
               Do("Status")>>]

\* Two options share a letter.
Shared ==
  [version |-> FALSE,
   calls |-> <<ShortName(AddFlag("all"), "a"),
               ShortName(MetaAction(AddFlag("about"), "About"), "a"),
               ShortName(AddFlag("brief"), "b"),
               Do("List")>>]

\* The root command does nothing.
Unfinished ==
  [version |-> FALSE,
   calls |-> <<AddFlag("all"), AddSubcommand("list", FALSE, <<Do("List")>>)>>]

\* A short name of two characters, in a subcommand.
LongLetter ==
  [version |-> FALSE,
   calls |-> <<AddFlag("all"),
               AddSubcommand("list", FALSE, <<ShortName(AddFlag("brief"), "br"), Do("List")>>),
               Do("Status")>>]

Refuse(calls) == [version |-> FALSE, calls |-> calls]

RefusedDescriptions ==
  { Refuse(<<AddFlag("all"), AddStringOption("all")>>),
    Refuse(<<AddFlag("no-all")>>),
    Refuse(<<AddOneOfOption("help", {"full"}, NoValue), Do("Run")>>),
    Refuse(<<AppendValues(AddOneOfOption("keep", {"time"}, "time"))>>),
    Refuse(<<AddStringPositionalArg("OLD"), Required(AddStringPositionalArg("NEW"))>>),
    Refuse(<<AddStringPositionalArg("OLD"), AddSubcommand("sub", FALSE, <<Do("Sub")>>)>>),
    Refuse(<<AddSubcommand("sub", FALSE, <<Do("Sub")>>), AddStringPositionalArg("OLD")>>),
    Refuse(<<AddSubcommand("help", FALSE, <<Do("Sub")>>), Do("Run")>>),
    Refuse(<<RequiresSubcommand>>),
    Refuse(<<Do("Run"), Meta("Run")>>) }

MCDescriptions ==
  {DriverDescription, Diff, Copy, Repeat, Remote, Shared, Unfinished, LongLetter}
    \union RefusedDescriptions

MCDriverDescriptions == {DriverDescription}

-----------------------------------------------------------------------------
RootTokens ==
  {Long("verbose"), Negated("verbose"), Short("-v", <<"v">>), Long("help"),
   Long("version"), Word("compile"), Word("help"), Word("version"), Word("a"), End}

CompileTokens ==
  {LongValue("phase", "check"), LongValue("phase", "link"), Long("phase"),
   Long("output"), LongValue("output", "o"), Long("dump-asm"),
   LongValue("dump-asm", "false"), Long("verbose"), Long("help"), Word("a"),
   Word("b"), Dash, End}

DiffTokens ==
  {Short("-a", <<"a">>), Short("-abc", <<"a", "b", "c">>), Negated("brief"),
   ShortValue("-c=7", <<"c">>, "7"), ShortValue("-ac=7", <<"a", "c">>, "7"),
   LongValue("context", "x"), LongValue("width", "7"), LongValue("width", "80"),
   Word("a"), Word("b"), End}

CopyTokens ==
  {ShortValue("-m=7", <<"m">>, "7"), LongValue("mode", "all"), Long("mode"),
   LongValue("keep", "time"), LongValue("keep", "owner"), LongValue("version", "7"),
   Short("-x", <<"x">>), Word("a"), Word("b"), End}

RemoteTokens ==
  {Short("-c", <<"c">>), Short("-f", <<"f">>), Negated("config"), Word("remote"),
   Word("add"), Long("help"), LongValue("help", "short"), LongValue("url", "a"),
   Negated("help")}

Lists(prefix, tokens, n) == { prefix \o list : list \in BoundedSeq(tokens, n) }

MCCommandLines(d) ==
  CASE d = DriverDescription -> Lists(<<>>, RootTokens, 3)
                                \union Lists(<<Word("compile")>>, CompileTokens, 3)
    [] d = Diff   -> Lists(<<>>, DiffTokens, 4)
    [] d = Copy   -> Lists(<<>>, CopyTokens, 4)
                     \union Lists(<<LongValue("mode", "all")>>,
                                  {Word("a"), Word("b"), LongValue("keep", "time"), End}, 6)
    [] d = Repeat -> Lists(<<>>, {Word("7"), Word("80"), Word("a"), Dash, End}, 5)
    [] d = Remote -> Lists(<<>>, RemoteTokens, 4)
    [] d = Shared -> Lists(<<>>, {Short("-a", <<"a">>), Short("-ba", <<"b", "a">>),
                                  Negated("all"), Long("about"), Long("brief")}, 3)
    [] d \in {Unfinished, LongLetter} ->
         Lists(<<>>, {Long("all"), Word("list"), Long("help")}, 2)
    [] OTHER      -> {<<>>}

MCAsInteger == ("7" :> 7) @@ ("80" :> 80)
=============================================================================
