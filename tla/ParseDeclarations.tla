------------------------- MODULE ParseDeclarations -------------------------
(***************************************************************************)
(* The handlers of declarations: scopes, names and parameters, functions,  *)
(* types, variables, namespaces and the package directive.  A family of    *)
(* states ...AsX that shares a static function is one action over the      *)
(* table of its variants.                                                  *)
(***************************************************************************)
EXTENDS ParseContext

(* HandleDeclarationScopeLoop: the state pushed for each introducer. *)
IntroducerState ==
  [Class      |-> "TypeIntroducerAsClass",
   Constraint |-> "TypeIntroducerAsNamedConstraint",
   Fn         |-> "FunctionIntroducer",
   Interface  |-> "TypeIntroducerAsInterface",
   Namespace  |-> "Namespace",
   Var        |-> "VarAsSemicolon",
   Let        |-> "Let"]

(* Mutant: the declaration is diagnosed but not skipped. *)
DiagnoseUnrecognizedDeclaration == Step(nodes, state_stack, position, {position})

HandleUnrecognizedDeclaration ==
  LET skip == SkipPastLikelyEnd(position, position) IN
  Step(AddLeafNode(nodes, "EmptyDeclaration", OrElse(skip.semi, position), TRUE),
       state_stack, skip.position, {position})

HandleDeclarationScopeLoop ==
  /\ At("DeclarationScopeLoop")
  /\ \/ /\ PositionKind \in {"CloseCurlyBrace", "EndOfFile"}
        /\ Step(nodes, Popped, position, {})
     \/ /\ PositionKind \in DOMAIN IntroducerState
        /\ Step(nodes, Append(state_stack, Here(IntroducerState[PositionKind])),
                position, {})
     \/ /\ PositionKind = "Semi"
        /\ Step(ConsumedLeaf("EmptyDeclaration"), state_stack, position + 1, {})
     \/ /\ PositionKind \notin {"CloseCurlyBrace", "EndOfFile", "Semi"}
                                 \union DOMAIN IntroducerState
        /\ HandleUnrecognizedDeclaration

-----------------------------------------------------------------------------
(* Names and parameters. *)

NameAndParams ==
  { [state |-> "DeclarationNameAndParamsAsNone",
     after |-> "DeclarationNameAndParamsAfterNameAsNone"],
    [state |-> "DeclarationNameAndParamsAsOptional",
     after |-> "DeclarationNameAndParamsAfterNameAsOptional"],
    [state |-> "DeclarationNameAndParamsAsRequired",
     after |-> "DeclarationNameAndParamsAfterNameAsRequired"] }

HandleDeclarationNameAndParams ==
  \E v \in NameAndParams :
    /\ At(v.state)
    /\ \/ /\ PositionKind = "Identifier"
          /\ Kind(position + 1) = "Period"
          /\ Step(ConsumedLeaf("NameExpression"),
                  Popped \o <<TopAs(v.after), TopAs("PeriodAsDeclaration")>>,
                  position + 1, {})
       \/ /\ PositionKind = "Identifier"
          /\ Kind(position + 1) # "Period"
          /\ Step(ConsumedLeaf("Name"), Append(Popped, TopAs(v.after)),
                  position + 1, {})
       \/ /\ PositionKind # "Identifier"
          /\ Step(AddLeafNode(nodes, "InvalidParse", position, FALSE),
                  ReturnErrorOnState(Popped), position, {position})

HandleDeclarationNameAndParamsAfterName ==
  \E v \in NameAndParams :
    /\ At(v.after)
    /\ \/ /\ PositionKind = "Period"
          /\ Step(nodes, Append(state_stack, TopAs("PeriodAsDeclaration")),
                  position, {})
       \/ /\ PositionKind # "Period"
          /\ v.state = "DeclarationNameAndParamsAsNone"
          /\ Step(nodes, Popped, position, {})
       \/ /\ PositionKind = "OpenSquareBracket"
          /\ v.state # "DeclarationNameAndParamsAsNone"
          /\ Step(nodes,
                  Popped \o <<Here("DeclarationNameAndParamsAfterDeduced"),
                              Here("ParameterListAsDeduced")>>,
                  position, {})
       \/ /\ PositionKind = "OpenParen"
          /\ v.state # "DeclarationNameAndParamsAsNone"
          /\ Step(nodes, Append(Popped, Here("ParameterListAsRegular")), position, {})
       \/ /\ PositionKind \notin {"Period", "OpenSquareBracket", "OpenParen"}
          /\ v.state = "DeclarationNameAndParamsAsOptional"
          /\ Step(nodes, Popped, position, {})
       \/ /\ PositionKind \notin {"Period", "OpenSquareBracket", "OpenParen"}
          /\ v.state = "DeclarationNameAndParamsAsRequired"
          /\ Step(nodes, ReturnErrorOnState(Popped), position, {position})

HandleDeclarationNameAndParamsAfterDeduced ==
  /\ At("DeclarationNameAndParamsAfterDeduced")
  /\ IF PositionKind = "OpenParen"
     THEN Step(nodes, Append(Popped, Here("ParameterListAsRegular")), position, {})
     ELSE Step(nodes, ReturnErrorOnState(Popped), position, {position})

ParameterKind ==
  { [list |-> "ParameterListAsDeduced", finish |-> "ParameterListFinishAsDeduced",
     param |-> "ParameterAsDeduced", param_finish |-> "ParameterFinishAsDeduced",
     pattern |-> "PatternAsDeducedParameter",
     start_node |-> "DeducedParameterListStart", node |-> "DeducedParameterList",
     open |-> "OpenSquareBracket"],
    [list |-> "ParameterListAsRegular", finish |-> "ParameterListFinishAsRegular",
     param |-> "ParameterAsRegular", param_finish |-> "ParameterFinishAsRegular",
     pattern |-> "PatternAsParameter",
     start_node |-> "ParameterListStart", node |-> "ParameterList",
     open |-> "OpenParen"] }

HandleParameterList ==
  \E v \in ParameterKind :
    /\ At(v.list)
    /\ LET ns == ConsumedLeaf(v.start_node) IN
       CheckedStep(PositionKind = v.open, ns,
         Popped \o <<Here(v.finish)>> \o
           (IF Kind(position + 1) = ClosingSymbol(v.open) THEN <<>>
            ELSE <<Entry(v.param, position + 1, ns)>>),
         position + 1, {})

HandleParameter ==
  \E v \in ParameterKind :
    /\ At(v.param)
    /\ Step(nodes, Popped \o <<Here(v.param_finish), Here(v.pattern)>>, position, {})

HandleParameterFinish ==
  \E v \in ParameterKind :
    /\ At(v.param_finish)
    /\ LET close == ClosingSymbol(v.open)
           error == ListError(close, Top.has_error)
           item  == ConsumeListToken("ParameterListComma", close, nodes)
           stack == ReturnErrorIf(Top.has_error \/ error, Popped)
       IN  CheckedStep(ListElementEnds(close), item.nodes,
             IF item.token_kind = "Comma"
             THEN Append(stack, Entry(v.param, item.position, item.nodes))
             ELSE stack,
             item.position, DiagnosedIf(error))

HandleParameterListFinish ==
  \E v \in ParameterKind :
    /\ At(v.finish)
    /\ CheckedStep(PositionKind = ClosingSymbol(v.open),
         AddTopNode(v.node, position, Top.has_error), Popped, position + 1, {})

-----------------------------------------------------------------------------
(* Patterns. *)

PatternStates ==
  {"PatternAsDeducedParameter", "PatternAsParameter", "PatternAsVariable", "PatternAsLet"}

(* ConsumeIfPatternKeyword: the state it pushes, if the keyword is at pos. *)
PatternKeyword(pos, keyword, state) ==
  IF Kind(pos) = keyword
  THEN <<StateStackEntry(state, ForTopLevelExpression, ForTopLevelExpression,
                         pos, Top.subtree_start)>>
  ELSE <<>>

HandlePattern ==
  \E s \in PatternStates :
    /\ At(s)
    /\ LET template == IF s = "PatternAsVariable" THEN <<>>
                       ELSE PatternKeyword(position, "Template", "PatternTemplate")
           addr     == IF s = "PatternAsVariable" THEN <<>>
                       ELSE PatternKeyword(position + Len(template), "Addr",
                                           "PatternAddress")
           stack    == Popped \o template \o addr
           name     == position + Len(template) + Len(addr)
           is_name  == \/ Kind(name) = "Identifier"
                       \/ /\ s = "PatternAsDeducedParameter"
                          /\ Kind(name) = "SelfValueIdentifier"
           after    == IF is_name THEN name + 1 ELSE name
           name_ns  == AddLeafNode(nodes,
                         IF Kind(name) = "SelfValueIdentifier" /\ is_name
                         THEN "SelfValueName" ELSE "Name",
                         name, ~is_name)
       IN
       IF is_name /\ Kind(after) \in {"Colon", "ColonExclaim"}
       THEN Step(name_ns,
              stack \o <<[TopAs(IF Kind(after) = "Colon" THEN "PatternFinishAsRegular"
                                ELSE "PatternFinishAsGeneric") EXCEPT !.token = after],
                         ExpressionEntry(ForType, after + 1, name_ns)>>,
              after + 1, {})
       ELSE Step(AddLeafNode(name_ns, "InvalidParse", after, TRUE),
              Append(stack, [TopAs("PatternFinishAsRegular") EXCEPT !.has_error = TRUE]),
              after, {after})

(* HandlePatternFinish, HandlePatternAddress and HandlePatternTemplate. *)
PatternNode ==
  [PatternFinishAsRegular |-> "PatternBinding",
   PatternFinishAsGeneric |-> "GenericPatternBinding",
   PatternAddress         |-> "Address",
   PatternTemplate        |-> "Template"]

HandlePatternFinish ==
  \E s \in DOMAIN PatternNode :
    /\ At(s)
    /\ Step(AddTopNode(PatternNode[s], Top.token, Top.has_error),
            ReturnErrorIf(Top.has_error, Popped), position, {})

-----------------------------------------------------------------------------
(* Functions. *)

HandleFunctionIntroducer ==
  /\ At("FunctionIntroducer")
  /\ LET ns == ConsumedLeaf("FunctionIntroducer") IN
     Step(ns, Popped \o <<TopAs("FunctionAfterParameters"),
                          Entry("DeclarationNameAndParamsAsRequired", Top.token, ns)>>,
          position + 1, {})

HandleFunctionAfterParameters ==
  /\ At("FunctionAfterParameters")
  /\ \/ /\ PositionKind = "MinusGreater"
        /\ Step(nodes,
             Popped \o <<TopAs("FunctionSignatureFinish"),
                         Here("FunctionReturnTypeFinish"),
                         ExpressionEntry(ForType, position + 1, nodes)>>,
             position + 1, {})
     \/ /\ PositionKind # "MinusGreater"
        /\ Step(nodes, Append(Popped, TopAs("FunctionSignatureFinish")), position, {})

HandleFunctionReturnTypeFinish ==
  /\ At("FunctionReturnTypeFinish")
  /\ Step(AddTopNode("ReturnType", Top.token, Top.has_error), Popped, position, {})

HandleFunctionSignatureFinish ==
  /\ At("FunctionSignatureFinish")
  /\ \/ /\ PositionKind = "Semi"
        /\ Step(AddTopNode("FunctionDeclaration", position, Top.has_error),
                Popped, position + 1, {})
     \/ /\ PositionKind = "OpenCurlyBrace"
        /\ GetDeclarationContext \in {"Interface", "NamedConstraint"}
        /\ RecoverFromDeclarationError("FunctionDeclaration", TRUE, {position})
     \/ /\ PositionKind = "OpenCurlyBrace"
        /\ GetDeclarationContext \notin {"Interface", "NamedConstraint"}
        /\ LET ns == AddTopNode("FunctionDefinitionStart", position, Top.has_error) IN
           CheckedStep(GetDeclarationContext # "unreachable", ns,
             Popped \o <<[TopAs("FunctionDefinitionFinish") EXCEPT !.has_error = FALSE],
                         Entry("StatementScopeLoop", position + 1, ns)>>,
             position + 1, {})
     \/ /\ PositionKind \notin {"Semi", "OpenCurlyBrace"}
        /\ RecoverFromDeclarationError("FunctionDeclaration",
             tokens[position].line = tokens[Top.token].line,
             DiagnosedIf(~Top.has_error))

HandleFunctionDefinitionFinish ==
  /\ At("FunctionDefinitionFinish")
  /\ Step(AddTopNode("FunctionDefinition", position, Top.has_error),
          Popped, position + 1, {})

-----------------------------------------------------------------------------
(* Classes, interfaces and named constraints. *)

TypeKind ==
  { [introducer |-> "TypeIntroducerAsClass", after |-> "TypeAfterParamsAsClass",
     finish |-> "TypeDefinitionFinishAsClass", introducer_node |-> "ClassIntroducer",
     declaration |-> "ClassDeclaration", start |-> "ClassDefinitionStart",
     definition |-> "ClassDefinition"],
    [introducer |-> "TypeIntroducerAsInterface", after |-> "TypeAfterParamsAsInterface",
     finish |-> "TypeDefinitionFinishAsInterface",
     introducer_node |-> "InterfaceIntroducer",
     declaration |-> "InterfaceDeclaration", start |-> "InterfaceDefinitionStart",
     definition |-> "InterfaceDefinition"],
    [introducer |-> "TypeIntroducerAsNamedConstraint",
     after |-> "TypeAfterParamsAsNamedConstraint",
     finish |-> "TypeDefinitionFinishAsNamedConstraint",
     introducer_node |-> "NamedConstraintIntroducer",
     declaration |-> "NamedConstraintDeclaration",
     start |-> "NamedConstraintDefinitionStart",
     definition |-> "NamedConstraintDefinition"] }

HandleTypeIntroducer ==
  \E v \in TypeKind :
    /\ At(v.introducer)
    /\ LET ns == ConsumedLeaf(v.introducer_node) IN
       Step(ns, Popped \o <<TopAs(v.after),
                  Entry("DeclarationNameAndParamsAsOptional", Top.token, ns)>>,
            position + 1, {})

HandleTypeAfterParams ==
  \E v \in TypeKind :
    /\ At(v.after)
    /\ \/ /\ Top.has_error
          /\ RecoverFromDeclarationError(v.declaration, TRUE, {})
       \/ /\ ~Top.has_error
          /\ PositionKind = "Semi"
          /\ Step(AddTopNode(v.declaration, position, FALSE), Popped, position + 1, {})
       \/ /\ ~Top.has_error
          /\ PositionKind \notin {"Semi", "OpenCurlyBrace"}
          /\ RecoverFromDeclarationError(v.declaration, TRUE, {position})
       \/ /\ ~Top.has_error
          /\ PositionKind = "OpenCurlyBrace"
          /\ Step(AddTopNode(v.start, position, FALSE),
                  Popped \o <<TopAs(v.finish), Here("DeclarationScopeLoop")>>,
                  position + 1, {})

HandleTypeDefinitionFinish ==
  \E v \in TypeKind :
    /\ At(v.finish)
    /\ Step(AddTopNode(v.definition, position, Top.has_error), Popped, position + 1, {})

-----------------------------------------------------------------------------
(* Variables: var and let. *)

VarFinishState == [VarAsSemicolon |-> "VarFinishAsSemicolon", VarAsFor |-> "VarFinishAsFor"]

HandleVar ==
  \E s \in DOMAIN VarFinishState :
    /\ At(s)
    /\ LET ns == ConsumedLeaf("VariableIntroducer") IN
       Step(ns, Popped \o <<Here(VarFinishState[s]), Here("VarAfterPattern"),
                            Entry("PatternAsVariable", position + 1, ns)>>,
            position + 1, {})

(* Where a faulty pattern is taken to end: SkipTo the next `=` or `;`. *)
AfterPattern ==
  IF Top.has_error THEN OrElse(FindNextOf(position, {"Equal", "Semi"}), position)
  ELSE position

HandleVarAfterPattern ==
  /\ At("VarAfterPattern")
  /\ LET ns == AddLeafNode(nodes, "VariableInitializer", AfterPattern, FALSE) IN
     IF Kind(AfterPattern) = "Equal"
     THEN Step(ns, Append(Popped, Entry("Expression", AfterPattern + 1, ns)),
               AfterPattern + 1, {})
     ELSE Step(nodes, Popped, AfterPattern, {})

HandleVarFinishAsSemicolon ==
  /\ At("VarFinishAsSemicolon")
  /\ FinishAtSemi("VariableDeclaration")

HandleVarFinishAsFor ==
  /\ At("VarFinishAsFor")
  /\ \/ /\ PositionKind = "In"
        /\ Step(AddTopNode("ForIn", position, Top.has_error), Popped, position + 1, {})
     \/ /\ PositionKind = "Colon"
        /\ Step(AddTopNode("ForIn", position, TRUE), Popped, position + 1, {position})
     \/ /\ PositionKind \notin {"In", "Colon"}
        /\ Step(AddTopNode("ForIn", Top.token, TRUE), Popped, position, {position})

HandleLet ==
  /\ At("Let")
  /\ LET ns == ConsumedLeaf("LetIntroducer") IN
     Step(ns, Popped \o <<Here("LetFinish"), Here("LetAfterPattern"),
                          Entry("PatternAsLet", position + 1, ns)>>,
          position + 1, {})

HandleLetAfterPattern ==
  /\ At("LetAfterPattern")
  /\ LET ns == AddLeafNode(nodes, "LetInitializer", AfterPattern, FALSE) IN
     IF Kind(AfterPattern) = "Equal"
     THEN Step(ns, Append(Popped, Entry("Expression", AfterPattern + 1, ns)),
               AfterPattern + 1, {})
     ELSE IF Top.has_error THEN Step(nodes, Popped, AfterPattern, {})
     ELSE Step(nodes, ReturnErrorOnState(Popped), position, {position})

HandleLetFinish ==
  /\ At("LetFinish")
  /\ FinishAtSemi("LetDeclaration")

-----------------------------------------------------------------------------
(* Namespaces and the package directive. *)

HandleNamespace ==
  /\ At("Namespace")
  /\ LET ns == ConsumedLeaf("NamespaceStart") IN
     Step(ns, Popped \o <<TopAs("NamespaceFinish"),
                          Entry("DeclarationNameAndParamsAsNone", Top.token, ns)>>,
          position + 1, {})

HandleNamespaceFinish ==
  /\ At("NamespaceFinish")
  /\ \/ /\ Top.has_error
        /\ RecoverFromDeclarationError("Namespace", TRUE, {})
     \/ /\ ~Top.has_error
        /\ PositionKind = "Semi"
        /\ Step(AddTopNode("Namespace", position, FALSE), Popped, position + 1, {})
     \/ /\ ~Top.has_error
        /\ PositionKind # "Semi"
        /\ RecoverFromDeclarationError("Namespace", TRUE, {position})

(* exit_on_parse_error, at pos with the tree ns. *)
ExitPackage(ns, pos) ==
  LET skip == SkipPastLikelyEnd(pos, Top.token) IN
  Step(AddNode(ns, "PackageDirective", OrElse(skip.semi, Top.token),
               Top.subtree_start, TRUE),
       Popped, skip.position, {pos})

HandlePackage ==
  /\ At("Package")
  /\ LET name        == position + 1
         intro_ns    == ConsumedLeaf("PackageIntroducer")
         name_ns     == AddLeafNode(intro_ns, "Name", name, FALSE)
         has_library == Kind(name + 1) = "Library"
         library_ns  == AddNode(AddLeafNode(name_ns, "Literal", name + 2, FALSE),
                                "PackageLibrary", name + 1, Len(name_ns), FALSE)
         api         == IF has_library THEN name + 3 ELSE name + 1
         before_api  == IF has_library THEN library_ns ELSE name_ns
         api_ns      == AddLeafNode(before_api,
                          IF Kind(api) = "Api" THEN "PackageApi" ELSE "PackageImpl",
                          api, FALSE)
     IN
     IF Kind(name) # "Identifier" THEN ExitPackage(intro_ns, name)
     ELSE IF has_library /\ Kind(name + 2) # "StringLiteral"
     THEN ExitPackage(name_ns, name + 2)
     ELSE IF Kind(api) \notin {"Api", "Impl"} THEN ExitPackage(before_api, api)
     ELSE IF Kind(api + 1) # "Semi" THEN ExitPackage(api_ns, api + 1)
     ELSE Step(AddNode(api_ns, "PackageDirective", api + 1, Top.subtree_start, FALSE),
               Popped, api + 2, {})

=============================================================================
