---------------------------- MODULE ParseContext ----------------------------
(***************************************************************************)
(* Parse::Context: what every handler of the parser works on.              *)
(*                                                                         *)
(* Tokens are numbered from 1.  A token carries its kind, its line, the    *)
(* indentation of that line, whether white space follows it and, for an    *)
(* opening symbol, the token that closes it (0 otherwise).                 *)
(***************************************************************************)
EXTENDS Integers, Sequences, FiniteSets, TokenBuffer, NodeKinds, Precedence

CONSTANT TokenBuffers   (* the token buffers the lexer may hand over *)

(* What Tree::Parse requires of the buffer.  The lexer provides all of it  *)
(* but the StartOfFile token (Lexer): without that one the first           *)
(* ConsumeChecked of Tree::Parse fails and nothing is parsed.              *)
IsTokenBuffer(buf) ==
  /\ buf \in Seq(Token)
  /\ \A i \in 1 .. Len(buf) : buf[i].kind \in TokenKind
  /\ StartsFile(buf)
  /\ EndsFile(buf)
  /\ GroupsMatched(buf)

ASSUME TokenBuffersAssumption == \A buf \in TokenBuffers : IsTokenBuffer(buf)

VARIABLES
  tokens,        (* the token buffer being parsed                          *)
  position,      (* the next token to consume                              *)
  state_stack,   (* StateStackEntry records, the top is the last           *)
  nodes,         (* Tree::node_impls_, in postorder                        *)
  has_errors,    (* Tree::has_errors_                                      *)
  diagnosed,     (* the tokens at which a diagnostic was emitted           *)
  status         (* "parsing"; "done"; "aborted" by a CHECK or a FATAL     *)

vars == <<tokens, position, state_stack, nodes, has_errors, diagnosed, status>>

End == Len(tokens)

Kind(t) == tokens[t].kind

PositionKind == Kind(position)

-----------------------------------------------------------------------------
(* The tree under construction. *)

AddLeafNode(ns, kind, token, has_error) ==
  Append(ns, [kind |-> kind, has_error |-> has_error, token |-> token,
              subtree_size |-> 1])

(* Mutant: the subtree_size is one too large. *)
AddNodeOneTooLarge(ns, kind, token, subtree_start, has_error) ==
  Append(ns, [kind |-> kind, has_error |-> has_error, token |-> token,
              subtree_size |-> Len(ns) - subtree_start + 2])

AddNode(ns, kind, token, subtree_start, has_error) ==
  Append(ns, [kind |-> kind, has_error |-> has_error, token |-> token,
              subtree_size |-> Len(ns) - subtree_start + 1])

-----------------------------------------------------------------------------
(* The state stack. *)

StateStackEntry(state, ambient, lhs, token, subtree_start) ==
  [state |-> state, has_error |-> FALSE, ambient_precedence |-> ambient,
   lhs_precedence |-> lhs, token |-> token, subtree_start |-> subtree_start]

(* The entry PushState(state, token) pushes when the tree is ns. *)
Entry(state, token, ns) ==
  StateStackEntry(state, ForTopLevelExpression, ForTopLevelExpression,
                  token, Len(ns))

(* PushStateForExpression *)
ExpressionEntry(ambient, token, ns) ==
  StateStackEntry("Expression", ambient, ForTopLevelExpression, token, Len(ns))

Top == state_stack[Len(state_stack)]

(* The stack after PopState. *)
Popped == SubSeq(state_stack, 1, Len(state_stack) - 1)

(* The popped entry, pushed back as another state. *)
TopAs(state) == [Top EXCEPT !.state = state]

ReturnErrorOnState(stack) ==
  [stack EXCEPT ![Len(stack)] = [@ EXCEPT !.has_error = TRUE]]

ReturnErrorIf(cond, stack) == IF cond THEN ReturnErrorOnState(stack) ELSE stack

(* The handler of the top state runs next. *)
At(state) ==
  /\ status = "parsing"
  /\ state_stack # <<>>
  /\ Top.state = state

(* What one handler leaves behind.  A failed CHECK, a FATAL or an          *)
(* llvm_unreachable ends the program where it stands.                      *)
CheckedStep(ok, ns, stack, pos, diags) ==
  \/ /\ ok
     /\ nodes' = ns
     /\ state_stack' = stack
     /\ position' = pos
     /\ diagnosed' = diagnosed \union diags
     /\ has_errors' = (has_errors \/ \E i \in (Len(nodes) + 1) .. Len(ns) : ns[i].has_error)
     /\ UNCHANGED <<tokens, status>>
  \/ /\ ~ok
     /\ status' = "aborted"
     /\ UNCHANGED <<tokens, position, state_stack, nodes, has_errors, diagnosed>>

Step(ns, stack, pos, diags) == CheckedStep(TRUE, ns, stack, pos, diags)

DiagnosedIf(cond) == IF cond THEN {position} ELSE {}

-----------------------------------------------------------------------------
(* Looking ahead and skipping.  A token index 0 stands for std::nullopt.   *)

FirstOf(S) ==
  IF \E p \in S : \A q \in S : p <= q
  THEN CHOOSE p \in S : \A q \in S : p <= q
  ELSE 0

OrElse(token, default) == IF token # 0 THEN token ELSE default

(* The tokens from pos on that a walk meets when it steps from an opening  *)
(* symbol past the one that closes it.                                     *)
AtSameLevel(pos) ==
  { p \in pos .. End : \A q \in pos .. (p - 1) : tokens[q].closing < p }

(* Mutant: the walk leaves the enclosing group. *)
FindNextOfAnywhere(pos, desired_kinds) ==
  FirstOf({ p \in AtSameLevel(pos) : Kind(p) \in desired_kinds })

FindNextOf(pos, desired_kinds) ==
  FirstOf({ p \in AtSameLevel(pos) :
              /\ Kind(p) \in desired_kinds
              /\ \A q \in AtSameLevel(pos) :
                   q < p => Kind(q) \notin ClosingSymbols \union {"EndOfFile"} })

(* SkipPastLikelyEnd(skip_root) from pos: the new position and the `;`     *)
(* found, if any.  The walk starts unconditionally and goes on along the   *)
(* line of skip_root and deeper indented lines.                            *)
SkipPastLikelyEnd(pos, skip_root) ==
  LET SameLineOrIndented(p) ==
        \/ tokens[p].line = tokens[skip_root].line
        \/ tokens[p].indent > tokens[skip_root].indent
      Entered(p) == p = pos \/ (p # End /\ SameLineOrIndented(p))
      stop == FirstOf({ p \in AtSameLevel(pos) :
                ~Entered(p) \/ Kind(p) \in {"CloseCurlyBrace", "Semi"} })
  IN  IF pos = End THEN [position |-> pos, semi |-> 0]
      ELSE IF Entered(stop) /\ Kind(stop) = "Semi"
      THEN [position |-> stop + 1, semi |-> stop]
      ELSE [position |-> stop, semi |-> 0]

(* ConsumeListToken: where the list element ends, and what follows it. *)
ListElementEnd(close_kind) ==
  IF PositionKind \in {"Comma", close_kind} THEN position
  ELSE FindNextOf(position, {"Comma", close_kind})

(* The CHECK that the enclosing group is closed. *)
ListElementEnds(close_kind) == ListElementEnd(close_kind) # 0

ListError(close_kind, already_has_error) ==
  PositionKind \notin {"Comma", close_kind} /\ ~already_has_error

ConsumeListToken(comma_kind, close_kind, ns) ==
  LET element_end == ListElementEnd(close_kind) IN
  IF element_end = 0
  THEN [token_kind |-> "Close", position |-> position, nodes |-> ns]
  ELSE IF Kind(element_end) = close_kind
  THEN [token_kind |-> "Close", position |-> element_end, nodes |-> ns]
  ELSE [token_kind |-> IF Kind(element_end + 1) = close_kind
                       THEN "CommaClose" ELSE "Comma",
        position   |-> element_end + 1,
        nodes      |-> AddLeafNode(ns, comma_kind, element_end, FALSE)]

-----------------------------------------------------------------------------
(* White space rules for operators. *)

HasLeadingWhitespace(t) == t = 1 \/ tokens[t - 1].trailing_space

HasTrailingWhitespace(t) == tokens[t].trailing_space

AssumedStartOfOperand ==
  {"OpenParen", "Identifier", "IntegerLiteral", "RealLiteral", "StringLiteral"}

AssumedEndOfOperand ==
  ClosingSymbols \union
  {"Identifier", "IntegerLiteral", "RealLiteral", "StringLiteral"}

PossibleStartOfOperand ==
  TokenKind \ (ClosingSymbols \union {"Comma", "Semi", "Colon"})

IsLexicallyValidInfixOperator ==
  LET leading_space  == HasLeadingWhitespace(position)
      trailing_space == HasTrailingWhitespace(position)
  IN  \/ leading_space /\ trailing_space
      \/ /\ ~leading_space /\ ~trailing_space
         /\ position # 1
         /\ Kind(position - 1) \in AssumedEndOfOperand
         /\ Kind(position + 1) \in AssumedStartOfOperand

IsTrailingOperatorInfix ==
  /\ position # End
  /\ \/ /\ IsLexicallyValidInfixOperator
        /\ Kind(position + 1) \in PossibleStartOfOperand
     \/ /\ HasLeadingWhitespace(position)
        /\ Kind(position + 1) \in AssumedStartOfOperand

(* Whether DiagnoseOperatorFixity objects to the operator at position. *)
OperatorFixityIsWrong(fixity) ==
  /\ PositionKind \in SymbolTokens
  /\ CASE fixity = "Infix"   -> ~IsLexicallyValidInfixOperator
       [] fixity = "Prefix"  -> \/ HasTrailingWhitespace(position)
                                \/ IsLexicallyValidInfixOperator
       [] fixity = "Postfix" -> \/ HasLeadingWhitespace(position)
                                \/ IsLexicallyValidInfixOperator

DiagnoseOperatorFixity(fixity) ==
  IF OperatorFixityIsWrong(fixity) THEN {position} ELSE {}

-----------------------------------------------------------------------------
(* Shared parts of handlers. *)

(* PushState(state) by a handler that has consumed and added nothing. *)
Here(state) == Entry(state, position, nodes)

(* AddLeafNode(kind, Consume()) *)
ConsumedLeaf(kind) == AddLeafNode(nodes, kind, position, FALSE)

(* AddNode over the subtree of the popped entry. *)
AddTopNode(kind, token, has_error) ==
  AddNode(nodes, kind, token, Top.subtree_start, has_error)

(* Mutant: the missing `;` does not mark the node. *)
FinishUnmarked(kind) ==
  LET skip == IF PositionKind = "Semi" THEN [position |-> position + 1, semi |-> position]
              ELSE SkipPastLikelyEnd(position, Top.token)
  IN  Step(AddTopNode(kind, OrElse(skip.semi, Top.token), Top.has_error), Popped,
           skip.position, DiagnosedIf(PositionKind # "Semi"))

(* The declaration node or statement ends with a `;`, or with whatever     *)
(* SkipPastLikelyEnd finds after a diagnostic.                             *)
FinishAtSemi(kind) ==
  IF PositionKind = "Semi"
  THEN Step(AddTopNode(kind, position, Top.has_error), Popped, position + 1, {})
  ELSE LET skip == SkipPastLikelyEnd(position, Top.token) IN
       Step(AddTopNode(kind, OrElse(skip.semi, Top.token), TRUE), Popped,
            skip.position, {position})

(* Mutant: a missing `(` is not diagnosed. *)
MissingParenInSilence(default_token, start_kind) ==
  IF PositionKind = "OpenParen"
  THEN [found |-> TRUE, token |-> position, position |-> position + 1, diags |-> {},
        nodes |-> AddLeafNode(nodes, start_kind, position, FALSE)]
  ELSE [found |-> FALSE, token |-> default_token, position |-> position, diags |-> {},
        nodes |-> AddLeafNode(nodes, start_kind, default_token, TRUE)]

(* ConsumeAndAddOpenParen: token is the `(`, or default_token if not found. *)
ConsumeAndAddOpenParen(default_token, start_kind) ==
  IF PositionKind = "OpenParen"
  THEN [found |-> TRUE, token |-> position, position |-> position + 1, diags |-> {},
        nodes |-> AddLeafNode(nodes, start_kind, position, FALSE)]
  ELSE [found |-> FALSE, token |-> default_token, position |-> position,
        diags |-> {position},
        nodes |-> AddLeafNode(nodes, start_kind, default_token, TRUE)]

(* ConsumeAndAddCloseSymbol for the popped entry; ok holds SkipTo's CHECKs. *)
ConsumeAndAddCloseSymbol(expected_open, close_kind) ==
  LET match == tokens[expected_open].closing IN
  IF Kind(expected_open) \notin OpeningSymbols
  THEN [ok |-> TRUE, position |-> position, diags |-> {},
        nodes |-> AddTopNode(close_kind, Top.token, TRUE)]
  ELSE IF PositionKind = ClosingSymbol(Kind(expected_open))
  THEN [ok |-> TRUE, position |-> position + 1, diags |-> {},
        nodes |-> AddTopNode(close_kind, position, Top.has_error)]
  ELSE [ok |-> match >= position /\ match # End, position |-> match + 1,
        diags |-> {position}, nodes |-> AddTopNode(close_kind, match, TRUE)]

(* Mutant: the faulty declaration is added as a leaf. *)
RecoverWithLeaf(node_kind, skip_past_likely_end, diags) ==
  LET skip == IF skip_past_likely_end
              THEN SkipPastLikelyEnd(position, Top.token)
              ELSE [position |-> position, semi |-> 0]
  IN  Step(AddLeafNode(nodes, node_kind, OrElse(skip.semi, Top.token), TRUE),
           Popped, skip.position, diags)

(* RecoverFromDeclarationError for the popped entry. *)
RecoverFromDeclarationError(node_kind, skip_past_likely_end, diags) ==
  LET skip == IF skip_past_likely_end
              THEN SkipPastLikelyEnd(position, Top.token)
              ELSE [position |-> position, semi |-> 0]
  IN  Step(AddTopNode(node_kind, OrElse(skip.semi, Top.token), TRUE),
           Popped, skip.position, diags)

(* GetDeclarationContext once the handler has popped its entry. *)
GetDeclarationContext ==
  LET scopes == { i \in 3 .. Len(Popped) : Popped[i].state = "DeclarationScopeLoop" }
      inner  == CHOOSE i \in scopes : \A j \in scopes : j <= i
      owner  == Popped[inner - 1].state
  IN  IF scopes # {}
      THEN CASE owner = "TypeDefinitionFinishAsClass"           -> "Class"
             [] owner = "TypeDefinitionFinishAsInterface"       -> "Interface"
             [] owner = "TypeDefinitionFinishAsNamedConstraint" -> "NamedConstraint"
             [] OTHER                                           -> "unreachable"
      ELSE IF Popped # <<>> /\ Popped[1].state = "DeclarationScopeLoop"
      THEN "File" ELSE "unreachable"

=============================================================================
