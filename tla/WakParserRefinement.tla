------------------------ MODULE WakParserRefinement ------------------------
(***************************************************************************)
(* The parser implements WakGrammar: a statement read is one phrase, an    *)
(* error is giving up, when parse returns an empty module.                 *)
(***************************************************************************)
EXTENDS WakParser

Grammar == INSTANCE WakGrammar WITH
             source  <- tokens,
             at      <- IF pc = "return" THEN 0 ELSE tok_index,
             program <- IF pc = "return" THEN << >> ELSE statements,
             done    <- pc = "return"

(***************************************************************************)
(* For every token stream, parse reads the phrases WakGrammar describes,   *)
(* reports an error only where none of them fits, and always returns.      *)
(***************************************************************************)
FollowsTheGrammar == Grammar!Spec
=============================================================================
