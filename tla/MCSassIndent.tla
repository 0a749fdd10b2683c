---------------------------- MODULE MCSassIndent ----------------------------
(* Tokens of every kind but a few that act as another does: a string starts *)
(* a line like a number, ":" and "-" end one like ",", and a "{" within     *)
(* brackets opens one like "[".                                             *)
EXTENDS SassIndent

MostKinds == {"(", "[", ")", "}", "=", "+", "@", "$", ",", "*",
              "%", "number", "ident", "keyword", "directive", "else"}
=============================================================================
