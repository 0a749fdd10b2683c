----------------------------- MODULE MCMarkers -----------------------------
(***************************************************************************)
(* An instance of Markers: a text of two tokens.                           *)
(***************************************************************************)
EXTENDS Markers

CONSTANTS t, k

TwoTokens == <<t, t>>
=============================================================================
