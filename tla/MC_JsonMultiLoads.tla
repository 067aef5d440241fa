------------------------- MODULE MC_JsonMultiLoads -------------------------
(* Instantiates JsonMultiLoads for TLC: the string contents each run draws *)
(* from.                                                                   *)
EXTENDS JsonMultiLoads

\* Strings of ordinary characters, as in import paths and directory names.
MC_PlainUnits == {<<X>>}

\* Strings that may also hold a closing bracket or an escaped quote (\" in
\* the JSON text), as a package's doc text can.
MC_StringUnits == {<<X>>, <<RS>>, <<BS, Q>>}
=============================================================================
