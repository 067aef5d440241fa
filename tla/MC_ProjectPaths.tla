--------------------------- MODULE MC_ProjectPaths ---------------------------
(* Instantiates ProjectPaths for TLC: the project root /w/p.              *)
EXTENDS ProjectPaths

MC_Project == <<"/", "w", "/", "p">>
=============================================================================
