--------------------------- MODULE MCConfigLoader ---------------------------
(***************************************************************************)
(* Small instances of ConfigLoader for TLC: two good contents and one bad, *)
(* and the two kinds of torn file: one that fails validation (empty) and   *)
(* one that passes (a file cut off after a whole entry).                   *)
(***************************************************************************)
EXTENDS ConfigLoader

CONSTANTS good1, good2, bad, empty, cut

AllContent   == {good1, good2, bad}
Torn         == {empty, cut}
ValidContent == {good1, good2, cut}
=============================================================================
