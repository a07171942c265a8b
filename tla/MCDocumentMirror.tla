--------------------------- MODULE MCDocumentMirror ---------------------------
(* Instances of DocumentMirror for TLC. *)
EXTENDS DocumentMirror
===============================================================================
