--------------------------- MODULE MCSqlBookmarks ---------------------------
(* A small instance of SqlBookmarks.                                       *)
EXTENDS SqlBookmarks

CONSTANTS n1, c1

\* n1 exists, the other bookmarks do not.
MCStart == [n \in Names |-> IF n = n1 THEN c1 ELSE None]
=============================================================================
