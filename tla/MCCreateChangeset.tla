------------------------- MODULE MCCreateChangeset -------------------------
(* Small repositories for CreateChangeset.                                 *)
EXTENDS CreateChangeset, TLC

CONSTANTS r, a, b, m, g, z, e0, e1, e2

\* a stack a <- b, a merge m of r and a, a sibling g of a, and z on top of b.
MCParents == (r :> <<>>) @@ (a :> <<r>>) @@ (b :> <<a>>) @@ (m :> <<r, a>>)
             @@ (g :> <<r>>) @@ (z :> <<b>>)
MCManifest == (r :> {e0}) @@ (a :> {e0, e1}) @@ (b :> {e0, e2}) @@ (m :> {e0, e1})
              @@ (g :> {e0, e2}) @@ (z :> {e0, e1})
\* e2 was made from e1.
MCHistory == (e0 :> {}) @@ (e1 :> {}) @@ (e2 :> {e1})

Push(n) ==
  CASE n = 1 -> [bundle |-> {a, b}, sent |-> {e1, e2}]
    [] n = 2 -> [bundle |-> {a},    sent |-> {e1}]
    [] n = 3 -> [bundle |-> {a, m}, sent |-> {e1}]
    [] n = 4 -> [bundle |-> {b},    sent |-> {e2}]
    [] n = 5 -> [bundle |-> {a},    sent |-> {}]     \* leaves out e1
    [] n = 6 -> [bundle |-> {g},    sent |-> {e2}]   \* leaves out e1
    [] n = 7 -> [bundle |-> {a, b}, sent |-> {}]     \* a pushrebase
    [] n = 8 -> [bundle |-> {z},    sent |-> {e1}]
    [] n = 9 -> [bundle |-> {a},    sent |-> {e1}]   \* a draft
MCBundle == [n \in Pushes |-> Push(n).bundle]
MCSent == [n \in Pushes |-> Push(n).sent]
MCTogether == {{1}, {3}, {2, 4}, {5, 6}, {7, 8}, {2, 9}}
=============================================================================
