------------------------------ MODULE MCSessions ------------------------------
(***************************************************************************)
(* Sessions on two symbols, one to a connection and one to a subscribe     *)
(* message where they are cut, with one change of routes.                  *)
(***************************************************************************)
EXTENDS Sessions

CONSTANTS sym1, sym2

MCRouteSets == {{sym1}, {sym1, sym2}, {sym2}}
=============================================================================
