------------------------- MODULE MCRoutePublication -------------------------
(***************************************************************************)
(* Instances of RoutePublication for TLC.                                  *)
(***************************************************************************)
EXTENDS RoutePublication
=============================================================================
