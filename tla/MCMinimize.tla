---------------------------- MODULE MCMinimize ----------------------------
(***************************************************************************)
(* Model-checking instance of Minimize: three paths, one of them in the   *)
(* bootstrap seed.  Every archive over three paths, in every stream       *)
(* order, with every subset of them logged, is an initial state.          *)
(***************************************************************************)
EXTENDS Minimize

CONSTANTS p1, p2, p3

MCPaths == {p1, p2, p3}
MCBootstrap == {p1}
=============================================================================
