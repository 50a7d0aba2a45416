----------------------------- MODULE MCCompiler -----------------------------
(***************************************************************************)
(* A small instance of Compiler: one list has a URL.                       *)
(***************************************************************************)
EXTENDS Compiler

RouteOnly == {"include-ips"}

=============================================================================
