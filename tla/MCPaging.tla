------------------------------ MODULE MCPaging ------------------------------
(***************************************************************************)
(* Page tables for the model checker: two directory entries with two slots *)
(* each, so that a frame can be mapped twice in a table and in two tables. *)
(***************************************************************************)
EXTENDS Paging
=============================================================================
