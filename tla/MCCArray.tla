------------------------------- MODULE MCCArray -------------------------------
(* A small array: it grows twice and wraps around at every size. *)
EXTENDS CArray
===============================================================================
