------------------------------ MODULE Pointers ------------------------------
(* The null pointer, shared by the modules that model pointers.             *)
CONSTANT Null
=============================================================================
