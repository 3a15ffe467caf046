---------------------------- MODULE MCModuleLoad ----------------------------
(* A channel or two with editable names, a module name of a block or two. *)
EXTENDS ModuleLoad
=============================================================================
