------------------------------ MODULE MCForms ------------------------------
(* All forms, for TLC.                                                     *)
EXTENDS Forms

AllNames == DOMAIN Handlers
=============================================================================
