------------------------------ MODULE MCAwards ------------------------------
(* An organizer and a guest.                                                 *)
EXTENDS Awards
=============================================================================
