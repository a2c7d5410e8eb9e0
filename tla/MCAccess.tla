------------------------------ MODULE MCAccess ------------------------------
(* Access with interchangeable requests, emails, passwords and codes.      *)
EXTENDS Access, TLC

Symmetry ==
  UNION {Permutations(S) : S \in {Requests, Emails, Passwords, Codes}}
=============================================================================
