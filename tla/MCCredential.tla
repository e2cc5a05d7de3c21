----------------------------- MODULE MCCredential ------------------------------
(* Small instances of the credential custody for TLC.                         *)
EXTENDS CredentialRefinement

CONSTANTS s1, s2, c1, c2, c3

MCSubject == {s1, s2}
MCThreeCredentials == {c1, c2, c3}
==============================================================================
