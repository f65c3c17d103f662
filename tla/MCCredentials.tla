--------------------------- MODULE MCCredentials ---------------------------
(* A small instance of Credentials.                                        *)
EXTENDS Credentials, TLC
=============================================================================
