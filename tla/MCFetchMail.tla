----------------------------- MODULE MCFetchMail -----------------------------
(* TLC instances of FetchMail.                                             *)
EXTENDS FetchMail
=============================================================================
