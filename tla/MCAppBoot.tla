------------------------------ MODULE MCAppBoot ------------------------------
(* Model values for AppBoot.                                               *)
EXTENDS AppBoot

MCValues == Metadata
=============================================================================
