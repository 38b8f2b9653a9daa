---------------------------- MODULE MCOAuthTokens ----------------------------
(***************************************************************************)
(* Names of workers of OAuthTokens for TLC.                              *)
(***************************************************************************)
EXTENDS OAuthTokens

CONSTANTS Sync, Login, Again
=============================================================================
