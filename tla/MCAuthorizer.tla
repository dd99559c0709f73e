---------------------------- MODULE MCAuthorizer ----------------------------
(* Model-checking instance of Authorizer: a paid license of the organization, *)
(* whose token names no expiry, and one that was sold to another; the trial,  *)
(* which expires, comes with Tokens.                                          *)
EXTENDS Authorizer

CONSTANTS o1, o2
MCLicenses == {<<o1, 1>>, <<o2, 1>>}
MCLasting  == {<<o1, 1>>}
=============================================================================
