-------------------------- MODULE MCCallbackLease --------------------------
(***************************************************************************)
(* Two devboxes contend for one callback port; a URL may also name one of  *)
(* forward's own.                                                          *)
(***************************************************************************)
EXTENDS CallbackLease
CONSTANTS p1, p0

SmallUrls == {<<p1>>, <<p0>>}
=============================================================================
