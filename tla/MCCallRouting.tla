---------------------------- MODULE MCCallRouting ----------------------------
(***************************************************************************)
(* An instance of CallRouting alone, with the samples for it; MCGenerated  *)
(* and MCLiveness have others.                                             *)
(***************************************************************************)
EXTENDS CallRouting, RoutingSamples
=============================================================================
