-------------------------- MODULE MCRouterRegistry --------------------------
(***************************************************************************)
(* Instances of RouterRegistry for TLC.                                    *)
(***************************************************************************)
EXTENDS RouterRegistry, TLC

CONSTANTS app, api, hooks
=============================================================================
