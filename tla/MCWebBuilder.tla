---------------------------- MODULE MCWebBuilder ----------------------------
(* Instances of WebBuilder for TLC.                                        *)
EXTENDS WebBuilder, TLC

CONSTANTS q1, q2, x, y
=============================================================================
