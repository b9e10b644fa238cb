---------------------------- MODULE MCAppRuntime ----------------------------
(* A small instance of AppRuntime for TLC.  Of the two servers one may      *)
(* still be ending, from an earlier start, while the other one starts; a    *)
(* start waits only when both are still ending.                             *)
EXTENDS AppRuntime
=============================================================================
