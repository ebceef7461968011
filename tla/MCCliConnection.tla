---------------------------- MODULE MCCliConnection -----------------------------
(* A small instance of CliConnection for TLC.                               *)
EXTENDS CliConnection
================================================================================
