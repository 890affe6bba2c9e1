------------------------------ MODULE MCServer ------------------------------
(* Small instances of Server for TLC.                                        *)
EXTENDS Server, TLC

\* create and delete differ from update in their path and permission alone.
MCKinds == {"list", "update"}
=============================================================================
