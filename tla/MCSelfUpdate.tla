---------------------------- MODULE MCSelfUpdate ----------------------------
(* Four programs, the last of 64 KiB, and two instances of the client.      *)
EXTENDS SelfUpdate
=============================================================================
