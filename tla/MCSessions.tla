----------------------------- MODULE MCSessions -----------------------------
(* Two threads and a table of two slots.                                  *)
EXTENDS Sessions
=============================================================================
