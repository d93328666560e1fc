----------------------------- MODULE MCLiveTable -----------------------------
(* One table over a list of three entries that come and go.                *)
EXTENDS LiveTable

CONSTANTS k1, k2, k3
=============================================================================
