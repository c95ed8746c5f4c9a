----------------------------- MODULE MCSessions -----------------------------
(* Model values for Sessions: one session, one MCP server.                 *)
EXTENDS Sessions

CONSTANTS s1, c1

MCNames == {s1}
MCClients == {c1}
=============================================================================
