---------------------------- MODULE MCPingClose ----------------------------
(***************************************************************************)
(* PingClose with three client threads, one of which may drive the hub.    *)
(* The other two are as the threads of a spawned hub are.                  *)
(***************************************************************************)
EXTENDS PingClose

CONSTANTS t1, t2, t3

Three    == {t1, t2, t3}
Two      == {t1, t2}
=============================================================================
