-------------------------- MODULE MCWaitingClients --------------------------
(* Every kind of client beside one that polls the same API; forecasts that  *)
(* are worth waiting for, not worth it, and cleanest now.                   *)
EXTENDS WaitingClients

CONSTANTS j1, j2

Pair(k, l) == j1 :> k @@ j2 :> l
MCClients == {Pair("sdk", "celery"), Pair("sdk_cdn", "sdk"), Pair("airflow", "cli")}
MCForecasts == {<<50, 60, 20, 40>>, <<50, 60, 45, 49>>, <<10, 60, 20, 40>>}
=============================================================================
