--------------------------- MODULE MCModbusClient ---------------------------
(* The instance TLC runs: two coroutines whose requests meet at the lock,  *)
(* one reconnect beside them, and the shutdown.                            *)
EXTENDS ModbusClient
=============================================================================
