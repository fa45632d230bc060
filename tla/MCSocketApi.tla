---------------------------- MODULE MCSocketApi ----------------------------
(* Model-checking instance of SocketApi: the descriptor table and backlog  *)
(* sizes are small numbers given in MCSocketApi.cfg.                        *)
EXTENDS SocketApi

=============================================================================
