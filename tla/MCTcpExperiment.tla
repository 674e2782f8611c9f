-------------------------- MODULE MCTcpExperiment --------------------------
(***************************************************************************)
(* TcpExperiment for TLC: two senders, so that two children can end        *)
(* before the handler of SIGCHLD has run.                                  *)
(***************************************************************************)
EXTENDS TcpExperiment
=============================================================================
