-------------------------- MODULE MCYClientsClient --------------------------
(* Model values for YClientsClient. *)
EXTENDS YClientsClient, TLC

CONSTANTS t1, t2, e1, e2

MCTasks == {t1, t2}
MCEndpoints == {e1, e2}
=============================================================================
