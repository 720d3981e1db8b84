------------------------------ MODULE MCNetdev ------------------------------
(* Model-checking instance of Netdev: a port, its child and the other port *)
(* that its split switches off.                                            *)
EXTENDS Netdev, TLC

CONSTANTS port, child, other

MCParentOf   == child :> port
MCNeighborOf == port :> other
=============================================================================
