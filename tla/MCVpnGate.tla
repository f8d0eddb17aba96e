------------------------------- MODULE MCVpnGate -------------------------------
(* Instances of VpnGate for TLC.                                            *)
EXTENDS VpnGate
================================================================================
