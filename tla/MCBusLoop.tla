----------------------------- MODULE MCBusLoop -----------------------------
(* An instance of BusLoop for TLC: a protocol bus and an identity bus.     *)
EXTENDS BusLoop, TLC

CONSTANTS e1, e2, e3, protocol, identity

MCBusOf == e1 :> protocol @@ e2 :> identity @@ e3 :> identity
=============================================================================
