-------------------------- MODULE MCManagerLinks --------------------------
(* A small instance of ManagerLinks for TLC: two addresses, one of which is *)
(* configured twice, with and without its port.                             *)
EXTENDS ManagerLinks

TelecomAddrs == <<"a:443", "b:443">>
ConfiguredServers == <<"a", "b:443", "a:443">>
WithPort == {"a:443", "b:443"}
=============================================================================
