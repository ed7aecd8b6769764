------------------------------ MODULE MCPhoneLink ------------------------------
(* PhoneLink with one address on the LAN and one reachable from anywhere.    *)
EXTENDS PhoneLink

MCHosts == <<"lan", "vpn">>
MCLocalHosts == {"lan"}
=============================================================================
