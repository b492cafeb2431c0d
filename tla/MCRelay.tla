------------------------------- MODULE MCRelay -------------------------------
(* Relay on two phones, one of which may stop reading.                      *)
EXTENDS Relay

=============================================================================
