------------------------ MODULE MCIntegrationOutbox ------------------------
(* Instances of IntegrationOutbox for TLC.                                  *)
EXTENDS IntegrationOutbox
=============================================================================
