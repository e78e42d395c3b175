------------------------------- MODULE MCStream -------------------------------
(* Kinds of requests for model checking StreamBridge. *)
EXTENDS StreamBridge

\* Only a stream has markers, and only a translator adds one.
MCExchanges == {e \in Exchange :
  /\ e.providerMarks => e.streaming
  /\ e.targetMarks => e.streaming /\ e.translated}
===============================================================================
