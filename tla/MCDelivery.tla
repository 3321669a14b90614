----------------------------- MODULE MCDelivery -----------------------------
(* Small instances of Delivery: one WhatsApp digest d and its fallback f1.  *)
EXTENDS Delivery, TLC

CONSTANTS w1, w2, d, f1

MCFallbackKey(n, lead) == f1

OneRule == {[lead |-> 1, sms |-> TRUE]}
RuleSwitchedOff == OneRule \cup {[lead |-> 1, sms |-> FALSE]}
=============================================================================
