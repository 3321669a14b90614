------------------------------ MODULE MCDigest ------------------------------
(* Small instances of Digest.  Every day somebody has a birthday; user v is *)
(* a coordinator who sees only those of even days.                          *)
EXTENDS Digest, TLC

CONSTANTS r1, r2, u, v

MCCelebrants(user, day) == user = u \/ day % 2 = 0

OneRule == {[enabled |-> TRUE, lead |-> 1, channel |-> "whatsapp"]}
ManyRules == OneRule \cup
  {[enabled |-> FALSE, lead |-> 1, channel |-> "whatsapp"],
   [enabled |-> TRUE, lead |-> 2, channel |-> "whatsapp"],
   [enabled |-> TRUE, lead |-> 1, channel |-> "sms"]}
=============================================================================
