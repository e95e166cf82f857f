---------------------------- MODULE FifoChannel ----------------------------
(***************************************************************************)
(* What a carrier of messages promises: what was sent is delivered in the  *)
(* order in which it was sent, each message once and unaltered, and        *)
(* nothing else is delivered.  RpcWire implements it.                      *)
(***************************************************************************)
EXTENDS Naturals, Sequences

CONSTANT Message

VARIABLES
  sent,       \* the messages that were sent
  delivered   \* the messages that were delivered

Init == sent = <<>> /\ delivered = <<>>

Send ==
  /\ \E m \in Message : sent' = Append(sent, m)
  /\ UNCHANGED delivered

Deliver ==
  /\ Len(delivered) < Len(sent)
  /\ delivered' = Append(delivered, sent[Len(delivered) + 1])
  /\ UNCHANGED sent

Spec == Init /\ [][Send \/ Deliver]_<<sent, delivered>>
============================================================================
