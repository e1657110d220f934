------------------------------ MODULE MCRouting ------------------------------
(* An instance of RoutingPage whose page can make a rule for one of the      *)
(* two clients of a sing-box inbound.                                        *)
EXTENDS RoutingPage

OneInbound == {1}
TwoClients == {1, 2}
HomeOfAll == [c \in TwoClients |-> 1]
JustSingbox == {"singbox"}
TwoOutbounds == {1, 2}

NoRules ==
    {[inbounds |-> [i \in OneInbound |-> InboundOf("sing-box", TRUE, TRUE)],
      clients |-> [c \in TwoClients |-> [enabled |-> TRUE]],
      outbounds |-> [o \in TwoOutbounds |-> [kind |-> "shared", enabled |-> TRUE]],
      rules |-> {}]}
=============================================================================
