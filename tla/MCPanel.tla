------------------------------- MODULE MCPanel -------------------------------
(* The panel in the browser: one of its pages at a time, with the server that *)
(* it talks to.  The pages have no state in common that their modules speak  *)
(* of, so a behaviour stays with one of them.                                *)
EXTENDS JobTracking, InboundForm, TrafficStream, PanelSession, CorePage, RoutingPage,
        PanelUpdate, CertificatePage

VARIABLE area  \* the page that this behaviour is about

panelVars == <<area, trackingVars, formVars, streamVars, sessionVars, corePageVars,
               routingVars, updateVars, certPageVars>>

OneCore == {"xray"}
OnAndOff == BOOLEAN
OneInbound == {1}
TwoInbounds == {1, 2}
TwoOutbounds == {1, 2}
ThreeOutbounds == {1, 2, 3}
OneClient == {1}
ClientAtOne == [c \in OneClient |-> 1]
JustSingbox == {"singbox"}

\* A panel that is set up: an Xray and a sing-box inbound, a client, a shared and
\* a sing-box outbound, and no rule so far.
NoRules ==
    [inbounds |-> [i \in TwoInbounds |-> InboundOf(IF i = 1 THEN "xray" ELSE "sing-box", TRUE, TRUE)],
     clients |-> [c \in OneClient |-> [enabled |-> TRUE]],
     outbounds |-> [o \in TwoOutbounds |-> [kind |-> IF o = 1 THEN "shared" ELSE "singbox",
                                            enabled |-> TRUE]],
     rules |-> {}]

\* One with Xray alone, and with a rule that leads all inbounds to the system's
\* outbound.
SystemRule ==
    [NoRules EXCEPT !.inbounds = [i \in OneInbound |-> NoRules.inbounds[i]],
                    !.outbounds = [o \in {1, 3} |-> NoRules.outbounds[1]],
                    !.rules = {RuleOf(1, 0, 0, 3, TRUE, 0)}]

\* And one with nothing but its first outbound.
FreshTables ==
    [inbounds |-> <<>>, clients |-> <<>>, outbounds |-> [o \in {1} |-> [kind |-> "shared", enabled |-> TRUE]],
     rules |-> {}]

FreshOrSmall == {FreshTables, NoRules, SystemRule}

-----------------------------------------------------------------------------
Areas == {"jobs", "form", "stream", "session", "core", "routing", "update", "certificates"}

PanelInit ==
    /\ area \in Areas
    /\ JobInit /\ FormInit /\ StreamInit /\ SessionInit /\ CorePageInit /\ RoutingInit
    /\ PanelUpdateInit /\ CertPageInit
    /\ area # "core" => core.sync = "synced"
    /\ area # "routing" => tables = FreshTables
    /\ area # "update" => statusFile.status = "none"

JobsMove ==
    /\ area = "jobs" /\ JobNext
    /\ UNCHANGED <<area, formVars, streamVars, sessionVars, corePageVars, routingVars,
                   updateVars, certPageVars>>

FormMoves ==
    /\ area = "form" /\ FormNext
    /\ UNCHANGED <<area, trackingVars, streamVars, sessionVars, corePageVars, routingVars,
                   updateVars, certPageVars>>

StreamMoves ==
    /\ area = "stream" /\ StreamNext
    /\ UNCHANGED <<area, trackingVars, formVars, sessionVars, corePageVars, routingVars,
                   updateVars, certPageVars>>

SessionMoves ==
    /\ area = "session" /\ SessionNext
    /\ UNCHANGED <<area, trackingVars, formVars, streamVars, corePageVars, routingVars,
                   updateVars, certPageVars>>

CorePageMoves ==
    /\ area = "core" /\ CorePageNext
    /\ UNCHANGED <<area, trackingVars, formVars, streamVars, sessionVars, routingVars,
                   updateVars, certPageVars>>

RoutingMoves ==
    /\ area = "routing" /\ RoutingNext
    /\ UNCHANGED <<area, trackingVars, formVars, streamVars, sessionVars, corePageVars,
                   updateVars, certPageVars>>

UpdateMoves ==
    /\ area = "update" /\ PanelUpdateNext
    /\ UNCHANGED <<area, trackingVars, formVars, streamVars, sessionVars, corePageVars,
                   routingVars, certPageVars>>

CertificatesMove ==
    /\ area = "certificates" /\ CertPageNext
    /\ UNCHANGED <<area, trackingVars, formVars, streamVars, sessionVars, corePageVars,
                   routingVars, updateVars>>

PanelNext ==
    \/ JobsMove \/ FormMoves \/ StreamMoves \/ SessionMoves
    \/ CorePageMoves \/ RoutingMoves \/ UpdateMoves \/ CertificatesMove

PanelFairness ==
    /\ TrackingFairness /\ StreamFairness /\ SessionFairness /\ CorePageFairness
    /\ PanelUpdateFairness

PanelSpec == PanelInit /\ [][PanelNext]_panelVars /\ PanelFairness

\* Every page, and the server that it talks to, keeps to its types.
PanelTypeOK ==
    /\ TrackingTypeOK /\ FormTypeOK /\ StreamTypeOK /\ SessionTypeOK /\ CorePageTypeOK
    /\ RoutingTypeOK /\ UpdateTypeOK /\ CertTypeOK
=============================================================================
