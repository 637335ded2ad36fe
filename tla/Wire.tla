-------------------------------- MODULE Wire --------------------------------
(***************************************************************************)
(* What the watchdog reads and writes as bytes, side by side: the framing  *)
(* of its queues, the filters of the addon SDK and of its sockets, packets *)
(* it forwards and packets of addons, the networks it probes and the DHCP  *)
(* server.  They share nothing (an addon's process has a node list of its  *)
(* own), so a behaviour follows one of them, chosen at the start, and the  *)
(* others rest.                                                            *)
(***************************************************************************)
EXTENDS Serializer, FilterLanguage, AddonSender, Leases, Prober, SocketFilters

VARIABLE part       \* what this behaviour is about

wireVars == <<part, framingVars, filterVars, packetVars, senderVars, leaseVars, proberVars, frame>>

\* The initial states of the parts that rest.
FilterRests  == filter = True /\ packet = <<>> /\ ops = 0
PacketsRest  == pieces = {} /\ macs = <<>> /\ gateway = (CHOOSE m \in RouterMacs : TRUE) /\ conf = gateway
ProberRests  == machine = NoRoutes
SocketsRest  == frame = 0

WireInit ==
    /\ part \in {"framing", "filters", "packets", "sender", "leases", "prober", "sockets"}
    /\ FramingInit /\ LeasesInit /\ SenderInit /\ ProberInit
    /\ IF part = "filters" THEN FilterInit ELSE FilterRests
    /\ IF part = "packets" THEN PacketsInit ELSE PacketsRest
    /\ IF part = "sockets" THEN SocketInit ELSE SocketsRest
    /\ part # "prober" => ProberRests

\* Only this part moves.
InFraming(A) == part = "framing" /\ A /\
    UNCHANGED <<part, filterVars, packetVars, senderVars, leaseVars, proberVars, frame>>
InFilters(A) == part = "filters" /\ A /\
    UNCHANGED <<part, framingVars, packetVars, senderVars, leaseVars, proberVars, frame>>
InPackets(A) == part = "packets" /\ A /\
    UNCHANGED <<part, framingVars, filterVars, senderVars, leaseVars, proberVars, frame>>
InSender(A)  == part = "sender" /\ A /\
    UNCHANGED <<part, framingVars, filterVars, leaseVars, proberVars, frame>>
InLeases(A)  == part = "leases" /\ A /\
    UNCHANGED <<part, framingVars, filterVars, packetVars, senderVars, proberVars, frame>>
InProber(A)  == part = "prober" /\ A /\
    UNCHANGED <<part, framingVars, filterVars, packetVars, senderVars, leaseVars, frame>>
InSockets(A) == part = "sockets" /\ A /\
    UNCHANGED <<part, framingVars, filterVars, packetVars, senderVars, leaseVars, proberVars>>

WireNext ==
    \/ InFraming(FramingNext) \/ InFilters(FilterNext) \/ InPackets(PacketsNext)
    \/ InSender(SenderNext) \/ InLeases(LeasesNext) \/ InProber(ProberNext) \/ InSockets(Arrives)

WireSpec == WireInit /\ [][WireNext]_wireVars

\* Every part keeps what its module states: EvaluatorIsKernel; Reassembles,
\* ChecksumsVerify and NextHopRight; EachPacketOnce and SumsVerify; NetworksApart
\* and OptionsSurvive; NetworksAgree, RoundComplete and WaitsForRoutes;
\* RepliesPass, SharedByWorkers and DhcpOnly.
CodecsSound ==
    CASE part = "filters" -> EvaluatorIsKernel
      [] part = "packets" -> PacketsSound
      [] part = "sender"  -> SenderSound /\ NextHopRight
      [] part = "leases"  -> LeasesSound
      [] part = "prober"  -> ProberSound
      [] part = "sockets" -> SocketsSound
      [] OTHER -> TRUE

=============================================================================
