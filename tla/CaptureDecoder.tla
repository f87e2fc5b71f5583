---------------------------- MODULE CaptureDecoder ----------------------------
(***************************************************************************)
(* parse_pcap and _read_pcap_packets of predicate_adapter.py: the loop     *)
(* over the records of a libpcap file, each decoded from its bytes         *)
(* (link-layer header, IPv4 header with its IHL, UDP or TCP ports, the     *)
(* QR bit peeked from the DNS header) into a packet tuple, then the loop   *)
(* over the tuples that classifies them by role and counts queries.       *)
(*                                                                         *)
(* A capture is a sequence of packet descriptions (Packets) laid out as    *)
(* bytes by WireBytes, the way the network writes them; the decoder reads *)
(* only the bytes.  Addresses become dotted strings as '.'.join(str(b))   *)
(* makes them, and roles are decided by string prefix, as in the code.    *)
(***************************************************************************)
EXTENDS Integers, Sequences, SequencesExt, FiniteSets, DnsNames

CONSTANTS Packets,        \* packet descriptions a capture may hold
          MaxFrames,      \* records in a capture
          LinkTypes,      \* link-layer types of the global header
          ResolverNames,  \* resolver_name arguments
          UnitNo,         \* unit_no: last octet of the unit's addresses
          None

ASSUME MaxFrames \in Nat /\ UnitNo \in 0..255

(* str(n) for 0 <= n: the decimal digits of n as code points *)
RECURSIVE Decimal(_)
Decimal(n) == IF n < 10 THEN <<48 + n>> ELSE Decimal(n \div 10) \o <<48 + (n % 10)>>

(* '.'.join(str(b) for b in octets) *)
Dotted(octets) == JoinLabels([i \in DOMAIN octets |-> Decimal(octets[i])])

StartsWith(s, prefix) == IsPrefix(prefix, s)

(* _RESOLVER_IP_PREFIXES *)
ResolverPrefixes ==
    [n \in {"bind9", "unbound", "powerdns", "knot", "maradns", "technitium"} |->
        CASE n = "bind9" -> <<172, 22, 1>>   [] n = "unbound" -> <<172, 22, 2>>
          [] n = "powerdns" -> <<172, 22, 3>> [] n = "knot" -> <<172, 22, 4>>
          [] n = "maradns" -> <<172, 22, 5>>  [] OTHER -> <<172, 22, 6>>]

RoleIpBase == Dotted(<<172, 22>>)          \* role_ip_base="172.22"
ClientNet == Dotted(<<172, 22, 101>>)      \* "172.22.101"
ForwarderNet == Dotted(<<172, 22, 201>>)   \* "172.22.201"
ForwarderIp == ForwarderNet \o <<Dot>> \o Decimal(UnitNo)
ClientIp == ClientNet \o <<Dot>> \o Decimal(UnitNo)

(* resolver_ip, or "" for a name the table does not know *)
ResolverIp(name) ==
    IF name \in DOMAIN ResolverPrefixes
    THEN Dotted(ResolverPrefixes[name]) \o <<Dot>> \o Decimal(UnitNo)
    ELSE <<>>

-----------------------------------------------------------------------------
(* The bytes of a record: link-layer header, a 20-byte IPv4 header whose   *)
(* first byte carries the version and IHL of the description (options     *)
(* follow when IHL > 5), then 8 bytes of UDP and a 4-byte DNS header peek, *)
(* or 20 bytes of TCP.  Only the fields the decoder reads are non-zero.    *)
U16(v) == <<v \div 256, v % 256>>
Zeros(n) == [i \in 1..n |-> 0]

LinkHeader(link, ver) ==
    CASE link = 1 -> Zeros(12) \o U16(IF ver = 4 THEN 2048 ELSE 34525)
      [] link = 113 -> Zeros(14) \o U16(IF ver = 4 THEN 2048 ELSE 34525)
      [] link = 276 -> U16(IF ver = 4 THEN 2048 ELSE 34525) \o Zeros(18)
      [] OTHER -> <<>>

WireBytes(d, link) ==
    LinkHeader(link, d.ver)
    \o <<d.ver * 16 + d.ihl, 0>> \o U16(d.totalLen) \o Zeros(5) \o <<d.proto>>
    \o Zeros(2) \o d.src \o d.dst \o Zeros(IF d.ihl > 5 THEN 4 * (d.ihl - 5) ELSE 0)
    \o (IF d.proto = 17
        THEN U16(d.sp) \o U16(d.dp) \o U16(d.udpLen) \o Zeros(2)
             \o Zeros(2) \o <<d.qr * 128, 0>>
        ELSE U16(d.sp) \o U16(d.dp) \o Zeros(16))

-----------------------------------------------------------------------------
(* The link-layer table of _read_pcap_packets (lines 480-489) *)
LinkHdrLen(link) ==
    CASE link = 1 -> 14 [] link = 113 -> 16 [] link = 276 -> 20
      [] link \in {12, 101, 228} -> 0 [] OTHER -> 14
EtypeOff(link) ==
    CASE link = 1 -> 12 [] link = 113 -> 14 [] link = 276 -> 0
      [] link \in {12, 101, 228} -> -1 [] OTHER -> 12

(* byte i (from 0) and big-endian 16-bit field at i of a packet *)
Byte(pkt, i) == pkt[i + 1]
Field16(pkt, i) == Byte(pkt, i) * 256 + Byte(pkt, i + 1)

(* A plausible slip: the transport header taken at a fixed 20 bytes *)
TransportOffsetFixed(pkt, ipOff) == ipOff + 20

(* tp_off = ip_off + ihl, ihl = (pkt[ip_off] & 0xF) * 4 (lines 514, 521) *)
TransportOffset(pkt, ipOff) == ipOff + (Byte(pkt, ipOff) % 16) * 4

(* One record's body (lines 497-541): the packet tuple, or None when a    *)
(* check continues the loop.                                              *)
DecodeFrame(pkt, link) ==
    LET lh == LinkHdrLen(link)
        eo == EtypeOff(link)
        tp == TransportOffset(pkt, lh)
        src == Dotted(SubSeq(pkt, lh + 13, lh + 16))
        dst == Dotted(SubSeq(pkt, lh + 17, lh + 20))
        proto == Byte(pkt, lh + 9)
    IN  IF \/ Len(pkt) < lh + 20
           \/ eo >= 0 /\ Len(pkt) > eo + 1 /\ Field16(pkt, eo) # 2048
           \/ Byte(pkt, lh) \div 16 # 4
           \/ Len(pkt) < lh + (Byte(pkt, lh) % 16) * 4
        THEN None
        ELSE CASE proto = 17 /\ Len(pkt) >= tp + 8 ->
                    [src |-> src, dst |-> dst, proto |-> 17,
                     sp |-> Field16(pkt, tp), dp |-> Field16(pkt, tp + 2),
                     qr |-> IF Len(pkt) >= tp + 12
                            THEN Field16(pkt, tp + 10) \div 32768 ELSE None,
                     size |-> Field16(pkt, tp + 4)]
               [] proto = 6 /\ Len(pkt) >= tp + 4 ->
                    [src |-> src, dst |-> dst, proto |-> 6,
                     sp |-> Field16(pkt, tp), dp |-> Field16(pkt, tp + 2),
                     qr |-> None, size |-> 0]
               [] OTHER -> None

-----------------------------------------------------------------------------
(* parse_pcap's out dict before any packet (lines 564-572) *)
EmptyOut ==
    [udp_q |-> FALSE, tcp_retry |-> FALSE, resp_seen |-> FALSE,
     auth_q |-> FALSE, auth_rsp |-> FALSE, auth_target_correct |-> FALSE,
     forwarder_q |-> FALSE, unexpected_external |-> FALSE,
     udp_query_count |-> 0, tcp_query_count |-> 0, max_udp_resp_size |-> 0]

(* is_from_resolver / is_to_resolver (lines 593-596, 614-617) *)
IsResolverAddr(ip, name) ==
    IF ResolverIp(name) # <<>>
    THEN ip = ResolverIp(name)
    ELSE /\ StartsWith(ip, RoleIpBase)
         /\ ~StartsWith(ip, ClientNet) /\ ~StartsWith(ip, ForwarderNet)

(* A plausible slip: the role base tested before the forwarder network *)
DstRoleAuthFirst(dst) ==
    CASE dst = ForwarderIp -> "forwarder_exact"
      [] dst = ClientIp -> "client"
      [] StartsWith(dst, RoleIpBase) -> "auth"
      [] StartsWith(dst, ForwarderNet) -> "forwarder"
      [] OTHER -> "external"

(* the elif chain on the query's destination (lines 603-612) *)
DstRole(dst) ==
    CASE dst = ForwarderIp -> "forwarder_exact"
      [] dst = ClientIp -> "client"
      [] StartsWith(dst, ForwarderNet) -> "forwarder"
      [] StartsWith(dst, RoleIpBase) -> "auth"
      [] OTHER -> "external"

(* A plausible slip: the port test without the elif on the protocol *)
IsTcpQueryAnyProto(p) == p.dp = 53

(* the TCP branch's query test (lines 625-627) *)
IsTcpQuery(p) == p.proto = 6 /\ p.dp = 53

(* One iteration of parse_pcap's packet loop (lines 583-631) *)
Classify(out, p, name) ==
    LET query == p.proto = 17 /\ IsResolverAddr(p.src, name)
                 /\ p.dp = 53 /\ p.qr \in {0, None}
        resp == p.proto = 17 /\ IsResolverAddr(p.dst, name)
                /\ p.sp = 53 /\ p.qr \in {1, None}
        role == DstRole(p.dst)
        tcpQ == IsTcpQuery(p)
    IN  [out EXCEPT
          !.udp_q = @ \/ query,
          !.udp_query_count = IF query THEN @ + 1 ELSE @,
          !.forwarder_q = @ \/ (query /\ role \in {"forwarder_exact", "forwarder"}),
          !.auth_target_correct = @ \/ (query /\ role = "forwarder_exact"),
          !.auth_q = @ \/ (query /\ role = "auth"),
          !.unexpected_external = @ \/ (query /\ role = "external"),
          !.resp_seen = @ \/ resp \/ (p.proto = 6 /\ p.sp = 53),
          !.max_udp_resp_size = IF resp /\ p.size > @ THEN p.size ELSE @,
          !.auth_rsp = @ \/ (resp /\ (p.src = ForwarderIp
                                      \/ StartsWith(p.src, ForwarderNet))),
          !.tcp_retry = @ \/ tcpQ,
          !.tcp_query_count = IF tcpQ THEN @ + 1 ELSE @]

-----------------------------------------------------------------------------
VARIABLES
    present,   \* the file exists and holds at least 25 bytes
    magic,     \* the global header's magic number
    link,      \* the global header's link-layer type
    frames,    \* the records' packet descriptions, in file order
    cut,       \* the last record's incl_len overruns the file
    name,      \* resolver_name
    i,         \* records read so far
    pkts,      \* results of _read_pcap_packets
    j,         \* packets classified so far
    out,       \* parse_pcap's out dict
    phase

vars == <<present, magic, link, frames, cut, name, i, pkts, j, out, phase>>

Init ==
    /\ present \in BOOLEAN
    /\ magic \in {"a1b2c3d4", "d4c3b2a1", "other"}
    /\ link \in LinkTypes
    /\ frames \in UNION {[1..n -> Packets] : n \in 0..MaxFrames}
    /\ cut \in IF frames = <<>> THEN {FALSE} ELSE BOOLEAN
    /\ name \in ResolverNames
    /\ i = 0
    /\ pkts = <<>>
    /\ j = 0
    /\ out = EmptyOut
    /\ phase = "open"

(* parse_pcap's existence and size test, then _read_pcap_packets' magic *)
(* test (lines 576-581, 466-476): no file gives the empty out, another   *)
(* magic an empty packet list.                                           *)
Open ==
    /\ phase = "open"
    /\ phase' = CASE ~present -> "done"
                   [] magic = "other" -> "packets"
                   [] OTHER -> "records"
    /\ UNCHANGED <<present, magic, link, frames, cut, name, i, pkts, j, out>>

(* while pos + 16 <= len(data): one record, decoded or skipped *)
ReadRecord ==
    /\ phase = "records"
    /\ i < Len(frames)
    /\ ~(cut /\ i + 1 = Len(frames))
    /\ LET t == DecodeFrame(WireBytes(frames[i + 1], link), link)
       IN  pkts' = IF t = None THEN pkts ELSE Append(pkts, t)
    /\ i' = i + 1
    /\ UNCHANGED <<present, magic, link, frames, cut, name, j, out, phase>>

(* the loop ends at the end of the data, or breaks at a record whose     *)
(* incl_len overruns it (line 494-495)                                    *)
RecordsEnd ==
    /\ phase = "records"
    /\ \/ i = Len(frames)
       \/ cut /\ i + 1 = Len(frames)
    /\ phase' = "packets"
    /\ UNCHANGED <<present, magic, link, frames, cut, name, i, pkts, j, out>>

(* for pkt in packets: classify it *)
ClassifyPacket ==
    /\ phase = "packets"
    /\ j < Len(pkts)
    /\ out' = Classify(out, pkts[j + 1], name)
    /\ j' = j + 1
    /\ UNCHANGED <<present, magic, link, frames, cut, name, i, pkts, phase>>

PacketsEnd ==
    /\ phase = "packets"
    /\ j = Len(pkts)
    /\ phase' = "done"
    /\ UNCHANGED <<present, magic, link, frames, cut, name, i, pkts, j, out>>

Returned ==
    /\ phase = "done"
    /\ UNCHANGED vars

Next == Open \/ ReadRecord \/ RecordsEnd \/ ClassifyPacket \/ PacketsEnd
        \/ Returned

Spec == Init /\ [][Next]_vars

-----------------------------------------------------------------------------
(* Reference definitions over the packet descriptions of the capture.    *)

InNet(octets, prefix) == SubSeq(octets, 1, Len(prefix)) = prefix

(* the records a capture yields: none without a file or a pcap magic,   *)
(* and not the last one when it overruns the file                       *)
Captured ==
    IF ~present \/ magic = "other" THEN <<>>
    ELSE IF cut THEN SubSeq(frames, 1, Len(frames) - 1) ELSE frames

(* The resolver under test: its own address, or for a name the table    *)
(* lacks, any address of 172.22.0.0/16 outside the client and forwarder *)
(* networks.                                                             *)
FromResolver(octets) ==
    IF name \in DOMAIN ResolverPrefixes
    THEN octets = Append(ResolverPrefixes[name], UnitNo)
    ELSE /\ InNet(octets, <<172, 22>>)
         /\ ~InNet(octets, <<172, 22, 101>>) /\ ~InNet(octets, <<172, 22, 201>>)

(* a well-formed IPv4 UDP DNS query sent by the resolver *)
IsResolverQuery(d) ==
    /\ d.ver = 4 /\ d.ihl >= 5 /\ d.proto = 17
    /\ FromResolver(d.src) /\ d.dp = 53 /\ d.qr = 0

Queries == {k \in DOMAIN Captured : IsResolverQuery(Captured[k])}
QueryDst == {Captured[k].dst : k \in Queries}

-----------------------------------------------------------------------------
(* Types and bounds; each decoded packet is counted as at most one UDP  *)
(* or one TCP query, since parse_pcap's branches are exclusive.          *)
TypeOK ==
    /\ frames \in Seq(Packets) /\ Len(frames) <= MaxFrames
    /\ i \in 0..Len(frames) /\ j \in 0..Len(pkts) /\ Len(pkts) <= i
    /\ out.udp_query_count \in Nat /\ out.tcp_query_count \in Nat
    /\ out.udp_query_count + out.tcp_query_count <= j
    /\ phase \in {"open", "records", "packets", "done"}

(* udp_query_count is the number of DNS queries over UDP the resolver    *)
(* sent in the capture: every link-layer framing of the table, IP        *)
(* options shifting the UDP header, non-IPv4 frames skipped, a truncated *)
(* last record dropped, and nothing for a file that is not a pcap.       *)
UdpQueriesCounted ==
    phase = "done" => out.udp_query_count = Cardinality(Queries)

(* The role flags of the resolver's queries follow their destinations:   *)
(* the forwarder network, other hosts of the test network, or hosts      *)
(* outside 172.22.0.0/16 (unexpected_external).                          *)
RolesClassified ==
    phase = "done" =>
      /\ out.forwarder_q = \E o \in QueryDst : InNet(o, <<172, 22, 201>>)
      /\ out.auth_q = \E o \in QueryDst :
            /\ InNet(o, <<172, 22>>) /\ ~InNet(o, <<172, 22, 201>>)
            /\ o # <<172, 22, 101, UnitNo>>
      /\ out.unexpected_external = \E o \in QueryDst : ~InNet(o, <<172, 22>>)

=============================================================================
