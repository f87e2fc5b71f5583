--------------------------- MODULE MC_CaptureDecoder ---------------------------
(* Addresses of unit 1 and packets a resolver container's capture holds. *)
EXTENDS CaptureDecoder

ResolverAddr  == <<172, 22, 1, 1>>      \* bind9 of unit 1
ForwarderAddr == <<172, 22, 201, 1>>    \* the unit's forwarder
OtherFwdAddr  == <<172, 22, 201, 9>>    \* another host of the forwarder net
ClientAddr    == <<172, 22, 101, 1>>    \* the fuzzing client
AuthAddr      == <<172, 22, 9, 9>>      \* an authoritative server
PublicAddr    == <<8, 8, 8, 8>>         \* outside the test network
LookalikeAddr == <<172, 220, 1, 1>>     \* outside, dotted form starts "172.22"

Query(src, dst) ==
    [ver |-> 4, ihl |-> 5, proto |-> 17, src |-> src, dst |-> dst,
     sp |-> 40000, dp |-> 53, qr |-> 0, udpLen |-> 40, totalLen |-> 60]

BasePackets ==
    { Query(ResolverAddr, ForwarderAddr), Query(ResolverAddr, OtherFwdAddr),
      Query(ResolverAddr, AuthAddr), Query(ResolverAddr, PublicAddr),
      Query(ResolverAddr, ClientAddr),
      \* an upstream response of 1300 bytes to the resolver
      [Query(AuthAddr, ResolverAddr) EXCEPT !.sp = 53, !.dp = 40000,
                                            !.qr = 1, !.udpLen = 1300],
      \* a query with one word of IP options
      [Query(ResolverAddr, AuthAddr) EXCEPT !.ihl = 6],
      \* a TCP segment to port 53 and an IPv6 frame
      [Query(ResolverAddr, AuthAddr) EXCEPT !.proto = 6],
      [Query(ResolverAddr, AuthAddr) EXCEPT !.ver = 6] }

(* a query to a host outside 172.22.0.0/16 whose address reads 172.220... *)
LookalikePackets == BasePackets \cup {Query(ResolverAddr, LookalikeAddr)}

(* a UDP frame with IHL 0 whose total length field is 53 *)
BadIhlPackets ==
    BasePackets \cup {[Query(ResolverAddr, AuthAddr) EXCEPT !.ihl = 0,
                                                            !.dp = 7,
                                                            !.totalLen = 53]}
=============================================================================
