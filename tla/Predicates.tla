----------------------------- MODULE Predicates -----------------------------
(***************************************************************************)
(* build_predicates of monitor_bridge.py composed with the decoders it     *)
(* calls: parse_query_hex_file reads query.txt, parse_response_txt gives   *)
(* the response dict, parse_pcap (CaptureDecoder) decodes the capture      *)
(* frame by frame, and the derivation combines the three with the policy   *)
(* thresholds into the predicate line.                                     *)
(*                                                                         *)
(* The query file is a description of its content: absent, blank, not    *)
(* hex, shorter than a header, or a message with an id, an RD bit and a   *)
(* DO bit in its OPT record.  The response is one of                       *)
(* the dicts parse_response_txt returns (WireDecoder models how they are   *)
(* decoded).  Keys the derivation copies unchanged from a decoder and the *)
(* identification keys are left out; ArtifactScan derives the dnstap, log *)
(* and cache keys.                                                         *)
(***************************************************************************)
EXTENDS CaptureDecoder

CONSTANTS QueryFiles,     \* contents query.txt can have
          Responses       \* dicts parse_response_txt can return, or None

\* thresholds of monitor_bridge.py
CNAME_CHASE_THRESHOLD == 10
UDP_QUERY_THRESHOLD == 5
TCP_QUERY_THRESHOLD == 5
MAX_UDP_RESPONSE_SIZE == 1232

VARIABLES
    stage,    \* where build_predicates is
    qfile,    \* the content of query.txt
    query,    \* parse_query_hex_file's dict
    resp,     \* parse_response_txt's dict, or None
    kv        \* the predicates derived

pvars == <<stage, qfile, query, resp, kv>>

allVars == <<vars, pvars>>

-----------------------------------------------------------------------------
(* A plausible slip: the defaults taking a missing RD bit as clear *)
QueryDefaultsRdClear == [qid |-> 0, do |-> FALSE, rd |-> FALSE]

(* The dict parse_query_hex_file and _parse_dns_query_hex start from.     *)
QueryDefaults == [qid |-> 0, do |-> FALSE, rd |-> TRUE]

(* _parse_dns_query_hex: unhexlify (a ValueError is caught), the header    *)
(* length test, id and RD from the header, the early return without a      *)
(* question.  The DO bit lives in the OPT record of the additional         *)
(* section, which the parser never reads.                                  *)
ParseQueryHex(f) ==
    IF f.kind \in {"badhex", "short"} THEN QueryDefaults
    ELSE [QueryDefaults EXCEPT !.qid = f.id, !.rd = f.rd]

(* parse_query_hex_file: defaults for a missing or blank file *)
ParseQueryFile(f) ==
    IF f.kind \in {"absent", "blank"} THEN QueryDefaults ELSE ParseQueryHex(f)

(* resp.get(key, default) on `parse_response_txt(...) or {}` *)
RespGet(r, key) ==
    IF r # None THEN r[key]
    ELSE [timeout |-> FALSE, resp_id |-> 0,
          rcode |-> "rcNotSet", nscount |-> 0, opt_present |-> TRUE,
          resp_size |-> 0, cname_chase_count |-> 0, resp_port |-> 53][key]

(* The derivation from the three dicts (lines 203-321), key by key. *)
Derive(q, r, net) ==
    [query_do |-> q.do,
     query_rd |-> q.rd,
     query_payload_sent |-> q.present,
     response_txt_present |-> r # None,
     response_timeout_reported |-> RespGet(r, "timeout"),
     opt_present |-> RespGet(r, "opt_present"),
     resp_exceeds_1232 |-> RespGet(r, "resp_size") > MAX_UDP_RESPONSE_SIZE,
     resp_exceeds_4096 |-> RespGet(r, "resp_size") > 4096,
     excessive_cname_chase |->
         RespGet(r, "cname_chase_count") > CNAME_CHASE_THRESHOLD,
     id_mismatch |-> q.qid # RespGet(r, "resp_id"),
     negative_cache_indicator |->
         RespGet(r, "rcode") = "NXDOMAIN" /\ RespGet(r, "nscount") > 0,
     pcap_udp_query_seen |-> net.udp_q,
     pcap_tcp_retry_seen |-> net.tcp_retry,
     pcap_response_seen |-> net.resp_seen,
     auth_ns_query_seen |-> net.auth_q,
     auth_ns_response_seen |-> net.auth_rsp,
     forwarder_query_seen |-> net.forwarder_q,
     unexpected_external_query |-> net.unexpected_external,
     udp_query_count |-> net.udp_query_count,
     tcp_query_count |-> net.tcp_query_count,
     excessive_udp_queries |-> net.udp_query_count > UDP_QUERY_THRESHOLD,
     excessive_tcp_queries |-> net.tcp_query_count > TCP_QUERY_THRESHOLD,
     rd_zero_but_forwarded |-> ~q.rd /\ net.forwarder_q,
     large_upstream_accepted |-> net.max_udp_resp_size > MAX_UDP_RESPONSE_SIZE,
     auth_source_expected |-> net.auth_target_correct,
     resp_from_unexpected_port |->
         RespGet(r, "resp_port") # 53 /\ RespGet(r, "resp_port") # 0]

-----------------------------------------------------------------------------
PInit ==
    /\ Init
    /\ stage = "query"
    /\ qfile = None
    /\ query = None
    /\ resp = None
    /\ kv = None

(* query_info = parse_query_hex_file(unit_dir / "query.txt"), with the    *)
(* presence flag of query.txt taken next to it                            *)
ReadQuery ==
    /\ stage = "query"
    /\ \E f \in QueryFiles :
         /\ qfile' = f
         /\ query' = ParseQueryFile(f) @@ [present |-> f.kind # "absent"]
    /\ stage' = "response"
    /\ UNCHANGED <<resp, kv, vars>>

(* resp = parse_response_txt(resp_file, query_name=query_name) or {} *)
ReadResponse ==
    /\ stage = "response"
    /\ \E r \in Responses : resp' = r
    /\ stage' = "pcap"
    /\ UNCHANGED <<qfile, query, kv, vars>>

(* net = parse_pcap(pcap, unit_no, resolver_name) *)
Capture ==
    /\ stage = "pcap"
    /\ \/ Open \/ ReadRecord \/ RecordsEnd \/ ClassifyPacket \/ PacketsEnd
    /\ UNCHANGED pvars

(* the derived keys, once parse_pcap has returned; then return kv *)
Build ==
    /\ stage = "pcap"
    /\ phase = "done"
    /\ kv' = Derive(query, resp, out)
    /\ stage' = "done"
    /\ UNCHANGED <<qfile, query, resp, vars>>

Built ==
    /\ stage = "done"
    /\ UNCHANGED allVars

PNext == ReadQuery \/ ReadResponse \/ Capture \/ Build \/ Built

PSpec == PInit /\ [][PNext]_allVars

-----------------------------------------------------------------------------
(* rd_zero_but_forwarded (spec 4.3, RC3): set exactly when query.txt holds *)
(* a query whose RD bit is clear and the capture shows the resolver        *)
(* sending a DNS query into the forwarder network.  A missing, blank or    *)
(* unreadable query.txt has no RD bit to be clear.                         *)
RdZeroForwarded ==
    stage = "done" =>
      kv.rd_zero_but_forwarded =
        /\ qfile.kind = "msg" /\ ~qfile.rd
        /\ \E o \in QueryDst : InNet(o, <<172, 22, 201>>)

=============================================================================
