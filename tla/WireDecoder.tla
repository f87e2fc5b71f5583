------------------------------ MODULE WireDecoder ------------------------------
(***************************************************************************)
(* _parse_dns_wire of predicate_adapter.py on a response whose 12-byte     *)
(* header is present: the question loop, then the loop over the           *)
(* ancount + nscount + arcount resource records that stops at the first    *)
(* record it cannot read, accumulating the predicates of the response.    *)
(*                                                                         *)
(* Bytes are abstracted to what the loops see.  A question is a name or    *)
(* unreadable; a resource record is what _parse_rr returns (owner name,    *)
(* type, TTL, whether RDATA is non-empty, and the name _read_dns_name      *)
(* decodes at the RDATA offset), or Unreadable when _parse_rr returns None *)
(* or the buffer has ended.  Which one the next bytes hold is chosen as    *)
(* the loop reads them, so every message over the constant sets is        *)
(* covered.  Names are decoded strings (DnsNames), as NameDecode yields.   *)
(***************************************************************************)
EXTENDS Integers, Sequences, SequencesExt, FiniteSets, DnsNames

Gr == INSTANCE Graphs

CONSTANTS MaxCount,       \* largest ancount, nscount, arcount considered
          MaxQuestions,   \* largest qdcount considered
          QueryNames,     \* query_name argument: the name read from query.txt
          QuestionNames,  \* names in the response's question section
          Owners,         \* owner names of resource records
          Types,          \* record types
          TTLs,           \* 32-bit TTL field values
          Targets,        \* names decoded at a CNAME's RDATA offset
          Unreadable      \* a question or record the buffer cannot yield

ASSUME MaxCount \in Nat /\ MaxQuestions \in Nat
ASSUME TTLs \subseteq Nat /\ Types \subseteq 0..65535   \* TTLs: 32-bit, below 2^31 in TLC

(* record type codes the decoder tests *)
A == 1
NS == 2
CNAME == 5
SOA == 6
AAAA == 28
OPT == 41

(* _DNSSEC_TYPES: RRSIG, DNSKEY, DS, NSEC, NSEC3, NSEC3PARAM *)
DnssecTypes == {46, 48, 43, 47, 50, 51}

(* types allowed in the authority section (line 317) *)
AuthorityTypes == {NS, SOA} \cup DnssecTypes

(* What _parse_rr can return.  Only a CNAME's RDATA and target are read,  *)
(* so other records carry a fixed placeholder for them.                    *)
WireRecords ==
    {r \in [name : Owners, type : Types, ttl : TTLs,
            rdata : BOOLEAN, target : Targets] :
        r.type # CNAME => r.rdata /\ r.target = <<>>}

VARIABLES
    hdr,     \* qdcount, ancount, nscount, arcount of the header
    qn,      \* query_name, replaced by the response's qname if empty
    qname,   \* d["qname"]: the last question read
    qleft,   \* questions still to read
    broken,  \* offset is None: a question could not be read
    idx,     \* rr_index: records read so far
    acc,     \* the loop's accumulators
    rrs,     \* the records read, in order (history, for the properties)
    ret,     \* what parse_response_txt returns: pending, None, timeout, empty, wire
    pc

vars == <<ret, hdr, qn, qname, qleft, broken, idx, acc, rrs, pc>>

-----------------------------------------------------------------------------
(* A plausible slip: the bailiwick test without .lower() *)
InBailiwickCaseSensitive(rrName, queryName) ==
    IF rrName = <<>> \/ queryName = <<>> THEN TRUE
    ELSE LET rr == RStripDots(rrName)
             qParts == SplitDots(RStripDots(queryName))
             zone == JoinLabels(SubSeq(qParts, Len(qParts) - 1, Len(qParts)))
         IN  IF Len(qParts) < 2 THEN TRUE
             ELSE EndsWith(rr, zone) \/ rr = zone

(* _is_in_bailiwick (lines 156-170) *)
InBailiwick(rrName, queryName) ==
    IF rrName = <<>> \/ queryName = <<>> THEN TRUE
    ELSE LET rr == RStripDots(Lower(rrName))
             qParts == SplitDots(RStripDots(Lower(queryName)))
             zone == JoinLabels(SubSeq(qParts, Len(qParts) - 1, Len(qParts)))
         IN  IF Len(qParts) < 2 THEN TRUE
             ELSE EndsWith(rr, zone) \/ rr = zone

(* A plausible slip: < written <= at the authority section's lower end *)
InAuthorityFromAnswer(k) == hdr.an <= k /\ k <= hdr.an + hdr.ns

(* The section of the k-th record (lines 250-252). *)
InAuthority(k) == hdr.an < k /\ k <= hdr.an + hdr.ns
InAdditional(k) == k > hdr.an + hdr.ns

(* target.lower() == rr["name"].lower() (line 291) *)
CnameSelfLoop(rr) == Lower(rr.target) = Lower(rr.name)

(* One iteration of the record loop on a record read (lines 246-296). *)
ProcessRecord(rr) ==
    LET k == idx + 1
        auth == InAuthority(k)
        addl == InAdditional(k)
        chase == rr.type = CNAME /\ rr.rdata /\ rr.target # <<>>
        src == Lower(rr.name)
    IN  acc' = [acc EXCEPT
          !.opt = @ \/ rr.type = OPT,
          !.do = @ \/ (rr.type = OPT /\ (rr.ttl % 65536) \div 32768 = 1),
          !.dnssec = @ \/ (rr.type # OPT /\ rr.type \in DnssecTypes),
          !.ttls = IF rr.type # OPT THEN @ \cup {rr.ttl} ELSE @,
          !.oob = IF (auth \/ addl) /\ rr.type # OPT
                     /\ ~InBailiwick(rr.name, qn) THEN @ + 1 ELSE @,
          !.authTypes = IF auth THEN Append(@, rr.type) ELSE @,
          !.unsNs = IF auth /\ rr.type = NS THEN @ + 1 ELSE @,
          !.unsA = IF addl /\ rr.type \in {A, AAAA} THEN @ + 1 ELSE @,
          !.chase = IF rr.type = CNAME THEN @ + 1 ELSE @,
          !.loop = @ \/ (chase /\ (CnameSelfLoop(rr) \/ src \in acc.sources)),
          !.sources = IF chase THEN @ \cup {src} ELSE @]

-----------------------------------------------------------------------------
Init ==
    /\ hdr \in [qd : 0..MaxQuestions, an : 0..MaxCount,
                ns : 0..MaxCount, ar : 0..MaxCount]
    /\ qn \in QueryNames
    /\ qname = <<>>
    /\ qleft = hdr.qd
    /\ broken = FALSE
    /\ idx = 0
    /\ acc = [opt |-> FALSE, do |-> FALSE, dnssec |-> FALSE, ttls |-> {},
              oob |-> 0, authTypes |-> <<>>, unsNs |-> 0, unsA |-> 0,
              chase |-> 0, loop |-> FALSE, sources |-> {}]
    /\ rrs = <<>>
    /\ ret = "pending"
    /\ pc = "file"

(* The text of response.txt, abstracted to what parse_response_txt tests: *)
(* whether the file exists, is readable and non-blank; whether it holds   *)
(* TIMEOUT, TIMED OUT or NO RESPONSE in any case; and what               *)
(* _extract_dns_bytes makes of it: no bytes, fewer than 12, or a message. *)
ResponseTexts ==
    [present : BOOLEAN, marker : BOOLEAN, bytes : {"none", "short", "dns"}]

(* _extract_dns_bytes: b'<hex>', a bytes literal, or plain hex of at      *)
(* least 24 digits; anything else is None.                                *)
ExtractDnsBytes(txt) == txt.bytes

(* parse_response_txt: the checks in the code's order, then the decoder *)
ReadResponseFile ==
    /\ pc = "file"
    /\ \E txt \in ResponseTexts :
         CASE ~txt.present -> ret' = "None" /\ pc' = "done"
           [] txt.marker -> ret' = "timeout" /\ pc' = "done"
           [] ExtractDnsBytes(txt) # "dns" -> ret' = "empty" /\ pc' = "done"
           [] OTHER -> ret' = "wire" /\ pc' = "question"
    /\ UNCHANGED <<hdr, qn, qname, qleft, broken, idx, acc, rrs>>

(* if not query_name and d["qname"]: query_name = d["qname"] (218-219), *)
(* taken when the question loop is left.                                  *)
EffectiveQueryName == IF qn = <<>> /\ qname # <<>> THEN qname ELSE qn

(* for _ in range(qdcount): a question read, or offset = None and break *)
Question ==
    /\ pc = "question"
    /\ qleft > 0
    /\ \E q \in QuestionNames \cup {Unreadable} :
         IF q = Unreadable
         THEN /\ broken' = TRUE
              /\ pc' = "records"
              /\ qn' = EffectiveQueryName
              /\ UNCHANGED <<qname, qleft>>
         ELSE /\ qname' = q
              /\ qleft' = qleft - 1
              /\ UNCHANGED <<broken, pc, qn>>
    /\ UNCHANGED <<ret, hdr, idx, acc, rrs>>

(* the question loop ends after qdcount questions *)
QuestionsDone ==
    /\ pc = "question"
    /\ qleft = 0
    /\ pc' = "records"
    /\ qn' = EffectiveQueryName
    /\ UNCHANGED <<ret, hdr, qname, qleft, broken, idx, acc, rrs>>

(* for _ in range(total_rrs) is left after total_rrs records, when offset *)
(* is None (a broken question section), or at the first record the buffer *)
(* cannot yield (offset >= len(raw), or _parse_rr returns None): the last *)
(* is possible before any record, so leaving is always enabled here.      *)
RecordsEnd ==
    /\ pc = "records"
    /\ pc' = "done"
    /\ UNCHANGED <<ret, hdr, qn, qname, qleft, broken, idx, acc, rrs>>

(* A plausible slip: records read while the buffer lasts, past total_rrs *)
RecordPastCount ==
    /\ pc = "records"
    /\ ~broken
    /\ \E rr \in WireRecords :
         /\ ProcessRecord(rr)
         /\ rrs' = Append(rrs, rr)
    /\ idx' = idx + 1
    /\ UNCHANGED <<ret, hdr, qn, qname, qleft, broken, pc>>

(* one record read: offset = rr["next_offset"]; rr_index += 1; lines 254-296 *)
Record ==
    /\ pc = "records"
    /\ ~broken
    /\ idx < hdr.an + hdr.ns + hdr.ar
    /\ \E rr \in WireRecords :
         /\ ProcessRecord(rr)
         /\ rrs' = Append(rrs, rr)
    /\ idx' = idx + 1
    /\ UNCHANGED <<ret, hdr, qn, qname, qleft, broken, pc>>

Returned ==
    /\ pc = "done"
    /\ UNCHANGED vars

Next == ReadResponseFile \/ Question \/ QuestionsDone \/ Record \/ RecordsEnd \/ Returned

Spec == Init /\ [][Next]_vars

-----------------------------------------------------------------------------
(* _EMPTY_RESPONSE, the predicates of the fields the decoder sets *)
EmptyResponse ==
    [timeout |-> FALSE, malformed |-> TRUE, ancount |-> 0, nscount |-> 0,
     arcount |-> 0, opt_present |-> FALSE, do |-> FALSE,
     dnssec_present |-> FALSE, cname_loop_detected |-> FALSE,
     cname_chase_count |-> 0, out_of_bailiwick_count |-> 0,
     unsolicited_ns_count |-> 0, unsolicited_a_count |-> 0,
     invalid_authority_types |-> 0, resp_min_ttl |-> -1, ttl_zero |-> FALSE]

(* The dict the decoder returns, from the accumulators (lines 298-330). *)
Decoded ==
    [timeout |-> FALSE, malformed |-> FALSE,
     ancount |-> hdr.an, nscount |-> hdr.ns, arcount |-> hdr.ar,
     opt_present |-> acc.opt, do |-> acc.do, dnssec_present |-> acc.dnssec,
     cname_loop_detected |-> acc.loop, cname_chase_count |-> acc.chase,
     out_of_bailiwick_count |-> acc.oob,
     unsolicited_ns_count |-> acc.unsNs, unsolicited_a_count |-> acc.unsA,
     invalid_authority_types |->
        Cardinality({i \in DOMAIN acc.authTypes :
                        acc.authTypes[i] \notin AuthorityTypes}),
     resp_min_ttl |-> IF acc.ttls = {} THEN -1 ELSE Min(acc.ttls),
     ttl_zero |-> 0 \in acc.ttls]

(* What parse_response_txt returns once done *)
Response ==
    CASE ret = "None" -> "None"
      [] ret = "timeout" -> [EmptyResponse EXCEPT !.timeout = TRUE,
                                                  !.malformed = FALSE]
      [] ret = "empty" -> EmptyResponse
      [] OTHER -> Decoded

-----------------------------------------------------------------------------
(* Reference definitions, stated over the records read (rrs).            *)

(* RFC 1035 section 4.1: the first ancount records answer, the next      *)
(* nscount are authority, the rest additional.                           *)
SectionOf(k) ==
    IF k <= hdr.an THEN "answer"
    ELSE IF k <= hdr.an + hdr.ns THEN "authority" ELSE "additional"

Read(sec) == {k \in DOMAIN rrs : SectionOf(k) = sec}

(* A name is inside the zone of the last two labels of the query name    *)
(* when it is that zone or a subdomain of it, label by label, ignoring   *)
(* case (RFC 4343); undetermined names count as inside, as in the code.  *)
InZone(name, q) ==
    LET n == RStripDots(Lower(name))
        qParts == SplitDots(RStripDots(Lower(q)))
        zone == JoinLabels(SubSeq(qParts, Len(qParts) - 1, Len(qParts)))
    IN  \/ name = <<>> \/ q = <<>> \/ Len(qParts) < 2
        \/ n = zone
        \/ EndsWith(n, <<Dot>> \o zone)

OutOfZone == {k \in Read("authority") \cup Read("additional") :
                 rrs[k].type # OPT /\ ~InZone(rrs[k].name, qn)}

(* CNAMEs whose target the code reads, as a graph over lower-cased names *)
Chased == {k \in DOMAIN rrs : rrs[k].type = CNAME /\ rrs[k].rdata
                                /\ rrs[k].target # <<>>}
CnameGraph ==
    [node |-> {Lower(rrs[k].name) : k \in Chased} \cup
              {Lower(rrs[k].target) : k \in Chased},
     edge |-> {<<Lower(rrs[k].name), Lower(rrs[k].target)>> : k \in Chased}]

-----------------------------------------------------------------------------
TypeOK ==
    /\ hdr \in [qd : 0..MaxQuestions, an : 0..MaxCount,
                ns : 0..MaxCount, ar : 0..MaxCount]
    /\ qn \in QueryNames \cup QuestionNames
    /\ qleft \in 0..hdr.qd
    /\ broken \in BOOLEAN
    /\ idx = Len(rrs) /\ idx <= hdr.an + hdr.ns + hdr.ar
    /\ rrs \in Seq(WireRecords)
    /\ acc.ttls \subseteq TTLs
    /\ ret \in {"pending", "None", "timeout", "empty", "wire"}
    /\ pc \in {"file", "question", "records", "done"}

(* out_of_bailiwick_count never exceeds the authority and additional     *)
(* records that really lie outside the query's zone: the string suffix   *)
(* test of _is_in_bailiwick, on lower-cased names and the effective      *)
(* query_name, never reports an in-zone record as out of bailiwick.      *)
OutOfBailiwickSound ==
    pc = "done" /\ ret # "None" =>
        Response.out_of_bailiwick_count <= Cardinality(OutOfZone)

(* out_of_bailiwick_count is exactly the number of authority and         *)
(* additional records outside the query's zone (spec section 8.4).      *)
BailiwickCountExact ==
    pc = "done" /\ ret # "None" =>
        Response.out_of_bailiwick_count = Cardinality(OutOfZone)

(* The section counters of the returned dict agree with the sections the *)
(* header's counts assign to the records read: unsolicited NS in the     *)
(* authority section, unsolicited A/AAAA in the additional section, and  *)
(* authority records of a type the RFC does not allow there.            *)
SectionCounters ==
    pc = "done" /\ ret # "None" =>
      /\ Response.unsolicited_ns_count =
           Cardinality({k \in Read("authority") : rrs[k].type = NS})
      /\ Response.unsolicited_a_count =
           Cardinality({k \in Read("additional") : rrs[k].type \in {A, AAAA}})
      /\ Response.invalid_authority_types =
           Cardinality({k \in Read("authority") :
                           rrs[k].type \notin AuthorityTypes})

(* _parse_dns_wire raises cname_loop_detected for any cycle among the   *)
(* CNAMEs of a response: its docstring lists "RC4: Self-CNAME reference / *)
(* CNAME loop" and the loop test (lines 283-297) is commented "Circular  *)
(* reference?".  A cycle through two names (a -> b, b -> a) is a loop.  *)
CnameCycleDetected ==
    pc = "done" /\ ret # "None" /\ Gr!HasCycle(CnameGraph)
        => Response.cname_loop_detected

=============================================================================
