# TLA+ models of the ResolverFuzz predicate adapter and monitor bridge

This directory holds TLA+ models of `src/ResolverFuzz/test_infra/predicate_adapter.py`
and `src/ResolverFuzz/test_infra/monitor_bridge.py`, together with the TLC
configurations that check them. The pipeline decodes the artifacts of each fuzzing
round (`response.txt`, `query.txt`, `tcpdump.pcap`, dnstap, cache dumps). It derives
one flat line of `key=value` predicates per resolver and streams that line to an
external LTL monitor process, with one process per resolver.

## 1. Inventory

### Components and their state

| Component | Code | State it keeps |
|---|---|---|
| Name decompression | `_read_dns_name` (pa 67-106) | per call: `labels`, `seen_offsets`, `jumped`, `original_offset`, `offset` |
| Wire decoder | `_parse_dns_wire` (pa 173-330), `_parse_rr` (125-143), `_is_in_bailiwick` (156-170) | per call: `offset`, `d`, `query_name`, `rr_index`, `ttl_vals`, `opt_present`, `dnssec_present`, section lists, `cname_targets`, `cname_loop_detected`, `cname_chase_count` |
| Response file | `parse_response_txt` (380-406), `_extract_dns_bytes` (333-358), `_EMPTY_RESPONSE` | none: a sequence of tests on the text |
| Query file | `_parse_dns_query_hex`, `parse_query_hex_file` (411-454) | none |
| Capture decoder | `_read_pcap_packets` (461-544), `parse_pcap` (557-633) | per call: link type, packet list, the `out` counters and flags |
| dnstap / cache scanning | `parse_dnstap`, `parse_cache` (640-789) | per call: the `out` flags of the dnstap scan, the `d` accumulators of the cache scan, `query_zone` |
| Predicate derivation | `build_predicates` (mb 164-355) | none: it combines the decoders' dicts |
| Monitor bridge | `MonitorBridge` (mb 52-134) | `self.p` (the subprocess or None), `self._lock`, the monitor's stdin pipe |
| Session pool | `MonitorPool` (mb 137-152) | `self._bridges`, a map from resolver to bridge |
| Streaming driver | `stream_round_to_monitor` (mb 358-367) | none |

`src/profuzzbench/.../sloc.py` is a line-counting script that belongs to a fuzzing
subject. It has no part in this pipeline, and the spec calls it unrelated to the
system.

### How they interact

1. `stream_round_to_monitor` runs once per test round. For each resolver it calls
   `build_predicates`.
2. `build_predicates` calls the decoders:
   - `parse_response_txt`, which calls `_parse_dns_wire`, which calls `_read_dns_name` and `_parse_rr`;
   - the query parser;
   - `parse_pcap`;
   - the dnstap and cache scanners.
3. It then passes the line to `pool.get_bridge(resolver).send_line(kv)`.
4. Rounds may run on several threads. The decoders share no state. The pool and each
   bridge are shared.
5. At shutdown the orchestrator calls `end_all_sessions`, which writes `END` to every
   monitor, and then `terminate_all`.

### Hard behaviours

Decoders parse attacker-controlled bytes. The hard cases are:
- compression-pointer cycles and nested pointers;
- pointers and labels that run past the end of the buffer;
- records that are truncated in the middle of the section counts;
- case and string-suffix tricks in owner names;
- CNAME chains.

The bridge has its own hard cases:
- concurrent callers of `get_bridge`;
- a monitor that crashes between the poll and the write;
- a monitor that hangs and stops reading;
- failing `Popen` calls, and failing opens of the monitor's log files;
- shutdown racing the last lines.

`PROJECT.json` lists each hazard at its line.

## 2. Plan

Modules, in build order. (done) means the module exists now.

1. **DnsNames** (done): string helpers on decoded names, written as sequences of code
   points: join, trailing dot, `lower`, `rstrip('.')`, `split('.')` and `endswith`.
2. **NameDecode** (done): `_read_dns_name` as a step machine over every small byte
   buffer. It is checked against a RECURSIVE reference decoder and for termination.
3. **WireDecoder** (done): `parse_response_txt` and `_parse_dns_wire`, which cover the
   question loop, query-name substitution and the record loop with all of its
   accumulators. Names are the strings that NameDecode produces.
4. **MonitorBridge** (done): the pool, the bridges, and the monitor processes as an
   environment. Worker threads and a shutdown thread are the actors.
5. **CaptureDecoder** (done): `_read_pcap_packets` and `parse_pcap` over captures
   of a few frames. Each frame is built as bytes from a description (IP version, IHL,
   protocol, addresses, ports, QR bit) and decoded the way the code decodes it.
   Properties cover the UDP query count and the role flags.
6. **Predicates** (done): `build_predicates` composed with the query-file parser and
   CaptureDecoder, with the thresholds and the defaults for missing artifacts.
7. **MonitorSession** (done): the abstract session state machine of spec 4.4, with the
   states Unstarted, Running and Terminated. MonitorBridge implements it through
   INSTANCE ... WITH a refinement mapping.
8. **ArtifactScan** (done): `parse_dnstap` and `parse_cache` over small directories
   of tap files, dumps, a JSON cache and a log, and the keys derived from them.

## 3. Modules and their correspondence to the code

### DnsNames.tla

A name is a sequence of code points. Helpers:
- `JoinLabels` and `FullName` give `".".join(labels)` and the trailing `"."` (pa 79, 105).
- `Lower`, `RStripDots`, `SplitDots` and `EndsWith` are the string operations of
  `_is_in_bailiwick`.

### NameDecode.tla (`_read_dns_name`)

- **State.** The variables are the locals of the function: `offset`, `labels`,
  `seen`, `jumped`, `original`. `raw` and `start` are the call's arguments, chosen in
  `Init` over every buffer of at most `MaxLen` bytes from `Bytes`.
- **Actions.** There is one action per branch of the loop body:
  - `Revisit` (offset already seen: return the labels and None)
  - `Terminator`
  - `PointerTruncated`
  - `Pointer` (the return offset is recorded only on the first jump)
  - `LabelOverrun`
  - `Label`
  - `LoopExit`
  
  `Entry` is the early return.
- **Reference.** `ReadDnsName` is a recursive decoder written directly from the
  meaning of the format.

### WireDecoder.tla (`parse_response_txt`, `_parse_dns_wire`)

**`parse_response_txt`.** `ReadResponseFile` takes its tests in the code's order:
1. missing, unreadable or blank file: None;
2. a timeout marker: the empty response with `timeout`;
3. no decodable bytes, or fewer than 12: `_EMPTY_RESPONSE`;
4. otherwise, the decoder.

The text is abstracted to those facts.

**The decoder.** The header counts are chosen in `Init`.
- `Question` reads one question or breaks with `offset = None`.
- Leaving the question loop applies `query_name = d["qname"]` when `query_name` is
  empty (`EffectiveQueryName`).
- `Record` reads one record chosen from `WireRecords`. `WireRecords` is what
  `_parse_rr` can return: owner, type, TTL, whether the RDATA is non-empty, and the
  CNAME target that `_read_dns_name` decodes there.
- `ProcessRecord` is lines 249-296 as one update of the accumulators.
- `RecordsEnd` leaves the loop in one of three cases: after `total_rrs` records, on
  `offset = None`, or at an unreadable record.
- `Decoded` and `Response` are the returned dicts.
- `rrs` records the records read, so that properties can state what the counters
  should be.

### MonitorBridge.tla (`MonitorBridge`, `MonitorPool`, `stream_round_to_monitor`)

**Variables.**

| Variable | Code |
|---|---|
| `pool` | `_bridges` |
| `bp` | each bridge's `self.p` |
| `lock` | each bridge's `_lock` |
| `procs` | every monitor process started, with its owner, status (alive, stalled, crashed, terminated), stdin pipe and the lines it has read |

**Actors.**
- **Worker thread.** It runs `NextLine`, then `get_bridge`, then `send_line`.
  - `get_bridge` is split into check, construct, assign and return, because it holds
    no lock.
  - `send_line` and `end_session` share the steps `Acquire`, `Ensure`
    (`_ensure_proc`), `Check` (`_is_broken`), `Write` and `Finish`. The lock is held
    from `Acquire` to `Finish`.
- **Main.** It joins the workers, then runs `EndAllSessions` and `TerminateAll`.
  `TerminateAll` is `terminate`, which has a bounded wait and then kill, so it always
  ends the process.
- **Monitor processes.** They read, crash (unread input is lost) or stall. These are
  modelled from the spec because the monitor binary is not in this repository.

**Write.**
- A write to an exited process raises. The code restarts the monitor inside the
  `except` and drops the line.
- A write to a live process blocks while its pipe is full (`PipeCap`).

**Starting a monitor.** `_start_proc` first opens the two log files
(`_make_log_files`), outside its `try`, and then calls `Popen` inside it.
- `StartProc` is the `try`: `Popen` fails (`self.p = None`) or a process starts.
- `LogFilesFail` is an `OSError` from opening a log file. `self.p` stays as it was,
  and the exception leaves `_start_proc`. Where it goes depends on the caller:
  - in `MonitorBridge.__init__`, called by `get_bridge`, nothing catches it. The
    worker's `stream_round_to_monitor` call ends with it (`pc = "raised"`), and Main's
    join counts that thread as finished;
  - in `_ensure_proc`, inside the `try` of `send_line` or `end_session`, it goes to
    the `except`. `Restart` tries `_start_proc` once more, swallowing what that
    raises (`StartAttempt`), and drops the line;
  - the restart in the `except` after a failed write is also a `StartAttempt`.

### CaptureDecoder.tla (`_read_pcap_packets`, `parse_pcap`)

**Input.** `Init` chooses:
- whether the file exists;
- the magic: either byte order, or another value;
- the link type;
- up to `MaxFrames` frames from `Packets`;
- whether the last record overruns the file;
- the resolver name.

A frame in `Packets` is a description. `WireBytes` lays it out as the bytes of the
link header, the IPv4 header with options, UDP with the first 4 bytes of DNS, or TCP.
This frame builder is the environment. It stands for what tcpdump writes, and is not
code of the repository.

**Decoding.**
- `DecodeFrame` is the body of the record loop, read off the bytes:
  - the length, EtherType and version tests;
  - `TransportOffset` from the IHL;
  - dotted addresses (`Dotted`, `Decimal`);
  - the UDP and TCP branches.
- `LinkHdrLen` and `EtypeOff` are the link table.

**Actions.**
- `Open` is the size test in `parse_pcap` and the magic test in `_read_pcap_packets`.
- `ReadRecord` handles one record.
- `RecordsEnd` ends the record loop, at the end of the data or at an overrunning record.
- `ClassifyPacket` is one iteration of `parse_pcap`'s packet loop. It applies
  `Classify`: the resolver-address test, the `DstRole` elif chain, the response
  branch and the TCP branch, with every test made on dotted strings as in the code.
- `PacketsEnd` leaves the packet loop, and `Returned` is the terminal stutter.

**Reference.** The properties compare `out` with the frames actually captured
(`Captured`), using octet prefixes (`InNet`) rather than string prefixes.

### Predicates.tla (`build_predicates`, `parse_query_hex_file`)

Predicates EXTENDS CaptureDecoder. It runs `build_predicates` in the code's order:
1. `ReadQuery`: `parse_query_hex_file`. `ParseQueryFile` and `ParseQueryHex` give the
   defaults for a missing, blank, non-hex or short file, and otherwise the id and RD
   bit. The DO bit is in the query's OPT record, which the parser never reads.
2. `ReadResponse`: the dict `parse_response_txt` returns, or None. The dict is an
   input here; WireDecoder models how it is decoded.
3. `Capture`: CaptureDecoder's steps, that is `parse_pcap`.
4. `Build`: `Derive` computes the keys from the three dicts, with `resp.get`
   defaults (`RespGet`) and the thresholds.

`Built` is the terminal stutter. Keys copied unchanged from the response dict and the
identification keys are left out; ArtifactScan derives the dnstap, log and cache keys.

### ArtifactScan.tla (`parse_dnstap`, `parse_cache`)

The two scanners `build_predicates` runs besides the decoders, in the code's order.
- The dnstap directory is a record: whether it exists, whether it can be listed, and
  its entries. An entry says whether `glob("*.json*")` yields it, whether it can be
  read, and which event markers each of its lines holds. `TapScanFile` is one turn
  of the glob loop, with the early return once both markers were seen.
  `TapFallback` is the `any(iterdir())` fallback.
- A text file is a sequence of line shapes (`Rr`, `TtlWord`, `NegWord`, `LogQuery`,
  or anything else). `LineTtls`, `NegLine`, `Quotes` and `FlagsOob` say what each
  regular expression of `_scan_text` matches in a line, and `ScanLine` applies all
  of them. Every accumulator is a minimum, a sum or an or, so a fold over lines
  gives what the whole-text matching gives.
- A JSON document is a tree (`Dict`, `List`, `Num`, `Str`), walked by the RECURSIVE
  `WalkJson` with `VisitKey` on every key. Keys are written lower-cased and type
  strings upper-cased, as the code compares them. A `.json` file that `json.loads`
  refuses is text.
- `ScanDump` and `ScanLog` are one turn of each file loop. A dump that exists sets
  `written` even when it cannot be read. `Emit` derives the dnstap, log and cache
  keys.

`JsonTtls`, `FileTtls`, `Labels` and `Related` are reference definitions, computed
from the file contents alone: the TTLs in all files, and a name's relation to the
query zone label by label.

### MonitorSession.tla (spec 4.4) and the refinement

**The abstract specification.** Each resolver has one session. Its variables are:
- `state`: Unstarted, Running or Terminated;
- `inflight`: lines written and not yet read;
- `delivered`: lines the monitor has read.

Its actions are `Start`, `Send`, `Deliver`, `Exit` and `Terminate`.
- `Send` requires Running.
- `Exit` and `Terminate` discard the lines in flight. This is the spec's
  "at-least-zero" delivery.
- Terminated is final.

**The mapping.** It is defined at the end of MonitorBridge.tla (`SessionState`,
`InFlight`, `DeliveredTo`). A resolver's session is the bridge in its pool entry:
- Unstarted when there is no bridge, `self.p` is None, or the process crashed;
- Terminated when `terminate()` ended the process;
- Running otherwise.

The lines in flight are the current monitor's stdin pipe. The delivered lines are the
reads of all the monitors of that bridge, in the order they were started.

**The property.** `SessionRefined` is `Session!SessionSpec` and is checked as a
PROPERTY. Every step of the pool, the bridges and the monitor processes is therefore
a step of the session machine, or leaves it unchanged.

## 4. Runs

| Run | cfg | Expect | What it shows |
|---|---|---|---|
| name_decode | MC_NameDecode.cfg | pass | `DecodesAsReference`: the loop equals the recursive reference on every buffer of at most 5 bytes, from every start offset<br>`Terminates`: decoding returns even on pointer cycles |
| bridge | MC_MonitorBridge.cfg | pass | `NoOrphanMonitor`: every monitor that has not exited is its bridge's `self.p`<br>`FailureAttributable`: a skipped or dropped line is always preceded, within its own call, by a crash or failed start<br>`AllCallsReturn`: when no monitor hangs, every call returns and shutdown completes, through crashes, a failed start and full pipes |
| bridge_shutdown | MC_MonitorBridge_Sequential.cfg | pass | `NoMonitorOutlivesShutdown`: with one sender over two resolvers, terminate_all ends every monitor<br>`SessionRefined`: the pool and bridges implement MonitorSession, through crashes, a failed `Popen` and a failed open of the log files |
| bridge_stall | MC_MonitorBridge_Stall.cfg | violation | `AllCallsReturn` fails: a hung monitor blocks `send_line` forever under the lock |
| pool_race | MC_MonitorBridge_PoolRace.cfg | violation | `NoMonitorOutlivesShutdown` fails with two racing `get_bridge` calls |
| log_fail | MC_MonitorBridge_LogFail.cfg | violation | `NoFailurePropagates` fails: an `OSError` opening the log files while `get_bridge` constructs a bridge reaches the caller of `stream_round_to_monitor`, against spec 7 |
| wire | MC_WireDecoder.cfg | pass | `OutOfBailiwickSound`: the count never exceeds the records truly outside the zone<br>`SectionCounters`: the NS, glue and invalid-authority counts match the header's sections, including after an early stop|
| wire_cname_cycle | MC_WireDecoder_CnameCycle.cfg | violation | `CnameCycleDetected` fails: the cycle `d.`→`a.c.`, `A.c.`→`d.` is not flagged, although the loop test is commented "Circular reference?" |
| wire_bailiwick_exact | MC_WireDecoder_BailiwickExact.cfg | violation | `BailiwickCountExact` fails: `ba.c.` is treated as inside `a.c` |
| predicates | MC_Predicates.cfg | pass | `RdZeroForwarded`: `rd_zero_but_forwarded` is set exactly when query.txt holds a query with RD clear and the capture shows the resolver querying the forwarder network<br>`UdpQueriesCounted`: `udp_query_count` equals the resolver's well-formed UDP queries to port 53 in the captured frames, over every link type, IP options, both byte orders, a bad magic and a truncated last record<br>`RolesClassified`: `forwarder_q`, `auth_q` and `unexpected_external` follow the octets of the destinations |
| capture_lookalike | MC_CaptureDecoder_Lookalike.cfg | violation | `RolesClassified` fails: a query to 172.220.1.1 sets `auth_q`, because the `"172.22"` string prefix matches it |
| artifacts | MC_ArtifactScan.cfg | pass | `MinTtlIsLeast`: `cache_min_ttl` is -1 exactly when no TTL was matched, and otherwise the least TTL matched in any dump, JSON cache or log<br>`OutOfBailiwickCacheSound`: `out_of_bailiwick_in_cache` is set only for a cached IN record whose name is not the zone, not inside it and not a parent of it |

Each property of a passing run also has a mutant in `PROJECT.json`: a plausible slip
in the code that TLC shows the property catches. Examples are a missing `.lower()`,
an off-by-one at a section boundary, and a poll check left out or inverted.

## 5. Bounds and why they are enough

**NameDecode.** Buffers hold at most 5 bytes over
{0, 1, 2, 3, 64, 97, 192}. These values give:
- terminators;
- labels of length 1 to 3;
- a label whose length runs past the end;
- a byte of 128 or more (replaced on decoding);
- pointers to every offset, including self, mutual and out-of-range pointers, and
  nested jumps.

**WireDecoder.**
- Each section count is at most 1, so there are up to 3 records. Every boundary
  between sections is crossed, and a record can be unreadable at each position.
- TTLs are 0 only: no property of these runs depends on the TTL.
- There is at most one question, so both the qname substitution and the broken
  question section occur.
- Owner names are chosen so that each case of the bailiwick test occurs:
  - same name with different case (`A.c.`);
  - a string suffix that is outside the zone (`ba.c.`);
  - a name outside the zone (`d.`).
- Query names are `x.a.c.` or empty.

**Predicates and CaptureDecoder.**
- Query files are absent, non-hex, short, or a message with RD set or clear.
- Responses are None, the timeout dict, `_EMPTY_RESPONSE`, a NOERROR dict, and an
  NXDOMAIN dict with one authority record and 11 CNAME chases.
- Captures hold up to 2 frames from 9 descriptions. Two frames are enough for the
  truncated-last-record case to keep one record and drop the next. These include:
  - queries to each role: the forwarder, another forwarder-network host, an
    authoritative server, a public address and the client;
  - an upstream response;
  - a query with IP options;
  - a TCP segment;
  - an IPv6 frame.
- Link types 1, 113, 276 and 101 cover each row of the link table that has a header
  layout: Ethernet, Linux cooked v1 and v2, and raw IP.
- The resolver is either bind9 of unit 1, or a name the prefix table lacks, which
  takes the fallback test on `172.22`.
- The violation run adds one frame: a destination of 172.220.1.1.

**ArtifactScan.**
- Three query names: one with a zone (`x.a.c.`), none, and a single label, which
  leaves the zone empty and turns the bailiwick test off.
- Seven dnstap directories: missing, unlistable, empty, a query-only tap file, a
  non-tap file alone, a complete tap file with an unreadable one, and a query-only
  with a complete one. These reach the early return and the fallback, and feed
  `TypeOK` every shape of directory.
- `named_dump.db` missing, unreadable, empty, or one of three two-line dumps. The
  dumps hold a parent NS, an outside A with spaces, a lookalike (`ba.c.`), the zone
  in capitals, a chaos TXT and an NSEC record at the root.
- `cache.json` missing, a list of records, a list nested under a key, or text that
  `json.loads` refuses.
- `bind.log` missing, unreadable, a logged NS query with a TTL word, or a logged
  negative answer.
- Two of the four dump names and one of the six log names are enough: the loops
  treat every name alike, except the `.json` suffix and membership in the
  `log_error_seen` list.

**MonitorBridge.**
- Two threads give the `get_bridge` race and contention on the lock.
- Two crashes and one spawn failure reach every recovery path, and a monitor that
  crashes again after its restart.
- A pipe capacity of 1 (2 in the sequential run) makes writes block.
- One failing open of the log files, in the sequential run, reaches each place the
  `OSError` can arise: the construction of a bridge, `_ensure_proc`, and the restarts
  in the `except` blocks. The two-worker run keeps it at 0, since the failure takes
  no lock and does not interact with the other worker. The log_fail run needs one
  worker and one failure.
- Larger values add only repetitions of the same interleavings.

The refinement is checked only in the sequential configuration. With two workers, the
`get_bridge` race (run pool_race) can replace a resolver's bridge, and with it the
resolver's session.

## 6. Fairness

The worker threads and Main are weakly fair: the OS schedules threads, and the GIL is
handed off. A running monitor keeps reading, so `MonitorRead` is weakly fair for each
process. Crashes, stalls, spawn failures and log-file failures are never forced.

`AllCallsReturn` holds in the bridge run under this fairness: the main thread waits only
for locks and full pipes, which fair workers and fair reading release, and a write to
an exited monitor raises instead of blocking. It fails in bridge_stall, where a hung
monitor never reads, and no fairness of the code's can help.

`Terminates` assumes weak fairness of the decoder's own steps, which is a sequential
loop.

## 7. Not modelled

- **Header flag extraction and `_norm_rcode`/`_norm_qtype`.**
  These are field extraction without control that a property depends on.
- **The text of artifacts.** ArtifactScan abstracts text to the line shapes the
  patterns tell apart. Negative JSON TTLs, and which dump layouts put tabs around the
  class, are listed as hazards.
- **sloc.py.** A line counter of a fuzzing subject, which the spec calls unrelated.
- **Dead code.** `_skip_dns_name` and `_get_parent_zone` have no callers.
- **Log files and result paths.** The names and paths of `_make_log_files` and
  `results_root_for_mode` are data. Only the failure of opening the files is modelled.
  `results_root_for_mode` has no caller. The file objects are not leaked: nothing keeps
  a reference to them once `_start_proc` returns, so CPython closes them.
- **Shutdown overlapping the workers.** No caller of `end_all_sessions` is in the
  repository. The model has Main join the workers first. A caller that does not join
  could have `get_bridge` insert into `_bridges` while `end_all_sessions` iterates it,
  which raises `RuntimeError`.
- **END lost at termination.** `terminate` kills the monitor right after `end_all_sessions`
  wrote END, without waiting for it to be read. `EndSentinelRead` in MonitorBridge
  states that END is read; checking it with the constants of
  MC_MonitorBridge_Sequential.cfg, one resolver, `MaxSends = 1` and `PipeCap = 1`
  gives the counterexample. The spec says nothing on whether END must be read
  before termination, so no run checks it.
- **The rest of predicate derivation.** The identification keys and the keys copied
  unchanged from a decoder are left out.  The dnstap, log and cache keys are
  derived in ArtifactScan, separately from Predicates. The counts reach at most 2, so `excessive_udp_queries` and
  `excessive_tcp_queries` are modelled but stay false: the boundary of 5 and 6
  (spec 8.5) is one comparison, not a question for a model checker.
- **Observed while modelling.** `query_do` is always false, because the query's OPT
  record is never read. Spec 4.3 lists the DO flag among the merged query fields. With
  no response, `id_mismatch` compares the query id with the default 0, and
  `opt_present` defaults to true, whereas `_EMPTY_RESPONSE` says false. No run checks
  these: each is a single assignment. The dnstap flags are decided by the
  `any(iterdir())` fallback after the scan: any directory with an entry sets both
  `dnstap_query_seen` and `dnstap_response_seen`, so a tap holding only CLIENT_QUERY
  events reports a response, against the docstring ("query & response evidence")
  and the event markers of spec 6. No run checks this.
- **RC2 in the cache.** `invalid_types_in_cache` is initialised false and never set,
  although the docstring of `parse_cache` lists RC2 detection. `Emit` copies the
  constant.
- **IHL below 5.** `_read_pcap_packets` (pa 514) accepts an IPv4 header length of
  0. The UDP ports are then read from the IP header, so a 53-byte datagram to port 7
  counts as a DNS query. TLC finds `UdpQueriesCounted` violated when
  `BadIhlPackets` of MC_CaptureDecoder is the frame set. No run keeps this, because
  the fuzzer crafts DNS payloads, never IP headers.
- **Capture details.** Record timestamps and the byte order of record headers are
  abstracted: the magic's byte order is a choice that does not change the decoded
  fields. Nanosecond captures fall under the "other" magic, like any non-pcap file.
- **TTLs of 2^31 or more.** TLC's integers do not reach them.
