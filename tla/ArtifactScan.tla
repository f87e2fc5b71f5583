---------------------------- MODULE ArtifactScan ----------------------------
(***************************************************************************)
(* The artifact scanners build_predicates calls besides the decoders:      *)
(* parse_dnstap over the unit's dnstap directory, then parse_cache over    *)
(* the resolver directory's cache dumps and log files, and the keys        *)
(* build_predicates derives from their dicts.                              *)
(*                                                                         *)
(* A text file is a sequence of lines, each line one of the shapes the     *)
(* regular expressions of _scan_text tell apart: a record line "name ttl   *)
(* class type ..." with tab or space separators, a "TTL n" word, a word    *)
(* NXDOMAIN/NEGATIVE/NSEC, a log line quoting "name IN type", or nothing   *)
(* they match.  Every accumulator of _scan_text is a minimum, a sum or an  *)
(* or, so matching the whole text regex by regex and folding line by line  *)
(* give the same dict.  A JSON document is a tree of dicts, lists, numbers *)
(* and strings, its keys written as they are after .lower() and its        *)
(* "type" strings as they are after .upper().                              *)
(***************************************************************************)
EXTENDS Integers, Sequences, SequencesExt, FiniteSets, DnsNames

CONSTANTS QueryNames,    \* qname of parse_query_hex_file ("" without query)
          TapDirs,       \* [exists, listable, entries] of the dnstap directory
          DumpFiles,     \* _CACHE_DUMP_FILES, in order
          LogFiles,      \* _LOG_FILES, in order
          JsonFiles,     \* the names ending in ".json"
          LogErrorFiles, \* the logs whose existence sets log_error_seen
          Contents       \* file name -> the contents it can have

FileNames == Range(DumpFiles) \cup Range(LogFiles)

VARIABLES
    stage,    \* "tap", "dump", "log", "done"
    qname,    \* the query name passed to parse_cache
    tapDir,   \* the dnstap directory
    tapTodo,  \* glob("*.json*") entries not yet read
    tap,      \* parse_dnstap's out
    files,    \* the resolver directory: name -> content
    i,        \* index into the file list being scanned
    d,        \* parse_cache's d
    kv        \* the keys build_predicates derives from tap and d

vars == <<stage, qname, tapDir, tapTodo, tap, files, i, d, kv>>

-----------------------------------------------------------------------------
(* Line shapes and JSON values *)
Rr(n, t, c, ty, sep) == [kind |-> "rr", name |-> n, ttl |-> t, cls |-> c,
                         type |-> ty, sep |-> sep]
TtlWord(t) == [kind |-> "ttl", ttl |-> t]
NegWord == [kind |-> "neg"]
LogQuery(n, ty) == [kind |-> "logq", name |-> n, cls |-> "IN", type |-> ty]

Dict(kvs) == [t |-> "dict", kv |-> kvs]
List(xs) == [t |-> "list", items |-> xs]
Num(n) == [t |-> "num", n |-> n]
Str(s) == [t |-> "str", s |-> s]

RrsetTypes == {"A", "AAAA", "MX", "NS", "CNAME", "TXT", "SOA"}
Classes == {"IN", "CH", "HS"}

-----------------------------------------------------------------------------
(* parse_dnstap (lines 640-663) *)

(* one file's lines: '"CLIENT_QUERY"' / '"CLIENT_RESPONSE"' in a line *)
TapRead(out, e) ==
    [query_seen |-> out.query_seen \/ \E k \in DOMAIN e.lines : "Q" \in e.lines[k],
     response_seen |-> out.response_seen \/ \E k \in DOMAIN e.lines : "R" \in e.lines[k]]

(* for f in dnstap_dir.glob("*.json*"): read_text (an error skips the    *)
(* file), scan its lines, return as soon as both events are seen          *)
TapScanFile ==
    /\ stage = "tap"
    /\ \E e \in tapTodo :
         /\ tapTodo' = tapTodo \ {e}
         /\ tap' = IF e.readable THEN TapRead(tap, e) ELSE tap
         /\ stage' = IF tap'.query_seen /\ tap'.response_seen THEN "dump" ELSE "tap"
    /\ UNCHANGED <<qname, tapDir, files, i, d, kv>>

(* After the loop: any(dnstap_dir.iterdir()) sets both flags; an error of *)
(* iterdir leaves them.  An absent directory has returned the defaults.   *)
TapFallback ==
    /\ stage = "tap"
    /\ tapTodo = {}
    /\ tap' = IF tapDir.listable /\ tapDir.entries # {}
              THEN [query_seen |-> TRUE, response_seen |-> TRUE]
              ELSE tap
    /\ stage' = "dump"
    /\ UNCHANGED <<qname, tapDir, tapTodo, files, i, d, kv>>

-----------------------------------------------------------------------------
(* parse_cache (lines 679-789) *)

(* the d parse_cache starts from *)
CacheDefaults ==
    [written |-> FALSE, neg_present |-> FALSE, min_ttl |-> -1,
     any_rrset |-> FALSE, cached_ns_count |-> 0, cached_a_count |-> 0,
     out_of_bailiwick_in_cache |-> FALSE, invalid_types_in_cache |-> FALSE]

(* the last two labels of the lower-cased query name, or "" *)
QueryZone(qn) ==
    LET parts == SplitDots(RStripDots(Lower(qn)))
    IN  IF qn # <<>> /\ Len(parts) >= 2
        THEN JoinLabels(SubSeq(parts, Len(parts) - 1, Len(parts)))
        ELSE <<>>

(* A plausible slip: the -1 sentinel taken part in min() *)
TakeTtlNoSentinel(m, v) == IF m < v THEN m ELSE v

(* d["min_ttl"] = v if d["min_ttl"] < 0 else min(d["min_ttl"], v) *)
TakeTtl(m, v) == IF m < 0 THEN v ELSE IF m < v THEN m ELSE v

(* the TTLs \bTTL\s+(\d+) and \t(\d+)\t(?:IN|CH|HS)\t capture in a line *)
LineTtls(l) ==
    CASE l.kind = "ttl" -> {l.ttl}
      [] l.kind = "rr" -> IF l.sep = "tab" /\ l.cls \in Classes THEN {l.ttl} ELSE {}
      [] OTHER -> {}

(* \bNXDOMAIN\b|\bNEGATIVE\b|\bNSEC\b, case-insensitive *)
NegLine(l) == l.kind = "neg" \/ (l.kind = "rr" /\ l.type = "NSEC")

(* "class type" as the rrset, NS and A patterns see it *)
Quotes(l, cls, types) ==
    l.kind \in {"rr", "logq"} /\ l.cls \in cls /\ l.type \in types

(* A plausible slip: a name that is a suffix of the zone not taken as its *)
(* parent                                                                  *)
FlagsOobNoParent(l, zone) ==
    /\ zone # <<>>
    /\ l.kind = "rr" /\ l.cls = "IN"
    /\ LET n == RStripDots(Lower(l.name))
       IN  ~EndsWith(n, zone) /\ n # zone

(* ^(\S+)\s+\d+\s+IN\s+ and the zone test on the cached name *)
FlagsOob(l, zone) ==
    /\ zone # <<>>
    /\ l.kind = "rr" /\ l.cls = "IN"
    /\ LET n == RStripDots(Lower(l.name))
       IN  ~EndsWith(n, zone) /\ n # zone /\ ~EndsWith(zone, n)

(* _scan_text, one line *)
ScanLine(zone, acc, l) ==
    [acc EXCEPT
       !.min_ttl = IF LineTtls(l) = {} THEN @
                   ELSE TakeTtl(@, CHOOSE v \in LineTtls(l) : TRUE),
       !.neg_present = @ \/ NegLine(l),
       !.any_rrset = @ \/ Quotes(l, Classes, RrsetTypes),
       !.cached_ns_count = @ + (IF Quotes(l, {"IN"}, {"NS"}) THEN 1 ELSE 0),
       !.cached_a_count = @ + (IF Quotes(l, {"IN"}, {"A", "AAAA"}) THEN 1 ELSE 0),
       !.out_of_bailiwick_in_cache = @ \/ FlagsOob(l, zone)]

ScanText(zone, acc, lines) ==
    FoldLeft(LAMBDA a, l : ScanLine(zone, a, l), acc, lines)

(* _walk_json: the checks on one key of a dict *)
VisitKey(k, v, acc) ==
    [acc EXCEPT
       !.min_ttl = IF k = "ttl" /\ v.t = "num" THEN TakeTtl(@, v.n) ELSE @,
       !.any_rrset = @ \/ (k = "type" /\ v.t = "str" /\ v.s \in RrsetTypes),
       !.cached_ns_count = @ + (IF k = "type" /\ v.t = "str" /\ v.s = "NS"
                                THEN 1 ELSE 0),
       !.cached_a_count = @ + (IF k = "type" /\ v.t = "str" /\ v.s \in {"A", "AAAA"}
                               THEN 1 ELSE 0),
       !.neg_present = @ \/ (k = "rcode" /\ v.t = "str" /\ v.s = "NXDOMAIN")]

(* _walk_json: every key of a dict, then its value; every item of a list *)
RECURSIVE WalkJson(_, _)
WalkJson(obj, acc) ==
    CASE obj.t = "dict" ->
           FoldLeft(LAMBDA a, p : WalkJson(p[2], VisitKey(p[1], p[2], a)), acc, obj.kv)
      [] obj.t = "list" -> FoldLeft(LAMBDA a, x : WalkJson(x, a), acc, obj.items)
      [] OTHER -> acc

(* one file of a list: a missing or unreadable file is skipped; a .json  *)
(* file that json.loads takes is walked, any other text is scanned        *)
ScanFile(f, zone, acc) ==
    LET c == files[f]
    IN  CASE c.kind = "json" /\ f \in JsonFiles -> WalkJson(c.doc, acc)
          [] c.kind = "text" -> ScanText(zone, acc, c.lines)
          [] OTHER -> acc

(* for fname in _CACHE_DUMP_FILES: an existing dump sets written *)
ScanDump ==
    /\ stage = "dump"
    /\ i <= Len(DumpFiles)
    /\ LET f == DumpFiles[i]
       IN  d' = IF files[f].kind = "absent" THEN d
                ELSE ScanFile(f, QueryZone(qname), [d EXCEPT !.written = TRUE])
    /\ i' = i + 1
    /\ UNCHANGED <<stage, qname, tapDir, tapTodo, tap, files, kv>>

DumpsDone ==
    /\ stage = "dump"
    /\ i > Len(DumpFiles)
    /\ stage' = "log"
    /\ i' = 1
    /\ UNCHANGED <<qname, tapDir, tapTodo, tap, files, d, kv>>

(* for fname in _LOG_FILES: an existing log is read and scanned as text *)
ScanLog ==
    /\ stage = "log"
    /\ i <= Len(LogFiles)
    /\ d' = ScanFile(LogFiles[i], QueryZone(qname), d)
    /\ i' = i + 1
    /\ UNCHANGED <<stage, qname, tapDir, tapTodo, tap, files, kv>>

(* build_predicates: the dnstap keys (lines 214-218), log_error_seen     *)
(* (lines 321-329) and the cache keys (lines 332-343), once the logs are  *)
(* scanned and parse_cache has returned                                   *)
Emit ==
    /\ stage = "log"
    /\ i > Len(LogFiles)
    /\ kv' = [dnstap_query_seen |-> tap.query_seen,
              dnstap_response_seen |-> tap.response_seen,
              log_error_seen |-> \E f \in LogErrorFiles : files[f].kind # "absent",
              cache_written |-> d.written,
              cache_neg_present |-> d.neg_present,
              cache_min_ttl |-> d.min_ttl,
              any_cache_rrset_present |-> d.any_rrset,
              cached_ns_count |-> d.cached_ns_count,
              cached_a_count |-> d.cached_a_count,
              out_of_bailiwick_in_cache |-> d.out_of_bailiwick_in_cache,
              invalid_types_in_cache |-> d.invalid_types_in_cache]
    /\ stage' = "done"
    /\ UNCHANGED <<qname, tapDir, tapTodo, tap, files, i, d>>

Done ==
    /\ stage = "done"
    /\ UNCHANGED vars

-----------------------------------------------------------------------------
(* A plausible slip: every entry of the directory read, not the glob's *)
InitAllEntries ==
    /\ qname \in QueryNames
    /\ tapDir \in TapDirs
    /\ tapTodo = tapDir.entries
    /\ tap = [query_seen |-> FALSE, response_seen |-> FALSE]
    /\ files \in {fs \in [FileNames -> UNION {Contents[f] : f \in FileNames}] :
                    \A f \in FileNames : fs[f] \in Contents[f]}
    /\ stage = "tap"
    /\ i = 1
    /\ d = CacheDefaults
    /\ kv = [k \in {} |-> FALSE]

ASSUME \A f \in FileNames \ JsonFiles : \A c \in Contents[f] : c.kind # "json"

Init ==
    /\ qname \in QueryNames
    /\ tapDir \in TapDirs
    /\ tapTodo = {e \in tapDir.entries : e.json}
    /\ tap = [query_seen |-> FALSE, response_seen |-> FALSE]
    /\ files \in {fs \in [FileNames -> UNION {Contents[f] : f \in FileNames}] :
                    \A f \in FileNames : fs[f] \in Contents[f]}
    /\ stage = "tap"
    /\ i = 1
    /\ d = CacheDefaults
    /\ kv = [k \in {} |-> FALSE]

Next ==
    \/ TapScanFile \/ TapFallback
    \/ ScanDump \/ DumpsDone \/ ScanLog \/ Emit
    \/ Done

Spec == Init /\ [][Next]_vars

-----------------------------------------------------------------------------
TypeOK ==
    /\ stage \in {"tap", "dump", "log", "done"}
    /\ tapTodo \subseteq {e \in tapDir.entries : e.json}
    /\ tap \in [query_seen : BOOLEAN, response_seen : BOOLEAN]
    /\ i \in 1..(Len(DumpFiles) + Len(LogFiles) + 1)
    /\ d.written \in BOOLEAN /\ d.neg_present \in BOOLEAN
    /\ d.min_ttl \in Int /\ d.min_ttl >= -1
    /\ d.cached_ns_count \in Nat /\ d.cached_a_count \in Nat
    /\ d.out_of_bailiwick_in_cache \in BOOLEAN
    /\ stage = "done" => kv.cache_min_ttl = d.min_ttl

(* Reference definitions, from the file contents alone *)

(* the numbers under a "ttl" key anywhere in a JSON value *)
RECURSIVE JsonTtls(_)
JsonTtls(obj) ==
    CASE obj.t = "dict" ->
           UNION {(IF p[1] = "ttl" /\ p[2].t = "num" THEN {p[2].n} ELSE {})
                    \cup JsonTtls(p[2]) : p \in Range(obj.kv)}
      [] obj.t = "list" -> UNION {JsonTtls(x) : x \in Range(obj.items)}
      [] OTHER -> {}

(* the TTL tokens of a file parse_cache reads *)
FileTtls(f) ==
    LET c == files[f]
    IN  CASE c.kind = "json" -> JsonTtls(c.doc)
          [] c.kind = "text" -> UNION {LineTtls(c.lines[k]) : k \in DOMAIN c.lines}
          [] OTHER -> {}

(* a name's labels, compared without case or trailing dots *)
Labels(s) == SplitDots(RStripDots(Lower(s)))

ZoneLabels(qn) == LET p == Labels(qn) IN SubSeq(p, Len(p) - 1, Len(p))

(* the root, the query zone, a name inside it, or a parent of it *)
Related(n, qn) ==
    \/ RStripDots(n) = <<>>
    \/ IsSuffix(ZoneLabels(qn), Labels(n))
    \/ IsSuffix(Labels(n), ZoneLabels(qn))

-----------------------------------------------------------------------------
(* cache_min_ttl (parse_cache's min_ttl): -1 exactly when no TTL was      *)
(* matched in any dump or log read, whether in text or under a JSON "ttl" *)
(* key at any depth, and otherwise the least TTL matched, across all the  *)
(* files in whatever order they were read.                                 *)
MinTtlIsLeast ==
    stage = "done" =>
      LET T == UNION {FileTtls(f) : f \in FileNames}
      IN  IF T = {} THEN d.min_ttl = -1 ELSE d.min_ttl = Min(T)

(* out_of_bailiwick_in_cache is sound: parse_cache sets it only when a     *)
(* record line of class IN in some dump or log names a domain that is     *)
(* neither the query zone, nor inside it, nor a parent of it, label by    *)
(* label, whatever the letter case and trailing dots of the cached name.  *)
OutOfBailiwickCacheSound ==
    d.out_of_bailiwick_in_cache =>
      \E f \in FileNames :
        /\ files[f].kind = "text"
        /\ \E k \in DOMAIN files[f].lines :
             LET l == files[f].lines[k]
             IN  l.kind = "rr" /\ l.cls = "IN" /\ ~Related(l.name, qname)

=============================================================================
