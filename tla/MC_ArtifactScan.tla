--------------------------- MODULE MC_ArtifactScan ---------------------------
(* Directories for checking ArtifactScan.  Names are the code points of   *)
(* the strings; the query zone of "x.a.c." is "a.c".                      *)
EXTENDS ArtifactScan

NameXAC == <<120, Dot, 97, Dot, 99, Dot>>   \* "x.a.c."
NameC   == <<99, Dot>>                      \* "c.": a parent of a.c
NameD   == <<100, Dot>>                     \* "d.": outside
NameBAC == <<98, 97, Dot, 99, Dot>>         \* "ba.c.": outside, a string suffix matches
NameUAC == <<65, Dot, 67, Dot>>             \* "A.C.": the zone in capitals
NameRoot == <<Dot>>                         \* "."

(* query.txt names x.a.c., is missing (""), or names a one-label c. *)
MCQueryNames == {NameXAC, <<>>, NameC}

(* dnstap entries: a tap file with queries only, one with a query and a *)
(* response on one line, an unreadable tap file, a file glob skips       *)
TapQ  == [json |-> TRUE, readable |-> TRUE, lines |-> <<{"Q"}, {}>>]
TapQR == [json |-> TRUE, readable |-> TRUE, lines |-> <<{"Q", "R"}>>]
TapBad == [json |-> TRUE, readable |-> FALSE, lines |-> <<{"Q", "R"}>>]
NotTap == [json |-> FALSE, readable |-> TRUE, lines |-> <<>>]

MCTapDirs ==
    {[exists |-> FALSE, listable |-> FALSE, entries |-> {}],
     [exists |-> TRUE, listable |-> FALSE, entries |-> {}],
     [exists |-> TRUE, listable |-> TRUE, entries |-> {}]}
    \cup {[exists |-> TRUE, listable |-> TRUE, entries |-> E] :
            E \in {{TapQ}, {NotTap}, {TapQR, TapBad}, {TapQ, TapQR}}}

Absent == [kind |-> "absent"]
Unreadable == [kind |-> "unreadable"]
Text(ls) == [kind |-> "text", lines |-> ls]
Json(doc) == [kind |-> "json", doc |-> doc]

(* named_dump.db: a parent NS and an outside A with spaces; a lookalike  *)
(* and the zone in capitals; a chaos TXT and an NSEC; an empty dump      *)
DumpTexts ==
    {Text(<<Rr(NameC, 300, "IN", "NS", "tab"), Rr(NameD, 60, "IN", "A", "space")>>),
     Text(<<Rr(NameBAC, 0, "IN", "A", "tab"), Rr(NameUAC, 120, "IN", "AAAA", "tab")>>),
     Text(<<Rr(NameD, 5, "CH", "TXT", "tab"), Rr(NameRoot, 40, "IN", "NSEC", "tab")>>),
     Text(<<>>)}

(* cache.json: records in a list, a list nested under a key, and text    *)
(* json.loads refuses                                                    *)
JsonDocs ==
    {Json(List(<<Dict(<<<<"ttl", Num(300)>>, <<"type", Str("NS")>>>>),
                 Dict(<<<<"ttl", Num(10)>>, <<"type", Str("A")>>,
                        <<"rcode", Str("NXDOMAIN")>>>>)>>)),
     Json(Dict(<<<<"data", List(<<Dict(<<<<"ttl", Num(0)>>,
                                         <<"type", Str("SOA")>>>>)>>)>>>>)),
     Text(<<TtlWord(7)>>)}

(* bind.log: a logged NS query and a TTL word; a negative answer logged *)
LogTexts == {Text(<<LogQuery(NameD, "NS"), TtlWord(30)>>), Text(<<NegWord>>)}

(* two of _CACHE_DUMP_FILES, the JSON one last as in the code, and one of *)
(* _LOG_FILES, which log_error_seen also looks at                        *)
MCDumpFiles == <<"named_dump.db", "cache.json">>
MCLogFiles == <<"bind.log">>

MCContents ==
    [f \in {"named_dump.db", "cache.json", "bind.log"} |->
        CASE f = "named_dump.db" -> {Absent, Unreadable} \cup DumpTexts
          [] f = "cache.json" -> {Absent} \cup JsonDocs
          [] f = "bind.log" -> {Absent, Unreadable} \cup LogTexts]
=============================================================================
