---------------------------- MODULE MC_WireDecoder ----------------------------
(* Names and record fields for checking WireDecoder.  Names are the       *)
(* code points of the strings _read_dns_name returns.                     *)
EXTENDS WireDecoder

(* "a.c.", "A.c." (same name, other case), "ba.c." (outside zone a.c     *)
(* although a string suffix of it matches), "d." (outside), "x.a.c."     *)
NameAC  == <<97, Dot, 99, Dot>>
NameUAC == <<65, Dot, 99, Dot>>
NameBAC == <<98, 97, Dot, 99, Dot>>
NameD   == <<100, Dot>>
NameXAC == <<120, Dot, 97, Dot, 99, Dot>>
NoName  == <<>>

(* query.txt gives "x.a.c.", or nothing: then the response's qname is used *)
MCQueryNames == {NameXAC, <<>>}
MCQuestionNames == {NameXAC, NameD}
NoTarget == {NoName}

BailiwickOwners == {NameUAC, NameBAC, NameD}
BailiwickTypes == {A, NS, OPT}

SectionOwners == {NameAC}
SectionTypes == {A, NS, SOA, AAAA, 16}

CnameOwners == {NameAC, NameUAC, NameD}
CnameTargets == {<<>>, NameAC, NameD}
CnameTypes == {CNAME}

(* all of the above in one instance *)
AllOwners == BailiwickOwners \cup SectionOwners \cup CnameOwners
AllTypes == BailiwickTypes \cup SectionTypes \cup CnameTypes
=============================================================================
