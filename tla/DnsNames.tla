------------------------------- MODULE DnsNames -------------------------------
(***************************************************************************)
(* DNS names as the Python code handles them: a decoded name is a str,    *)
(* modelled as a sequence of code points.  The operators are the string   *)
(* methods predicate_adapter.py applies to names: the join of labels of   *)
(* _read_dns_name, and lower(), rstrip("."), split("."), endswith() of    *)
(* _is_in_bailiwick and the CNAME checks.                                  *)
(***************************************************************************)
EXTENDS Integers, Sequences, SequencesExt

Dot         == 46      \* "."
Replacement == 65533   \* U+FFFD, what decode('ascii', errors='replace') yields

(* ".".join(labels) *)
JoinLabels(ls) ==
    IF ls = <<>> THEN <<>>
    ELSE FoldLeft(LAMBDA acc, l : acc \o <<Dot>> \o l, Head(ls), Tail(ls))

(* ".".join(labels) + "." if labels else "." *)
FullName(ls) == IF ls = <<>> THEN <<Dot>> ELSE JoinLabels(ls) \o <<Dot>>

(* str.lower(): ASCII capitals map to small letters, U+FFFD is unchanged *)
Lower(s) == [i \in DOMAIN s |-> IF s[i] \in 65..90 THEN s[i] + 32 ELSE s[i]]

(* str.rstrip(".") *)
RStripDots(s) == SubSeq(s, 1, SelectLastInSeq(s, LAMBDA c : c # Dot))

(* str.split("."): every dot separates, empty parts are kept, and the     *)
(* empty string splits into one empty part                                 *)
SplitDots(s) ==
    FoldLeft(LAMBDA parts, c :
                IF c = Dot THEN Append(parts, <<>>)
                ELSE [parts EXCEPT ![Len(parts)] = Append(@, c)],
             <<<<>>>>, s)

(* s.endswith(suffix) *)
EndsWith(s, suffix) == IsSuffix(suffix, s)

=============================================================================
