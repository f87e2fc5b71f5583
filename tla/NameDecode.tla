------------------------------ MODULE NameDecode ------------------------------
(***************************************************************************)
(* The DNS name decoder _read_dns_name of predicate_adapter.py.  One call  *)
(* decodes the name at offset `start` of the byte buffer `raw`: it reads   *)
(* length-prefixed labels, follows 14-bit compression pointers, remembers  *)
(* the return offset of the first pointer only, and gives up on the name   *)
(* when it reaches an offset it has already visited.                       *)
(*                                                                         *)
(* The buffer and the start offset are chosen in Init and never change:    *)
(* they play the role of the call's arguments.  Buffers are 0-indexed in   *)
(* the code; Byte(i) reads the code's raw[i].                              *)
(*                                                                         *)
(* ReadDnsName, at the end, is the decoder as a pure recursive function of *)
(* its arguments; the run checks that the loop computes it, and the record *)
(* level modules use it as the meaning of a name decode.                   *)
(***************************************************************************)
EXTENDS Integers, Sequences, SequencesExt, FiniteSets, DnsNames

CONSTANTS MaxLen,   \* longest buffer considered
          Bytes,    \* byte values the buffers are made of
          None      \* Python's None

ASSUME MaxLen \in Nat /\ Bytes \subseteq 0..255 /\ None \notin Nat

VARIABLES raw, start, offset, labels, seen, jumped, original, result, pc

vars == <<raw, start, offset, labels, seen, jumped, original, result, pc>>

Byte(i) == raw[i + 1]

(* (label_len & 0xC0) == 0xC0 *)
IsPointer(b) == b \div 64 = 3

(* ((label_len & 0x3F) << 8) | raw[offset + 1] *)
PointerTarget(buf, o) == (buf[o + 1] % 64) * 256 + buf[o + 2]

(* A plausible slip: the label decoded as latin-1, bytes kept as they are *)
DecodeLabelLatin1(buf, o, n) == [i \in 1..n |-> buf[o + i]]

(* raw[o:o+n].decode('ascii', errors='replace') as a sequence of code points *)
DecodeLabel(buf, o, n) ==
    [i \in 1..n |-> IF buf[o + i] < 128 THEN buf[o + i] ELSE Replacement]

Names == Seq(0..127 \cup {Replacement})

-----------------------------------------------------------------------------
(* The call's early return and the loop of lines 77-103, one action per   *)
(* branch of the loop body.                                                *)

Init ==
    /\ raw \in UNION {[1..n -> Bytes] : n \in 0..MaxLen}
    /\ start \in 0..Len(raw)
    /\ offset = start
    /\ labels = <<>>
    /\ seen = {}
    /\ jumped = FALSE
    /\ original = start
    /\ result = None
    /\ pc = "entry"

Return(name, next) ==
    /\ result' = [name |-> name, next |-> next]
    /\ pc' = "done"

(* if max_depth <= 0 or offset is None or offset >= len(raw): return "", None *)
Entry ==
    /\ pc = "entry"
    /\ IF start >= Len(raw)
       THEN Return(<<>>, None)
       ELSE pc' = "loop" /\ UNCHANGED result
    /\ UNCHANGED <<raw, start, offset, labels, seen, jumped, original>>

(* the while condition fails: the name ends at the end of the buffer *)
LoopExit ==
    /\ pc = "loop"
    /\ offset >= Len(raw)
    /\ Return(FullName(labels), IF jumped THEN original ELSE offset)
    /\ UNCHANGED <<raw, start, offset, labels, seen, jumped, original>>

(* A decoder whose visited-offset check continues the loop instead of     *)
(* returning (a plausible slip, used to show that Terminates depends on    *)
(* the return of line 79).                                                 *)
RevisitContinue ==
    /\ pc = "loop"
    /\ offset < Len(raw)
    /\ offset \in seen
    /\ UNCHANGED vars

(* if offset in seen_offsets: return ".".join(labels), None *)
Revisit ==
    /\ pc = "loop"
    /\ offset < Len(raw)
    /\ offset \in seen
    /\ Return(JoinLabels(labels), None)
    /\ UNCHANGED <<raw, start, offset, labels, seen, jumped, original>>

(* seen_offsets.add(offset), guarded by the check above *)
Visit ==
    /\ pc = "loop"
    /\ offset < Len(raw)
    /\ offset \notin seen
    /\ seen' = seen \cup {offset}

(* label_len == 0: step over it unless a pointer was followed, then break *)
Terminator ==
    /\ Visit
    /\ Byte(offset) = 0
    /\ offset' = IF jumped THEN offset ELSE offset + 1
    /\ Return(FullName(labels), IF jumped THEN original ELSE offset + 1)
    /\ UNCHANGED <<raw, start, labels, jumped, original>>

(* a pointer whose second byte lies past the end *)
PointerTruncated ==
    /\ Visit
    /\ IsPointer(Byte(offset))
    /\ offset + 1 >= Len(raw)
    /\ Return(JoinLabels(labels), None)
    /\ UNCHANGED <<raw, start, offset, labels, jumped, original>>

(* A decoder that records the return offset at every pointer instead of  *)
(* the first one only (a plausible bug, used to show DecodesAsReference   *)
(* depends on the `if not jumped` of line 91).                             *)
PointerEveryReturn ==
    /\ Visit
    /\ IsPointer(Byte(offset))
    /\ offset + 1 < Len(raw)
    /\ offset' = PointerTarget(raw, offset)
    /\ original' = offset + 2
    /\ jumped' = TRUE
    /\ UNCHANGED <<raw, start, labels, result, pc>>

(* follow the pointer; only the first one records where the name ends *)
Pointer ==
    /\ Visit
    /\ IsPointer(Byte(offset))
    /\ offset + 1 < Len(raw)
    /\ offset' = PointerTarget(raw, offset)
    /\ IF jumped THEN UNCHANGED original ELSE original' = offset + 2
    /\ jumped' = TRUE
    /\ UNCHANGED <<raw, start, labels, result, pc>>

(* a label whose bytes run past the end *)
LabelOverrun ==
    /\ Visit
    /\ Byte(offset) # 0 /\ ~IsPointer(Byte(offset))
    /\ offset + 1 + Byte(offset) > Len(raw)
    /\ Return(JoinLabels(labels), None)
    /\ UNCHANGED <<raw, start, offset, labels, jumped, original>>

Label ==
    /\ Visit
    /\ Byte(offset) # 0 /\ ~IsPointer(Byte(offset))
    /\ offset + 1 + Byte(offset) <= Len(raw)
    /\ labels' = Append(labels, DecodeLabel(raw, offset + 1, Byte(offset)))
    /\ offset' = offset + 1 + Byte(offset)
    /\ UNCHANGED <<raw, start, jumped, original, result, pc>>

(* the call has returned *)
Returned ==
    /\ pc = "done"
    /\ UNCHANGED vars

Next ==
    \/ Entry \/ LoopExit \/ Revisit \/ Terminator
    \/ PointerTruncated \/ Pointer \/ LabelOverrun \/ Label
    \/ Returned

(* The decoder is sequential code that runs to completion. *)
Spec == Init /\ [][Next]_vars /\ WF_vars(Next)

-----------------------------------------------------------------------------
(* The decoder as a recursive function.  Walk follows the name from offset *)
(* o with the offsets `vis` already visited and `ret` the return offset of *)
(* the first pointer (None before any); it yields the labels read, whether *)
(* the name was complete, and where the caller continues.                  *)

RECURSIVE Walk(_, _, _, _)
Walk(buf, o, vis, ret) ==
    LET fail == [labels |-> <<>>, complete |-> FALSE, next |-> None]
        end(n) == [labels |-> <<>>, complete |-> TRUE,
                   next |-> IF ret = None THEN n ELSE ret]
    IN  IF o >= Len(buf) THEN end(o)
        ELSE IF o \in vis THEN fail
        ELSE IF buf[o + 1] = 0 THEN end(o + 1)
        ELSE IF IsPointer(buf[o + 1])
             THEN IF o + 1 >= Len(buf) THEN fail
                  ELSE Walk(buf, PointerTarget(buf, o), vis \cup {o},
                            IF ret = None THEN o + 2 ELSE ret)
        ELSE IF o + 1 + buf[o + 1] > Len(buf) THEN fail
        ELSE LET rest == Walk(buf, o + 1 + buf[o + 1], vis \cup {o}, ret)
             IN  [rest EXCEPT !.labels =
                     <<DecodeLabel(buf, o + 1, buf[o + 1])>> \o @]

ReadDnsName(buf, o) ==
    IF o >= Len(buf) THEN [name |-> <<>>, next |-> None]
    ELSE LET w == Walk(buf, o, {}, None)
         IN  [name |-> IF w.complete THEN FullName(w.labels)
                       ELSE JoinLabels(w.labels),
              next |-> w.next]

-----------------------------------------------------------------------------
TypeOK ==
    /\ raw \in Seq(Bytes) /\ Len(raw) <= MaxLen
    /\ start \in 0..Len(raw)
    /\ offset \in Nat
    /\ labels \in Seq(Names)
    /\ seen \subseteq 0..(Len(raw) - 1)
    /\ jumped \in BOOLEAN
    /\ original \in 0..(Len(raw) + 1)
    /\ result \in {None} \cup [name : Names, next : Nat \cup {None}]
    /\ pc \in {"entry", "loop", "done"}

(* The loop of _read_dns_name returns what the recursive definition of the *)
(* decoder gives, on every buffer: the same labels, the same truncated     *)
(* name on a pointer cycle or overrun, and the same continuation offset,   *)
(* which is the one after the FIRST pointer however many are nested.      *)
DecodesAsReference ==
    pc = "done" => result = ReadDnsName(raw, start)

(* Whatever the buffer, including pointer cycles through labels, the       *)
(* decoder returns: the visited-offset check of line 78 breaks every loop. *)
Terminates == <>(pc = "done")

=============================================================================
