---------------------------- MODULE StreamReader ----------------------------
(***************************************************************************)
(* StreamReader::next_record of src/stream.rs: the framing of a file of    *)
(* concatenated send streams and the running Fletcher-4 checksum.          *)
(*                                                                         *)
(* The sender (external) writes any sequence of substreams and compound    *)
(* packages; the medium may damage, lose or repeat a record or cut the     *)
(* file off, MaxFaults times.  The checksum is ideal: its value is the     *)
(* sequence of what was absorbed since BEGIN.  A consumer (index, extract, *)
(* apply) uses records as they come and publishes only when the reader has *)
(* reached the end without an error.                                       *)
(***************************************************************************)
EXTENDS Naturals, Sequences

CONSTANTS
    MaxRecords,   \* bound on the records of a file
    MaxFaults     \* bound on the faults of the medium

ASSUME StreamReaderAssumption == MaxRecords \in Nat /\ MaxFaults \in Nat

VARIABLES
    started, segment_open, compound_open, saw_end,  \* the reader's flags
    checksum,      \* its running sum
    outcome,       \* "reading", "accepted" or "error"
    checksummed,   \* the sender stores checksums (zero means none)
    sent_open, sent_compound,  \* where the sender is in its grammar
    sent_sum,      \* the sender's running sum
    last,          \* the record sent last, for the medium to repeat
    records,       \* records delivered or lost
    faults,        \* faults so far
    intact         \* history: what was handed out is what was sent

flags == <<started, segment_open, compound_open, saw_end>>
reader == <<flags, checksum>>
sender == <<checksummed, sent_open, sent_compound, sent_sum>>
readerVars == <<reader, outcome, sender, last, records, faults, intact>>

\* A record as delivered: its type; whether the rest is zero-filled; whether
\* the header up to the stored checksum, that checksum and the payload are as
\* sent; and the sender's sum before it.  An END and the conclusion of a
\* compound package have one type on the wire.
Types == {"begin", "compound", "data", "end"}
Sums == {"kept", "wiped", "wrong"}
Sent(t) == [type |-> t, zero |-> FALSE, head |-> TRUE, sum |-> "kept",
            body |-> TRUE, before |-> sent_sum]
Conclusion == [Sent("end") EXCEPT !.zero = TRUE, !.before = << >>]

\* What a record adds to a sum.
Absorbed(w) == <<w.type, w.head, w.sum, w.body>>

\* The records the sender may send next.
SentNext ==
    IF sent_open THEN {Sent("data"), Sent("end")}
    ELSE IF sent_compound THEN {Sent("begin"), Conclusion}
    ELSE {Sent("begin"), Sent("compound")}

\* What one fault can make of a record: damage before the checksum field
\* (the type included), to the checksum field, or to the payload.
Damaged(w) ==
    {[w EXCEPT !.head = FALSE, !.type = t, !.zero = FALSE] : t \in Types}
    \cup {[w EXCEPT !.sum = s] : s \in Sums \ {"kept"}}
    \cup {[w EXCEPT !.body = FALSE] : x \in {w.type} \ {"end"}}

\* Damage that changes what a record says: a changed checksum does not.
Meaningful(w) == ~w.head \/ ~w.body

-----------------------------------------------------------------------------
(* next_record.                                                            *)

IsBegin(w) == w.type \in {"begin", "compound"}
IsConclusion(w) == w.type = "end" /\ ~segment_open

\* Mutant: nothing may stand between two substreams but a BEGIN.
FramedStrictly(w) ==
    /\ started \/ IsBegin(w)
    /\ segment_open # IsBegin(w)
    /\ w.type = "compound" => ~compound_open

\* The record may stand where it stands.
Framed(w) ==
    /\ started \/ IsBegin(w)
    /\ segment_open => ~IsBegin(w)
    /\ ~segment_open => (IsBegin(w) \/ IsConclusion(w))
    /\ IsConclusion(w) => (compound_open /\ w.zero /\ w.sum # "wrong")
    /\ w.type = "compound" => ~compound_open

\* A checksum stored in a record passes if it is zero or the running one.
StoredOK(w) ==
    CASE w.sum = "wiped" -> TRUE
      [] w.sum = "kept" -> checksummed => (checksum = w.before /\ w.head)
      [] w.sum = "wrong" -> FALSE

\* validate_checksum, the comparisons.  END also stores the sum of its
\* substream, in the part of the header that `head' speaks of.
ChecksumOK(w) ==
    \/ IsBegin(w)
    \/ IsConclusion(w)
    \/ /\ (w.type = "end" /\ checksummed /\ w.head) => checksum = w.before
       /\ StoredOK(w)

\* Mutant: a payload is left out of the running sum.
AbsorbHeader(w) ==
    CASE IsConclusion(w) -> checksum
      [] IsBegin(w) -> <<Absorbed([w EXCEPT !.body = TRUE])>>
      [] OTHER -> Append(checksum, Absorbed([w EXCEPT !.body = TRUE]))

\* validate_checksum, the running sum: BEGIN starts it anew.
Absorb(w) ==
    CASE IsConclusion(w) -> checksum
      [] IsBegin(w) -> <<Absorbed(w)>>
      [] OTHER -> Append(checksum, Absorbed(w))

\* The flags and the sum after an accepted record.
Accept(w) ==
    /\ started' = TRUE
    /\ segment_open' = (w.type # "end")
    /\ compound_open' = IF IsConclusion(w) THEN FALSE
                        ELSE compound_open \/ w.type = "compound"
    /\ saw_end' = (saw_end \/ (w.type = "end" /\ segment_open))
    /\ checksum' = Absorb(w)

\* next_record on the record w.  A damaged header may also hold an unknown
\* type, a bad magic number or an impossible payload size.
NextRecord(w) ==
    \/ /\ Framed(w) /\ ChecksumOK(w)
       /\ Accept(w)
       /\ UNCHANGED outcome
    \/ /\ ~Framed(w) \/ ~ChecksumOK(w) \/ ~w.head
       /\ outcome' = "error"
       /\ UNCHANGED reader

\* next_record at the end of the file, and the saw_end check of index.
EndOfStream ==
    outcome' = IF segment_open \/ compound_open \/ ~saw_end
               THEN "error" ELSE "accepted"

-----------------------------------------------------------------------------
(* The sender and the medium.                                              *)

ReaderInit ==
    /\ started = FALSE /\ segment_open = FALSE /\ compound_open = FALSE
    /\ saw_end = FALSE /\ checksum = << >> /\ outcome = "reading"
    /\ checksummed \in BOOLEAN
    /\ sent_open = FALSE /\ sent_compound = FALSE /\ sent_sum = << >>
    /\ last = Conclusion /\ records = 0 /\ faults = 0 /\ intact = TRUE

\* The sender moves on past r.
SenderPasses(r) ==
    /\ sent_open' = (r.type # "end")
    /\ sent_compound' = IF r.zero THEN FALSE
                        ELSE sent_compound \/ r.type = "compound"
    /\ sent_sum' = IF IsBegin(r) THEN <<Absorbed(r)>>
                   ELSE Append(sent_sum, Absorbed(r))
    /\ last' = r
    /\ UNCHANGED checksummed

Fault == faults < MaxFaults /\ faults' = faults + 1

Deliver(r) ==
    /\ SenderPasses(r)
    /\ NextRecord(r)
    /\ UNCHANGED <<faults, intact>>

DeliverDamaged(r) ==
    /\ Fault
    /\ SenderPasses(r)
    /\ \E w \in Damaged(r) :
          /\ NextRecord(w)
          /\ intact' = (intact /\ ~Meaningful(w))

Lose(r) ==
    /\ Fault
    /\ SenderPasses(r)
    /\ intact' = FALSE
    /\ UNCHANGED <<reader, outcome>>

Repeat ==
    /\ records > 0 /\ Fault
    /\ NextRecord(last)
    /\ intact' = FALSE
    /\ UNCHANGED <<sender, last>>

\* The file ends: after a whole stream, or cut off between two records.
Finish ==
    /\ IF sent_open \/ sent_compound THEN Fault ELSE UNCHANGED faults
    /\ EndOfStream
    /\ UNCHANGED <<reader, sender, last, records, intact>>

\* The file is cut off within a record: read_exact fails.
Tear ==
    /\ Fault
    /\ outcome' = "error"
    /\ UNCHANGED <<reader, sender, last, records, intact>>

\* The records of the file, one at a time.
Transfer ==
    /\ records < MaxRecords
    /\ records' = records + 1
    /\ \/ \E r \in SentNext : Deliver(r) \/ DeliverDamaged(r) \/ Lose(r)
       \/ Repeat

ReaderNext == outcome = "reading" /\ (Transfer \/ Finish \/ Tear)

ReaderSpec == ReaderInit /\ [][ReaderNext]_readerVars

-----------------------------------------------------------------------------
(* Properties.                                                             *)

\* The reader's flags (struct StreamReader) are well formed: a segment is
\* open, and an END has been seen, only in a stream that has started.
ReaderTypeOK ==
    /\ started \in BOOLEAN /\ segment_open \in BOOLEAN
    /\ compound_open \in BOOLEAN /\ saw_end \in BOOLEAN
    /\ Len(checksum) <= records /\ Len(sent_sum) <= records
    /\ outcome \in {"reading", "accepted", "error"}
    /\ checksummed \in BOOLEAN /\ sent_open \in BOOLEAN
    /\ sent_compound \in BOOLEAN /\ intact \in BOOLEAN
    /\ last.type \in Types
    /\ records \in 0..MaxRecords /\ faults \in 0..MaxFaults
    /\ segment_open \/ compound_open \/ saw_end => started

\* A checksummed file that next_record accepted to its end is what was sent:
\* every record as it was sent, none lost and none repeated, up to the end of
\* a whole substream or compound package.  A payload is covered only by the
\* checks of the records after it, and a BEGIN only by those of its substream.
AcceptedIntact ==
    (outcome = "accepted" /\ checksummed) =>
        (intact /\ ~sent_open /\ ~sent_compound)

\* A file the medium left alone is accepted, with checksums and without, for
\* any order of substreams and compound packages: next_record refuses only
\* the file that holds no record at all.
NoFalseAlarm ==
    (outcome = "error" /\ faults = 0) => records = 0
=============================================================================
