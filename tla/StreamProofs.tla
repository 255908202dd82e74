---------------------------- MODULE StreamProofs ----------------------------
(***************************************************************************)
(* A send file as the program reads it.  Record by record: next_record     *)
(* accepts what the sender wrote and nothing else, for files of any number *)
(* of records.  Snapshot by snapshot: the three readings of a file agree on*)
(* the snapshot they rebuild, for files of any length and any headers, if no*)
(* two substreams of a file make the same snapshot and a file that was cut *)
(* off is not written on; and a base is called missing only if it is.      *)
(***************************************************************************)
EXTENDS StreamReader, SnapshotChain, FiniteSetTheorems, WellFoundedInduction, TLAPS

-----------------------------------------------------------------------------
(* StreamReader: records, checksums and the end of the file.               *)

Item == Types \X BOOLEAN \X Sums \X BOOLEAN

Record == [type : Types, zero : BOOLEAN, head : BOOLEAN, sum : Sums,
           body : BOOLEAN, before : Seq(Item)]

\* A record as the sender writes it.
Clean(r) ==
    /\ r \in Record /\ r.head /\ r.sum = "kept" /\ r.body
    /\ r.zero => r.type = "end"

ReaderType ==
    /\ started \in BOOLEAN /\ segment_open \in BOOLEAN
    /\ compound_open \in BOOLEAN /\ saw_end \in BOOLEAN
    /\ checksum \in Seq(Item) /\ sent_sum \in Seq(Item)
    /\ outcome \in {"reading", "accepted", "error"}
    /\ checksummed \in BOOLEAN /\ sent_open \in BOOLEAN
    /\ sent_compound \in BOOLEAN /\ intact \in BOOLEAN
    /\ records \in Nat /\ faults \in 0..MaxFaults

\* Without a fault the reader is where the sender is.
InStep ==
    /\ segment_open = sent_open /\ compound_open = sent_compound
    /\ sent_open => checksum = sent_sum
    /\ started <=> records > 0
    /\ records > 0 /\ ~sent_open => saw_end
    /\ ~started => ~sent_open /\ ~sent_compound
    /\ intact

\* The record sent last; the one before the first of a file is never repeated.
LastSent ==
    /\ Clean(last)
    /\ last.type = "data" => sent_open /\ sent_sum # last.before
    /\ last.type \in {"begin", "compound"} => sent_open
    /\ last.type = "end" => ~sent_open /\ (last.zero => ~sent_compound)

\* After a fault that changed what was handed out, the reader cannot come to
\* the end: it is in a substream whose sum is wrong, or that the sender has
\* closed, or has not opened; or in a package that the sender has closed.
Doomed ==
    \/ segment_open /\ sent_open /\ checksum # sent_sum
    \/ segment_open /\ ~sent_open /\ checksum # << >>
    \/ ~segment_open /\ sent_open
    \/ compound_open /\ ~sent_compound /\ segment_open = sent_open

ReaderInv ==
    /\ ReaderType /\ LastSent
    /\ segment_open => checksum # << >>
    /\ faults = 0 =>
          /\ outcome = "reading" => InStep
          /\ outcome = "error" => records = 0
          /\ intact

\* If the file is checksummed and the medium has one fault at most.
IntactInv ==
    checksummed =>
        /\ outcome = "reading" /\ ~intact => Doomed
        /\ outcome = "accepted" => intact /\ ~sent_open /\ ~sent_compound

-----------------------------------------------------------------------------
(* Records and sums.                                                       *)

LEMMA SumFacts ==
    ASSUME NEW s \in Seq(Item), NEW x \in Item, NEW y \in Item
    PROVE  /\ <<x>> \in Seq(Item) /\ <<x>> # << >>
           /\ x # y => <<x>> # <<y>>
           /\ Append(s, x) \in Seq(Item) /\ Append(s, x) # s /\ Append(s, x) # << >>
           /\ x # y => Append(s, x) # Append(s, y)
<1>1. <<x>> \in Seq(Item) /\ Len(<<x>>) = 1 /\ <<x>>[1] = x /\ <<y>>[1] = y
  OBVIOUS
<1>2. /\ Append(s, x) \in Seq(Item) /\ Len(Append(s, x)) = Len(s) + 1
      /\ Len(s) \in Nat /\ Append(s, x)[Len(s) + 1] = x
      /\ Append(s, y)[Len(s) + 1] = y
  OBVIOUS
<1>3. Len(<< >>) = 0
  OBVIOUS
<1>4. <<x>> # << >> /\ Append(s, x) # << >>
  BY <1>1, <1>2, <1>3
<1>5. Append(s, x) # s
  BY <1>2
<1> QED BY <1>1, <1>2, <1>4, <1>5

LEMMA AbsorbedItem ==
    ASSUME NEW w \in Record
    PROVE  /\ Absorbed(w) \in Item
           /\ \A r \in Record : Absorbed(w) = Absorbed(r) =>
                 w.head = r.head /\ w.body = r.body
BY DEF Record, Absorbed, Item

LEMMA SentNextFacts ==
    ASSUME ReaderType, NEW r \in SentNext
    PROVE  /\ Clean(r)
           /\ sent_open => r.type \in {"data", "end"} /\ ~r.zero /\ r.before = sent_sum
           /\ ~sent_open => \/ r.type = "begin" /\ ~r.zero
                            \/ sent_compound /\ r.type = "end" /\ r.zero /\ r.before = << >>
                            \/ ~sent_compound /\ r.type = "compound" /\ ~r.zero
<1>1. /\ Conclusion.type = "end" /\ Conclusion.zero /\ Conclusion.before = << >>
      /\ Clean(Conclusion)
  <2>1. << >> \in Seq(Item)
    OBVIOUS
  <2> QED BY <2>1 DEF Conclusion, Sent, Clean, Record, Types, Sums
<1>2. ASSUME NEW t \in Types
      PROVE  Clean(Sent(t)) /\ Sent(t).type = t /\ ~Sent(t).zero
             /\ Sent(t).before = sent_sum
  BY DEF Sent, Clean, Record, ReaderType, Types, Sums
<1> QED BY <1>1, <1>2 DEF SentNext, Types

LEMMA DamagedFacts ==
    ASSUME NEW r, Clean(r), NEW w \in Damaged(r)
    PROVE  /\ w \in Record /\ w.before = r.before
           /\ \/ ~w.head /\ ~w.zero /\ w.sum = "kept"
              \/ /\ w.head /\ w.body /\ w.type = r.type /\ w.zero = r.zero
                 /\ w.sum # "kept"
              \/ /\ w.head /\ ~w.body /\ w.type = r.type /\ ~w.zero
                 /\ w.type # "end" /\ w.sum = "kept"
<1>1. r \in Record /\ r.head /\ r.sum = "kept" /\ r.body /\ (r.zero => r.type = "end")
  BY DEF Clean
<1>2. ASSUME NEW t \in Types, w = [r EXCEPT !.head = FALSE, !.type = t, !.zero = FALSE]
      PROVE  w \in Record /\ w.before = r.before /\ ~w.head /\ ~w.zero /\ w.sum = "kept"
  BY <1>1, <1>2 DEF Record
<1>3. ASSUME NEW s \in Sums \ {"kept"}, w = [r EXCEPT !.sum = s]
      PROVE  /\ w \in Record /\ w.before = r.before /\ w.head /\ w.body
             /\ w.type = r.type /\ w.zero = r.zero /\ w.sum # "kept"
  BY <1>1, <1>3 DEF Record
<1>4. ASSUME w = [r EXCEPT !.body = FALSE], r.type # "end"
      PROVE  /\ w \in Record /\ w.before = r.before /\ w.head /\ ~w.body
             /\ w.type = r.type /\ ~w.zero /\ w.type # "end" /\ w.sum = "kept"
  BY <1>1, <1>4 DEF Record
<1> QED BY <1>2, <1>3, <1>4 DEF Damaged

-----------------------------------------------------------------------------
(* next_record.                                                            *)

\* An accepted record leaves the reader well typed.
LEMMA AcceptType ==
    ASSUME ReaderType, segment_open => checksum # << >>, NEW w \in Record, Accept(w)
    PROVE  /\ started' \in BOOLEAN /\ segment_open' \in BOOLEAN
           /\ compound_open' \in BOOLEAN /\ saw_end' \in BOOLEAN
           /\ checksum' \in Seq(Item) /\ (segment_open' => checksum' # << >>)
<1>1. Absorbed(w) \in Item
  BY AbsorbedItem
<1>2. /\ <<Absorbed(w)>> \in Seq(Item) /\ <<Absorbed(w)>> # << >>
      /\ Append(checksum, Absorbed(w)) \in Seq(Item)
      /\ Append(checksum, Absorbed(w)) # << >>
  BY <1>1, SumFacts DEF ReaderType
<1>3. w.type # "end" => checksum' # << >>
  BY <1>2 DEF Accept, Absorb, IsConclusion
<1>4. checksum' \in Seq(Item)
  BY <1>2 DEF Accept, Absorb, ReaderType
<1> QED BY <1>3, <1>4 DEF Accept, ReaderType

LEMMA NextRecordType ==
    ASSUME ReaderType, segment_open => checksum # << >>, NEW w \in Record, NextRecord(w)
    PROVE  /\ started' \in BOOLEAN /\ segment_open' \in BOOLEAN
           /\ compound_open' \in BOOLEAN /\ saw_end' \in BOOLEAN
           /\ checksum' \in Seq(Item) /\ (segment_open' => checksum' # << >>)
           /\ outcome' \in {"reading", "accepted", "error"}
<1>1. CASE Accept(w) /\ UNCHANGED outcome
  BY <1>1, AcceptType DEF ReaderType
<1>2. CASE outcome' = "error" /\ UNCHANGED reader
  BY <1>2 DEF ReaderType, reader, flags
<1> QED BY <1>1, <1>2 DEF NextRecord

\* A record that stands in the way of both the framing and the sums.
Accepted(w) == Framed(w) /\ ChecksumOK(w) /\ Accept(w) /\ outcome' = outcome

LEMMA NextRecordCases ==
    ASSUME NEW w, NextRecord(w)
    PROVE  Accepted(w) \/ outcome' = "error"
BY DEF NextRecord, Accepted

\* What the sender does next.
LEMMA SenderFacts ==
    ASSUME ReaderType, NEW r, Clean(r), SenderPasses(r)
    PROVE  /\ sent_open' \in BOOLEAN /\ sent_compound' \in BOOLEAN
           /\ sent_sum' \in Seq(Item) /\ checksummed' \in BOOLEAN
           /\ last' = r
<1>1. Absorbed(r) \in Item
  BY AbsorbedItem DEF Clean
<1>2. <<Absorbed(r)>> \in Seq(Item) /\ Append(sent_sum, Absorbed(r)) \in Seq(Item)
  BY <1>1, SumFacts DEF ReaderType
<1> QED BY <1>2 DEF SenderPasses, ReaderType, Clean, Record

LEMMA SenderLast ==
    ASSUME ReaderType, NEW r \in SentNext, SenderPasses(r)
    PROVE  LastSent'
<1>1. /\ Clean(r) /\ r \in Record
      /\ sent_open => r.type \in {"data", "end"} /\ ~r.zero /\ r.before = sent_sum
      /\ ~sent_open => r.type # "data"
  BY SentNextFacts DEF Clean
<1>2. /\ last' = r /\ sent_open' = (r.type # "end")
      /\ r.zero => sent_compound' = FALSE
      /\ r.type = "data" => sent_sum' = Append(sent_sum, Absorbed(r))
  BY DEF SenderPasses, IsBegin
<1>3. Append(sent_sum, Absorbed(r)) # sent_sum
  BY <1>1, AbsorbedItem, SumFacts DEF ReaderType
<1>4. Clean(last)'
  BY <1>1, <1>2 DEF Clean
<1>5. (last.type = "data" => sent_open /\ sent_sum # last.before)'
  BY <1>1, <1>2, <1>3 DEF ReaderType
<1> QED BY <1>2, <1>4, <1>5 DEF LastSent

\* In step, what the sender writes is accepted.
LEMMA InStepAccepts ==
    ASSUME ReaderType, InStep, NEW r \in SentNext, NextRecord(r)
    PROVE  Accepted(r)
<1>1. /\ Clean(r)
      /\ sent_open => r.type \in {"data", "end"} /\ ~r.zero /\ r.before = sent_sum
      /\ ~sent_open => \/ r.type = "begin" /\ ~r.zero
                       \/ sent_compound /\ r.type = "end" /\ r.zero /\ r.before = << >>
                       \/ ~sent_compound /\ r.type = "compound" /\ ~r.zero
  BY SentNextFacts
<1>2. r.head /\ r.sum = "kept"
  BY <1>1 DEF Clean
<1>3. Framed(r)
  BY <1>1, <1>2 DEF InStep, ReaderType, Framed, IsBegin, IsConclusion
<1>4. ChecksumOK(r)
  BY <1>1, <1>2 DEF InStep, ReaderType, ChecksumOK, StoredOK, IsBegin, IsConclusion
<1> QED BY <1>2, <1>3, <1>4 DEF NextRecord, Accepted

LEMMA InStepKept ==
    ASSUME ReaderType, InStep, NEW r \in SentNext, Deliver(r), records' = records + 1
    PROVE  InStep' /\ outcome' = outcome
<1>1. /\ Clean(r)
      /\ sent_open => r.type \in {"data", "end"} /\ ~r.zero /\ r.before = sent_sum
      /\ ~sent_open => \/ r.type = "begin" /\ ~r.zero
                       \/ sent_compound /\ r.type = "end" /\ r.zero /\ r.before = << >>
                       \/ ~sent_compound /\ r.type = "compound" /\ ~r.zero
  BY SentNextFacts
<1>2. Accept(r) /\ outcome' = outcome
  BY InStepAccepts DEF Deliver, Accepted
<1>3. SenderPasses(r) /\ intact' = intact
  BY DEF Deliver
<1>4. segment_open' = sent_open' /\ started' = TRUE
  BY <1>2, <1>3 DEF Accept, SenderPasses
<1>5. compound_open' = sent_compound'
  BY <1>1, <1>2, <1>3 DEF Accept, SenderPasses, InStep, IsConclusion, ReaderType
<1>6. sent_open' => checksum' = sent_sum'
  <2>1. CASE sent_open
    BY <1>1, <1>2, <1>3, <2>1
       DEF Accept, SenderPasses, InStep, Absorb, IsConclusion, IsBegin
  <2>2. CASE ~sent_open
    BY <1>1, <1>2, <1>3, <2>2
       DEF Accept, SenderPasses, InStep, Absorb, IsConclusion, IsBegin
  <2> QED BY <2>1, <2>2
<1>7. ~sent_open' => saw_end'
  <2>1. CASE sent_open
    BY <1>1, <1>2, <1>3, <2>1 DEF Accept, SenderPasses, InStep
  <2>2. CASE ~sent_open
    <3>1. ~sent_open' => sent_compound
      BY <1>1, <1>3, <2>2 DEF SenderPasses
    <3>2. sent_compound => saw_end
      BY <2>2 DEF InStep, ReaderType
    <3> QED BY <1>2, <3>1, <3>2 DEF Accept
  <2> QED BY <2>1, <2>2
<1>8. records' > 0 /\ intact'
  BY <1>3 DEF InStep, ReaderType
<1> QED BY <1>2, <1>4, <1>5, <1>6, <1>7, <1>8 DEF InStep

-----------------------------------------------------------------------------
(* The faults.                                                             *)

\* A changed header or payload is found out now or leaves the reader doomed.
LEMMA DamageDooms ==
    ASSUME ReaderType, InStep, checksummed, NEW r \in SentNext, SenderPasses(r),
           NEW w \in Damaged(r), NextRecord(w), Meaningful(w)
    PROVE  outcome' = "error" \/ Doomed'
<1>1. /\ Clean(r) /\ r \in Record /\ r.head /\ r.body
      /\ sent_open => r.type \in {"data", "end"} /\ ~r.zero /\ r.before = sent_sum
      /\ ~sent_open => \/ r.type = "begin" /\ ~r.zero
                       \/ sent_compound /\ r.type = "end" /\ r.zero /\ r.before = << >>
                       \/ ~sent_compound /\ r.type = "compound" /\ ~r.zero
  BY SentNextFacts DEF Clean
<1>2. w \in Record /\ w.sum = "kept" /\ ~w.zero /\ (~w.head \/ ~w.body)
      /\ (w.head => w.type = r.type /\ w.type # "end")
  BY <1>1, DamagedFacts DEF Meaningful
<1>3. Absorbed(w) \in Item /\ Absorbed(r) \in Item /\ Absorbed(w) # Absorbed(r)
  BY <1>1, <1>2, AbsorbedItem
<1>4. /\ <<Absorbed(w)>> # <<Absorbed(r)>> /\ <<Absorbed(w)>> # << >>
      /\ Append(sent_sum, Absorbed(w)) # Append(sent_sum, Absorbed(r))
  BY <1>3, SumFacts DEF ReaderType
<1>5. SUFFICES ASSUME Accepted(w) PROVE Doomed'
  BY NextRecordCases
<1>6. Framed(w) /\ ChecksumOK(w) /\ Accept(w)
  BY <1>5 DEF Accepted
<1>7. segment_open = sent_open
  BY DEF InStep
<1>8. CASE sent_open
  <2>1. w.head
    BY <1>2, <1>6, <1>7, <1>8
       DEF Framed, ChecksumOK, StoredOK, IsBegin, IsConclusion
  <2>2. w.type = "data" /\ r.type = "data"
    BY <1>1, <1>2, <1>8, <2>1
  <2>3. segment_open' /\ sent_open'
    BY <1>6, <2>2 DEF Accept, SenderPasses
  <2>4. /\ checksum' = Append(sent_sum, Absorbed(w))
        /\ sent_sum' = Append(sent_sum, Absorbed(r))
    BY <1>6, <1>8, <2>2 DEF Accept, SenderPasses, InStep, Absorb, IsConclusion, IsBegin
  <2> QED BY <1>4, <2>3, <2>4 DEF Doomed
<1>9. CASE ~sent_open
  <2>1. w.type \in {"begin", "compound"}
    BY <1>2, <1>6, <1>7, <1>9 DEF Framed, IsBegin, IsConclusion
  <2>2. segment_open' /\ checksum' = <<Absorbed(w)>>
    BY <1>6, <2>1 DEF Accept, Absorb, IsConclusion, IsBegin
  <2>3. r.type # "end" => sent_open' /\ sent_sum' = <<Absorbed(r)>>
    BY <1>1, <1>9 DEF SenderPasses, IsBegin
  <2>4. r.type = "end" => ~sent_open'
    BY DEF SenderPasses
  <2> QED BY <1>4, <2>2, <2>3, <2>4 DEF Doomed
<1> QED BY <1>8, <1>9

LEMMA LossDooms ==
    ASSUME ReaderType, InStep, segment_open => checksum # << >>,
           NEW r \in SentNext, SenderPasses(r), UNCHANGED reader
    PROVE  Doomed'
<1>1. /\ r \in Record
      /\ sent_open => r.type \in {"data", "end"} /\ ~r.zero /\ r.before = sent_sum
      /\ ~sent_open => \/ r.type = "begin" /\ ~r.zero
                       \/ sent_compound /\ r.type = "end" /\ r.zero /\ r.before = << >>
                       \/ ~sent_compound /\ r.type = "compound" /\ ~r.zero
  BY SentNextFacts DEF Clean
<1>2. /\ segment_open' = segment_open /\ compound_open' = compound_open
      /\ checksum' = checksum
  BY DEF reader, flags
<1>3. Append(sent_sum, Absorbed(r)) # sent_sum
  BY <1>1, AbsorbedItem, SumFacts DEF ReaderType
<1>4. CASE sent_open /\ r.type = "data"
  BY <1>2, <1>3, <1>4 DEF Doomed, InStep, SenderPasses, IsBegin
<1>5. CASE sent_open /\ r.type = "end"
  BY <1>2, <1>5 DEF Doomed, InStep, SenderPasses
<1>6. CASE ~sent_open /\ r.type # "end"
  BY <1>2, <1>6 DEF Doomed, InStep, SenderPasses
<1>7. CASE ~sent_open /\ r.type = "end"
  BY <1>1, <1>2, <1>7 DEF Doomed, InStep, SenderPasses, ReaderType
<1> QED BY <1>1, <1>4, <1>5, <1>6, <1>7

LEMMA RepeatFails ==
    ASSUME ReaderType, InStep, LastSent, checksummed, records > 0, NextRecord(last)
    PROVE  outcome' = "error"
<1>1. last.sum = "kept" /\ last.head /\ last.type \in Types
  BY DEF LastSent, Clean, Record
<1>2. ~(Framed(last) /\ ChecksumOK(last))
  BY <1>1 DEF LastSent, InStep, Framed, ChecksumOK, StoredOK, IsBegin, IsConclusion,
              Types
<1> QED BY <1>2 DEF NextRecord

\* Nothing that is sent later saves a doomed reader.
LEMMA DoomedKept ==
    ASSUME ReaderType, checksummed, Doomed, NEW r \in SentNext, Deliver(r)
    PROVE  outcome' = "error" \/ Doomed'
<1>1. /\ r.head /\ r.sum = "kept"
      /\ sent_open => r.type \in {"data", "end"} /\ ~r.zero /\ r.before = sent_sum
      /\ ~sent_open => \/ r.type = "begin" /\ ~r.zero
                       \/ sent_compound /\ r.type = "end" /\ r.zero /\ r.before = << >>
                       \/ ~sent_compound /\ r.type = "compound" /\ ~r.zero
  BY SentNextFacts DEF Clean
<1>2. SUFFICES ASSUME Accepted(r) PROVE Doomed'
  BY NextRecordCases DEF Deliver
<1>3. Framed(r) /\ ChecksumOK(r) /\ Accept(r) /\ SenderPasses(r)
  BY <1>2 DEF Accepted, Deliver
<1>4. ~(segment_open /\ sent_open /\ checksum # sent_sum)
  BY <1>1, <1>3 DEF ChecksumOK, StoredOK, IsBegin, IsConclusion
<1>5. ~(segment_open /\ ~sent_open /\ checksum # << >>)
  BY <1>1, <1>3 DEF Framed, ChecksumOK, StoredOK, IsBegin, IsConclusion
<1>6. ~(~segment_open /\ sent_open)
  BY <1>1, <1>3 DEF Framed, IsBegin, IsConclusion
<1>7. compound_open /\ ~sent_compound /\ segment_open = sent_open
  BY <1>4, <1>5, <1>6 DEF Doomed
<1>8. ~IsConclusion(r) /\ r.type # "compound" /\ ~r.zero
  BY <1>1, <1>3, <1>7 DEF Framed, IsConclusion
<1> QED BY <1>3, <1>7, <1>8 DEF Doomed, Accept, SenderPasses

-----------------------------------------------------------------------------
(* The steps.                                                              *)

LEMMA FaultsBounded ==
    ASSUME ReaderType, faults' = faults \/ Fault
    PROVE  faults' \in 0..MaxFaults
BY StreamReaderAssumption DEF ReaderType, Fault

\* Types, sums and the last record, under a step of the medium.
LEMMA TransferType ==
    ASSUME ReaderInv, outcome = "reading", Transfer
    PROVE  /\ ReaderType' /\ LastSent'
           /\ (segment_open => checksum # << >>)'
<1>1. ReaderType /\ LastSent /\ (segment_open => checksum # << >>)
  BY DEF ReaderInv
<1>2. records' \in Nat
  BY <1>1 DEF Transfer, ReaderType
<1>3. ASSUME NEW r \in SentNext, Deliver(r) \/ DeliverDamaged(r) \/ Lose(r)
      PROVE  /\ ReaderType' /\ LastSent'
             /\ (segment_open => checksum # << >>)'
  <2>1. SenderPasses(r) /\ Clean(r) /\ r \in Record
    BY <1>1, <1>3, SentNextFacts DEF Deliver, DeliverDamaged, Lose, Clean
  <2>2. /\ sent_open' \in BOOLEAN /\ sent_compound' \in BOOLEAN
        /\ sent_sum' \in Seq(Item) /\ checksummed' \in BOOLEAN
    BY <1>1, <2>1, SenderFacts
  <2>3. LastSent'
    BY <1>1, <2>1, SenderLast
  <2>4. /\ started' \in BOOLEAN /\ segment_open' \in BOOLEAN
        /\ compound_open' \in BOOLEAN /\ saw_end' \in BOOLEAN
        /\ checksum' \in Seq(Item) /\ (segment_open' => checksum' # << >>)
        /\ outcome' \in {"reading", "accepted", "error"}
    <3>1. CASE Deliver(r)
      BY <1>1, <2>1, <3>1, NextRecordType DEF Deliver
    <3>2. CASE DeliverDamaged(r)
      <4>1. PICK w \in Damaged(r) : NextRecord(w)
        BY <3>2 DEF DeliverDamaged
      <4>2. w \in Record
        BY <2>1, DamagedFacts
      <4> QED BY <1>1, <4>1, <4>2, NextRecordType
    <3>3. CASE Lose(r)
      BY <1>1, <3>3 DEF Lose, ReaderType, reader, flags
    <3> QED BY <1>3, <3>1, <3>2, <3>3
  <2>5. intact' \in BOOLEAN
    BY <1>1, <1>3 DEF Deliver, DeliverDamaged, Lose, ReaderType
  <2>6. faults' = faults \/ Fault
    BY <1>3 DEF Deliver, DeliverDamaged, Lose
  <2>7. faults' \in 0..MaxFaults
    BY <1>1, <2>6, FaultsBounded
  <2> QED BY <1>2, <2>2, <2>3, <2>4, <2>5, <2>7 DEF ReaderType
<1>4. CASE Repeat
  <2>1. last \in Record
    BY <1>1 DEF LastSent, Clean
  <2>2. /\ started' \in BOOLEAN /\ segment_open' \in BOOLEAN
        /\ compound_open' \in BOOLEAN /\ saw_end' \in BOOLEAN
        /\ checksum' \in Seq(Item) /\ (segment_open' => checksum' # << >>)
        /\ outcome' \in {"reading", "accepted", "error"}
    BY <1>1, <1>4, <2>1, NextRecordType DEF Repeat
  <2>3. /\ checksummed' = checksummed /\ sent_open' = sent_open
        /\ sent_compound' = sent_compound /\ sent_sum' = sent_sum /\ last' = last
    BY <1>4 DEF Repeat, sender
  <2>4. faults' \in 0..MaxFaults /\ intact' \in BOOLEAN
    BY <1>1, <1>4, FaultsBounded DEF Repeat
  <2>5. ReaderType'
    BY <1>1, <1>2, <2>2, <2>3, <2>4 DEF ReaderType
  <2>6. LastSent'
    BY <1>1, <2>3 DEF LastSent, Clean
  <2> QED BY <2>2, <2>5, <2>6
<1> QED BY <1>3, <1>4 DEF Transfer

LEMMA EndType ==
    ASSUME ReaderInv, Finish \/ Tear
    PROVE  /\ ReaderType' /\ LastSent'
           /\ (segment_open => checksum # << >>)'
<1>1. ReaderType /\ LastSent /\ (segment_open => checksum # << >>)
  BY DEF ReaderInv
<1>2. /\ started' = started /\ segment_open' = segment_open
      /\ compound_open' = compound_open /\ saw_end' = saw_end /\ checksum' = checksum
      /\ checksummed' = checksummed /\ sent_open' = sent_open
      /\ sent_compound' = sent_compound /\ sent_sum' = sent_sum /\ last' = last
      /\ records' = records /\ intact' = intact
  BY DEF Finish, Tear, reader, flags, sender
<1>3. faults' \in 0..MaxFaults /\ outcome' \in {"reading", "accepted", "error"}
  BY <1>1, StreamReaderAssumption DEF Finish, Tear, Fault, EndOfStream, ReaderType
<1>4. ReaderType'
  BY <1>1, <1>2, <1>3 DEF ReaderType
<1>5. LastSent'
  BY <1>1, <1>2 DEF LastSent, Clean
<1> QED BY <1>1, <1>2, <1>4, <1>5

LEMMA ReaderStep ==
    ASSUME ReaderInv, [ReaderNext]_readerVars
    PROVE  ReaderInv'
<1>1. ReaderType /\ faults \in Nat
  BY StreamReaderAssumption DEF ReaderInv, ReaderType
<1>2. CASE outcome = "reading" /\ Transfer
  <2>1. /\ ReaderType' /\ LastSent' /\ (segment_open => checksum # << >>)'
    BY <1>2, TransferType
  <2>2. ASSUME faults' = 0
        PROVE  InStep' /\ outcome' = "reading" /\ intact'
    <3>1. PICK r \in SentNext : Deliver(r)
      BY <1>1, <1>2, <2>2 DEF Transfer, DeliverDamaged, Lose, Repeat, Fault
    <3>2. faults = 0
      BY <2>2, <3>1 DEF Deliver
    <3>3. InStep /\ records' = records + 1
      BY <1>2, <3>2 DEF ReaderInv, Transfer
    <3>4. InStep' /\ outcome' = outcome
      BY <1>1, <3>1, <3>3, InStepKept
    <3> QED BY <1>2, <3>4 DEF InStep
  <2> QED BY <2>1, <2>2 DEF ReaderInv
<1>3. CASE outcome = "reading" /\ (Finish \/ Tear)
  <2>1. /\ ReaderType' /\ LastSent' /\ (segment_open => checksum # << >>)'
    BY <1>3, EndType
  <2>2. ASSUME faults' = 0
        PROVE  outcome' # "reading" /\ (outcome' = "error" => records' = 0) /\ intact'
    <3>1. Finish /\ ~sent_open /\ ~sent_compound /\ faults = 0
      BY <1>1, <1>3, <2>2 DEF Finish, Tear, Fault
    <3>2. InStep
      BY <1>3, <3>1 DEF ReaderInv
    <3> QED BY <1>1, <3>1, <3>2 DEF Finish, EndOfStream, InStep, ReaderType
  <2> QED BY <2>1, <2>2 DEF ReaderInv
<1>4. CASE UNCHANGED readerVars
  <2>1. /\ started' = started /\ segment_open' = segment_open
        /\ compound_open' = compound_open /\ saw_end' = saw_end /\ checksum' = checksum
        /\ checksummed' = checksummed /\ sent_open' = sent_open
        /\ sent_compound' = sent_compound /\ sent_sum' = sent_sum /\ last' = last
        /\ records' = records /\ intact' = intact /\ faults' = faults
        /\ outcome' = outcome
    BY <1>4 DEF readerVars, reader, flags, sender
  <2>2. ReaderType' /\ LastSent'
    BY <2>1 DEF ReaderInv, ReaderType, LastSent, Clean
  <2>3. InStep' = InStep
    BY <2>1 DEF InStep
  <2> QED BY <2>1, <2>2, <2>3 DEF ReaderInv
<1> QED BY <1>2, <1>3, <1>4 DEF ReaderNext

LEMMA IntactStep ==
    ASSUME ReaderInv, IntactInv, MaxFaults <= 1, [ReaderNext]_readerVars
    PROVE  IntactInv'
<1>1. /\ ReaderType /\ LastSent /\ (segment_open => checksum # << >>)
      /\ MaxFaults \in Nat /\ faults \in 0..MaxFaults
  BY StreamReaderAssumption DEF ReaderInv, ReaderType
<1>2. ASSUME Fault, outcome = "reading"
      PROVE  InStep
  BY <1>1, <1>2 DEF Fault, ReaderInv
<1>3. SUFFICES ASSUME checksummed'
               PROVE  /\ outcome' = "reading" /\ ~intact' => Doomed'
                      /\ outcome' = "accepted" => intact' /\ ~sent_open' /\ ~sent_compound'
  BY DEF IntactInv
<1>4. checksummed
  BY <1>3 DEF ReaderNext, Transfer, Deliver, DeliverDamaged, Lose, Repeat, Finish, Tear,
              SenderPasses, sender, readerVars
<1>5. CASE outcome = "reading" /\ Transfer
  <2>1. ASSUME NEW w, NextRecord(w)
        PROVE  outcome' # "accepted"
    BY <1>5, <2>1 DEF NextRecord
  <2>2. ASSUME NEW r \in SentNext, Deliver(r)
        PROVE  outcome' # "accepted" /\ (outcome' = "reading" /\ ~intact' => Doomed')
    <3>1. intact' = intact /\ outcome' # "accepted"
      BY <2>1, <2>2 DEF Deliver
    <3>2. ~intact => Doomed
      BY <1>4, <1>5 DEF IntactInv
    <3> QED BY <1>1, <1>4, <2>2, <3>1, <3>2, DoomedKept
  <2>3. ASSUME NEW r \in SentNext, DeliverDamaged(r)
        PROVE  outcome' # "accepted" /\ (outcome' = "reading" /\ ~intact' => Doomed')
    <3>1. InStep /\ intact
      BY <1>2, <1>5, <2>3 DEF DeliverDamaged, InStep
    <3>2. PICK w \in Damaged(r) : NextRecord(w) /\ intact' = (intact /\ ~Meaningful(w))
      BY <2>3 DEF DeliverDamaged
    <3>3. ~intact' => Meaningful(w)
      BY <3>1, <3>2
    <3>4. SenderPasses(r) /\ outcome' # "accepted"
      BY <2>1, <2>3, <3>2 DEF DeliverDamaged
    <3>5. Meaningful(w) => outcome' = "error" \/ Doomed'
      BY <1>1, <1>4, <3>1, <3>2, <3>4, DamageDooms
    <3> QED BY <3>3, <3>4, <3>5
  <2>4. ASSUME NEW r \in SentNext, Lose(r)
        PROVE  outcome' # "accepted" /\ (outcome' = "reading" /\ ~intact' => Doomed')
    <3>1. InStep /\ SenderPasses(r) /\ UNCHANGED reader /\ outcome' = outcome
      BY <1>2, <1>5, <2>4 DEF Lose
    <3>2. Doomed'
      BY <1>1, <3>1, LossDooms
    <3> QED BY <1>5, <3>1, <3>2
  <2>5. CASE Repeat
    <3>1. InStep /\ records > 0 /\ NextRecord(last)
      BY <1>2, <1>5, <2>5 DEF Repeat
    <3>2. outcome' = "error"
      BY <1>1, <1>4, <3>1, RepeatFails
    <3> QED BY <3>2
  <2> QED BY <1>5, <2>2, <2>3, <2>4, <2>5 DEF Transfer
<1>6. CASE outcome = "reading" /\ Finish
  <2>1. /\ intact' = intact /\ sent_open' = sent_open /\ sent_compound' = sent_compound
        /\ EndOfStream
    BY <1>6 DEF Finish, sender
  <2>2. ASSUME outcome' = "accepted"
        PROVE  ~segment_open /\ ~compound_open
    BY <2>1, <2>2 DEF EndOfStream
  <2>3. ASSUME outcome' = "accepted"
        PROVE  ~sent_open /\ ~sent_compound
    BY <1>2, <1>6, <2>2, <2>3 DEF Finish, InStep
  <2>4. ASSUME outcome' = "accepted"
        PROVE  intact
    BY <1>4, <1>6, <2>2, <2>3, <2>4 DEF IntactInv, Doomed
  <2>5. outcome' # "reading"
    BY <2>1 DEF EndOfStream
  <2> QED BY <2>1, <2>3, <2>4, <2>5
<1>7. CASE Tear
  BY <1>7 DEF Tear
<1>8. CASE UNCHANGED readerVars
  <2>1. /\ segment_open' = segment_open /\ compound_open' = compound_open
        /\ checksum' = checksum /\ sent_open' = sent_open
        /\ sent_compound' = sent_compound /\ sent_sum' = sent_sum
        /\ intact' = intact /\ outcome' = outcome
    BY <1>8 DEF readerVars, reader, flags, sender
  <2>2. Doomed' = Doomed
    BY <2>1 DEF Doomed
  <2> QED BY <1>4, <2>1, <2>2 DEF IntactInv
<1> QED BY <1>5, <1>6, <1>7, <1>8 DEF ReaderNext

LEMMA ReaderInitially ==
    ASSUME ReaderInit
    PROVE  ReaderInv /\ IntactInv
<1>1. << >> \in Seq(Item)
  OBVIOUS
<1>2. faults \in 0..MaxFaults /\ records \in Nat /\ ~(records > 0)
  <2>1. faults = 0 /\ records = 0
    BY DEF ReaderInit
  <2> QED BY <2>1, StreamReaderAssumption
<1>6. ReaderType
  BY <1>1, <1>2 DEF ReaderInit, ReaderType
<1>3. Clean(Conclusion) /\ Conclusion.type = "end"
  BY <1>1 DEF Conclusion, Sent, Clean, Record, Types, Sums
<1>4. LastSent
  BY <1>3 DEF ReaderInit, LastSent
<1>5. InStep
  <2>1. started = FALSE
    BY DEF ReaderInit
  <2>2. started <=> records > 0
    BY <1>2, <2>1
  <2> QED BY <1>2, <2>2 DEF ReaderInit, InStep
<1> QED BY <1>4, <1>5, <1>6 DEF ReaderInv, IntactInv, ReaderInit

\* NoFalseAlarm: next_record refuses no file that the medium left alone, of
\* any number of records, checksummed or not, except the empty one.
THEOREM ReaderNoFalseAlarm == ReaderSpec => []NoFalseAlarm
<1>1. ReaderInit => ReaderInv
  BY ReaderInitially
<1>2. ReaderInv /\ [ReaderNext]_readerVars => ReaderInv'
  BY ReaderStep
<1>3. ReaderInv => NoFalseAlarm
  BY DEF ReaderInv, NoFalseAlarm
<1> QED BY <1>1, <1>2, <1>3, PTL DEF ReaderSpec

\* AcceptedIntact: one fault of the medium (damage to a record, a lost, a
\* repeated or a torn one, a file cut off) in a checksummed file of any number
\* of records never leaves a file that next_record accepts to its end, unless
\* all it changed is a stored checksum.
THEOREM ReaderAcceptedIntact ==
    ASSUME MaxFaults <= 1
    PROVE  ReaderSpec => []AcceptedIntact
<1>1. ReaderInit => ReaderInv /\ IntactInv
  BY ReaderInitially
<1>2. ReaderInv /\ IntactInv /\ [ReaderNext]_readerVars => ReaderInv' /\ IntactInv'
  BY ReaderStep, IntactStep
<1>3. IntactInv => AcceptedIntact
  BY DEF IntactInv, AcceptedIntact
<1> QED BY <1>1, <1>2, <1>3, PTL DEF ReaderSpec

-----------------------------------------------------------------------------
(* SnapshotChain: the substreams and the chain that is chosen.             *)

\* A file that was cut off is not written on.
Settled == Rewrites = FALSE

UniqueTo(f) == \A i, j \in 1..Len(f) : f[i].to = f[j].to => i = j

ChainTypes ==
    /\ file \in Seq(Headers) /\ UniqueTo(file)
    /\ snapshots \in Seq(Headers) /\ UniqueTo(snapshots)
    /\ chain \in Seq(Nat)
    /\ pos \in Nat \ {0}
    /\ was_cut \in BOOLEAN
    /\ phase # "failed" => why = "none"
    /\ phase = "start" => snapshots = <<>>

\* The file is the one that was planned, longer or shorter.
Agrees ==
    /\ \A i \in 1..Len(file) : i <= Len(snapshots) => file[i] = snapshots[i]
    /\ ~was_cut => Len(snapshots) <= Len(file)

\* The places of the chain in the file that was planned.
Used == {i \in 1..Len(snapshots) : \E k \in 1..Len(chain) : chain[k] = snapshots[i].to}

\* j is the place in S that comes next before i, and makes i's base.
Link(S, j, i) ==
    /\ j \in S /\ j < i /\ snapshots[j].to = snapshots[i].from
    /\ \A k \in S : ~(j < k /\ k < i)

\* The walk has linked the target to the substream at the cursor.
Linked ==
    phase \in {"walk", "index", "replay"} =>
        /\ cursor \in Used /\ from_guid = snapshots[cursor].from
        /\ \A i \in Used : cursor <= i
        /\ \E t \in Used : snapshots[t].to = target /\ \A i \in Used : i <= t
        /\ \A i \in Used : i # cursor => \E j \in Used : Link(Used, j, i)
        /\ \A k \in 1..Len(chain) : \E i \in 1..Len(snapshots) : chain[k] = snapshots[i].to
        /\ phase # "walk" => from_guid = Nothing

\* A reading has met the places before pos and holds the last one's state.
Read ==
    phase \in {"index", "replay"} =>
        /\ seen = {snapshots[i].to : i \in {k \in Used : k < pos}}
        /\ \/ state = Nothing /\ \A i \in Used : pos <= i
           \/ \E i \in Used : /\ i < pos /\ state = snapshots[i].to
                              /\ \A k \in Used : k < pos => k <= i

Rebuilt ==
    /\ phase = "replay" => index = target
    /\ phase = "done" => index = target /\ state = target

ReadingsAgree == ChainTypes /\ Agrees /\ Linked /\ Read /\ Rebuilt

\* As long as no two substreams of the file have made one snapshot.
Inv == ~replicated => ReadingsAgree

-----------------------------------------------------------------------------
LEMMA HeaderFacts ==
    ASSUME NEW f \in Seq(Headers), NEW i \in 1..Len(f)
    PROVE  f[i] \in Headers /\ f[i].to \in Nat \ {0} /\ f[i].from \in Nat
BY SnapshotChainAssumption

LEMMA FilesFacts ==
    ASSUME NEW f \in Files, Distinct(f, "to")
    PROVE  f \in Seq(Headers) /\ UniqueTo(f)
<1>1. PICK n \in 0..MaxLen : f \in [1..n -> Headers]
  BY DEF Files
<1>2. f \in Seq(Headers) /\ Len(f) = n /\ DOMAIN f = 1..Len(f)
  BY <1>1, SnapshotChainAssumption
<1>3. UniqueTo(f)
  BY <1>2 DEF Distinct, UniqueTo
<1> QED BY <1>2, <1>3

LEMMA LegalFacts ==
    ASSUME NEW f \in Seq(Headers), Distinct(f, "to")
    PROVE  UniqueTo(f)
BY DEF Distinct, UniqueTo

LEMMA InitInv == Init => Inv
<1> SUFFICES ASSUME Init, ~replicated PROVE ReadingsAgree
  BY DEF Inv
<1>1. file \in Seq(Headers) /\ UniqueTo(file)
  BY FilesFacts DEF Init
<1>2. snapshots = <<>> /\ Len(snapshots) = 0 /\ <<>> \in Seq(Headers) /\ <<>> \in Seq(Nat)
      /\ Len(file) \in Nat
  BY <1>1 DEF Init
<1>3. UniqueTo(snapshots)
  BY <1>2 DEF UniqueTo
<1>4. ChainTypes
  <2>1. chain = <<>> /\ pos = 1 /\ was_cut = FALSE /\ phase = "start" /\ why = "none"
    BY DEF Init
  <2>2. pos \in Nat \ {0}
    BY <2>1
  <2>3. was_cut \in BOOLEAN
    BY DEF Init
  <2> QED BY <1>1, <1>2, <1>3, <2>1, <2>2, <2>3 DEF ChainTypes
<1>5. Agrees
  BY <1>2 DEF Agrees
<1> QED BY <1>4, <1>5 DEF Init, ReadingsAgree, Linked, Read, Rebuilt

\* The target is found: the chain is the target alone.
LEMMA PlanKeeps ==
    ASSUME ReadingsAgree, Settled, Plan
    PROVE  ReadingsAgree'
<1>0. ChainTypes /\ phase = "start" /\ why = "none"
  BY DEF ReadingsAgree, ChainTypes, Plan
<1>1. /\ snapshots' = file
      /\ UNCHANGED <<file, changes, was_cut, selector, pos, seen, state, index>>
  BY DEF Plan, reading, past
<1>2. Agrees'
  <2>1. Len(file) \in Nat /\ Len(file) <= Len(file)
    BY <1>0 DEF ChainTypes
  <2> QED BY <1>1, <2>1 DEF Agrees
<1>3. CASE Cardinality(Selected(file, selector)) # 1
  <2>1. phase' = "failed" /\ why' = "no such snapshot" /\ chain' = chain
    BY <1>3 DEF Plan, Fail
  <2> QED BY <1>0, <1>1, <1>2, <2>1
          DEF ReadingsAgree, ChainTypes, Linked, Read, Rebuilt
<1>4. CASE Cardinality(Selected(file, selector)) = 1
  <2>1. PICK t \in Selected(file, selector) :
             /\ target' = file[t].to /\ chain' = <<file[t].to>>
             /\ cursor' = t /\ from_guid' = file[t].from
             /\ phase' = "walk" /\ UNCHANGED why
    BY <1>4 DEF Plan
  <2>2. t \in 1..Len(file)
    <3>1. DOMAIN file = 1..Len(file)
      BY <1>0 DEF ChainTypes
    <3> QED BY <3>1 DEF Selected
  <2>3. file[t].to \in Nat /\ chain' \in Seq(Nat) /\ Len(chain') = 1
        /\ chain'[1] = file[t].to
    <3>1. file[t].to \in Nat
      BY <1>0, <2>2, HeaderFacts DEF ChainTypes
    <3> QED BY <2>1, <3>1
  <2>4. ChainTypes'
    BY <1>0, <1>1, <2>1, <2>3 DEF ChainTypes
  <2>5. Used' = {t}
    <3>1. \A k \in 1..Len(chain') : chain'[k] = file[t].to
      BY <2>3
    <3>2. Used' = {i \in 1..Len(file) : file[t].to = file[i].to}
      BY <1>1, <2>3, <3>1 DEF Used
    <3> QED BY <1>0, <2>2, <3>2 DEF ChainTypes, UniqueTo
  <2>6. Linked'
    BY <1>1, <2>1, <2>2, <2>3, <2>5 DEF Linked
  <2> QED BY <1>0, <1>2, <2>1, <2>4, <2>6
          DEF ReadingsAgree, Read, Rebuilt
<1> QED BY <1>3, <1>4

\* ChainTypes holds the first facts of every step.
LEMMA TypesFacts ==
    ASSUME ReadingsAgree
    PROVE  /\ ChainTypes /\ Agrees /\ Linked /\ Read /\ Rebuilt
           /\ Len(file) \in Nat /\ Len(snapshots) \in Nat /\ Len(chain) \in Nat
           /\ DOMAIN snapshots = 1..Len(snapshots) /\ DOMAIN chain = 1..Len(chain)
           /\ Used \subseteq 1..Len(snapshots)
           /\ \A i \in 1..Len(snapshots) :
                 snapshots[i].to \in Nat \ {0} /\ snapshots[i].from \in Nat
BY HeaderFacts DEF ReadingsAgree, ChainTypes, Used

\* A step that leaves the plan alone leaves the links alone.
LEMMA PlanKept ==
    ASSUME ReadingsAgree, phase' = phase, UNCHANGED <<plan, walk>>
    PROVE  Linked' /\ Used' = Used
<1>1. UNCHANGED <<snapshots, target, chain, cursor, from_guid>>
  BY DEF plan, walk
<1>2. Used' = Used
  BY <1>1 DEF Used
<1>3. Linked'
  BY <1>1, <1>2 DEF ReadingsAgree, Linked, Link
<1> QED BY <1>2, <1>3

\* The base is the only substream that made the GUID, so the link is the only
\* one an ancestry can have, and without it there is none.
LEMMA WalkKeeps ==
    ASSUME ReadingsAgree, Settled, Walk
    PROVE  ReadingsAgree'
<1>0. /\ phase = "walk" /\ from_guid # Nothing
      /\ UNCHANGED <<file, changes, was_cut, selector, pos, seen, state, index>>
  BY DEF Walk, reading, past
<1>1. /\ ChainTypes /\ Agrees /\ Linked
      /\ Len(snapshots) \in Nat /\ Len(chain) \in Nat
      /\ DOMAIN snapshots = 1..Len(snapshots) /\ Used \subseteq 1..Len(snapshots)
  BY TypesFacts
<1>2. /\ cursor \in Used /\ from_guid = snapshots[cursor].from
      /\ \A i \in Used : cursor <= i
      /\ cursor \in 1..Len(snapshots) /\ cursor \in Nat
  <2>1. cursor \in Used /\ from_guid = snapshots[cursor].from
        /\ \A i \in Used : cursor <= i
    BY <1>0, <1>1 DEF Linked
  <2>2. cursor \in 1..Len(snapshots)
    BY <1>1, <2>1
  <2> QED BY <1>1, <2>1, <2>2
<1>3. PICK t \in Used : snapshots[t].to = target /\ \A i \in Used : i <= t
  BY <1>0, <1>1 DEF Linked
<1>4. \A i \in 1..Len(snapshots) : i < cursor /\ snapshots[i].to = from_guid => i \in Bases
  BY <1>2 DEF Bases
<1>5. CASE Bases = {}
  <2>1. /\ phase' = "failed" /\ why' = "base is missing"
        /\ UNCHANGED <<snapshots, target, chain, cursor, from_guid>>
    BY <1>5 DEF Walk, Fail, plan, walk
  <2>4. ChainTypes' /\ Agrees'
    BY <1>0, <1>1, <2>1 DEF ChainTypes, Agrees
  <2> QED BY <2>1, <2>4 DEF ReadingsAgree, Linked, Read, Rebuilt
<1>6. CASE Bases # {}
  <2> DEFINE i == CHOOSE i \in Bases : \A j \in Bases : j <= i
  <2>1. PICK b \in Bases : TRUE
    BY <1>6
  <2>2. b \in 1..Len(snapshots) /\ b < cursor /\ snapshots[b].to = from_guid
    BY <1>2, <2>1 DEF Bases
  <2>3. \A j \in Bases : j = b
    BY <1>1, <1>2, <2>2 DEF Bases, ChainTypes, UniqueTo
  <2>4. i = b
    <3>1. b <= b
      BY <1>1, <2>2
    <3> QED BY <2>1, <2>3, <3>1
  <2> HIDE DEF i
  <2>5. /\ chain' = <<snapshots[b].to>> \o chain
        /\ cursor' = b /\ from_guid' = snapshots[b].from
        /\ UNCHANGED <<phase, why, snapshots, target>>
    BY <1>6, <2>4 DEF Walk, i
  <2>6. /\ snapshots[b].to \in Nat /\ <<snapshots[b].to>> \in Seq(Nat)
    BY <1>1, <2>2, HeaderFacts DEF ChainTypes
  <2>7. /\ chain' \in Seq(Nat) /\ Len(chain') = Len(chain) + 1
        /\ chain'[1] = snapshots[b].to
        /\ \A k \in 1..Len(chain) : chain'[k + 1] = chain[k]
        /\ \A k \in 1..Len(chain') : k = 1 \/ (k - 1 \in 1..Len(chain) /\ chain'[k] = chain[k - 1])
    <3>1. chain \in Seq(Nat) /\ Len(chain) \in Nat
      BY <1>1 DEF ChainTypes
    <3>2. chain' = <<snapshots[b].to>> \o chain
      BY <2>5
    <3>3. /\ chain' \in Seq(Nat) /\ Len(chain') = Len(chain) + 1
          /\ chain'[1] = snapshots[b].to
      BY <2>6, <3>1, <3>2
    <3>4. \A k \in 1..Len(chain) : chain'[k + 1] = chain[k]
      BY <2>6, <3>1, <3>2
    <3>5. ASSUME NEW k \in 1..Len(chain'), k # 1
          PROVE  k - 1 \in 1..Len(chain) /\ chain'[k] = chain[k - 1]
      <4>1. k - 1 \in 1..Len(chain) /\ (k - 1) + 1 = k
        BY <3>1, <3>3, <3>5
      <4> QED BY <3>4, <4>1
    <3> QED BY <3>3, <3>4, <3>5
  <2>8. Used' = Used \cup {b}
    <3>1. ASSUME NEW u \in 1..Len(snapshots), NEW k \in 1..Len(chain'),
                 chain'[k] = snapshots[u].to
          PROVE  u \in Used \/ u = b
      <4>1. CASE k = 1
        BY <1>1, <2>2, <2>7, <3>1, <4>1 DEF ChainTypes, UniqueTo
      <4>2. CASE k # 1
        BY <2>7, <3>1, <4>2 DEF Used
      <4> QED BY <4>1, <4>2
    <3>2. ASSUME NEW u \in Used
          PROVE  \E k \in 1..Len(chain') : chain'[k] = snapshots[u].to
      <4>1. PICK k \in 1..Len(chain) : chain[k] = snapshots[u].to
        BY DEF Used
      <4>2. k + 1 \in 1..Len(chain') /\ chain'[k + 1] = snapshots[u].to
        BY <1>1, <2>7, <4>1
      <4> QED BY <4>2
    <3>3. 1 \in 1..Len(chain') /\ chain'[1] = snapshots[b].to
      BY <1>1, <2>7
    <3>4. Used' = {u \in 1..Len(snapshots) :
                     \E k \in 1..Len(chain') : chain'[k] = snapshots[u].to}
      BY <2>5 DEF Used
    <3> QED BY <1>1, <2>2, <3>1, <3>2, <3>3, <3>4
  <2>9. ChainTypes' /\ Agrees'
    BY <1>0, <1>1, <2>5, <2>7 DEF ChainTypes, Agrees
  <2>10. Linked'
    <3>1. \A u \in Used' : b <= u /\ b \in Nat
      BY <1>1, <1>2, <2>2, <2>8
    <3>2. t \in Used' /\ snapshots[t].to = target /\ \A u \in Used' : u <= t
      BY <1>1, <1>2, <1>3, <2>2, <2>8
    <3>3. ASSUME NEW u \in Used', u # b
          PROVE  \E j \in Used' : /\ j < u /\ snapshots[j].to = snapshots[u].from
                                  /\ \A k \in Used' : ~(j < k /\ k < u)
      <4>1. u \in Used
        BY <2>8, <3>3
      <4>2. CASE u = cursor
        BY <1>1, <1>2, <2>2, <2>8, <4>2
      <4>3. CASE u # cursor
        <5>1. PICK j \in Used : Link(Used, j, u)
          BY <1>0, <1>1, <4>1, <4>3 DEF Linked
        <5>2. b < j
          BY <1>1, <1>2, <2>2, <5>1
        <5> QED BY <1>1, <2>2, <2>8, <5>1, <5>2 DEF Link
      <4> QED BY <4>2, <4>3
    <3>4. ASSUME NEW k \in 1..Len(chain')
          PROVE  \E u \in 1..Len(snapshots) : chain'[k] = snapshots[u].to
      <4>1. CASE k = 1
        BY <2>2, <2>7, <4>1
      <4>2. CASE k # 1
        <5>1. \A l \in 1..Len(chain) :
                 \E u \in 1..Len(snapshots) : chain[l] = snapshots[u].to
          BY <1>0, <1>1 DEF Linked
        <5>2. k - 1 \in 1..Len(chain) /\ chain'[k] = chain[k - 1]
          BY <2>7, <4>2
        <5> QED BY <5>1, <5>2
      <4> QED BY <4>1, <4>2
    <3> QED BY <1>0, <2>5, <2>8, <3>1, <3>2, <3>3, <3>4 DEF Linked, Link
  <2> QED BY <1>0, <2>5, <2>9, <2>10 DEF ReadingsAgree, Read, Rebuilt
<1> QED BY <1>5, <1>6

-----------------------------------------------------------------------------
(* The readings.                                                           *)

LEMMA PlannedKeeps ==
    ASSUME ReadingsAgree, Settled, Planned
    PROVE  ReadingsAgree'
<1>1. /\ phase = "walk" /\ from_guid = Nothing /\ phase' = "index"
      /\ pos' = 1 /\ seen' = {} /\ state' = Nothing
      /\ UNCHANGED <<file, was_cut, why, snapshots, target, chain, cursor, from_guid>>
  BY DEF Planned, Reading, plan, walk, past
<1>2. ChainTypes /\ Agrees /\ Linked /\ Used \subseteq 1..Len(snapshots) /\ Len(snapshots) \in Nat
     
  BY TypesFacts
<1>3. Used' = Used
  BY <1>1 DEF Used
<1>4. ChainTypes' /\ Agrees'
  <2>1. pos' \in Nat \ {0}
    BY <1>1
  <2> QED BY <1>1, <1>2, <2>1 DEF ChainTypes, Agrees
<1>5. Linked'
  BY <1>1, <1>2, <1>3 DEF Linked, Link
<1>6. Read'
  <2>1. \A i \in Used : i \in Nat /\ 1 <= i /\ ~(i < 1)
    BY <1>2
  <2>2. {snapshots[i].to : i \in {k \in Used : k < 1}} = {}
    BY <2>1
  <2> QED BY <1>1, <1>3, <2>1, <2>2 DEF Read
<1> QED BY <1>1, <1>4, <1>5, <1>6 DEF ReadingsAgree, Rebuilt

\* A place of the plan is chosen if it is one of the chain's, and what the
\* file holds beyond the plan is not.
LEMMA ChosenIsUsed ==
    ASSUME ReadingsAgree, pos <= Len(file), phase \in {"index", "replay"}
    PROVE  /\ Chosen(file[pos]) <=> pos \in Used
           /\ pos \in Used => file[pos] = snapshots[pos]
<1>1. /\ ChainTypes /\ Agrees /\ Linked /\ Used \subseteq 1..Len(snapshots)
      /\ Len(file) \in Nat /\ Len(snapshots) \in Nat
      /\ DOMAIN chain = 1..Len(chain) /\ pos \in Nat \ {0}
  BY TypesFacts DEF ChainTypes
<1>2. CASE pos <= Len(snapshots)
  <2>1. pos \in 1..Len(file) /\ pos \in 1..Len(snapshots)
    BY <1>1, <1>2
  <2>2. file[pos] = snapshots[pos]
    BY <1>1, <1>2, <2>1 DEF Agrees
  <2> QED BY <1>1, <2>1, <2>2 DEF Chosen, Used
<1>3. CASE Len(snapshots) < pos
  <2>1. pos \notin Used /\ pos \in 1..Len(file)
    BY <1>1, <1>3
  <2>2. ~Chosen(file[pos])
    <3>1. SUFFICES ASSUME NEW k \in 1..Len(chain), chain[k] = file[pos].to
                   PROVE  FALSE
      BY <1>1 DEF Chosen
    <3>2. PICK i \in 1..Len(snapshots) : chain[k] = snapshots[i].to
      BY <1>1 DEF Linked
    <3>3. i \in 1..Len(file) /\ i # pos /\ file[i] = snapshots[i]
      BY <1>1, <1>3 DEF Agrees
    <3> QED BY <1>1, <2>1, <3>1, <3>2, <3>3 DEF ChainTypes, UniqueTo
  <2> QED BY <2>1, <2>2
<1> QED BY <1>1, <1>2, <1>3

LEMMA SubstreamKeeps ==
    ASSUME ReadingsAgree, Settled, Substream
    PROVE  ReadingsAgree'
<1>1. /\ phase \in {"index", "replay"} /\ pos <= Len(file) /\ pos' = pos + 1
      /\ UNCHANGED <<file, changes, was_cut, phase, why, plan, walk, index>>
      /\ UNCHANGED <<snapshots, target, chain, cursor, from_guid>>
  BY DEF Substream, plan, walk, past
<1>2. /\ ChainTypes /\ Agrees /\ Linked /\ Read /\ Rebuilt /\ Used \subseteq 1..Len(snapshots)
      /\ Len(file) \in Nat /\ Len(snapshots) \in Nat /\ pos \in Nat \ {0}
     
  BY TypesFacts DEF ChainTypes
<1>3. Linked' /\ Used' = Used
  BY <1>1, PlanKept
<1>4. ChainTypes' /\ Agrees'
  <2>1. pos' \in Nat \ {0}
    BY <1>1, <1>2
  <2> QED BY <1>1, <1>2, <2>1 DEF ChainTypes, Agrees
<1>5. /\ Chosen(file[pos]) <=> pos \in Used
      /\ pos \in Used => file[pos] = snapshots[pos]
  BY <1>1, ChosenIsUsed
<1>6. \A i \in Used : i \in Nat /\ (i < pos + 1 <=> i < pos \/ i = pos)
  BY <1>2
<1>7. Read'
  <2>1. CASE pos \in Used
    <3>1. /\ seen' = seen \cup {snapshots[pos].to}
          /\ state' = Replay(state, snapshots[pos])
      BY <1>5, <2>1 DEF Substream
    <3>2. seen' = {snapshots[i].to : i \in {k \in Used : k < pos + 1}}
      BY <1>1, <1>2, <1>6, <2>1, <3>1 DEF Read
    <3>3. snapshots[pos].from = state
      <4>1. CASE state = Nothing /\ \A i \in Used : pos <= i
        <5>1. cursor \in Used /\ cursor <= pos /\ pos <= cursor
          BY <1>1, <1>2, <2>1, <4>1 DEF Linked
        <5>2. cursor = pos
          BY <1>2, <5>1
        <5> QED BY <1>1, <1>2, <4>1, <5>2 DEF Linked
      <4>2. ASSUME NEW i \in Used, i < pos, state = snapshots[i].to,
                   \A k \in Used : k < pos => k <= i
            PROVE  snapshots[pos].from = state
        <5>1. pos # cursor
          BY <1>1, <1>2, <1>6, <4>2 DEF Linked
        <5>2. PICK j \in Used : Link(Used, j, pos)
          BY <1>1, <1>2, <2>1, <5>1 DEF Linked
        <5>3. j = i
          BY <1>6, <4>2, <5>2 DEF Link
        <5> QED BY <4>2, <5>2, <5>3 DEF Link
      <4> QED BY <1>1, <1>2, <4>1, <4>2 DEF Read
    <3>4. state' = snapshots[pos].to
      BY <3>1, <3>3 DEF Replay
    <3>5. pos < pos + 1 /\ \A k \in Used : k < pos + 1 => k <= pos
      BY <1>2, <1>6
    <3> QED BY <1>1, <1>3, <2>1, <3>2, <3>4, <3>5 DEF Read
  <2>2. CASE pos \notin Used
    <3>1. UNCHANGED <<seen, state>>
      BY <1>5, <2>2 DEF Substream
    <3>2. {k \in Used : k < pos + 1} = {k \in Used : k < pos}
      BY <1>6, <2>2
    <3>3. seen' = {snapshots[i].to : i \in {k \in Used : k < pos + 1}}
      BY <1>1, <1>2, <3>1, <3>2 DEF Read
    <3>4. \/ state = Nothing /\ \A i \in Used : pos + 1 <= i
          \/ \E i \in Used : /\ i < pos + 1 /\ state = snapshots[i].to
                             /\ \A k \in Used : k < pos + 1 => k <= i
      <4>1. CASE state = Nothing /\ \A i \in Used : pos <= i
        BY <1>2, <1>6, <2>2, <4>1
      <4>2. CASE \E i \in Used : /\ i < pos /\ state = snapshots[i].to
                                 /\ \A k \in Used : k < pos => k <= i
        BY <1>6, <2>2, <4>2
      <4> QED BY <1>1, <1>2, <4>1, <4>2 DEF Read
    <3> QED BY <1>1, <1>3, <3>1, <3>3, <3>4 DEF Read
  <2> QED BY <2>1, <2>2
<1>9. Rebuilt'
  BY <1>1, <1>2 DEF Rebuilt
<1> QED BY <1>3, <1>4, <1>7, <1>9 DEF ReadingsAgree

\* As many GUIDs met as the chain has: all of them, the target's last.
LEMMA AllMet ==
    ASSUME ReadingsAgree, phase \in {"index", "replay"}, Cardinality(seen) = Len(chain)
    PROVE  state = target
<1>1. /\ ChainTypes /\ Linked /\ Read /\ Used \subseteq 1..Len(snapshots)
      /\ Len(snapshots) \in Nat /\ pos \in Nat \ {0}
      /\ Len(chain) \in Nat /\ DOMAIN chain = 1..Len(chain)
  BY TypesFacts DEF ChainTypes
<1> DEFINE R == {chain[k] : k \in 1..Len(chain)}
           g == [k \in 1..Len(chain) |-> chain[k]]
<1>2. IsFiniteSet(1..Len(chain)) /\ Cardinality(1..Len(chain)) = Len(chain)
  <2>1. 1 \in Int /\ Len(chain) \in Int /\ (1 > Len(chain) => Len(chain) = 0)
        /\ Len(chain) - 1 + 1 = Len(chain)
    BY <1>1
  <2> QED BY <2>1, FS_Interval
<1>3. g \in Surjection(1..Len(chain), R)
  BY DEF Surjection
<1>4. IsFiniteSet(R) /\ Cardinality(R) <= Len(chain)
  <2> HIDE DEF R, g
  <2> QED BY <1>2, <1>3, FS_Surjection
<1>5. seen \subseteq R
  BY <1>1 DEF Read, Used
<1>6. seen = R
  <2> HIDE DEF R
  <2>1. IsFiniteSet(seen) /\ Cardinality(seen) <= Cardinality(R)
        /\ (Cardinality(seen) = Cardinality(R) => seen = R)
    BY <1>4, <1>5, FS_Subset
  <2>2. Cardinality(R) \in Nat
    BY <1>4, FS_CardinalityType
  <2> QED BY <1>1, <1>4, <2>1, <2>2
<1>7. PICK t \in Used : snapshots[t].to = target /\ \A i \in Used : i <= t
  BY <1>1 DEF Linked
<1>8. target \in seen
  BY <1>6, <1>7 DEF Used
<1>9. PICK k \in Used : k < pos /\ snapshots[k].to = target
  BY <1>1, <1>8 DEF Read
<1>10. k = t
  BY <1>1, <1>7, <1>9 DEF ChainTypes, UniqueTo
<1>11. PICK i \in Used : /\ i < pos /\ state = snapshots[i].to
                         /\ \A u \in Used : u < pos => u <= i
  <2>1. k \in Nat /\ pos \in Nat /\ ~(pos <= k)
    BY <1>1, <1>9
  <2> QED BY <1>1, <1>9, <2>1 DEF Read
<1>12. i = t
  BY <1>1, <1>7, <1>9, <1>10, <1>11
<1> QED BY <1>7, <1>11, <1>12

LEMMA EndOfFileKeeps ==
    ASSUME ReadingsAgree, Settled, EndOfFile
    PROVE  ReadingsAgree'
<1>1. /\ phase \in {"index", "replay"} /\ pos > Len(file)
      /\ UNCHANGED <<file, was_cut, snapshots, target, chain, cursor, from_guid>>
  BY DEF EndOfFile, plan, walk, past
<1>2. /\ ChainTypes /\ Agrees /\ Linked /\ Read /\ Rebuilt /\ Used \subseteq 1..Len(snapshots)
      /\ Len(snapshots) \in Nat /\ why = "none"
  BY <1>1, TypesFacts DEF ChainTypes
<1>3. Used' = Used /\ Agrees'
  BY <1>1, <1>2 DEF Used, Agrees
<1>4. CASE Cardinality(seen) # Len(chain)
  <2>1. phase' = "failed" /\ why' = "stream changed" /\ UNCHANGED pos
    BY <1>4 DEF EndOfFile, Fail, reading
  <2>2. ChainTypes'
    BY <1>1, <1>2, <2>1 DEF ChainTypes
  <2> QED BY <1>3, <2>1, <2>2 DEF ReadingsAgree, Linked, Read, Rebuilt
<1>5. CASE Cardinality(seen) = Len(chain) /\ Indexed
  <2>1. /\ phase' = "replay" /\ index' = state /\ why' = why
        /\ pos' = 1 /\ seen' = {} /\ state' = Nothing
    BY <1>5 DEF Indexed, Reading
  <2>2. pos' \in Nat \ {0}
    BY <2>1
  <2>3. ChainTypes'
    BY <1>1, <1>2, <2>1, <2>2 DEF ChainTypes
  <2>4. Linked'
    BY <1>1, <1>2, <1>3, <2>1 DEF Linked, Link
  <2>5. Read'
    <3>1. \A i \in Used : i \in Nat /\ 1 <= i /\ ~(i < 1)
      BY <1>2
    <3>2. {snapshots[i].to : i \in {k \in Used : k < 1}} = {}
      BY <3>1
    <3> QED BY <1>1, <1>3, <2>1, <3>1, <3>2 DEF Read
  <2>6. Rebuilt'
    <3>1. state = target
      BY <1>1, <1>5, AllMet
    <3> QED BY <1>1, <2>1, <3>1 DEF Rebuilt
  <2> QED BY <1>3, <2>1, <2>3, <2>4, <2>5, <2>6 DEF ReadingsAgree
<1>6. CASE Cardinality(seen) = Len(chain) /\ Extracted
  <2>1. phase = "replay" /\ phase' = "done" /\ UNCHANGED <<why, pos, state, index>>
    BY <1>6 DEF Extracted, reading
  <2>2. ChainTypes'
    BY <1>1, <1>2, <2>1 DEF ChainTypes
  <2>3. Rebuilt'
    <3>1. state = target
      BY <1>1, <1>6, AllMet
    <3> QED BY <1>1, <1>2, <2>1, <3>1 DEF Rebuilt
  <2> QED BY <1>3, <2>1, <2>2, <2>3 DEF ReadingsAgree, Linked, Read
<1> QED BY <1>4, <1>5, <1>6 DEF EndOfFile

LEMMA ReadErrorKeeps ==
    ASSUME ReadingsAgree, Settled, ReadError
    PROVE  ReadingsAgree'
<1>1. /\ phase' = "failed" /\ why' = "read error"
      /\ UNCHANGED <<file, was_cut, snapshots, chain, pos>>
  BY DEF ReadError, Fail, plan, reading, past
<1>2. ChainTypes' /\ Agrees'
  BY <1>1, TypesFacts DEF ChainTypes, Agrees
<1> QED BY <1>1, <1>2 DEF ReadingsAgree, Linked, Read, Rebuilt

-----------------------------------------------------------------------------
(* The file changes.                                                       *)

\* A change of the file leaves everything but the file alone.
LEMMA ChangeKeeps ==
    ASSUME ReadingsAgree, Change, ChainTypes', Agrees'
    PROVE  ReadingsAgree'
<1>1. /\ UNCHANGED <<phase, why, plan, walk>>
      /\ UNCHANGED <<snapshots, target, chain, pos, seen, state, index>>
  BY DEF Change, plan, walk, reading
<1>2. Linked' /\ Used' = Used
  BY <1>1, PlanKept
<1>3. Read' /\ Rebuilt'
  <2>1. Read'
    BY <1>1, <1>2, TypesFacts DEF Read
  <2> QED BY <1>1, <2>1, TypesFacts DEF Rebuilt
<1> QED BY <1>2, <1>3 DEF ReadingsAgree

LEMMA GrowKeeps ==
    ASSUME ReadingsAgree, Settled, Grow, ~replicated'
    PROVE  ReadingsAgree'
<1>1. Change /\ ~was_cut /\ UNCHANGED was_cut
      /\ UNCHANGED <<phase, why, snapshots, chain, pos>>
  BY DEF Grow, Settled, Change, plan, reading
<1>2. PICK h \in Headers : file' = Append(file, h) /\ Distinct(file', "to")
  BY DEF Grow
<1>3. /\ ChainTypes /\ Agrees /\ Len(file) \in Nat /\ Len(snapshots) \in Nat
  BY TypesFacts
<1>4. /\ file' \in Seq(Headers) /\ Len(file') = Len(file) + 1
      /\ \A i \in 1..Len(file) : file'[i] = file[i]
  BY <1>2, <1>3 DEF ChainTypes
<1>5. ChainTypes'
  BY <1>1, <1>2, <1>3, <1>4, LegalFacts DEF ChainTypes
<1>6. Agrees'
  BY <1>1, <1>3, <1>4 DEF Agrees
<1> QED BY <1>1, <1>5, <1>6, ChangeKeeps

LEMMA CutKeeps ==
    ASSUME ReadingsAgree, Settled, Cut
    PROVE  ReadingsAgree'
<1>1. Change /\ was_cut' = TRUE
      /\ UNCHANGED <<phase, why, snapshots, chain, pos>>
  BY DEF Cut, Change, plan, reading
<1>2. ChainTypes /\ Agrees /\ Len(file) \in Nat
  BY TypesFacts
<1>3. PICK n \in 0..(Len(file) - 1) : file' = SubSeq(file, 1, n)
  BY DEF Cut
<1>4. /\ file' \in Seq(Headers) /\ Len(file') = n /\ n \in Nat /\ n < Len(file)
      /\ \A i \in 1..n : file'[i] = file[i]
  BY <1>2, <1>3 DEF ChainTypes
<1>5. UniqueTo(file')
  <2>1. \A i \in 1..n : i \in 1..Len(file) /\ file'[i] = file[i]
    BY <1>2, <1>4
  <2> QED BY <1>2, <1>4, <2>1 DEF ChainTypes, UniqueTo
<1>6. was_cut' \in BOOLEAN
  BY <1>1
<1>7. ChainTypes'
  BY <1>1, <1>2, <1>4, <1>5, <1>6 DEF ChainTypes
<1>8. Agrees'
  BY <1>1, <1>2, <1>4 DEF Agrees
<1> QED BY <1>1, <1>7, <1>8, ChangeKeeps

-----------------------------------------------------------------------------
(* Theorems.                                                               *)

\* The three readings agree as long as no snapshot has two substreams.
LEMMA CleanKept ==
    ASSUME Settled, ReadingsAgree, ~replicated', [Next]_vars
    PROVE  ReadingsAgree'
<1>1. CASE UNCHANGED vars
  <2>1. /\ UNCHANGED <<phase, plan, walk>>
        /\ UNCHANGED <<file, was_cut, why, snapshots, target, chain, pos, seen, state, index>>
    BY <1>1 DEF vars, past, plan, walk, reading
  <2>2. Linked' /\ Used' = Used
    BY <2>1, PlanKept
  <2>3. ChainTypes' /\ Agrees'
    BY <2>1, TypesFacts DEF ChainTypes, Agrees, UniqueTo
  <2>4. Read' /\ Rebuilt'
    BY <2>1, <2>2, TypesFacts DEF Read, Rebuilt
  <2> QED BY <2>2, <2>3, <2>4 DEF ReadingsAgree
<1>2. CASE Step
  BY <1>2, PlanKeeps, WalkKeeps, PlannedKeeps, SubstreamKeeps, EndOfFileKeeps DEF Step
<1>3. CASE ReadError \/ Grow \/ Cut
  BY <1>3, ReadErrorKeeps, GrowKeeps, CutKeeps
<1> QED BY <1>1, <1>2, <1>3 DEF Next, Terminated

\* A file that has once held two substreams of one snapshot is not forgotten.
LEMMA ReplicatedKept ==
    ASSUME [Next]_vars, replicated
    PROVE  replicated'
<1>1. CASE UNCHANGED past
  BY <1>1 DEF past
<1>2. CASE Grow \/ Cut
  BY <1>2 DEF Grow, Cut
<1>3. Plan \/ Walk \/ Planned \/ Substream \/ EndOfFile \/ ReadError \/ UNCHANGED vars
        => UNCHANGED past
  BY DEF Plan, Walk, Planned, Substream, EndOfFile, ReadError, vars
<1> QED BY <1>1, <1>2, <1>3 DEF Next, Step, Terminated

LEMMA InvHolds == ASSUME Settled PROVE Spec => []Inv
<1>1. Inv /\ [Next]_vars => Inv'
  BY CleanKept, ReplicatedKept DEF Inv
<1> QED BY <1>1, InitInv, PTL DEF Spec

-----------------------------------------------------------------------------
(* The walk takes the nearest candidate.                                   *)

\* Every ancestry of the chosen substream holds one that makes what the
\* substream at the cursor makes, and not after it: the walk is never further
\* back than an ancestry could be.
NotBehind ==
    SameBase(snapshots) =>
        \A t \in Selected(snapshots, selector) :
            \A S \in SUBSET DOMAIN snapshots :
                Ancestry(snapshots, t, S) =>
                    \E i \in S : i <= cursor /\ snapshots[i].to = snapshots[cursor].to

Walking ==
    /\ file \in Seq(Headers) /\ snapshots \in Seq(Headers)
    /\ phase = "start" => why = "none"
    /\ phase = "walk" =>
          /\ cursor \in 1..Len(snapshots) /\ from_guid = snapshots[cursor].from
          /\ why = "none" /\ NotBehind
    /\ phase \in {"index", "replay"} => why = "none"

NearestInv == Walking /\ MissingIsMissing

\* What is said of the headers that were read does not change with the rest.
LEMMA HeadersKept ==
    ASSUME UNCHANGED <<snapshots, selector>>
    PROVE  /\ Selected(snapshots, selector)' = Selected(snapshots, selector)
           /\ SameBase(snapshots)' <=> SameBase(snapshots)
           /\ \A t, S : Ancestry(snapshots, t, S)' <=> Ancestry(snapshots, t, S)
<1>1. Selected(snapshots, selector)' = Selected(snapshots, selector)
  BY DEF Selected
<1>2. SameBase(snapshots)' <=> SameBase(snapshots)
  BY DEF SameBase
<1>3. \A t, S : Ancestry(snapshots, t, S)' <=> Ancestry(snapshots, t, S)
  BY DEF Ancestry
<1> QED BY <1>1, <1>2, <1>3

LEMMA NearestKept ==
    ASSUME NearestInv, file' \in Seq(Headers),
           UNCHANGED <<snapshots, selector, phase, why, walk>>
    PROVE  NearestInv'
<1>1. Walking'
  BY HeadersKept DEF NearestInv, Walking, NotBehind, walk
<1>2. MissingIsMissing'
  BY HeadersKept DEF NearestInv, MissingIsMissing
<1> QED BY <1>1, <1>2 DEF NearestInv

\* A step that ends the walk or the run otherwise than for want of a base.
LEMMA NearestElsewhere ==
    ASSUME NearestInv, UNCHANGED file, snapshots' \in Seq(Headers),
           phase' \in {"index", "replay", "done", "failed"},
           why' # "base is missing", phase' \in {"index", "replay"} => why' = "none"
    PROVE  NearestInv'
BY DEF NearestInv, Walking, MissingIsMissing

\* The nearest of several substreams.
LEMMA LargestBelow ==
    ASSUME NEW n \in Nat, NEW T \in SUBSET (1..n), T # {}
    PROVE  \E i \in T : \A j \in T : j <= i
<1> DEFINE R == OpToRel(<, Nat)
           D == {n - i : i \in T}
<1>1. \A x, y \in Nat : x < y => <<x, y>> \in R
  BY DEF OpToRel
<1>2. D \subseteq Nat /\ D # {}
  <2>1. PICK i \in T : n - i \in D
    OBVIOUS
  <2> QED BY <2>1
<1>3. PICK d \in D : \A e \in D : ~(<<e, d>> \in R)
  <2> HIDE DEF D, R
  <2> QED BY <1>2, NatLessThanWellFounded, WFMin DEF R
<1>4. PICK i \in T : d = n - i
  OBVIOUS
<1>5. ASSUME NEW j \in T PROVE j <= i
  <2>1. n - j \in D /\ ~(n - j < n - i)
    BY <1>1, <1>2, <1>3, <1>4
  <2> QED BY <2>1
<1> QED BY <1>5

LEMMA NearestPlan ==
    ASSUME NearestInv, Plan
    PROVE  NearestInv'
<1>1. /\ file \in Seq(Headers) /\ why = "none" /\ snapshots' = file
      /\ UNCHANGED <<file, selector>>
  BY DEF NearestInv, Walking, Plan
<1>2. CASE Cardinality(Selected(file, selector)) # 1
  <2>1. phase' = "failed" /\ why' = "no such snapshot"
    BY <1>2 DEF Plan, Fail
  <2> QED BY <1>1, <2>1, NearestElsewhere
<1>3. CASE Cardinality(Selected(file, selector)) = 1
  <2>1. PICK t \in Selected(file, selector) :
             /\ cursor' = t /\ from_guid' = file[t].from
             /\ phase' = "walk" /\ UNCHANGED why
    BY <1>3 DEF Plan
  <2>2. t \in 1..Len(file) /\ \A u \in Selected(file, selector) : u \in 1..Len(file)
    <3>1. DOMAIN file = 1..Len(file)
      BY <1>1
    <3> QED BY <3>1 DEF Selected
  <2>3. \A u \in Selected(file, selector) : u = t
    <3>1. PICK u : Selected(file, selector) = {u}
      <4>1. IsFiniteSet(Selected(file, selector))
        <5>1. IsFiniteSet(1..Len(file)) /\ Selected(file, selector) \subseteq 1..Len(file)
          <6>1. 1 \in Int /\ Len(file) \in Int
            BY <1>1
          <6> QED BY <2>2, <6>1, FS_Interval
        <5> QED BY <5>1, FS_Subset
      <4> QED BY <1>3, <4>1, FS_Singleton
    <3> QED BY <2>1, <3>1
  <2>4. NotBehind'
    <3> SUFFICES ASSUME NEW S \in SUBSET DOMAIN file, Ancestry(file, t, S)
                 PROVE  \E i \in S : i <= t /\ file[i].to = file[t].to
      <4>1. Selected(snapshots, selector)' = Selected(file, selector)
        BY <1>1 DEF Selected
      <4>2. \A u, S : Ancestry(snapshots, u, S)' <=> Ancestry(file, u, S)
        BY <1>1 DEF Ancestry
      <4> QED BY <1>1, <2>1, <2>3, <4>1, <4>2 DEF NotBehind
    <3>1. t \in S /\ t <= t
      BY <1>1, <2>2 DEF Ancestry
    <3> QED BY <3>1
  <2>5. Walking'
    BY <1>1, <2>1, <2>2, <2>4 DEF Walking
  <2>6. MissingIsMissing'
    BY <1>1, <2>1 DEF MissingIsMissing
  <2> QED BY <2>5, <2>6 DEF NearestInv
<1> QED BY <1>2, <1>3

\* An ancestry goes on, before its substream, with one that makes the base:
\* the nearest candidate is not before that one.
LEMMA NearestWalk ==
    ASSUME NearestInv, Walk
    PROVE  NearestInv'
<1>1. /\ phase = "walk" /\ from_guid # Nothing /\ why = "none"
      /\ cursor \in 1..Len(snapshots) /\ from_guid = snapshots[cursor].from
      /\ file \in Seq(Headers) /\ snapshots \in Seq(Headers) /\ Len(snapshots) \in Nat
      /\ DOMAIN snapshots = 1..Len(snapshots) /\ NotBehind
      /\ UNCHANGED <<file, selector>>
  <2>1. snapshots \in Seq(Headers) /\ Walking
    BY DEF NearestInv, Walking
  <2>2. Len(snapshots) \in Nat /\ DOMAIN snapshots = 1..Len(snapshots)
    BY <2>1
  <2> QED BY <2>1, <2>2 DEF Walking, Walk
<1>2. ASSUME SameBase(snapshots), NEW t \in Selected(snapshots, selector),
             NEW S \in SUBSET DOMAIN snapshots, Ancestry(snapshots, t, S)
      PROVE  \E j \in S : j \in Bases
  <2>1. PICK i \in S : i <= cursor /\ snapshots[i].to = snapshots[cursor].to
    BY <1>1, <1>2 DEF NotBehind
  <2>2. snapshots[i].from = from_guid
    BY <1>1, <1>2, <2>1 DEF SameBase
  <2>3. PICK j \in S : j < i /\ snapshots[j].to = from_guid
    BY <1>1, <1>2, <2>1, <2>2 DEF Ancestry
  <2>4. j \in 1..(cursor - 1)
    BY <1>1, <2>1, <2>3
  <2> QED BY <2>3, <2>4 DEF Bases
<1>3. CASE Bases = {}
  <2>1. /\ phase' = "failed" /\ why' = "base is missing" /\ UNCHANGED snapshots
    BY <1>3 DEF Walk, Fail, plan
  <2>2. MissingIsMissing'
    BY <1>1, <1>2, <1>3, <2>1, HeadersKept DEF MissingIsMissing
  <2> QED BY <1>1, <2>1, <2>2 DEF NearestInv, Walking
<1>4. CASE Bases # {}
  <2> DEFINE n == CHOOSE i \in Bases : \A j \in Bases : j <= i
  <2>1. n \in Bases /\ \A j \in Bases : j <= n
    <3>1. cursor - 1 \in Nat /\ Bases \in SUBSET (1..(cursor - 1))
      BY <1>1 DEF Bases
    <3>2. \E i \in Bases : \A j \in Bases : j <= i
      BY <1>4, <3>1, LargestBelow
    <3> QED BY <3>2
  <2> HIDE DEF n
  <2>2. /\ cursor' = n /\ from_guid' = snapshots[n].from
        /\ UNCHANGED <<phase, why, snapshots>>
    BY <1>4 DEF Walk, n
  <2>3. n \in 1..Len(snapshots) /\ snapshots[n].to = from_guid
    BY <1>1, <2>1 DEF Bases
  <2>4. NotBehind'
    <3> SUFFICES ASSUME SameBase(snapshots), NEW t \in Selected(snapshots, selector),
                        NEW S \in SUBSET DOMAIN snapshots, Ancestry(snapshots, t, S)
                 PROVE  \E i \in S : i <= n /\ snapshots[i].to = snapshots[n].to
      BY <1>1, <2>2, HeadersKept DEF NotBehind
    <3>1. PICK j \in S : j \in Bases
      BY <1>2
    <3> QED BY <2>1, <2>3, <3>1 DEF Bases
  <2>5. Walking'
    BY <1>1, <2>2, <2>3, <2>4 DEF Walking
  <2>6. MissingIsMissing'
    BY <1>1, <2>2 DEF MissingIsMissing
  <2> QED BY <2>5, <2>6 DEF NearestInv
<1> QED BY <1>3, <1>4

LEMMA NearestNext == NearestInv /\ [Next]_vars => NearestInv'
<1> SUFFICES ASSUME NearestInv, [Next]_vars PROVE NearestInv'
  OBVIOUS
<1>0. file \in Seq(Headers) /\ snapshots \in Seq(Headers)
  BY DEF NearestInv, Walking
<1>1. CASE UNCHANGED vars
  BY <1>0, <1>1, NearestKept DEF vars, plan
<1>2. CASE Plan
  BY <1>2, NearestPlan
<1>3. CASE Walk
  BY <1>3, NearestWalk
<1>4. CASE Planned
  <2>1. phase = "walk" /\ phase' = "index" /\ UNCHANGED <<file, why, snapshots>>
    BY <1>4 DEF Planned, Reading, plan
  <2> QED BY <1>0, <2>1, NearestElsewhere DEF NearestInv, Walking
<1>5. CASE Substream
  BY <1>0, <1>5, NearestKept DEF Substream, plan
<1>6. CASE EndOfFile
  <2>1. phase \in {"index", "replay"} /\ why = "none" /\ UNCHANGED <<file, snapshots>>
    BY <1>6 DEF EndOfFile, plan, NearestInv, Walking
  <2>2. \/ phase' = "failed" /\ why' = "stream changed"
        \/ phase' \in {"replay", "done"} /\ why' = why
    BY <1>6 DEF EndOfFile, Fail, Indexed, Extracted, Reading
  <2> QED BY <1>0, <2>1, <2>2, NearestElsewhere
<1>7. CASE ReadError
  <2>1. phase' = "failed" /\ why' = "read error" /\ UNCHANGED <<file, snapshots>>
    BY <1>7 DEF ReadError, Fail, plan
  <2> QED BY <1>0, <2>1, NearestElsewhere
<1>8. CASE Grow
  <2>1. Change
    BY <1>8 DEF Grow
  <2>2. file' \in Seq(Headers)
    BY <1>0, <1>8 DEF Grow
  <2> QED BY <2>1, <2>2, NearestKept DEF Change, plan
<1>9. CASE Cut
  <2>1. Change
    BY <1>9 DEF Cut
  <2>2. PICK n \in 0..(Len(file) - 1) : file' = SubSeq(file, 1, n)
    BY <1>9 DEF Cut
  <2>3. file' \in Seq(Headers)
    BY <1>0, <2>2
  <2> QED BY <2>1, <2>3, NearestKept DEF Change, plan
<1> QED BY <1>1, <1>2, <1>3, <1>4, <1>5, <1>6, <1>7, <1>8, <1>9 DEF Next, Step, Terminated

-----------------------------------------------------------------------------
(* Theorems.                                                               *)

\* Whatever the file holds and however long it is, and although it grows or is
\* cut between and during the three readings, an extraction that succeeds has
\* looked its path up in the target snapshot and written the target's data
\* (extract_snapshot_with_key), if no two substreams make one snapshot and a
\* file that was cut off is not written on.
THEOREM ChainRebuiltIsTarget ==
    ASSUME Rewrites = FALSE
    PROVE  Spec => []RebuiltIsTarget
<1>1. Settled
  BY DEF Settled
<1>2. Inv => RebuiltIsTarget
  BY DEF Inv, ReadingsAgree, Rebuilt, RebuiltIsTarget
<1> QED BY <1>1, <1>2, InvHolds, PTL

\* plan_snapshot says that a base is missing only when the file as it was read
\* holds no ancestry of the chosen substream at all, however many substreams
\* make the same snapshot, in any order, as long as those are increments of
\* the same base; and however the file changes meanwhile.
THEOREM ChainMissingIsMissing == Spec => []MissingIsMissing
<1>1. Init => NearestInv
  <2> SUFFICES ASSUME Init PROVE NearestInv
    OBVIOUS
  <2>1. file \in Seq(Headers)
    <3>1. PICK n \in 0..MaxLen : file \in [1..n -> Headers]
      BY DEF Init, Files
    <3> QED BY <3>1, SnapshotChainAssumption
  <2> QED BY <2>1 DEF Init, NearestInv, Walking, MissingIsMissing
<1>2. NearestInv => MissingIsMissing
  BY DEF NearestInv
<1> QED BY <1>1, <1>2, NearestNext, PTL DEF Spec
=============================================================================
