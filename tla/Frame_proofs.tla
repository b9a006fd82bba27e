---------------------------- MODULE Frame_proofs ----------------------------
(***************************************************************************)
(* Proofs about Frame, for every width of the prefix, every maximum and    *)
(* streams of every length.  What stands in the stream is said byte by     *)
(* byte, so that no step needs an induction over a sequence.               *)
(***************************************************************************)
EXTENDS Frame, SequenceTheorems, TLAPS

(* The bytes stand in s behind its first from bytes.                       *)
Spells(s, from, bytes) ==
  /\ from + Len(bytes) <= Len(s)
  /\ \A j \in 1..Len(bytes) : s[from + j] = bytes[j]

(* A whole frame stands in s behind its first from bytes.                  *)
Carries(s, from, body) ==
  /\ Spells(s, from, to_be_bytes(Len(body)))
  /\ Spells(s, from + PREFIX_BYTES, body)

Types ==
  /\ TypeOK
  /\ got \in Seq(Seq(Byte)) /\ begins \in Seq(Nat)
  /\ written \in Seq(Seq(Byte)) /\ starts \in Seq(Nat)

(* The frames read_frame returned follow each other in the stream.         *)
Taken ==
  /\ Len(begins) = Len(got) + 1 /\ begins[1] = 0 /\ mark <= pos
  /\ \A i \in 1..Len(got) :
       /\ Len(got[i]) <= Maximum
       /\ begins[i + 1] = begins[i] + PREFIX_BYTES + Len(got[i])
       /\ Carries(stream, begins[i], got[i])

(* What the frame in hand has taken since.                                 *)
Reading ==
  /\ at = "prefix" =>
       /\ size = PREFIX_BYTES /\ Len(buffer) < PREFIX_BYTES
       /\ pos = mark + Len(buffer) /\ Spells(stream, mark, buffer)
  /\ at = "body" =>
       /\ size \in 1..Maximum /\ Len(buffer) < size
       /\ pos = mark + PREFIX_BYTES + Len(buffer)
       /\ Spells(stream, mark, to_be_bytes(size))
       /\ Spells(stream, mark + PREFIX_BYTES, buffer)

(* What is in the stream when read_frame has returned an error.            *)
Ending ==
  /\ at = "Closed" => cut /\ pos = mark /\ pos = Len(stream)
  /\ at = "Truncated" =>
       /\ cut /\ pos = Len(stream) /\ mark < pos
       /\ \/ pos < mark + PREFIX_BYTES
          \/ \E n \in 1..Maximum :
               Spells(stream, mark, to_be_bytes(n)) /\ pos < mark + PREFIX_BYTES + n
  /\ at = "TooLarge" =>
       /\ pos = mark + PREFIX_BYTES
       /\ \E n \in (Maximum + 1)..MaxLength : Spells(stream, mark, to_be_bytes(n))
  /\ at = "NotUtf8" =>
       \E body \in BoundedSeq(Byte, Maximum) : ~Utf8(body) /\ Carries(stream, mark, body)

(* What write_frame was given follows each other in what it writes.        *)
Writing ==
  IF framed
    THEN /\ Len(starts) = Len(written) + 1 /\ starts[1] = 0
         /\ starts[Len(starts)] = Len(stream) + Len(pending)
         /\ Len(stream) + Len(pending) <= MaxStream
         /\ \A i \in 1..Len(written) :
              /\ starts[i] <= Len(stream)
              /\ Len(written[i]) <= Maximum /\ Utf8(written[i])
              /\ starts[i + 1] = starts[i] + PREFIX_BYTES + Len(written[i])
              /\ Carries(stream \o pending, starts[i], written[i])
    ELSE pending = <<>>

(* Both ends are at the same frame.                                        *)
Agreeing ==
  framed =>
    /\ Len(got) <= Len(written)
    /\ at \notin {"TooLarge", "NotUtf8"}
    /\ \A i \in 1..Len(got) : got[i] = written[i]
    /\ \A i \in 1..Len(begins) : begins[i] = starts[i]
    /\ at = "body" => Len(got) < Len(written) /\ size = Len(written[Len(got) + 1])

Inv == Types /\ Taken /\ Reading /\ Ending /\ Writing /\ Agreeing
-----------------------------------------------------------------------------
(* Bytes that stand in a stream.                                           *)

(* What stands in a stream stands in every longer one.                     *)
LEMMA SpellsExtend ==
  ASSUME NEW s \in Seq(Byte), NEW t \in Seq(Byte), NEW from \in Nat,
         NEW bytes \in Seq(Byte), Spells(s, from, bytes)
  PROVE  Spells(s \o t, from, bytes)
BY ConcatProperties DEF Spells

(* What stands in a stream can be read off it.                             *)
LEMMA SpellsSub ==
  ASSUME NEW s \in Seq(Byte), NEW from \in Nat, NEW bytes \in Seq(Byte),
         Spells(s, from, bytes)
  PROVE  SubSeq(s, from + 1, from + Len(bytes)) = bytes
<1> DEFINE n == Len(bytes)
           sub == SubSeq(s, from + 1, from + n)
<1>1. n \in Nat /\ from + n <= Len(s)
  BY DEF Spells
<1> HIDE DEF n
<1>2. /\ sub \in Seq(Byte) /\ Len(sub) = n
      /\ \A i \in 1..n : sub[i] = s[from + i]
  BY <1>1, SubSeqProperties
<1> HIDE DEF sub
<1>3. sub = bytes
  BY <1>2, SeqEqual DEF Spells, n
<1>4. QED
  BY <1>3 DEF sub, n

(* At one place stands one string of a given length.                       *)
LEMMA SpellsEqual ==
  ASSUME NEW s, NEW from \in Nat, NEW a \in Seq(Byte), NEW b \in Seq(Byte),
         Len(a) = Len(b), Spells(s, from, a), Spells(s, from, b)
  PROVE  a = b
BY SeqEqual DEF Spells

(* A prefix is a string of its width.                                      *)
LEMMA PrefixSeq ==
  ASSUME NEW bytes \in Prefix
  PROVE  bytes \in Seq(Byte) /\ Len(bytes) = PREFIX_BYTES
BY FrameAssumption DEF Prefix

LEMMA SeqPrefix ==
  ASSUME NEW bytes \in Seq(Byte), Len(bytes) = PREFIX_BYTES
  PROVE  bytes \in Prefix
BY FrameAssumption DEF Prefix

(* The prefixes that write_frame builds.                                   *)
LEMMA Lengths ==
  ASSUME NEW n \in 0..MaxLength
  PROVE  /\ to_be_bytes(n) \in Seq(Byte) /\ Len(to_be_bytes(n)) = PREFIX_BYTES
         /\ from_be_bytes(to_be_bytes(n)) = n
BY FrameAssumption, PrefixSeq

(* A frame stands in a stream as its prefix followed by its body.          *)
LEMMA CarriesSub ==
  ASSUME NEW s \in Seq(Byte), NEW from \in Nat, NEW body \in Seq(Byte),
         Len(body) <= MaxLength, Carries(s, from, body)
  PROVE  SubSeq(s, from + 1, from + PREFIX_BYTES + Len(body)) = to_be_bytes(Len(body)) \o body
<1> DEFINE prefix == to_be_bytes(Len(body))
<1>1. prefix \in Seq(Byte) /\ Len(prefix) = PREFIX_BYTES
  BY Lengths
<1>2. PREFIX_BYTES \in Nat /\ Len(body) \in Nat
  BY FrameAssumption
<1>3. prefix \o body \in Seq(Byte) /\ Len(prefix \o body) = PREFIX_BYTES + Len(body)
  BY <1>1, ConcatProperties
<1>4. Spells(s, from, prefix \o body)
  <2> HIDE DEF prefix
  <2>1. Spells(s, from, prefix) /\ Spells(s, from + PREFIX_BYTES, body)
    BY DEF Carries, prefix
  <2>2. ASSUME NEW j \in 1..(PREFIX_BYTES + Len(body))
        PROVE  s[from + j] = (prefix \o body)[j]
    <3>1. (prefix \o body)[j] = IF j <= PREFIX_BYTES THEN prefix[j] ELSE body[j - PREFIX_BYTES]
      BY <1>1, ConcatProperties
    <3>2. CASE j <= PREFIX_BYTES
      BY <1>1, <1>2, <2>1, <3>1, <3>2 DEF Spells
    <3>3. CASE ~(j <= PREFIX_BYTES)
      <4>1. j - PREFIX_BYTES \in 1..Len(body) /\ (from + PREFIX_BYTES) + (j - PREFIX_BYTES) = from + j
        BY <1>2, <3>3
      <4>2. s[(from + PREFIX_BYTES) + (j - PREFIX_BYTES)] = body[j - PREFIX_BYTES]
        BY <2>1, <4>1 DEF Spells
      <4>3. QED
        BY <3>1, <3>3, <4>1, <4>2
    <3>4. QED
      BY <3>2, <3>3
  <2>3. QED
    BY <1>2, <1>3, <2>1, <2>2 DEF Spells
<1>5. from + PREFIX_BYTES + Len(body) = from + Len(prefix \o body)
  BY <1>2, <1>3
<1>6. QED
  BY <1>3, <1>4, <1>5, SpellsSub

(* The next bytes of the stream are added to what is in the buffer.        *)
LEMMA SpellsFilled ==
  ASSUME NEW s \in Seq(Byte), NEW from \in Nat, NEW bytes \in Seq(Byte), NEW n \in Nat,
         Spells(s, from, bytes), from + Len(bytes) + n <= Len(s)
  PROVE  LET filled == bytes \o SubSeq(s, from + Len(bytes) + 1, from + Len(bytes) + n) IN
         filled \in Seq(Byte) /\ Len(filled) = Len(bytes) + n /\ Spells(s, from, filled)
<1> DEFINE p == from + Len(bytes)
           more == SubSeq(s, p + 1, p + n)
           filled == bytes \o more
<1>1. p \in Nat /\ Len(bytes) \in Nat
  OBVIOUS
<1>2. /\ more \in Seq(Byte) /\ Len(more) = n
      /\ \A i \in 1..n : more[i] = s[p + i]
  BY SubSeqProperties
<1> HIDE DEF more
<1>3. /\ filled \in Seq(Byte) /\ Len(filled) = Len(bytes) + n
      /\ \A i \in 1..(Len(bytes) + n) :
           filled[i] = IF i <= Len(bytes) THEN bytes[i] ELSE more[i - Len(bytes)]
  BY <1>2, ConcatProperties
<1>4. ASSUME NEW j \in 1..(Len(bytes) + n)
      PROVE  s[from + j] = filled[j]
  <2>1. CASE j <= Len(bytes)
    BY <1>3, <2>1 DEF Spells
  <2>2. CASE ~(j <= Len(bytes))
    <3>1. j - Len(bytes) \in 1..n /\ p + (j - Len(bytes)) = from + j
      BY <2>2
    <3>2. filled[j] = s[p + (j - Len(bytes))]
      BY <1>2, <1>3, <2>2, <3>1
    <3>3. QED
      BY <3>1, <3>2
  <2>3. QED
    BY <2>1, <2>2
<1>5. QED
  BY <1>1, <1>3, <1>4 DEF Spells, more

(* So does a frame.                                                        *)
LEMMA CarriesExtend ==
  ASSUME NEW s \in Seq(Byte), NEW t \in Seq(Byte), NEW from \in Nat,
         NEW body \in Seq(Byte), Len(body) <= MaxLength, Carries(s, from, body)
  PROVE  Carries(s \o t, from, body)
<1>1. from + PREFIX_BYTES \in Nat /\ Len(body) \in 0..MaxLength
  BY FrameAssumption
<1>2. to_be_bytes(Len(body)) \in Seq(Byte)
  BY <1>1, Lengths
<1>3. QED
  BY <1>1, <1>2, SpellsExtend DEF Carries

(* The bodies that write_frame is given are strings.                       *)
LEMMA BodySeq ==
  ASSUME NEW m \in Nat, NEW body \in BoundedSeq(Byte, m)
  PROVE  body \in Seq(Byte) /\ Len(body) \in 0..m
BY DEF BoundedSeq, SeqOf
-----------------------------------------------------------------------------
(* The writer's steps.                                                     *)

(* The places where frames begin are numbers.                              *)
LEMMA Marks ==
  ASSUME Types, Taken
  PROVE  /\ mark \in Nat /\ Len(got) \in Nat
         /\ \A i \in 1..Len(got) : begins[i] \in Nat /\ got[i] \in Seq(Byte)
BY DEF Types, Taken, mark

(* The reader does not notice that the stream grows, unless it has seen    *)
(* the end of it.                                                          *)
LEMMA StreamGrows ==
  ASSUME Inv, NEW more \in Seq(Byte), stream' = stream \o more, UNCHANGED reader,
         cut => stream' = stream /\ cut'
  PROVE  Taken' /\ Reading' /\ Ending'
<1>1. /\ mark \in Nat /\ Len(got) \in Nat /\ mark' = mark
      /\ \A i \in 1..Len(got) : begins[i] \in Nat /\ got[i] \in Seq(Byte)
  BY Marks DEF Inv, reader, mark
<1>2. stream \in Seq(Byte) /\ buffer \in Seq(Byte) /\ PREFIX_BYTES \in Nat
  BY FrameAssumption DEF Inv, Types, TypeOK
<1>3. Maximum \in Nat /\ MaxLength \in Nat /\ Maximum <= MaxLength
  BY FrameAssumption
<1>4. \A n \in 0..MaxLength : Spells(stream, mark, to_be_bytes(n)) => Spells(stream', mark, to_be_bytes(n))
  BY <1>1, <1>2, Lengths, SpellsExtend
<1>5. Taken'
  <2>1. ASSUME NEW i \in 1..Len(got) PROVE Carries(stream', begins[i], got[i])
    BY <1>1, <1>2, <1>3, <2>1, CarriesExtend DEF Inv, Taken
  <2>2. QED
    BY <1>1, <2>1 DEF Inv, Taken, reader
<1>6. Reading'
  <2>1. at = "prefix" => Spells(stream', mark, buffer)
    BY <1>1, <1>2, SpellsExtend DEF Inv, Reading
  <2>2. at = "body" => Spells(stream', mark, to_be_bytes(size))
    BY <1>3, <1>4 DEF Inv, Reading
  <2>3. at = "body" => Spells(stream', mark + PREFIX_BYTES, buffer)
    <3>1. mark + PREFIX_BYTES \in Nat
      BY <1>1, <1>2
    <3>2. QED
      BY <1>2, <3>1, SpellsExtend DEF Inv, Reading
  <2>4. QED
    BY <1>1, <2>1, <2>2, <2>3 DEF Inv, Reading, reader
<1>7. Ending'
  <2>1. (at = "TooLarge" => pos = mark + PREFIX_BYTES
           /\ \E n \in (Maximum + 1)..MaxLength : Spells(stream, mark, to_be_bytes(n)))'
    BY <1>1, <1>3, <1>4 DEF Inv, Ending, reader
  <2>2. (at = "NotUtf8" =>
           \E body \in BoundedSeq(Byte, Maximum) : ~Utf8(body) /\ Carries(stream, mark, body))'
    BY <1>1, <1>2, <1>3, BodySeq, CarriesExtend DEF Inv, Ending, reader
  <2>3. (at \in {"Closed", "Truncated"}) => UNCHANGED <<stream, cut>>
    BY Zenon DEF Inv, Ending, Types, TypeOK
  <2>4. (at = "Closed" => cut /\ pos = mark /\ pos = Len(stream))'
    BY <1>1, <2>3 DEF Inv, Ending, reader
  <2>5. (at = "Truncated" =>
       /\ cut /\ pos = Len(stream) /\ mark < pos
       /\ \/ pos < mark + PREFIX_BYTES
          \/ \E n \in 1..Maximum :
               Spells(stream, mark, to_be_bytes(n)) /\ pos < mark + PREFIX_BYTES + n)'
    BY <1>1, <2>3 DEF Inv, Ending, reader
  <2>6. QED
    BY <2>1, <2>2, <2>4, <2>5 DEF Ending
<1>8. QED
  BY <1>5, <1>6, <1>7

(* write_frame hands over a whole frame behind the frames before it.       *)
LEMMA WriteFrameInv ==
  ASSUME Inv, NEW body \in BoundedSeq(Byte, Maximum + 1), Utf8(body), WriteFrame(body)
  PROVE  Inv'
<1> DEFINE prefix == to_be_bytes(Len(body))
<1>1. Maximum \in Nat /\ MaxLength \in Nat /\ Maximum <= MaxLength /\ PREFIX_BYTES \in Nat \ {0}
  BY FrameAssumption
<1>2. body \in Seq(Byte) /\ Len(body) \in 0..MaxLength /\ Len(body) <= Maximum
  BY <1>1, BodySeq DEF WriteFrame, Sendable
<1>3. prefix \in Seq(Byte) /\ Len(prefix) = PREFIX_BYTES
  BY <1>2, Lengths
<1>4. UNCHANGED <<framed, stream, cut, reader>> /\ framed /\ pending = <<>>
  BY DEF WriteFrame
<1>5. /\ written' = Append(written, body)
      /\ starts' = Append(starts, Len(stream) + PREFIX_BYTES + Len(body))
      /\ pending' = prefix \o body
  BY DEF WriteFrame
<1>6. stream \in Seq(Byte) /\ written \in Seq(Seq(Byte)) /\ starts \in Seq(Nat)
  BY DEF Inv, Types, TypeOK
<1> HIDE DEF prefix
<1>7. pending' \in Seq(Byte) /\ Len(pending') = PREFIX_BYTES + Len(body)
  BY <1>2, <1>3, <1>5, ConcatProperties
<1>8. Types'
  BY <1>1, <1>2, <1>4, <1>5, <1>6, <1>7 DEF Inv, Types, TypeOK, reader
<1>9. Taken' /\ Reading' /\ Ending'
  BY <1>4 DEF Inv, Taken, Reading, Ending, mark, reader
<1>10. /\ Len(starts) = Len(written) + 1 /\ starts[1] = 0
       /\ starts[Len(starts)] = Len(stream)
  BY <1>4, <1>6 DEF Inv, Writing
<1>11. /\ Len(written') = Len(written) + 1 /\ Len(starts') = Len(starts) + 1
       /\ \A i \in 1..Len(written) : written'[i] = written[i]
       /\ \A i \in 1..Len(starts) : starts'[i] = starts[i]
       /\ written'[Len(written) + 1] = body
       /\ starts'[Len(starts) + 1] = Len(stream) + PREFIX_BYTES + Len(body)
  BY <1>5, <1>6
<1>12. Carries(stream \o pending', Len(stream), body)
  <2>1. /\ stream \o pending' \in Seq(Byte)
        /\ Len(stream \o pending') = Len(stream) + PREFIX_BYTES + Len(body)
    <3>1. Len(stream \o pending') = Len(stream) + Len(pending')
      BY <1>6, <1>7, ConcatProperties
    <3>2. Len(stream) \in Nat /\ Len(body) \in Nat
      BY <1>2, <1>6
    <3>3. QED
      BY <1>1, <1>6, <1>7, <3>1, <3>2, ConcatProperties
  <2>2. ASSUME NEW j \in 1..(PREFIX_BYTES + Len(body))
        PROVE  (stream \o pending')[Len(stream) + j] = pending'[j]
    BY <1>6, <1>7, ConcatProperties
  <2>3. Spells(stream \o pending', Len(stream), prefix)
    BY <1>1, <1>2, <1>3, <1>5, <1>6, <2>1, <2>2, ConcatProperties DEF Spells
  <2>4. ASSUME NEW j \in 1..Len(body)
        PROVE  (stream \o pending')[(Len(stream) + PREFIX_BYTES) + j] = body[j]
    <3>1. PREFIX_BYTES + j \in 1..(PREFIX_BYTES + Len(body))
      BY <1>1, <1>2
    <3>2. pending'[PREFIX_BYTES + j] = body[j]
      BY <1>1, <1>2, <1>3, <1>5, <3>1, ConcatProperties
    <3>3. Len(stream) + (PREFIX_BYTES + j) = (Len(stream) + PREFIX_BYTES) + j
      BY <1>1, <1>6
    <3>4. QED
      BY <2>2, <3>1, <3>2, <3>3
  <2>5. Spells(stream \o pending', Len(stream) + PREFIX_BYTES, body)
    BY <1>1, <1>2, <1>6, <2>1, <2>4 DEF Spells
  <2>6. QED
    BY <2>3, <2>5 DEF Carries, prefix
<1>13. ASSUME NEW i \in 1..Len(written)
       PROVE  Carries(stream \o pending', starts[i], written[i])
  <2>1. Carries(stream, starts[i], written[i])
    <3>1. stream \o pending = stream
      BY <1>4, <1>6, ConcatEmptySeq
    <3>2. QED
      BY <1>4, <3>1 DEF Inv, Writing
  <2>2. starts[i] \in Nat /\ written[i] \in Seq(Byte) /\ Len(written[i]) <= MaxLength
    <3>1. i \in 1..Len(starts)
      BY <1>6, <1>10
    <3>2. Len(written[i]) <= Maximum
      BY <1>4 DEF Inv, Writing
    <3>3. QED
      BY <1>1, <1>6, <3>1, <3>2
  <2>3. QED
    BY <1>6, <1>7, <2>1, <2>2, CarriesExtend
<1>14. Writing'
  <2>1. ASSUME NEW i \in 1..(Len(written) + 1)
        PROVE  (/\ starts[i] <= Len(stream)
                /\ Len(written[i]) <= Maximum /\ Utf8(written[i])
                /\ starts[i + 1] = starts[i] + PREFIX_BYTES + Len(written[i])
                /\ Carries(stream \o pending, starts[i], written[i]))'
    <3>1. CASE i = Len(written) + 1
      <4>1. Len(starts) = i /\ i \in 1..Len(starts)
        BY <1>6, <1>10, <3>1
      <4>2. starts'[i] = Len(stream) /\ starts'[i + 1] = Len(stream) + PREFIX_BYTES + Len(body)
        BY <1>10, <1>11, <4>1
      <4>3. written'[i] = body
        BY <1>11, <3>1
      <4>4. QED
        BY <1>2, <1>4, <1>6, <1>12, <4>2, <4>3
    <3>2. CASE i # Len(written) + 1
      <4>1. i \in 1..Len(written) /\ i \in 1..Len(starts) /\ i + 1 \in 1..Len(starts)
        BY <1>6, <1>10, <3>2
      <4>2. (/\ starts[i] <= Len(stream)
             /\ Len(written[i]) <= Maximum /\ Utf8(written[i])
             /\ starts[i + 1] = starts[i] + PREFIX_BYTES + Len(written[i]))
        BY <1>4, <4>1 DEF Inv, Writing
      <4>3. starts'[i] = starts[i] /\ starts'[i + 1] = starts[i + 1] /\ written'[i] = written[i]
        BY <1>11, <4>1
      <4>4. QED
        BY <1>4, <1>13, <4>1, <4>2, <4>3
    <3>3. QED
      BY <3>1, <3>2
  <2>2. Len(starts') = Len(written') + 1 /\ starts'[1] = 0
    BY <1>6, <1>10, <1>11
  <2>3. starts'[Len(starts')] = Len(stream') + Len(pending')
    BY <1>1, <1>2, <1>4, <1>6, <1>7, <1>11
  <2>4. Len(stream') + Len(pending') <= MaxStream
    BY <1>1, <1>2, <1>4, <1>6, <1>7 DEF WriteFrame
  <2>5. QED
    BY <1>4, <1>11, <2>1, <2>2, <2>3, <2>4 DEF Writing
<1>15. Agreeing'
  <2>1. Len(begins) = Len(got) + 1 /\ Len(got) <= Len(written) /\ Len(got) \in Nat
    BY <1>4, Marks DEF Inv, Taken, Agreeing
  <2>2. QED
    <3>1. \A i \in 1..Len(got) : got[i] = written'[i]
      BY <1>4, <1>6, <1>11, <2>1 DEF Inv, Agreeing
    <3>2. \A i \in 1..Len(begins) : begins[i] = starts'[i]
      BY <1>4, <1>6, <1>10, <1>11, <2>1 DEF Inv, Agreeing
    <3>3. at = "body" => Len(got) < Len(written') /\ size = Len(written'[Len(got) + 1])
      <4>1. at = "body" => Len(got) < Len(written) /\ size = Len(written[Len(got) + 1])
        BY <1>4 DEF Inv, Agreeing
      <4>2. Len(got) < Len(written) => Len(got) + 1 \in 1..Len(written)
        BY <1>6, <2>1
      <4>3. Len(got) < Len(written) => written'[Len(got) + 1] = written[Len(got) + 1]
        BY <1>11, <4>2
      <4>4. QED
        BY <1>6, <1>11, <2>1, <4>1, <4>3
    <3>4. Len(got) <= Len(written') /\ at \notin {"TooLarge", "NotUtf8"}
      BY <1>4, <1>6, <1>11, <2>1 DEF Inv, Agreeing
    <3>5. QED
      BY <1>4, <3>1, <3>2, <3>3, <3>4 DEF Agreeing, reader
<1>16. QED
  BY <1>8, <1>9, <1>14, <1>15 DEF Inv

(* write_all moves bytes from what is pending to the stream, in order.     *)
LEMMA TransmitInv ==
  ASSUME Inv, NEW n \in Nat, Transmit(n)
  PROVE  Inv'
<1> DEFINE part == SubSeq(pending, 1, n)
           rest == SubSeq(pending, n + 1, Len(pending))
<1>1. /\ ~cut /\ n \in 1..Len(pending) /\ stream' = stream \o part /\ pending' = rest
      /\ UNCHANGED <<framed, written, cut, starts, reader>>
  BY DEF Transmit
<1>2. stream \in Seq(Byte) /\ pending \in Seq(Byte) /\ Len(stream) \in Nat /\ Len(pending) \in Nat
  BY DEF Inv, Types, TypeOK
<1>3. /\ part \in Seq(Byte) /\ Len(part) = n
      /\ \A i \in 1..n : part[i] = pending[i]
  BY <1>1, <1>2, SubSeqProperties
<1>4. /\ rest \in Seq(Byte) /\ Len(rest) = Len(pending) - n
      /\ \A i \in 1..(Len(pending) - n) : rest[i] = pending[n + i]
  <2>1. \A i \in (n + 1)..Len(pending) : pending[i] \in Byte
    BY <1>1, <1>2
  <2>2. rest \in Seq(Byte)
    BY <1>2, <2>1, SubSeqProperties
  <2>3. Len(rest) = Len(pending) - n
    BY <1>1, <1>2, <2>1, SubSeqProperties
  <2>4. ASSUME NEW i \in 1..(Len(pending) - n) PROVE rest[i] = pending[n + i]
    <3>1. i \in 1..(Len(pending) - (n + 1) + 1) /\ (n + 1) + i - 1 = n + i
      BY <1>2
    <3>2. rest[i] = pending[(n + 1) + i - 1]
      BY <1>2, <2>1, <3>1, SubSeqProperties
    <3>3. QED
      BY <3>1, <3>2
  <2>5. QED
    BY <2>2, <2>3, <2>4
<1> HIDE DEF part, rest
<1>5. stream' \in Seq(Byte) /\ Len(stream') = Len(stream) + n
  BY <1>1, <1>2, <1>3, ConcatProperties
<1>6. stream' \o pending' = stream \o pending
  <2> DEFINE old == stream \o pending
             new == stream' \o pending'
  <2>1. old \in Seq(Byte) /\ Len(old) = Len(stream) + Len(pending)
    BY <1>2, ConcatProperties
  <2>2. new \in Seq(Byte) /\ Len(new) = Len(stream') + Len(pending')
    BY <1>1, <1>4, <1>5, ConcatProperties
  <2>3. Len(new) = Len(old)
    <3>1. pending' \in Seq(Byte) /\ Len(pending') = Len(pending) - n
      BY <1>1, <1>4
    <3>2. Len(stream') + Len(pending') = Len(stream) + Len(pending)
      BY <1>1, <1>2, <1>5, <3>1
    <3>3. QED
      BY <2>1, <2>2, <3>2
  <2>4. ASSUME NEW i \in 1..Len(old) PROVE new[i] = old[i]
    <3>1. old[i] = IF i <= Len(stream) THEN stream[i] ELSE pending[i - Len(stream)]
      BY <1>2, <2>1, ConcatProperties
    <3>2. new[i] = IF i <= Len(stream') THEN stream'[i] ELSE pending'[i - Len(stream')]
      BY <1>1, <1>4, <1>5, <2>2, <2>3, ConcatProperties
    <3>3. CASE i <= Len(stream')
      <4>1. stream'[i] = IF i <= Len(stream) THEN stream[i] ELSE part[i - Len(stream)]
        BY <1>1, <1>2, <1>3, <1>5, <2>1, <3>3, ConcatProperties
      <4>2. i > Len(stream) => part[i - Len(stream)] = pending[i - Len(stream)]
        BY <1>2, <1>3, <1>5, <2>1, <3>3
      <4>3. QED
        BY <1>2, <2>1, <3>1, <3>2, <3>3, <4>1, <4>2
    <3>4. CASE ~(i <= Len(stream'))
      <4>1. /\ i - Len(stream') \in 1..(Len(pending) - n)
            /\ n + (i - Len(stream')) = i - Len(stream)
            /\ ~(i <= Len(stream))
        BY <1>1, <1>2, <1>5, <2>1, <3>4
      <4>2. pending'[i - Len(stream')] = pending[n + (i - Len(stream'))]
        BY <1>1, <1>4, <4>1
      <4>3. QED
        BY <3>1, <3>2, <3>4, <4>1, <4>2
    <3>5. QED
      BY <3>3, <3>4
  <2> HIDE DEF old, new
  <2>5. new = old
    BY <2>1, <2>2, <2>3, <2>4, SeqEqual
  <2>6. QED
    BY <2>5 DEF old, new
<1>7. framed /\ Len(stream') + Len(pending') = Len(stream) + Len(pending)
  <2>1. pending # <<>>
    BY <1>1, <1>2
  <2>2. QED
    BY <1>1, <1>2, <1>4, <1>5, <2>1 DEF Inv, Writing
<1>8. Taken' /\ Reading' /\ Ending'
  BY <1>1, <1>3, StreamGrows
<1>9. Types'
  <2>1. Len(stream) + Len(pending) <= MaxStream /\ MaxStream \in Nat
    BY <1>7, FrameAssumption DEF Inv, Writing
  <2>2. Len(stream') <= MaxStream
    BY <1>1, <1>2, <1>5, <2>1
  <2>3. pos \in 0..Len(stream')
    BY <1>2, <1>5 DEF Inv, Types, TypeOK
  <2>4. QED
    BY <1>1, <1>2, <1>4, <1>5, <2>2, <2>3 DEF Inv, Types, TypeOK, reader
<1>10. Writing'
  <2>1. ASSUME NEW i \in 1..Len(written) PROVE starts[i] <= Len(stream')
    <3>1. i \in 1..Len(starts) /\ starts \in Seq(Nat) /\ starts[i] <= Len(stream)
      BY <1>7 DEF Inv, Writing, Types
    <3>2. QED
      BY <1>2, <1>5, <3>1
  <2>2. QED
    BY <1>1, <1>6, <1>7, <2>1 DEF Inv, Writing
<1>11. Agreeing'
  BY <1>1, <1>7 DEF Inv, Agreeing, reader
<1>12. QED
  BY <1>8, <1>9, <1>10, <1>11 DEF Inv

(* A peer with a framing of its own.                                       *)
LEMMA EmitInv ==
  ASSUME Inv, NEW byte \in Byte, Emit(byte)
  PROVE  Inv'
<1>1. /\ ~framed /\ ~cut /\ Len(stream) < MaxStream /\ stream' = Append(stream, byte)
      /\ UNCHANGED <<framed, written, pending, cut, starts, reader>>
  BY DEF Emit
<1>2. stream \in Seq(Byte) /\ MaxStream \in Nat
  BY FrameAssumption DEF Inv, Types, TypeOK
<1>3. stream' = stream \o <<byte>> /\ <<byte>> \in Seq(Byte)
  BY <1>1, <1>2
<1>4. Taken' /\ Reading' /\ Ending'
  BY <1>1, <1>3, StreamGrows
<1>5. Types'
  BY <1>1, <1>2 DEF Inv, Types, TypeOK, reader
<1>6. Writing' /\ Agreeing'
  BY <1>1 DEF Inv, Writing, Agreeing
<1>7. QED
  BY <1>4, <1>5, <1>6 DEF Inv

(* The writer's end.                                                       *)
LEMMA CutInv ==
  ASSUME Inv, Cut
  PROVE  Inv'
<1>1. ~cut /\ cut' = TRUE /\ UNCHANGED <<framed, written, pending, stream, starts, reader>>
  BY DEF Cut
<1>2. at \notin {"Closed", "Truncated"}
  BY <1>1 DEF Inv, Ending
<1>3. Ending'
  BY <1>1, <1>2 DEF Inv, Ending, reader, mark
<1>4. Types' /\ Taken' /\ Reading' /\ Writing' /\ Agreeing'
  BY <1>1 DEF Inv, Types, TypeOK, Taken, Reading, Writing, Agreeing, reader, mark
<1>5. QED
  BY <1>3, <1>4 DEF Inv
-----------------------------------------------------------------------------
(* The reader's steps.                                                     *)

(* The writer does not notice what the reader does.                        *)
LEMMA WriterKept == ASSUME Inv, UNCHANGED writer PROVE Writing'
BY DEF Inv, Writing, writer

(* Where the frame in hand stands in what write_frame wrote: when a byte   *)
(* of it has arrived, it is the next that was written.                     *)
LEMMA NextWritten ==
  ASSUME Inv, framed, mark < Len(stream)
  PROVE  LET next == Len(got) + 1 IN
         /\ next \in 1..Len(written) /\ mark = starts[next]
         /\ written[next] \in Seq(Byte) /\ Len(written[next]) <= Maximum
         /\ Utf8(written[next])
         /\ starts[next + 1] = mark + PREFIX_BYTES + Len(written[next])
         /\ Carries(stream \o pending, mark, written[next])
<1> DEFINE next == Len(got) + 1
<1>1. /\ Len(got) \in Nat /\ Len(written) \in Nat /\ Len(got) <= Len(written)
      /\ Len(begins) = next /\ Len(stream) \in Nat /\ Len(pending) \in Nat
  BY DEF Inv, Types, TypeOK, Taken, Agreeing
<1>2. mark = starts[next]
  BY <1>1 DEF Inv, Agreeing, mark
<1>3. next \in 1..Len(written)
  <2>1. Len(starts) = Len(written) + 1 /\ starts[Len(starts)] = Len(stream) + Len(pending)
    BY DEF Inv, Writing
  <2>2. next # Len(starts)
    BY <1>1, <1>2, <2>1, Marks DEF Inv
  <2>3. QED
    BY <1>1, <2>1, <2>2
<1>4. QED
  BY <1>2, <1>3 DEF Inv, Writing, Types

(* Both ends agree on a string that stands at one place of the stream and  *)
(* at the same place of what was handed over.                              *)
LEMMA SameBytes ==
  ASSUME Inv, NEW from \in Nat, NEW a \in Seq(Byte), NEW b \in Seq(Byte), Len(a) = Len(b),
         Spells(stream, from, a), Spells(stream \o pending, from, b)
  PROVE  a = b
<1>1. stream \in Seq(Byte) /\ pending \in Seq(Byte)
  BY DEF Inv, Types, TypeOK
<1>2. Spells(stream \o pending, from, a)
  BY <1>1, SpellsExtend
<1>3. QED
  BY <1>2, SpellsEqual

(* read_frame returns an error that the stream gives reason for.           *)
LEMMA FailsInv ==
  ASSUME Inv, NEW error \in Errors, Fails(error), UNCHANGED writer,
         pos' \in Nat, mark <= pos', pos' <= Len(stream), Ending',
         framed => error \notin {"TooLarge", "NotUtf8"}
  PROVE  Inv'
<1>1. at' = error /\ UNCHANGED <<size, buffer, got, begins>> /\ mark' = mark
  BY DEF Fails, mark
<1>2. error \notin {"prefix", "body"}
  BY DEF Errors
<1>3. Types'
  BY <1>1 DEF Inv, Types, TypeOK, writer
<1>4. Taken' /\ Reading'
  BY <1>1, <1>2 DEF Inv, Taken, Reading, writer
<1>5. Agreeing'
  BY <1>1, <1>2 DEF Inv, Agreeing, writer
<1>6. QED
  BY <1>3, <1>4, <1>5, WriterKept DEF Inv

(* read_frame returns a body, or refuses it as not UTF-8.                  *)
LEMMA BodyInv ==
  ASSUME Inv, NEW body \in Seq(Byte), Len(body) <= Maximum, Carries(stream, mark, body),
         UNCHANGED writer, pos' = mark + PREFIX_BYTES + Len(body), Body(body)
  PROVE  Inv'
<1>1. /\ mark \in Nat /\ Len(got) \in Nat
      /\ \A i \in 1..Len(got) : begins[i] \in Nat /\ got[i] \in Seq(Byte)
  BY Marks DEF Inv
<1>2. /\ Maximum \in Nat /\ MaxLength \in Nat /\ Maximum <= MaxLength
      /\ PREFIX_BYTES \in Nat \ {0} /\ Len(body) \in Nat /\ Len(body) \in 0..MaxLength
  BY FrameAssumption
<1>3. pos' \in Nat /\ mark < pos' /\ pos' <= Len(stream)
  BY <1>1, <1>2 DEF Carries, Spells
<1>4. ASSUME framed PROVE /\ Len(got) + 1 \in 1..Len(written)
                          /\ body = written[Len(got) + 1] /\ Utf8(body)
                          /\ starts[Len(got) + 2] = pos'
  <2> DEFINE next == Len(got) + 1
             other == written[next]
  <2>1. /\ next \in 1..Len(written) /\ other \in Seq(Byte) /\ Len(other) <= Maximum /\ Utf8(other)
        /\ starts[next + 1] = mark + PREFIX_BYTES + Len(other)
        /\ Carries(stream \o pending, mark, other)
    <3>1. mark < Len(stream)
      BY <1>1, <1>3 DEF Inv, Types, TypeOK
    <3>2. QED
      BY <1>4, <3>1, NextWritten
  <2> HIDE DEF next, other
  <2>2. Len(other) \in 0..MaxLength
    BY <1>2, <2>1
  <2>3. to_be_bytes(Len(body)) = to_be_bytes(Len(other))
    BY <1>1, <1>2, <2>1, <2>2, Lengths, SameBytes DEF Carries
  <2>4. Len(body) = Len(other)
    BY <1>2, <2>2, <2>3, Lengths
  <2>5. mark + PREFIX_BYTES \in Nat
    BY <1>1, <1>2
  <2>6. body = other
    BY <2>1, <2>4, <2>5, SameBytes DEF Carries
  <2>7. next + 1 = Len(got) + 2
    BY <1>1 DEF next
  <2>8. QED
    BY <2>1, <2>6, <2>7 DEF next, other
<1>5. CASE ~Utf8(body)
  <2>1. Fails("NotUtf8") /\ "NotUtf8" \in Errors
    BY <1>5 DEF Body, Errors
  <2>2. body \in BoundedSeq(Byte, Maximum)
    BY <1>2 DEF BoundedSeq, SeqOf
  <2>3. Ending'
    BY <1>5, <2>1, <2>2 DEF Ending, Fails, mark, writer
  <2>4. QED
    BY <1>1, <1>3, <1>4, <1>5, <2>1, <2>3, FailsInv
<1>6. CASE Utf8(body)
  <2>1. /\ got' = Append(got, body) /\ begins' = Append(begins, pos')
        /\ at' = "prefix" /\ size' = PREFIX_BYTES /\ buffer' = <<>>
    BY <1>6 DEF Body
  <2>2. got \in Seq(Seq(Byte)) /\ begins \in Seq(Nat) /\ Len(begins) = Len(got) + 1
    BY DEF Inv, Types, Taken
  <2>3. /\ Len(got') = Len(got) + 1 /\ Len(begins') = Len(begins) + 1
        /\ got'[Len(got) + 1] = body /\ begins'[Len(begins) + 1] = pos'
        /\ \A i \in 1..Len(got) : got'[i] = got[i]
        /\ \A i \in 1..Len(begins) : begins'[i] = begins[i]
    BY <1>3, <2>1, <2>2
  <2>4. mark' = pos' /\ begins'[Len(got) + 1] = mark
    BY <1>1, <2>2, <2>3 DEF mark
  <2>5. Types'
    BY <1>2, <1>3, <2>1, <2>2 DEF Inv, Types, TypeOK, writer
  <2>6. Taken'
    <3>1. ASSUME NEW i \in 1..(Len(got) + 1)
          PROVE  (/\ Len(got[i]) <= Maximum
                  /\ begins[i + 1] = begins[i] + PREFIX_BYTES + Len(got[i])
                  /\ Carries(stream, begins[i], got[i]))'
      <4>1. CASE i = Len(got) + 1
        <5>1. got'[i] = body /\ begins'[i] = mark /\ begins'[i + 1] = pos'
          BY <2>2, <2>3, <2>4, <4>1
        <5>2. QED
          BY <5>1 DEF writer
      <4>2. CASE i # Len(got) + 1
        <5>1. i \in 1..Len(got) /\ i \in 1..Len(begins) /\ i + 1 \in 1..Len(begins)
          BY <1>1, <2>2, <4>2
        <5>2. got'[i] = got[i] /\ begins'[i] = begins[i] /\ begins'[i + 1] = begins[i + 1]
          BY <2>3, <5>1
        <5>3. QED
          BY <5>1, <5>2 DEF Inv, Taken, writer
      <4>3. QED
        BY <4>1, <4>2
    <3>2. begins'[1] = 0 /\ Len(begins') = Len(got') + 1 /\ mark' <= pos'
      BY <1>1, <1>3, <2>2, <2>3, <2>4 DEF Inv, Taken
    <3>3. QED
      BY <2>3, <3>1, <3>2 DEF Taken
  <2>7. Reading'
    <3>1. Len(buffer') = 0 /\ pos' = pos' + 0 /\ UNCHANGED stream
      BY <1>3, <2>1 DEF writer
    <3>2. Spells(stream', pos', buffer')
      BY <1>3, <3>1 DEF Spells
    <3>3. QED
      BY <1>2, <2>1, <2>4, <3>1, <3>2 DEF Reading
  <2>8. Ending'
    BY <2>1 DEF Ending
  <2>9. Agreeing'
    <3> SUFFICES ASSUME framed PROVE Agreeing'
      BY DEF Agreeing, writer
    <3>1. UNCHANGED <<written, starts, framed>>
      BY DEF writer
    <3>2. written \in Seq(Seq(Byte)) /\ Len(got) + 1 <= Len(written)
      BY <1>1, <1>4 DEF Inv, Types
    <3>3. ASSUME NEW i \in 1..(Len(got) + 1) PROVE got'[i] = written[i]
      <4>1. CASE i = Len(got) + 1
        BY <1>4, <2>3, <4>1
      <4>2. CASE i # Len(got) + 1
        <5>1. i \in 1..Len(got)
          BY <1>1, <4>2
        <5>2. QED
          BY <2>3, <5>1 DEF Inv, Agreeing
      <4>3. QED
        BY <4>1, <4>2
    <3>4. ASSUME NEW i \in 1..(Len(begins) + 1) PROVE begins'[i] = starts[i]
      <4>1. CASE i = Len(begins) + 1
        <5>1. i = Len(got) + 2
          BY <1>1, <2>2, <4>1
        <5>2. QED
          BY <1>4, <2>3, <4>1, <5>1
      <4>2. CASE i # Len(begins) + 1
        <5>1. i \in 1..Len(begins)
          BY <1>1, <2>2, <4>2
        <5>2. QED
          BY <2>3, <5>1 DEF Inv, Agreeing
      <4>3. QED
        BY <4>1, <4>2
    <3>5. QED
      BY <2>1, <2>3, <3>1, <3>2, <3>3, <3>4 DEF Agreeing
  <2>10. QED
    BY <2>5, <2>6, <2>7, <2>8, <2>9, WriterKept DEF Inv
<1>7. QED
  BY <1>5, <1>6

(* read_frame has the length: it refuses it, or sizes a buffer for it.     *)
LEMMA DeclaredInv ==
  ASSUME Inv, at = "prefix", NEW prefix \in Seq(Byte), Len(prefix) = PREFIX_BYTES,
         Spells(stream, mark, prefix), UNCHANGED writer, pos' = mark + PREFIX_BYTES,
         Declared(from_be_bytes(prefix))
  PROVE  Inv'
<1> DEFINE n == from_be_bytes(prefix)
<1>1. n \in 0..MaxLength /\ to_be_bytes(n) = prefix
  BY SeqPrefix, FrameAssumption
<1> HIDE DEF n
<1>2. /\ Maximum \in Nat /\ MaxLength \in Nat /\ Maximum <= MaxLength
      /\ PREFIX_BYTES \in Nat \ {0} /\ n \in Nat /\ mark \in Nat /\ Len(stream) \in Nat
  BY <1>1, FrameAssumption, Marks DEF Inv, Types, TypeOK
<1>3. pos' \in Nat /\ mark < pos' /\ pos' <= Len(stream)
  BY <1>2 DEF Spells
<1>4. ASSUME framed PROVE /\ Len(got) < Len(written) /\ n = Len(written[Len(got) + 1])
                          /\ n <= Maximum
  <2> DEFINE next == Len(got) + 1
             other == written[next]
  <2>1. /\ next \in 1..Len(written) /\ other \in Seq(Byte) /\ Len(other) <= Maximum
        /\ Carries(stream \o pending, mark, other)
    <3>1. mark < Len(stream)
      BY <1>2, <1>3
    <3>2. QED
      BY <1>4, <3>1, NextWritten
  <2>2. Len(got) < Len(written)
    BY <2>1 DEF Inv, Types
  <2> HIDE DEF next, other
  <2>3. Len(other) \in 0..MaxLength
    BY <1>2, <2>1
  <2>4. prefix = to_be_bytes(Len(other))
    BY <1>2, <2>1, <2>3, Lengths, SameBytes DEF Carries
  <2>5. n = Len(other)
    BY <2>3, <2>4, Lengths DEF n
  <2>6. QED
    BY <2>1, <2>2, <2>5 DEF next, other
<1>5. CASE n > Maximum
  <2>1. Fails("TooLarge") /\ "TooLarge" \in Errors
    BY <1>5 DEF Declared, Errors, n
  <2>2. n \in (Maximum + 1)..MaxLength
    BY <1>1, <1>2, <1>5
  <2>3. Ending'
    BY <1>1, <2>1, <2>2 DEF Ending, Fails, mark, writer
  <2>4. framed => FALSE
    BY <1>2, <1>4, <1>5
  <2>5. QED
    BY <1>2, <1>3, <2>1, <2>3, <2>4, FailsInv
<1>6. CASE n = 0
  <2>1. Body(<<>>)
    BY <1>2, <1>6 DEF Declared, n
  <2>2. <<>> \in Seq(Byte) /\ Len(<<>>) = 0
    OBVIOUS
  <2>3. Carries(stream, mark, <<>>)
    <3>1. Spells(stream, mark, to_be_bytes(Len(<<>>)))
      BY <1>1, <1>6, <2>2
    <3>2. Spells(stream, mark + PREFIX_BYTES, <<>>)
      BY <1>2, <1>3, <2>2 DEF Spells
    <3>3. QED
      BY <3>1, <3>2 DEF Carries
  <2>4. pos' = mark + PREFIX_BYTES + Len(<<>>) /\ Len(<<>>) <= Maximum
    BY <1>2, <2>2
  <2>5. QED
    BY <2>1, <2>2, <2>3, <2>4, BodyInv
<1>7. CASE n # 0 /\ ~(n > Maximum)
  <2>1. at' = "body" /\ size' = n /\ buffer' = <<>> /\ UNCHANGED <<got, begins>> /\ mark' = mark
    BY <1>7 DEF Declared, n, mark
  <2>2. n \in 1..Maximum
    BY <1>2, <1>7
  <2>3. Types'
    BY <1>2, <1>3, <2>1, <2>2 DEF Inv, Types, TypeOK, writer
  <2>4. Taken'
    BY <1>2, <1>3, <2>1 DEF Inv, Taken, writer
  <2>5. Reading'
    <3>1. Len(buffer') = 0 /\ UNCHANGED stream
      BY <2>1 DEF writer
    <3>2. Spells(stream', mark' + PREFIX_BYTES, buffer')
      BY <1>2, <1>3, <2>1, <3>1 DEF Spells
    <3>3. pos' = mark' + PREFIX_BYTES + Len(buffer') /\ Len(buffer') < size'
      BY <1>2, <2>1, <2>2, <3>1
    <3>4. QED
      BY <1>1, <2>1, <2>2, <3>1, <3>2, <3>3 DEF Reading
  <2>6. Ending'
    BY <2>1 DEF Ending
  <2>7. Agreeing'
    BY <1>4, <2>1 DEF Inv, Agreeing, writer
  <2>8. QED
    BY <2>3, <2>4, <2>5, <2>6, <2>7, WriterKept DEF Inv
<1>8. QED
  BY <1>5, <1>6, <1>7

(* A read takes the next bytes of the stream, and no more than there is    *)
(* room for.                                                               *)
LEMMA ReadInv ==
  ASSUME Inv, NEW n \in Nat, Read(n)
  PROVE  Inv'
<1> DEFINE from == IF at = "prefix" THEN mark ELSE mark + PREFIX_BYTES
           filled == buffer \o SubSeq(stream, pos + 1, pos + n)
<1>1. /\ at \in {"prefix", "body"} /\ pos' = pos + n /\ UNCHANGED writer
      /\ n \in 1..Min2(size - Len(buffer), Len(stream) - pos)
  BY DEF Read
<1>2. /\ stream \in Seq(Byte) /\ buffer \in Seq(Byte) /\ Len(stream) \in Nat /\ Len(buffer) \in Nat
      /\ pos \in Nat /\ size \in Nat /\ mark \in Nat /\ PREFIX_BYTES \in Nat \ {0}
  BY FrameAssumption, Marks DEF Inv, Types, TypeOK
<1>3. n >= 1 /\ n <= size - Len(buffer) /\ n <= Len(stream) - pos
  BY <1>1, <1>2 DEF Min2
<1>4. from \in Nat /\ pos = from + Len(buffer) /\ Spells(stream, from, buffer)
  BY <1>1, <1>2 DEF Inv, Reading
<1>5. filled \in Seq(Byte) /\ Len(filled) = Len(buffer) + n /\ Spells(stream, from, filled)
  <2> HIDE DEF from
  <2>1. from + Len(buffer) + n <= Len(stream)
    BY <1>2, <1>3, <1>4
  <2> DEFINE more == buffer \o SubSeq(stream, from + Len(buffer) + 1, from + Len(buffer) + n)
  <2>2. more \in Seq(Byte) /\ Len(more) = Len(buffer) + n /\ Spells(stream, from, more)
    BY <1>2, <1>4, <2>1, SpellsFilled
  <2>3. filled = more
    BY <1>4, Zenon
  <2> HIDE DEF filled, more
  <2>4. QED
    BY <2>2, <2>3
<1>6. IF Len(filled) < size THEN buffer' = filled /\ UNCHANGED <<size, at, got, begins>>
      ELSE IF at = "prefix" THEN Declared(from_be_bytes(filled))
      ELSE Body(filled)
  BY DEF Read
<1> HIDE DEF filled
<1>7. Len(filled) <= size /\ pos' = from + Len(filled)
  <2> HIDE DEF from
  <2>1. QED
    BY <1>1, <1>2, <1>3, <1>4, <1>5
<1>8. CASE Len(filled) < size
  <2>1. buffer' = filled /\ UNCHANGED <<size, at, got, begins>> /\ mark' = mark
    BY <1>6, <1>8 DEF mark
  <2>2. Types'
    BY <1>1, <1>2, <1>3, <1>5, <1>8, <2>1 DEF Inv, Types, TypeOK, writer
  <2>3. Taken'
    BY <1>1, <1>2, <1>3, <2>1 DEF Inv, Taken, writer
  <2>4. Reading'
    BY <1>1, <1>2, <1>5, <1>7, <1>8, <2>1 DEF Inv, Reading, writer
  <2>5. Ending'
    BY <1>1, <2>1 DEF Ending
  <2>6. Agreeing'
    BY <1>1, <2>1 DEF Inv, Agreeing, writer
  <2>7. QED
    BY <1>1, <2>2, <2>3, <2>4, <2>5, <2>6, WriterKept DEF Inv
<1>9. CASE ~(Len(filled) < size) /\ at = "prefix"
  <2>1. Len(filled) = PREFIX_BYTES /\ Declared(from_be_bytes(filled))
    BY <1>2, <1>5, <1>6, <1>7, <1>9 DEF Inv, Reading
  <2>2. QED
    BY <1>1, <1>5, <1>7, <1>9, <2>1, DeclaredInv
<1>10. CASE ~(Len(filled) < size) /\ at = "body"
  <2>1. Len(filled) = size /\ Body(filled) /\ size <= Maximum /\ size \in 1..Maximum
    BY <1>2, <1>5, <1>6, <1>7, <1>10 DEF Inv, Reading
  <2>2. Carries(stream, mark, filled)
    BY <1>5, <1>10, <2>1 DEF Carries, Inv, Reading
  <2>3. pos' = mark + PREFIX_BYTES + Len(filled)
    BY <1>7, <1>10
  <2>4. QED
    BY <1>1, <1>5, <2>1, <2>2, <2>3, BodyInv
<1>11. QED
  BY <1>1, <1>8, <1>9, <1>10

(* A read finds the end of the stream, or fails.                           *)
LEMMA EndInv ==
  ASSUME Inv, ReadEnd \/ ReadFails
  PROVE  Inv'
<1>1. at \in {"prefix", "body"} /\ UNCHANGED pos /\ UNCHANGED writer
  BY DEF ReadEnd, ReadFails
<1>2. /\ pos \in Nat /\ mark \in Nat /\ pos <= Len(stream) /\ mark <= pos
      /\ PREFIX_BYTES \in Nat \ {0} /\ Len(buffer) \in Nat /\ Len(stream) \in Nat
      /\ buffer \in Seq(Byte)
  BY FrameAssumption, Marks DEF Inv, Types, TypeOK, Taken
<1>3. CASE ReadFails
  <2>1. Fails("Io") /\ "Io" \in Errors
    BY <1>3 DEF ReadFails, Errors
  <2>2. Ending'
    BY <2>1 DEF Ending, Fails
  <2>3. QED
    BY <1>1, <1>2, <2>1, <2>2, FailsInv
<1>4. CASE ReadEnd /\ at = "prefix" /\ buffer = <<>>
  <2>1. Fails("Closed") /\ "Closed" \in Errors /\ cut /\ pos = Len(stream)
    BY <1>4 DEF ReadEnd, Errors
  <2>2. pos = mark
    BY <1>2, <1>4 DEF Inv, Reading
  <2>3. Ending'
    BY <1>1, <2>1, <2>2 DEF Ending, Fails, writer, mark
  <2>4. QED
    BY <1>1, <1>2, <2>1, <2>3, FailsInv
<1>5. CASE ReadEnd /\ ~(at = "prefix" /\ buffer = <<>>)
  <2>1. Fails("Truncated") /\ "Truncated" \in Errors /\ cut /\ pos = Len(stream)
    BY <1>5 DEF ReadEnd, Errors
  <2>2. mark < pos
    BY <1>1, <1>2, <1>5 DEF Inv, Reading
  <2>3. \/ pos < mark + PREFIX_BYTES
        \/ \E n \in 1..Maximum :
             Spells(stream, mark, to_be_bytes(n)) /\ pos < mark + PREFIX_BYTES + n
    <3>1. CASE at = "prefix"
      BY <1>2, <3>1 DEF Inv, Reading
    <3>2. CASE at = "body"
      <4>1. size \in 1..Maximum /\ Spells(stream, mark, to_be_bytes(size))
        BY <3>2 DEF Inv, Reading
      <4>2. pos = mark + PREFIX_BYTES + Len(buffer) /\ Len(buffer) < size
        BY <3>2 DEF Inv, Reading
      <4>3. pos < mark + PREFIX_BYTES + size
        BY <1>2, <4>1, <4>2
      <4>4. QED
        BY <4>1, <4>3
    <3>3. QED
      BY <1>1, <3>1, <3>2
  <2>4. Ending'
    BY <1>1, <2>1, <2>2, <2>3 DEF Ending, Fails, writer, mark
  <2>5. QED
    BY <1>1, <1>2, <2>1, <2>4, FailsInv
<1>6. QED
  BY <1>3, <1>4, <1>5
-----------------------------------------------------------------------------
(* Every step keeps the invariant.                                         *)
LEMMA NextInv == Inv /\ [Next]_vars => Inv'
<1> SUFFICES ASSUME Inv, [Next]_vars PROVE Inv'
  OBVIOUS
<1>1. CASE UNCHANGED vars
  BY <1>1 DEF vars, writer, reader, mark, Inv, Types, TypeOK, Taken, Reading, Ending, Writing,
    Agreeing
<1>2. CASE \E body \in BoundedSeq(Byte, Maximum + 1) : Utf8(body) /\ WriteFrame(body)
  BY <1>2, WriteFrameInv
<1>3. CASE \E n \in 1..MaxStream : Transmit(n)
  BY <1>3, TransmitInv
<1>4. CASE \E byte \in Byte : Emit(byte)
  BY <1>4, EmitInv
<1>5. CASE Cut
  BY <1>5, CutInv
<1>6. CASE \E n \in 1..MaxStream : Read(n)
  BY <1>6, ReadInv
<1>7. CASE ReadEnd \/ ReadFails
  BY <1>7, EndInv
<1>8. QED
  BY <1>1, <1>2, <1>3, <1>4, <1>5, <1>6, <1>7 DEF Next, ReadStep

(* At the start nothing is written and nothing read.                       *)
LEMMA InitInv == Init => Inv
<1> SUFFICES ASSUME Init PROVE Inv
  OBVIOUS
<1> USE DEF Init
<1>1. /\ Len(begins) = 1 /\ begins[1] = 0 /\ begins \in Seq(Nat)
      /\ Len(starts) = 1 /\ starts[1] = 0 /\ starts \in Seq(Nat)
  OBVIOUS
<1>2. /\ Len(got) = 0 /\ Len(written) = 0 /\ Len(stream) = 0 /\ Len(pending) = 0
      /\ Len(buffer) = 0 /\ mark = 0
  BY <1>1 DEF mark
<1>3. PREFIX_BYTES \in Nat \ {0} /\ MaxStream \in Nat
  BY FrameAssumption
<1>4. Types
  <2>1. <<>> \in Seq(Byte) /\ <<>> \in Seq(Seq(Byte))
    OBVIOUS
  <2>2. pos \in 0..Len(stream) /\ size \in (0..Maximum) \union {PREFIX_BYTES}
    BY <1>2
  <2>3. Len(stream) <= MaxStream /\ Len(buffer) <= size
    BY <1>2, <1>3
  <2>4. framed \in BOOLEAN /\ cut \in BOOLEAN /\ at \in {"prefix", "body"} \union Errors
    OBVIOUS
  <2>5. QED
    BY <1>1, <2>1, <2>2, <2>3, <2>4 DEF Types, TypeOK
<1>5. Taken /\ Reading /\ Ending
  <2>1. Spells(stream, mark, buffer)
    BY <1>2 DEF Spells
  <2>2. QED
    BY <1>1, <1>2, <1>3, <2>1 DEF Taken, Reading, Ending
<1>6. Writing
  BY <1>1, <1>2, <1>3 DEF Writing
<1>7. Agreeing
  BY <1>1, <1>2 DEF Agreeing
<1>8. QED
  BY <1>4, <1>5, <1>6, <1>7 DEF Inv

(* The invariant holds, whatever the writer sends and however it arrives.  *)
THEOREM InvHolds == Spec => []Inv
BY InitInv, NextInv, PTL DEF Spec

(* The buffer of read_frame never exceeds the maximum or the prefix,       *)
(* whatever length a peer declares, and every variable keeps its type.     *)
THEOREM TypeCorrect == Spec => []TypeOK
<1>1. Inv => TypeOK
  BY DEF Inv, Types
<1>2. QED
  BY <1>1, InvHolds, PTL

(* What read_frame returns depends on the bytes of the stream only: the    *)
(* frames it returned stand in it one after the other, and so does the     *)
(* reason for the error it ended with.                                     *)
THEOREM OnlyBytesDecide == Spec => []BytesDecide
<1>1. ASSUME Inv PROVE BytesDecide
  <2>1. /\ mark \in Nat /\ Len(got) \in Nat /\ got \in Seq(Seq(Byte)) /\ stream \in Seq(Byte)
        /\ \A i \in 1..Len(got) : begins[i] \in Nat /\ got[i] \in Seq(Byte)
    BY <1>1, Marks DEF Inv, Types, TypeOK
  <2>2. /\ Maximum \in Nat /\ MaxLength \in Nat /\ Maximum <= MaxLength
        /\ PREFIX_BYTES \in Nat \ {0}
    BY FrameAssumption
  <2>3. ASSUME NEW i \in DOMAIN got PROVE Spelled(got[i], begins[i], begins[i + 1])
    <3>1. i \in 1..Len(got) /\ got[i] \in Seq(Byte) /\ begins[i] \in Nat
      BY <2>1
    <3>2. /\ Len(got[i]) <= MaxLength /\ Carries(stream, begins[i], got[i])
          /\ begins[i + 1] = begins[i] + PREFIX_BYTES + Len(got[i])
      BY <1>1, <2>2, <3>1 DEF Inv, Taken
    <3>3. SubSeq(stream, begins[i] + 1, begins[i] + PREFIX_BYTES + Len(got[i]))
            = to_be_bytes(Len(got[i])) \o got[i]
      BY <2>1, <3>1, <3>2, CarriesSub
    <3>4. QED
      BY <3>2, <3>3 DEF Spelled
  <2>4. \A n \in 0..MaxLength : Spells(stream, mark, to_be_bytes(n)) => Stated = n
    <3> SUFFICES ASSUME NEW n \in 0..MaxLength, Spells(stream, mark, to_be_bytes(n))
                 PROVE  Stated = n
      OBVIOUS
    <3>1. /\ to_be_bytes(n) \in Seq(Byte) /\ Len(to_be_bytes(n)) = PREFIX_BYTES
          /\ from_be_bytes(to_be_bytes(n)) = n
      BY Lengths
    <3>2. SubSeq(stream, mark + 1, mark + PREFIX_BYTES) = to_be_bytes(n)
      BY <2>1, <3>1, SpellsSub
    <3>3. QED
      BY <3>1, <3>2 DEF Stated
  <2>5. at = "Closed" => cut /\ mark = Len(stream)
    BY <1>1 DEF Inv, Ending
  <2>6. at = "Truncated" =>
          /\ cut /\ mark < Len(stream)
          /\ \/ Len(stream) - mark < PREFIX_BYTES
             \/ Stated <= Maximum /\ Len(stream) - mark < PREFIX_BYTES + Stated
    <3> SUFFICES ASSUME at = "Truncated"
                 PROVE  /\ cut /\ mark < Len(stream)
                        /\ \/ Len(stream) - mark < PREFIX_BYTES
                           \/ Stated <= Maximum /\ Len(stream) - mark < PREFIX_BYTES + Stated
      OBVIOUS
    <3>1. cut /\ pos = Len(stream) /\ mark < pos /\ Len(stream) \in Nat
      BY <1>1, <2>1 DEF Inv, Ending
    <3>2. CASE pos < mark + PREFIX_BYTES
      BY <2>1, <2>2, <3>1, <3>2
    <3>3. CASE \E n \in 1..Maximum :
                 Spells(stream, mark, to_be_bytes(n)) /\ pos < mark + PREFIX_BYTES + n
      <4>1. PICK n \in 1..Maximum :
                   Spells(stream, mark, to_be_bytes(n)) /\ pos < mark + PREFIX_BYTES + n
        BY <3>3
      <4>2. Stated = n
        BY <2>2, <2>4, <4>1
      <4>3. QED
        BY <2>1, <2>2, <3>1, <4>1, <4>2
    <3>4. QED
      BY <1>1, <3>2, <3>3 DEF Inv, Ending
  <2>7. at = "TooLarge" => pos = mark + PREFIX_BYTES /\ Stated > Maximum
    BY <1>1, <2>2, <2>4 DEF Inv, Ending
  <2>8. at = "NotUtf8" =>
          ~Utf8(SubSeq(stream, mark + PREFIX_BYTES + 1, mark + PREFIX_BYTES + Stated))
    <3> SUFFICES ASSUME at = "NotUtf8"
                 PROVE  ~Utf8(SubSeq(stream, mark + PREFIX_BYTES + 1, mark + PREFIX_BYTES + Stated))
      OBVIOUS
    <3>1. PICK body \in BoundedSeq(Byte, Maximum) : ~Utf8(body) /\ Carries(stream, mark, body)
      BY <1>1 DEF Inv, Ending
    <3>2. body \in Seq(Byte) /\ Len(body) \in 0..MaxLength
      BY <2>2, BodySeq
    <3>3. Stated = Len(body)
      BY <2>4, <3>1, <3>2 DEF Carries
    <3>4. mark + PREFIX_BYTES \in Nat
      BY <2>1, <2>2
    <3>5. SubSeq(stream, (mark + PREFIX_BYTES) + 1, (mark + PREFIX_BYTES) + Len(body)) = body
      BY <2>1, <3>1, <3>2, <3>4, SpellsSub DEF Carries
    <3>6. QED
      BY <3>1, <3>3, <3>5
  <2>9. begins[1] = 0 /\ mark <= pos /\ Len(begins) = Len(got) + 1
    BY <1>1 DEF Inv, Taken
  <2>10. QED
    BY <2>3, <2>5, <2>6, <2>7, <2>8, <2>9 DEF BytesDecide
<1>2. QED
  BY <1>1, InvHolds, PTL

(* Between two ends that use this module messages arrive whole and in      *)
(* order, none is refused, and a clean end loses none that was begun.      *)
THEOREM MessagesArrive == Spec => []FramesArriveInOrder
<1>1. ASSUME Inv PROVE FramesArriveInOrder
  <2> SUFFICES ASSUME framed
               PROVE  /\ IsPrefix(got, written)
                      /\ at \notin {"TooLarge", "NotUtf8"}
                      /\ at = "Closed" => /\ Len(written) - Len(got) <= 1
                                          /\ starts[Len(got) + 1] = Len(stream)
    BY DEF FramesArriveInOrder
  <2>1. /\ got \in Seq(Seq(Byte)) /\ written \in Seq(Seq(Byte)) /\ starts \in Seq(Nat)
        /\ Len(got) \in Nat /\ Len(written) \in Nat /\ Len(stream) \in Nat
        /\ Len(starts) = Len(written) + 1
    BY <1>1 DEF Inv, Types, TypeOK, Writing
  <2>2. Len(got) <= Len(written) /\ at \notin {"TooLarge", "NotUtf8"}
        /\ \A i \in 1..Len(got) : got[i] = written[i]
    BY <1>1 DEF Inv, Agreeing
  <2>3. IsPrefix(got, written)
    <3>1. SubSeq(got, 1, Len(got)) = SubSeq(written, 1, Len(got))
      <4> DEFINE a == SubSeq(got, 1, Len(got))
                 b == SubSeq(written, 1, Len(got))
      <4>1. /\ a \in Seq(Seq(Byte)) /\ Len(a) = Len(got)
            /\ \A i \in 1..Len(got) : a[i] = got[i]
        BY <2>1, SubSeqProperties
      <4>2. /\ b \in Seq(Seq(Byte)) /\ Len(b) = Len(got)
            /\ \A i \in 1..Len(got) : b[i] = written[i]
        BY <2>1, <2>2, SubSeqProperties
      <4> HIDE DEF a, b
      <4>3. a = b
        BY <2>2, <4>1, <4>2, SeqEqual
      <4>4. QED
        BY <4>3 DEF a, b
    <3>2. QED
      BY <2>2, <3>1 DEF IsPrefix
  <2>4. ASSUME at = "Closed"
        PROVE  Len(written) - Len(got) <= 1 /\ starts[Len(got) + 1] = Len(stream)
    <3>1. mark = Len(stream) /\ Len(begins) = Len(got) + 1
      BY <1>1, <2>4 DEF Inv, Ending, Taken
    <3>2. starts[Len(got) + 1] = Len(stream)
      <4>1. Len(begins) \in 1..Len(begins) /\ mark = begins[Len(begins)]
        BY <2>1, <3>1 DEF mark
      <4>2. begins[Len(begins)] = starts[Len(begins)]
        BY <1>1, <4>1 DEF Inv, Agreeing
      <4>3. QED
        BY <3>1, <4>1, <4>2
    <3>3. ASSUME ~(Len(written) - Len(got) <= 1) PROVE FALSE
      <4>1. Len(got) + 1 \in 1..Len(written) /\ Len(got) + 2 \in 1..Len(written)
        BY <2>1, <3>3
      <4>2. starts[Len(got) + 2] <= Len(stream)
        BY <1>1, <4>1 DEF Inv, Writing
      <4>3. starts[(Len(got) + 1) + 1]
              = starts[Len(got) + 1] + PREFIX_BYTES + Len(written[Len(got) + 1])
        BY <1>1, <4>1 DEF Inv, Writing
      <4>4. (Len(got) + 1) + 1 = Len(got) + 2 /\ Len(written[Len(got) + 1]) \in Nat
        BY <2>1, <4>1
      <4>5. QED
        <5>1. PREFIX_BYTES \in Nat \ {0}
          BY FrameAssumption
        <5>2. starts[Len(got) + 2] = Len(stream) + PREFIX_BYTES + Len(written[Len(got) + 1])
          BY <3>2, <4>3, <4>4
        <5> DEFINE all == Len(stream)
                   body == Len(written[Len(got) + 1])
        <5>3. all \in Nat /\ body \in Nat /\ all + PREFIX_BYTES + body <= all
          BY <2>1, <4>2, <4>4, <5>2
        <5> HIDE DEF all, body
        <5>4. QED
          BY <5>1, <5>3
    <3>4. QED
      BY <3>2, <3>3
  <2>5. QED
    BY <2>2, <2>3, <2>4
<1>2. QED
  BY <1>1, InvHolds, PTL
=============================================================================
