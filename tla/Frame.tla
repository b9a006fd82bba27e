------------------------------- MODULE Frame -------------------------------
(***************************************************************************)
(* Message framing (src/src/frame.rs): one direction of one connection, as *)
(* bytes.                                                                  *)
(*                                                                         *)
(* The writer either goes through write_frame or is a peer that puts any   *)
(* bytes on the wire.  The system takes and delivers bytes in pieces of    *)
(* any size, and the writer may stop between any two bytes.  The reader    *)
(* calls read_frame until it returns an error, as serve_connection does.   *)
(***************************************************************************)
EXTENDS Naturals, SequencesExt

CONSTANTS
  Byte,              \* the values of a byte
  PREFIX_BYTES,      \* the width of the length prefix
  MaxLength,         \* the largest length a prefix can state, u32::MAX
  to_be_bytes(_),    \* the prefix that states a length
  from_be_bytes(_),  \* the length that a prefix states
  Maximum,           \* the configured maximum frame size
  MaxStream          \* bound: bytes put on the wire in one behaviour

Prefix == [1..PREFIX_BYTES -> Byte]

(* The conversions of u32 undo each other.  A maximum is a u32, so that    *)
(* the prefix can state a length beyond it.                                *)
ASSUME FrameAssumption ==
  /\ PREFIX_BYTES \in Nat \ {0} /\ MaxLength \in Nat
  /\ \A n \in 0..MaxLength : to_be_bytes(n) \in Prefix /\ from_be_bytes(to_be_bytes(n)) = n
  /\ \A bytes \in Prefix :
       from_be_bytes(bytes) \in 0..MaxLength /\ to_be_bytes(from_be_bytes(bytes)) = bytes
  /\ Maximum \in 0..MaxLength
  /\ MaxStream \in Nat

VARIABLES
  framed,   \* whether the writer goes through write_frame
  written,  \* the bodies that were given to write_frame and not refused
  pending,  \* what write_all has still to hand to the system, or never will
  stream,   \* the bytes put on the wire so far
  cut,      \* the writer has closed its side, or died
  pos,      \* how many bytes of the stream the reader has taken
  size,     \* the size of the buffer the reader is filling
  buffer,   \* the part of it that is filled
  at,       \* "prefix", "body", or the error read_frame returned
  got,      \* the bodies read_frame returned
  starts,   \* history: how many bytes write_frame wrote before each body, and in all
  begins    \* history: how many bytes read_frame took before each body, and in all

writer == <<framed, written, pending, stream, cut, starts>>
reader == <<pos, size, buffer, at, got, begins>>
vars == <<writer, reader>>

Errors == {"Closed", "Truncated", "TooLarge", "NotUtf8", "Io"}

(* String::from_utf8, reduced to characters of one byte and of two: byte 1 *)
(* is a lead byte, 2 a continuation byte, any other is ASCII.              *)
Utf8(bytes) ==
  \A i \in 0..Len(bytes) :
    (i > 0 /\ bytes[i] = 1) <=> (i < Len(bytes) /\ bytes[i + 1] = 2)

Min2(m, n) == IF m < n THEN m ELSE n
-----------------------------------------------------------------------------
Init ==
  /\ framed \in BOOLEAN
  /\ written = <<>> /\ pending = <<>> /\ stream = <<>> /\ cut = FALSE /\ starts = <<0>>
  /\ pos = 0 /\ size = PREFIX_BYTES /\ buffer = <<>> /\ at = "prefix"
  /\ got = <<>> /\ begins = <<0>>

(* Mutant of Sendable: the length is not compared with the maximum.        *)
SendableUnchecked(body) == Len(body) <= MaxLength

(* write_frame refuses a body whose length does not fit in the prefix, or  *)
(* exceeds the maximum, before it writes anything.                         *)
Sendable(body) == Len(body) <= MaxLength /\ Len(body) <= Maximum

WriteFrame(body) ==
  /\ framed /\ ~cut /\ pending = <<>> /\ Sendable(body)
  /\ Len(stream) + PREFIX_BYTES + Len(body) <= MaxStream
  /\ written' = Append(written, body)
  /\ pending' = to_be_bytes(Len(body)) \o body
  /\ starts' = Append(starts, Len(stream) + PREFIX_BYTES + Len(body))
  /\ UNCHANGED <<framed, stream, cut, reader>>

(* write_all: the system takes the next n bytes.                           *)
Transmit(n) ==
  /\ ~cut /\ n \in 1..Len(pending)
  /\ stream' = stream \o SubSeq(pending, 1, n)
  /\ pending' = SubSeq(pending, n + 1, Len(pending))
  /\ UNCHANGED <<framed, written, cut, starts, reader>>

(* A peer with a framing of its own, or none.                              *)
Emit(byte) ==
  /\ ~framed /\ ~cut /\ Len(stream) < MaxStream
  /\ stream' = Append(stream, byte)
  /\ UNCHANGED <<framed, written, pending, cut, starts, reader>>

Cut ==
  /\ ~cut
  /\ cut' = TRUE
  /\ UNCHANGED <<framed, written, pending, stream, starts, reader>>
-----------------------------------------------------------------------------
Fails(error) ==
  /\ at' = error
  /\ UNCHANGED <<size, buffer, got, begins>>

(* The body is complete.                                                   *)
Body(body) ==
  IF Utf8(body)
    THEN /\ got' = Append(got, body) /\ begins' = Append(begins, pos')
         /\ at' = "prefix" /\ size' = PREFIX_BYTES /\ buffer' = <<>>
    ELSE Fails("NotUtf8")

(* Mutant of Declared: the boundary of the maximum is off by one.          *)
DeclaredOffByOne(declared) ==
  IF declared > Maximum + 1 THEN Fails("TooLarge")
  ELSE IF declared = 0 THEN Body(<<>>)
  ELSE at' = "body" /\ size' = declared /\ buffer' = <<>> /\ UNCHANGED <<got, begins>>

(* The prefix is complete: only a length within the maximum sizes a        *)
(* buffer, and an empty one is full at once.                               *)
Declared(declared) ==
  IF declared > Maximum THEN Fails("TooLarge")
  ELSE IF declared = 0 THEN Body(<<>>)
  ELSE at' = "body" /\ size' = declared /\ buffer' = <<>> /\ UNCHANGED <<got, begins>>

(* One read returns n bytes, into the prefix or into the body.  A read     *)
(* that is interrupted is made again, and changes nothing.                 *)
Read(n) ==
  /\ at \in {"prefix", "body"}
  /\ n \in 1..Min2(size - Len(buffer), Len(stream) - pos)
  /\ pos' = pos + n
  /\ LET filled == buffer \o SubSeq(stream, pos + 1, pos + n) IN
       IF Len(filled) < size THEN buffer' = filled /\ UNCHANGED <<size, at, got, begins>>
       ELSE IF at = "prefix" THEN Declared(from_be_bytes(filled))
       ELSE Body(filled)
  /\ UNCHANGED writer

(* Mutant of ReadEnd: any end before a body is a clean one.                *)
ReadEndClean ==
  /\ at \in {"prefix", "body"} /\ cut /\ pos = Len(stream)
  /\ Fails(IF at = "prefix" THEN "Closed" ELSE "Truncated")
  /\ UNCHANGED <<pos, writer>>

(* Mutant of ReadEnd: read_exact waits for the rest of the body.           *)
ReadEndInPrefix ==
  /\ at = "prefix" /\ cut /\ pos = Len(stream)
  /\ Fails(IF buffer = <<>> THEN "Closed" ELSE "Truncated")
  /\ UNCHANGED <<pos, writer>>

(* A read returns no bytes, because the stream has ended.                  *)
ReadEnd ==
  /\ at \in {"prefix", "body"} /\ cut /\ pos = Len(stream)
  /\ Fails(IF at = "prefix" /\ buffer = <<>> THEN "Closed" ELSE "Truncated")
  /\ UNCHANGED <<pos, writer>>

ReadFails ==
  /\ at \in {"prefix", "body"}
  /\ Fails("Io")
  /\ UNCHANGED <<pos, writer>>

ReadStep == ReadEnd \/ \E n \in 1..MaxStream : Read(n)

Next ==
  \/ \E body \in BoundedSeq(Byte, Maximum + 1) : Utf8(body) /\ WriteFrame(body)
  \/ \E n \in 1..MaxStream : Transmit(n)
  \/ \E byte \in Byte : Emit(byte)
  \/ Cut \/ ReadStep \/ ReadFails

Spec == Init /\ [][Next]_vars

(* Fairness.  The reader's thread runs, and the system delivers what was   *)
(* put on the wire and reports the end of the stream.                      *)
LiveSpec == Spec /\ WF_vars(ReadStep)
-----------------------------------------------------------------------------
(* Properties. *)

(* No buffer is larger than the maximum or the prefix, whatever length a   *)
(* peer declares.                                                          *)
TypeOK ==
  /\ framed \in BOOLEAN /\ cut \in BOOLEAN
  /\ pending \in Seq(Byte) /\ stream \in Seq(Byte) /\ Len(stream) <= MaxStream
  /\ pos \in 0..Len(stream)
  /\ at \in {"prefix", "body"} \union Errors
  /\ size \in (0..Maximum) \union {PREFIX_BYTES}
  /\ buffer \in Seq(Byte) /\ Len(buffer) <= size

(* Where the frame that is being read begins, and the length it declares.  *)
mark == begins[Len(begins)]
Stated == from_be_bytes(SubSeq(stream, mark + 1, mark + PREFIX_BYTES))

(* The body stands in the stream, behind its length, between two places.   *)
Spelled(body, from, to) ==
  /\ from + PREFIX_BYTES + Len(body) = to
  /\ SubSeq(stream, from + 1, to) = to_be_bytes(Len(body)) \o body

(* The bytes alone decide what read_frame returns, never how they arrived: *)
(* the frames it returned spell, one after the other, what it has taken,   *)
(* and the error it ends with is the one that the rest of the stream       *)
(* deserves.  A clean end and a truncation are told apart, and a frame     *)
(* that is too large is refused with not a byte of its body taken          *)
(* (frame.rs:81).                                                          *)
BytesDecide ==
  /\ begins[1] = 0 /\ mark <= pos
  /\ Len(begins) = Len(got) + 1
  /\ \A i \in DOMAIN got : Spelled(got[i], begins[i], begins[i + 1])
  /\ at = "Closed" => cut /\ mark = Len(stream)
  /\ at = "Truncated" =>
       /\ cut /\ mark < Len(stream)
       /\ \/ Len(stream) - mark < PREFIX_BYTES
          \/ Stated <= Maximum /\ Len(stream) - mark < PREFIX_BYTES + Stated
  /\ at = "TooLarge" => pos = mark + PREFIX_BYTES /\ Stated > Maximum
  /\ at = "NotUtf8" =>
       ~Utf8(SubSeq(stream, mark + PREFIX_BYTES + 1, mark + PREFIX_BYTES + Stated))

(* A writer that goes through write_frame has its messages arrive whole    *)
(* and in order, "cannot send a message its own peer must refuse"          *)
(* (frame.rs:119), and when the reader sees a clean end it has got every   *)
(* message of which a byte was written out.                                *)
FramesArriveInOrder ==
  framed =>
    /\ IsPrefix(got, written)
    /\ at \notin {"TooLarge", "NotUtf8"}
    /\ at = "Closed" => Len(written) - Len(got) <= 1 /\ starts[Len(got) + 1] = Len(stream)

(* A reader whose peer is gone comes to an end, wherever in a frame the    *)
(* stream stops.                                                           *)
EndIsReached == cut ~> at \in Errors
=============================================================================
