------------------------------ MODULE HttpRead ------------------------------
(***************************************************************************)
(* How TokioTranscoder::transcode_http cuts the body of a GET into frames: *)
(* chunk() delivers the body in pieces of any size, the header is split    *)
(* off the first one, and what is left of a piece (frame_first_bytes) is   *)
(* carried over to the next frame.  A byte is its position in the body.    *)
(***************************************************************************)
EXTENDS Naturals, Sequences

CONSTANTS
    HeaderSize,    \* VidFileHeader::get_header_size() (12)
    FrameSize,     \* frame_read_size
    ChunkSizes     \* the sizes of the pieces

ASSUME SizesAssumption ==
    /\ HeaderSize \in Nat \ {0} /\ FrameSize \in Nat \ {0}
    /\ ChunkSizes \subseteq Nat

VARIABLES
    got,      \* bytes of the body received
    carry,    \* frame_first_bytes
    fr,       \* the frame that is read
    buf       \* in_buf, as far as it is filled

readVars == <<got, carry, fr, buf>>

\* The next n bytes of the body.
Chunk(n) == [i \in 1..n |-> got + i - 1]

ToRead == FrameSize - Len(buf)

ReadInit == got = 0 /\ carry = <<>> /\ fr = 0 /\ buf = <<>>

\* hdr_bytes.split_off(hdr_sz), which panics on a shorter chunk.
SplitHeader(n) ==
    /\ got = 0 /\ n >= HeaderSize
    /\ got' = n
    /\ carry' = SubSeq(Chunk(n), HeaderSize + 1, n)
    /\ UNCHANGED <<fr, buf>>

NextChunk ==
    /\ ToRead > 0 /\ carry = <<>>
    /\ \E n \in ChunkSizes : carry' = Chunk(n) /\ got' = got + n
    /\ UNCHANGED <<fr, buf>>

TakeAll ==    \* the piece ends within the frame
    /\ ToRead > 0 /\ carry # <<>> /\ Len(carry) <= ToRead
    /\ buf' = buf \o carry
    /\ carry' = <<>>
    /\ UNCHANGED <<got, fr>>

\* Mutant: the bytes taken stay in the piece.
TakeTwice ==
    /\ ToRead > 0 /\ Len(carry) > ToRead
    /\ buf' = buf \o SubSeq(carry, 1, ToRead)
    /\ UNCHANGED <<got, carry, fr>>

TakePart ==   \* split_to(to_read): the piece goes on into the next frame
    /\ ToRead > 0 /\ Len(carry) > ToRead
    /\ buf' = buf \o SubSeq(carry, 1, ToRead)
    /\ carry' = SubSeq(carry, ToRead + 1, Len(carry))
    /\ UNCHANGED <<got, fr>>

FrameRead == ToRead = 0

NextFrame ==
    /\ FrameRead
    /\ fr' = fr + 1
    /\ buf' = <<>>
    /\ UNCHANGED <<got, carry>>

ReadNext ==
    \/ \E n \in ChunkSizes : SplitHeader(n)
    \/ got > 0 /\ (NextChunk \/ TakeAll \/ TakePart \/ NextFrame)

ReadSpec == ReadInit /\ [][ReadNext]_readVars

\* Whatever the sizes of the pieces, the buffer of frame fr is filled with
\* the bytes of frame fr, each in its place: none is skipped, repeated or
\* left over from the buffer's last use.
BytesInPlace ==
    /\ Len(buf) <= FrameSize
    /\ \A i \in 1..Len(buf) : buf[i] = HeaderSize + fr * FrameSize + i - 1
=============================================================================
