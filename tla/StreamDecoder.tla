--------------------------- MODULE StreamDecoder ---------------------------
(***************************************************************************)
(* cppgnss::StreamDecoder (stream.cpp): UBX, SBF and RTCM3 frames and NMEA *)
(* sentences are found in a byte stream that arrives in chunks, among noise*)
(* and damaged frames.  A checksum is modelled by what it decides: the     *)
(* bytes are one of the frames that somebody sealed.                       *)
(***************************************************************************)
EXTENDS Integers, Sequences

CONSTANTS
    Sealed,     \* the byte sequences whose checksum holds
    MaxLine     \* bytes of a sentence without its end of line, 4096

CR == 13
Syncs == {181, 36, 33, 211}        \* 0xb5, $, ! and 0xd3

\* The Fletcher sum of UBX, the CRCs of SBF and RTCM, the exclusive or of NMEA.
ChecksumHolds(bytes) == bytes \in Sealed

IsUbx(p) == p[1] = 181 /\ p[2] = 98
IsSbf(p) == p[1] = 36 /\ p[2] = 64
IsRtcm(p) == p[1] = 211
IsText(p) == p[1] \in {36, 33} /\ ~IsSbf(p)

ProtocolOf(p) ==
    IF IsUbx(p) THEN "ubx" ELSE IF IsSbf(p) THEN "sbf" ELSE IF IsRtcm(p) THEN "rtcm3" ELSE "nmea"

\* A sentence is sealed with its end of line.
ASSUME SealedAssumption ==
    /\ MaxLine \in Nat \ {0}
    /\ \A f \in Sealed : Len(f) >= 2 /\ (IsText(f) => f[Len(f) - 1] = CR)

\* What the decoder does with the bytes p it has not yet consumed.
Wait == [kind |-> "wait", take |-> 0]
Noise == [kind |-> "noise", take |-> 1]
Invalid(n) == [kind |-> "invalid", take |-> n]
Found(n) == [kind |-> "frame", take |-> n]

\* The number of bytes up to the end of the sentence that p begins with: it
\* ends before a byte that is not printable and before the next sync byte.
LineEnds(p, n) == n = Len(p) \/ n = MaxLine \/ p[n + 1] \notin (32..126) \ {36, 33}
LineBytes(p) == CHOOSE n \in 1..Len(p) : LineEnds(p, n) /\ \A m \in 1..(n - 1) : ~LineEnds(p, m)

\* Mutant: a chunk that ends between CR and LF ends the sentence.
LineOpenEarly(p, n) == n < MaxLine /\ n = Len(p)

LineOpen(p, n) == n < MaxLine /\ (n = Len(p) \/ (p[n + 1] = CR /\ n + 1 = Len(p)))

Sentence(p) ==
    LET n == LineBytes(p) IN
      IF LineOpen(p, n) THEN Wait
      ELSE IF n + 2 =< Len(p) /\ ChecksumHolds(SubSeq(p, 1, n + 2)) THEN Found(n + 2)
      ELSE Invalid(1)

HeaderBytes(p) == IF IsRtcm(p) THEN 3 ELSE 8
FrameBytes(p) ==
    IF IsRtcm(p) THEN 6 + 256 * (p[2] % 4) + p[3]
    ELSE IF IsUbx(p) THEN 8 + p[5] + 256 * p[6]
    ELSE p[7] + 256 * p[8]

\* A false sync costs one byte, so that a frame inside a damaged one is found.
Binary(p) ==
    IF Len(p) < HeaderBytes(p) THEN Wait
    ELSE LET n == FrameBytes(p) IN
           IF n < (IF IsRtcm(p) THEN 6 ELSE 8) \/ (IsSbf(p) /\ n % 4 # 0) THEN Invalid(1)
           ELSE IF Len(p) < n THEN Wait
           ELSE IF ~ChecksumHolds(SubSeq(p, 1, n)) THEN Invalid(1)
           ELSE IF IsRtcm(p) /\ n = 7 THEN Invalid(n)
           ELSE Found(n)

Step(p) ==
    IF Len(p) = 1 THEN (IF p[1] \in Syncs THEN Wait ELSE Noise)
    ELSE IF IsText(p) THEN Sentence(p)
    ELSE IF IsUbx(p) \/ IsSbf(p) \/ IsRtcm(p) THEN Binary(p)
    ELSE Noise

\* feed(): the frames in `bytes`, in order, and the bytes that wait for more.
Decoded(bytes) ==
    LET from[pos \in 0..Len(bytes)] ==
            LET p == SubSeq(bytes, pos + 1, Len(bytes))
                s == IF pos = Len(bytes) THEN Wait ELSE Step(p)
                rest == from[pos + s.take]
            IN  IF s.kind = "wait" THEN [frames |-> <<>>, pending |-> p]
                ELSE IF s.kind # "frame" THEN rest
                ELSE [rest EXCEPT !.frames = <<SubSeq(p, 1, s.take)>> \o @]
    IN  from[0]
=============================================================================
