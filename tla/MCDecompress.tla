----------------------------- MODULE MCDecompress -----------------------------
(***************************************************************************)
(* TLC instance of Decompress: bytes of two bits and fields of one or two  *)
(* bytes, so that counts, codepoints and code lengths go up to 3 and the   *)
(* number of payload bits up to 15.                                        *)
(***************************************************************************)
EXTENDS Decompress

CONSTANTS
  MaxText,    \* length of the longest text
  MaxForeign  \* length of the longest file that is not the compressor's

\* Prefix codes for no, one, two and three codepoints; the last of the codes
\* fills the length field.
MCCodes == {
  <<>>,
  2 :> <<0>>,
  1 :> <<0>> @@ 2 :> <<1>>,
  0 :> <<1, 1>> @@ 1 :> <<0>> @@ 2 :> <<1, 0>> }

MCUtf8Length == 0 :> 1 @@ 1 :> 2 @@ 2 :> 3

\* The texts that a map is the code of: all of its codepoints occur.
TextsOf(codes) ==
  {t \in BoundedSeq(DOMAIN codes, MaxText) : ToSet(t) = DOMAIN codes}

Situation(text, codes, stream) ==
  [text |-> text, codes |-> codes, compressed |-> CompressedFile(text, codes),
   stream |-> stream,
   opens |-> TRUE, creates |-> TRUE, capacity |-> 100]

\* The compressor's file, every beginning of it, and it followed by more.
Lengths(s) == Prefixes(s) \union {s \o <<b>> : b \in Byte}

MCResized ==
  UNION {UNION {{Situation(t, codes, s) : s \in Lengths(CompressedFile(t, codes))} :
                  t \in TextsOf(codes)} : codes \in MCCodes}

MCUnopened ==
  {[i EXCEPT !.opens = o[1], !.creates = o[2]] :
     i \in MCResized, o \in {<<FALSE, TRUE>>, <<TRUE, FALSE>>}}

\* One bit of the file is the wrong way round.
FlipBit(s, i, j) == [s EXCEPT ![i][j] = 1 - @]

MCDamaged ==
  UNION {UNION {LET s == CompressedFile(t, codes)
                IN {Situation(t, codes, FlipBit(s, i, j)) :
                      i \in DOMAIN s, j \in 1 .. ByteBits} :
                  t \in TextsOf(codes)} : codes \in MCCodes}

\* Damaged files that are complete or cut short as well.
MCDamagedAndCut ==
  MCDamaged \union {[i EXCEPT !.stream = Front(@)] : i \in MCDamaged}

\* Any file at all of up to MaxForeign bytes.
MCForeign == {Situation(<<>>, <<>>, s) : s \in BoundedSeq(Byte, MaxForeign)}

MCInputs == MCResized \union MCUnopened \union MCDamagedAndCut \union MCForeign

\* What the theorems about intact files assume holds of all of them.
ASSUME TextsFit == \A i \in MCInputs : TextFits(i) /\ HasRoom(i)

\* The number of payload bits is replaced by another one.
MCOtherTotals ==
  UNION {UNION {{Situation(t, codes, Header(codes)
                                       \o WriteBe(n, TotalBytes)
                                       \o PackBits(EncodedBits(t, codes))) :
                   n \in 0 .. (SizeRange - 1)} :
                  t \in TextsOf(codes)} : codes \in MCCodes}

\* The disk is too small for the output.
MCSmallDisk ==
  {[i EXCEPT !.capacity = n] : i \in MCResized, n \in 0 .. 4}
=============================================================================
