--------------------------------- MODULE Utf8 ---------------------------------
(***************************************************************************)
(* The two conversions of the vendored UTF-8 library that the program      *)
(* calls: utf8::next (validate_next in core.h) and utf8::append.           *)
(***************************************************************************)
EXTENDS Integers, Sequences

Octet == 0 .. 255

CodepointMax == 1114111  \* CODE_POINT_MAX, 0x10ffff

\* 0xd800 .. 0xdfff
IsSurrogate(cp) == 55296 <= cp /\ cp <= 57343

\* The Unicode scalar values; a utfchar32_t is unsigned.
IsCodePointValid(cp) == cp \in 0 .. CodepointMax /\ ~ IsSurrogate(cp)

IsTrail(octet) == octet \div 64 = 2

\* The length that a lead octet announces, 0 for none.
SequenceLength(lead) ==
  CASE lead < 128       -> 1
    [] lead \div 32 = 6  -> 2
    [] lead \div 16 = 14 -> 3
    [] lead \div 8 = 30  -> 4
    [] OTHER             -> 0

\* How many octets a codepoint needs.
OctetsOf(cp) ==
  IF cp < 128 THEN 1 ELSE IF cp < 2048 THEN 2 ELSE IF cp < 65536 THEN 3 ELSE 4

\* Mutant: the two-octet forms of ASCII pass.
IsOverlongFromThree(cp, length) == OctetsOf(cp) < length /\ length > 2

\* Mutant: the smallest codepoint of each length counts as overlong.
IsOverlongInclusive(cp, length) == cp > 0 /\ OctetsOf(cp - 1) \notin {length, 4}

\* A codepoint that would have fitted into fewer octets; nothing is wrong with
\* one that needs four.
IsOverlongSequence(cp, length) == OctetsOf(cp) \notin {length, 4}

\* get_sequence_1 to get_sequence_4: the payload of the lead, cut to the bits
\* that a sequence of n octets has, and six bits of each trail.
CodePoint(octets, n) ==
  LET trail(i) == octets[i] % 64
  IN CASE n = 1 -> octets[1]
       [] n = 2 -> ((octets[1] * 64) % 2048) + trail(2)
       [] n = 3 -> ((octets[1] * 4096) % 65536) + (trail(2) * 64) + trail(3)
       [] n = 4 -> ((octets[1] * 262144) % 2097152)
                     + (trail(2) * 4096) + (trail(3) * 64) + trail(4)

\* validate_next: whether the octets at the iterator begin with a codepoint.
\* Its errors differ only in the exception that utf8::next makes of them, and
\* both of its callers treat all of those alike.
StartsWithCodepoint(octets) ==
  LET n == SequenceLength(octets[1])
  IN /\ n > 0
     /\ \A i \in 2 .. n : i <= Len(octets) /\ IsTrail(octets[i])
     /\ IsCodePointValid(CodePoint(octets, n))
     /\ ~ IsOverlongSequence(CodePoint(octets, n), n)

\* A trail octet with the lowest six of the bits.
Trail(bits) == 128 + (bits % 64)

\* The octets that utf8::append produces for a codepoint it accepts.
Utf8Append(cp) ==
  LET two == cp \div 64
      three == cp \div (64 * 64)
      four == cp \div (64 * 64 * 64)
  IN CASE OctetsOf(cp) = 1 -> <<cp>>
       [] OctetsOf(cp) = 2 -> <<192 + two, Trail(cp)>>
       [] OctetsOf(cp) = 3 -> <<224 + three, Trail(two), Trail(cp)>>
       [] OctetsOf(cp) = 4 -> <<240 + four, Trail(three), Trail(two), Trail(cp)>>
=============================================================================
