---------------------------- MODULE MCFrequencyTable ----------------------------
(***************************************************************************)
(* TLC instances of FrequencyTable: files that nobody changes, with short  *)
(* sequences of the octets at which the ranges of UTF-8 begin and end, or  *)
(* with texts of codepoints at the same limits; files that a user changes  *)
(* while they are loaded and scanned; and files that cannot be loaded.     *)
(***************************************************************************)
EXTENDS FrequencyTable

CONSTANT MaxCodepoints  \* length of the longest text

MCCodepoints == 0 .. CodepointMax

Situation(octets, changes) ==
  [octets |-> octets, exists |-> TRUE, regular |-> TRUE, readable |-> TRUE,
   changes |-> changes]

\* The first and last octets of every range of leads and of first trails, and
\* their neighbours.
Leads == {0, 127, 128, 191, 192, 193, 194, 223, 224, 225, 237, 239, 240, 241,
          243, 244, 245, 247, 248, 255}
Trails == {127, 128, 143, 144, 159, 160, 191, 192}

MCShort ==
  {<<>>}
    \union {<<a>> : a \in Leads}
    \union {<<a, b>> : a \in Leads, b \in Trails}
    \union {<<a, b, c>> : a \in {l \in Leads : l >= 192}, b \in Trails, c \in Trails}
    \union {<<a, b, c, d>> : a \in {l \in Leads : l >= 240}, b \in Trails,
                             c \in Trails, d \in Trails}

\* Repeated codepoints of every length, and an incomplete one at the end.
MCLong ==
  {FlattenSeq([i \in DOMAIN t |-> Utf8Append(t[i])]) \o tail :
     t \in BoundedSeq({127, 128, 65535, 65536}, MaxCodepoints),
     tail \in {<<>>, <<240, 144>>}}

MCQuiet == {Situation(octets, 0) : octets \in MCShort \union MCLong}

\* Texts around the limit between copying and mapping, one of them longer by
\* more than a page.
MCRewrites ==
  {<<>>, <<97>>, <<206, 177, 97, 98>>, <<97, 206, 177, 206, 178, 98>>}

MCChanging == {Situation(octets, 2) : octets \in MCRewrites}

\* No file, another kind of file, or one that cannot be opened.
MCUnloadable ==
  UNION {{[s EXCEPT !.exists = FALSE],
          [s EXCEPT !.regular = FALSE],
          [s EXCEPT !.readable = FALSE]} : s \in {Situation(o, 0) : o \in MCRewrites}}

MCFiles == MCQuiet \union MCChanging \union MCUnloadable
=============================================================================
