-------------------------------- MODULE MCTool --------------------------------
(***************************************************************************)
(* TLC instances of Tool: two user's texts, and up to three runs of the    *)
(* command lines below in any order and overlap.                           *)
(***************************************************************************)
EXTENDS Tool, TLC

MCUserFiles == "in" :> <<"a", "b">>

MCTexts == {<<"a", "b">>, <<"b", "c">>, <<"a", "x">>}

MCInvalid == "x"

\* A compression and its decompression, both with the default output, and a
\* decompression onto the user's file.
MCPipeline == {
  <<"in">>,
  <<"--decompress", "output.compressed">>,
  <<"--decompress", "output.compressed", "in">> }

\* With files in a directory that must not be searched, an output that cannot be
\* created and usage errors.
MCCommandLines == MCPipeline \union {
  <<"--compress", "in", "nowhere/out">>,
  <<"in", "locked/out">>,
  <<"locked/in">>,
  <<"--compress">>,
  <<"in", "output.compressed", "more">> }

MCUnsearchable == {"locked/in", "locked/out"}

MCCreatable == {"in", "output.compressed", "output.decompressed"}

MCSymmetry == Permutations(Runs)
=============================================================================
