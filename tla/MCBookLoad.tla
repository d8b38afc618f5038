----------------------------- MODULE MCBookLoad -----------------------------
(***************************************************************************)
(* Small instances of BookLoad for TLC.                                    *)
(***************************************************************************)
EXTENDS BookInvariants

CONSTANTS d1, d2, w1, w2

\* A book with words shorter and longer than a chunk, double blanks, and
\* headings of which one only refers back.
Novel ==
  [text |-> <<"s", "w", "w", "s", "s", "w", "w", "w", "w", "n", "n", "w">>,
   found |-> <<[pos |-> 4, num |-> 2], [pos |-> 7, num |-> NoNumber],
               [pos |-> 6, num |-> 1], [pos |-> 0, num |-> 1]>>]
Note == [text |-> <<"w", "w">>, found |-> <<>>]
Blanks == [text |-> <<"s", "n">>, found |-> <<>>]
Nothing == [text |-> <<>>, found |-> <<>>]

SmallLibrary == d1 :> <<Novel>> @@ d2 :> <<Note, Blanks>>

Line(d, size, flags) ==
  [dataset |-> d, limit |-> 2, size |-> size, cache |-> "cache" \in flags,
   keep |-> "keep" \in flags, override |-> "override" \in flags,
   skip_load |-> "skip_load" \in flags]

SmallArgs ==
  {Line(d1, 4, {"override"}), Line(d2, 4, {"cache"}), Line(d2, 4, {"keep", "override"})}

=============================================================================
