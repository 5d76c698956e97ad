------------------------------ MODULE MCUtilities ------------------------------
(***************************************************************************)
(* Model-checking instances of the library's parts that stand alone.       *)
(***************************************************************************)
EXTENDS Utilities, TLC

CONSTANTS none, root, net, gui, h1, h2

\* A group of 17 buckets has three bytes, the last with one bit.
TableIndices == {0, 7, 8, 9, 15, 16, 17}

\* The first and last code points of each length in each encoding.
CodePoints == {0, \h7F, \h80, \h7FF, \h800, \hD7FF, \hE000, \hFFFF,
               \h10000, \h10FFFF}

\* First bytes of each length and a following one; surrogates at both ends of
\* their ranges; code points that are none.
CodeUnits ==
  8 :> {\h41, \h80, \hC3, \hE2, \hF4, \hF8, \hFC} @@
  16 :> {\h41, \hD800, \hDBFF, \hDC00, \hDFFF} @@
  32 :> {\h41, \hD800, \hDC00, \hDC01, \h110000, -1}

TextLengths == 8 :> 4 @@ 16 :> 3 @@ 32 :> 2

\* Two loggers below the root; a handler at the root and one below.
TreeParent == root :> none @@ net :> root @@ gui :> root
TreeHome == h1 :> root @@ h2 :> net
=============================================================================
