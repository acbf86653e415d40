------------------------------ MODULE TextLines ------------------------------
(***************************************************************************)
(* A text is a sequence of characters, of which "n" is the line feed.      *)
(***************************************************************************)
EXTENDS Naturals, Sequences, SequencesExt

\* String.split at line feeds, and Array.join.
SplitLines(text) ==
  FoldLeft(LAMBDA ls, c : IF c = "n" THEN Append(ls, <<>>)
                          ELSE [ls EXCEPT ![Len(ls)] = Append(@, c)], <<<<>>>>, text)
JoinLines(ls) ==
  IF ls = <<>> THEN <<>> ELSE Tail(FlattenSeq([i \in DOMAIN ls |-> <<"n">> \o ls[i]]))
=============================================================================
