------------------------------ MODULE MCUpload ------------------------------
(***************************************************************************)
(* Upload with texts small enough for TLC.  A long text is letters with at *)
(* most two places to cut, of every kind and at every position.  At 7      *)
(* bytes the target is the minimum of 4, at 10 half of the text, at 15 the *)
(* maximum of 6.  The other texts are not cut.                             *)
(***************************************************************************)
EXTENDS Upload

Letters(n) == [k \in 1 .. n |-> "x"]

Marked(s, p, i) ==
  [k \in DOMAIN s |-> IF k \in i .. i + Len(p) - 1 THEN p[k - i + 1] ELSE s[k]]

MarkedTwice(n) ==
  LET marks == ToSet(Places)
  IN  {Marked(Marked(Letters(n), p, i), q, j) : p, q \in marks, i, j \in 1 .. n}

MCTexts ==
  {<<>>, Letters(6)} \cup MarkedTwice(7) \cup MarkedTwice(10) \cup MarkedTwice(15)
=============================================================================
