----------------------------- MODULE MCLinkPkg ------------------------------
(* Instances of OldSession, and so of LinkPkg, for TLC. *)
EXTENDS OldSession

MCAbsent == <<0>>
Link(t, v) == [text |-> t, value |-> v]

\* Complete links of different lengths, links whose value or whole content is
\* missing, links with an empty element; a number right, too small or too large.
MCLinks ==
    { Link(<<200, 201>>, <<65>>), Link(<<210>>, <<66, 67, 68>>),
      Link(<<220>>, MCAbsent), Link(MCAbsent, MCAbsent), Link(<<>>, <<65>>) }
MCDocuments ==
    { [num |-> n, links |-> l] : n \in 0 .. 5, l \in BoundedSeq(MCLinks, 3) }
=============================================================================
