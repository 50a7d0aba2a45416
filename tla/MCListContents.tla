--------------------------- MODULE MCListContents ---------------------------
(***************************************************************************)
(* A small instance of ListContents: domains around b.c, and four-bit      *)
(* addresses with every include list of up to three prefixes and every     *)
(* exclude list of one.                                                    *)
(***************************************************************************)
EXTENDS ListContents

\* Letters; m is a label that stripPrefix removes.
a == 3
b == 4
c == 5
m == 6

\* b.c and names around it: below it, below that, one that only ends alike,
\* and one that the compiler strips to b.c.
bc == <<b, Dot, c>>
abc == <<a, Dot, b, Dot, c>>
aabc == <<a, Dot, a, Dot, b, Dot, c>>
babc == <<b, Dot, a, Dot, b, Dot, c>>
ab_c == <<a, b, Dot, c>>
mbc == <<m, Dot, b, Dot, c>>

PlainHosts == {bc, abc, aabc, babc, ab_c, mbc}
OneRemovable == {abc}
StripLabels == {<<m>>}
OneCasino == {babc}

AdDomains == {bc, abc, aabc}
Lines(marks) == {[domain |-> d, mark |-> x] : d \in AdDomains, x \in marks}
BlockLines == Lines({"", "||", "@@||"})
PlainLines == Lines({"", "@@"})

UpToThree == {{}} \cup {{p, q, r} : p \in Prefix, q \in Prefix, r \in Prefix}
OneOrNone == {{}} \cup {{p} : p \in Prefix}
SomeDeny == {{}, {Masked(6, 3)}}

=============================================================================
