------------------------ MODULE MCAfdoProfAnalysis ------------------------
EXTENDS AfdoProfAnalysis

CONSTANTS f1, f2, f3, f4, f5, f6

\* Culprit sets of one or two elements, and deciders made of one or two.
CulpritSets == {c \in SUBSET Elems : Cardinality(c) \in 1..2}
MCDeciders == {{c} : c \in CulpritSets} \cup
              {{c, d} : c, d \in CulpritSets} \cup {Flaky}

\* A pair and a triple sharing f1: BAD iff f1 and f4, or f1, f2 and f5.
OverlapDecider == {{{f1, f4}, {f1, f2, f5}}}

\* BAD only because of the functions the bad profile alone has.
BadOnlyDecider == {{{BadOnlyFuncs}}}
=============================================================================
