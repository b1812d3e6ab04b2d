------------------------------- MODULE MCToc --------------------------------
(***************************************************************************)
(* Pages of the shapes docgen has written, with the select of groupBy:    *)
(* nested lists (manual.html), sections that are plain lists               *)
(* (compiler/cursor_inference.html), with routines attached to types and   *)
(* without, lists of overloads (compiler/asciitables.html), the sections   *)
(* of the present template, which are DETAILS (compiler/ast.html), and no  *)
(* contents at all.                                                        *)
(***************************************************************************)
EXTENDS Toc

\* A tree: its nodes in document order, the n-th at n + 1 below a new root.
Shift(tree, n) ==
  [k \in DOMAIN tree |->
     [tree[k] EXCEPT !.last = @ + n, !.kids = [i \in DOMAIN @ |-> @[i] + n]]]

Plain(tag) ==
  [tag |-> tag, text |-> "", title |-> "", attached |-> <<>>, isType |-> FALSE,
   kids |-> <<>>, last |-> 1]

Tree(tag, trees) ==
  LET end[k \in 0 .. Len(trees)] == IF k = 0 THEN 1 ELSE end[k - 1] + Len(trees[k])
  IN <<[Plain(tag) EXCEPT !.kids = [k \in DOMAIN trees |-> end[k - 1] + 1],
                          !.last = end[Len(trees)]]>>
     \o FlattenSeq([k \in DOMAIN trees |-> Shift(trees[k], end[k - 1])])

A(text)      == <<[Plain("A") EXCEPT !.text = text]>>
Ty(text)     == <<[A(text)[1] EXCEPT !.isType = TRUE, !.attached = <<"">>]>>
Pr(text, at) == <<[A(text)[1] EXCEPT !.title = text, !.attached = <<at>>]>>
W            == <<Plain("#blank")>>

Li(tree) == Tree("LI", <<tree>>)

\* A section: its LI, heading, UL and entries.
SectionOf(heading, entries) ==
  Tree("LI", <<W, A(heading),
               Tree("UL", <<W>> \o [k \in DOMAIN entries |-> Li(entries[k])] \o <<W>>), W>>)

\* at: what the routines are attached to; V is no type of the page, T is one twice.
AttachedPage(at) ==
  Tree("UL", <<W, SectionOf("Imports", <<>>),
               W, SectionOf("Types", <<Ty("T"), Ty("U"), Ty("T")>>),
               SectionOf("Procs", <<Pr("d", at[1]), Pr("c", at[2]), Pr("d", at[3])>>),
               W, SectionOf("Macros", <<Pr("a", at[4])>>)>>)

\* Everything is covered, so that the new branch is the whole tree.
CoveredPage ==
  Tree("UL", <<SectionOf("Types", <<Ty("U"), Ty("T")>>), SectionOf("Procs", <<Pr("d", "T")>>)>>)

PlainPage ==
  Tree("UL", <<SectionOf("Imports", <<>>), SectionOf("Procs", <<Pr("d", ""), Pr("c", "")>>)>>)

\* A list of overloads stands where an entry would.
OverloadsPage ==
  Tree("UL",
    <<SectionOf("Types", <<Ty("T")>>),
      Tree("LI", <<W, A("Procs"),
        Tree("UL", <<W, Tree("UL", <<<<Plain("#text")>>, W, Li(Pr("d", ""))>>), W, Li(Pr("c", ""))>>),
        W>>)>>)

ManualPage(heading) ==
  Tree("UL",
    <<Li(A("a")), W, Li(A(heading)), W,
      Tree("UL", <<Li(A("c")), W, Tree("UL", <<Li(A("d"))>>)>>),
      Li(A("b")), W>>)

DetailsPage ==
  Tree("UL", <<W, Tree("LI", <<W,
    Tree("DETAILS", <<W, Tree("SUMMARY", <<A("Types")>>), W, Tree("UL", <<W, Li(Ty("T"))>>), W>>), W>>), W>>)

EmptyPage == Tree("UL", <<W>>)

MCPages ==
  {AttachedPage(at) : at \in [1 .. 4 -> {"T", "U", "V"}]}
  \cup {ManualPage("a"), ManualPage("Types")}
  \cup {CoveredPage, PlainPage, OverloadsPage, EmptyPage}
MCDetails == {DetailsPage}

Alphabet == <<"", "Imports", "Macros", "Procs", "T", "Types", "U", "a", "b", "c", "d">>
MCRank(text) == CHOOSE k \in DOMAIN Alphabet : Alphabet[k] = text
=============================================================================
