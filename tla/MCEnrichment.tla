----------------------------- MODULE MCEnrichment -----------------------------
(***************************************************************************)
(* An instance of Enrichment for TLC: two repositories, two invocations    *)
(* whose contexts share some keys, and rules and sources in which every    *)
(* part of the matching decides.                                           *)
(***************************************************************************)
EXTENDS Enrichment

CONSTANTS ra, rb, norepo

Root(segs) == [abs |-> TRUE, segs |-> segs]
MCWorkspace == Root(<<"ws">>)
MCContextWorkspace == Root(<<"ci">>)

\* A commit and an environment in both, a tag in the first only, and a build
\* that is a number first and a text later.
MCWrites ==
  <<[text |-> {"commit", "env", "tag", "os", "secret"}, number |-> {"build"}],
    [text |-> {"commit", "env", "build", "os"}, number |-> {}]>>
MCKeys == {"commit", "tag", "os", "build", "env", "secret"}

Plain(type, source, owners) ==
  [type |-> type, source |-> source, owners |-> owners,
   meta |-> [k \in MCKeys |-> IF k = "commit" THEN Producer ELSE Nothing],
   metrics |-> [k \in {"build"} |-> Nothing]]

Rel(segs) == [abs |-> FALSE, segs |-> segs]
Sources ==
  {Rel(<<"a", "b">>), Rel(<<".", "a", "c", "..", "b", "c">>), Rel(<<"..", "a">>),
   Root(<<"ws", "a", "b">>), Root(<<"ci", "d">>),
   Root(<<"t", "execroot", "m", "_main", "a", "b">>),
   Root(<<"x.runfiles", "_main", "external", "a">>), Rel(<<"bazel-out", "a">>)}

MCPayloads ==
  {[repo |-> repo, sidecar |-> IF repo = NoRepo THEN {} ELSE {"os"},
    events |-> <<Plain("test", source, {}),
                 IF repo = NoRepo THEN Plain("span", source, {})
                                  ELSE Plain("test", source, {"producer"})>>] :
   <<repo, source>> \in
     ({ra} \X Sources) \cup ({rb, NoRepo} \X {Rel(<<"a", "b">>)})}

Entry(repo, usable) == [repo |-> repo, usable |-> usable]
A == Entry(ra, TRUE)
B == Entry(rb, TRUE)
BadA == Entry(ra, FALSE)

\* override, runtime_selection, contexts of the command line, of the manifest
Contexts ==
  {<<"unset", FALSE, <<>>, <<>>>>, <<"unset", FALSE, <<>>, <<A, B>>>>,
   <<"unset", FALSE, <<>>, <<BadA, B>>>>, <<"unreadable", FALSE, <<>>, <<B, A, A>>>>,
   <<"readable", FALSE, <<>>, <<A, B>>>>, <<"unset", FALSE, <<B>>, <<A>>>>,
   <<"unset", TRUE, <<>>, <<A>>>>, <<"unset", TRUE, <<B>>, <<A>>>>,
   <<"unset", TRUE, <<A, B>>, <<>>>>, <<"readable", TRUE, <<BadA>>, <<>>>>}

Rule(anchored, glob, dirOnly, owners) ==
  [valid |-> TRUE, anchored |-> anchored, dirOnly |-> dirOnly, glob |-> glob, owners |-> owners]
Star == Rule(FALSE, <<"*">>, FALSE, {"any"})
DirA == Rule(FALSE, <<"a">>, TRUE, {"dirA"})
NameB == Rule(FALSE, <<"b">>, FALSE, {"nameB"})
NoOwnerD == Rule(TRUE, <<"d">>, FALSE, {})
DeepB == Rule(TRUE, <<"**", "b">>, FALSE, {"deepB"})
BelowA == Rule(FALSE, <<"a", "**">>, FALSE, {"belowA"})
MainA == Rule(FALSE, <<"_main", "*">>, TRUE, {"mainA"})
Invalid == [Star EXCEPT !.valid = FALSE]

File(lines) == [state |-> "readable", lines |-> lines]
Absent == [state |-> "absent", lines |-> <<>>]
Unreadable == [state |-> "unreadable", lines |-> <<>>]

Places ==
  {<<Absent, Absent>>, <<Unreadable, File(<<Star>>)>>, <<Absent, File(<<Star, DirA, NoOwnerD>>)>>,
   <<File(<<NameB, BelowA, Invalid>>), File(<<Star>>)>>, <<File(<<MainA, DeepB>>), Absent>>}

\* Every choice of contexts with one set of rules, and all rules with a
\* context and without one.
MCInputs ==
  {[override |-> c[1], required |-> c[2], entries |-> c[3], bundled |-> c[4], places |-> p] :
   <<c, p>> \in (Contexts \X {<<Absent, File(<<Star, DirA, NoOwnerD>>)>>})
               \cup ({<<"unset", FALSE, <<>>, <<>>>>, <<"unset", FALSE, <<>>, <<A, B>>>>} \X Places)}
=============================================================================
