------------------------------ MODULE CodeOwners ------------------------------
(***************************************************************************)
(* Which CODEOWNERS rule decides on a source path (codeowners.py): lookup  *)
(* of the file, its rules, repository-relative candidates of a path, globs *)
(* as the regular expressions they are compiled to, last match wins.       *)
(*                                                                         *)
(* A path is [abs, segs]: whether it begins with "/", and its segments.  A *)
(* rule is [valid, anchored, dirOnly, glob, owners]; its glob is made of   *)
(* segments, of which "*" stands for any one and "**" for any number.      *)
(* Wildcards within a segment, escapes, percent escapes, Windows paths and *)
(* the syntax of lines and section headers are left out.                   *)
(***************************************************************************)
EXTENDS Integers, SequencesExt

CONSTANTS
  Workspace,         \* the workspace root, a path
  ContextWorkspace,  \* ci.workspace_path of the primary context
  RunfilesTrees      \* segments that end in ".runfiles"

ASSUME CodeOwnersAssumption ==
  Workspace.segs \in Seq(STRING) /\ ContextWorkspace.segs \in Seq(STRING)

NoPath == [abs |-> FALSE, segs |-> <<>>]

-----------------------------------------------------------------------------
(* Candidates of a source path                                             *)

\* One segment of a path: inside tells whether no ".." led out of it so far.
Step(s, seg) ==
  IF seg = "." \/ ~s.inside THEN s
  ELSE IF seg # ".." THEN [s EXCEPT !.stack = Append(@, seg)]
  ELSE IF s.stack = <<>> THEN [s EXCEPT !.inside = FALSE]
  ELSE [s EXCEPT !.stack = Front(@)]

Walk(segs) ==
  LET walked[i \in 0..Len(segs)] ==
        IF i = 0 THEN [inside |-> TRUE, stack |-> <<>>] ELSE Step(walked[i - 1], segs[i])
  IN  walked[Len(segs)]

\* normalize_path_like: NoPath if ".." leads out of the path.
Normalized(path) ==
  LET end == Walk(path.segs)
  IN  IF end.inside THEN [abs |-> path.abs, segs |-> end.stack] ELSE NoPath

Behind(segs, n) == SubSeq(segs, n + 1, Len(segs))

\* _strip_workspace_prefix: what follows the root, nothing if it is elsewhere.
Stripped(path, root) ==
  IF root.segs # <<>> /\ path.abs = root.abs /\ IsPrefix(root.segs, path.segs)
  THEN Behind(path.segs, Len(root.segs)) ELSE <<>>

\* What follows the first of the given positions, with "_main" after it or not.
Below(segs, starts, skip, main) ==
  LET fits == {i \in starts : i + skip < Len(segs) /\ (main => segs[i + skip] = "_main")}
  IN  IF fits = {} THEN <<>> ELSE Behind(segs, Min(fits) + skip)

\* A derived path, unless it is of an external repository.
Internal(segs) ==
  IF IsStrictPrefix(<<"external">>, segs) \/ IsStrictPrefix(<<"_main", "external">>, segs)
  THEN <<>> ELSE segs

\* Paths under an execution root or in a runfiles tree.
Derived(path) ==
  LET segs == path.segs
      roots == {i \in DOMAIN segs : segs[i] = "execroot" /\ (path.abs \/ i > 1)}
      trees == {i \in DOMAIN segs : segs[i] \in RunfilesTrees}
  IN  <<Internal(Below(segs, roots, 2, TRUE)), Internal(Below(segs, roots, 1, FALSE)),
        Internal(Below(segs, trees, 1, TRUE)), Internal(Below(segs, trees, 1, FALSE))>>

\* source_candidates, the context's workspace given if there is a context; a
\* place without a candidate is <<>>, which no rule matches.
Candidates(source, hasContext) ==
  LET path == Normalized(source)
      all == <<IF hasContext THEN Stripped(path, ContextWorkspace) ELSE <<>>,
               Stripped(path, Workspace)>>
             \o Derived(path) \o <<IF path.abs THEN <<>> ELSE path.segs>>
  IN  [c \in DOMAIN all |-> IF IsStrictPrefix(<<"bazel-out">>, all[c]) THEN <<>> ELSE all[c]]

-----------------------------------------------------------------------------
(* Rules                                                                   *)

\* compile_pattern and _glob_to_regex: the rest of the glob from its segment
\* i on matches the candidate from its segment j on.
Hits(rule, segs) ==
  LET g == rule.glob
      ends(n) == rule.dirOnly => n < Len(segs)
      rest[i \in 1..(Len(g) + 1)] ==
        [j \in 1..(Len(segs) + 1) |->
           IF i > Len(g) THEN ends(j - 1)
           ELSE IF g[i] = "**" /\ i = Len(g) THEN j <= Len(segs) /\ ends(j)
           ELSE IF g[i] = "**" THEN \E k \in j..(Len(segs) + 1) : rest[i + 1][k]
           ELSE j <= Len(segs) /\ g[i] \in {"*", segs[j]} /\ rest[i + 1][j + 1]]
  IN  IF rule.anchored \/ Len(g) > 1 THEN rest[1][1]
      ELSE \E j \in 1..Len(segs) : rest[1][j]

\* parse_codeowners: malformed rules are skipped.
Parsed(rules) == {i \in DOMAIN rules : rules[i].valid}

\* The rules of a file: those that could be compiled have a glob.
RuleList(rules) ==
  /\ Len(rules) \in Nat /\ DOMAIN rules = 1..Len(rules)
  /\ \A i \in Parsed(rules) :
       /\ rules[i].glob \in Seq(STRING) /\ rules[i].glob # <<>>
       /\ rules[i].dirOnly \in BOOLEAN /\ rules[i].anchored \in BOOLEAN

\* Mutant: the first rule decides.
FirstHit(rules, segs) ==
  LET hits == {i \in Parsed(rules) : Hits(rules[i], segs)}
  IN  IF hits = {} THEN 0 ELSE Min(hits)

\* _match_candidate: the number of the deciding rule, 0 for none.
LastHit(rules, segs) ==
  LET hits == {i \in Parsed(rules) : Hits(rules[i], segs)}
  IN  IF hits = {} THEN 0 ELSE Max(hits)

\* match_source: the owners of the first candidate that any rule matches.
Owners(rules, source, hasContext) ==
  LET candidates == Candidates(source, hasContext)
      hit == {c \in DOMAIN candidates : LastHit(rules, candidates[c]) # 0}
  IN  IF hit = {} THEN {} ELSE rules[LastHit(rules, candidates[Min(hit)])].owners

\* load_codeowners_matcher: the first place that has a file, in lookup order;
\* a place is [state, lines].
LoadRules(places) ==
  LET files == {i \in DOMAIN places : places[i].state # "absent"}
  IN  IF files = {} \/ places[Min(files)].state = "unreadable" THEN <<>>
      ELSE places[Min(files)].lines

-----------------------------------------------------------------------------
(* What the rules mean, as a reference                                     *)

\* A rule covers what it names, and everything below a directory it names;
\* without a slash in front or inside, a name at any depth.  It names the
\* segments over which its glob can be laid, its segment i over those from
\* cut[i] to before cut[i + 1]: "**" over any number, at the end over at least
\* one, others over one.
Covers(rule, segs) ==
  LET g == rule.glob
  IN  \E cut \in [1..(Len(g) + 1) -> 1..(Len(segs) + 1)] :
        /\ \A i \in DOMAIN g :
             IF g[i] = "**" THEN cut[i] + (IF i = Len(g) THEN 1 ELSE 0) <= cut[i + 1]
             ELSE cut[i + 1] = cut[i] + 1 /\ g[i] \in {"*", segs[cut[i]]}
        /\ rule.anchored \/ Len(g) > 1 => cut[1] = 1
        /\ rule.dirOnly => cut[Len(g) + 1] <= Len(segs)

\* The owners of the last rule that covers the first candidate covered at all.
OwnersByReference(rules, source, hasContext) ==
  LET candidates == Candidates(source, hasContext)
      covering(c) == {i \in Parsed(rules) : Covers(rules[i], candidates[c])}
      covered == {c \in DOMAIN candidates : covering(c) # {}}
  IN  IF covered = {} THEN {} ELSE rules[Max(covering(Min(covered)))].owners
=============================================================================
