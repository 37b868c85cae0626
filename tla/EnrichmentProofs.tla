--------------------------- MODULE EnrichmentProofs ---------------------------
(***************************************************************************)
(* Proofs about Enrichment, for every payload, number of invocations, and  *)
(* contexts each of them is given: every value of an accepted event has    *)
(* the origin that the merges say, and none is of another repository than  *)
(* the event's own, except where the selection takes the only context;     *)
(* its owners are those that the rules mean.  The matching of globs that   *)
(* this rests on is shown equal to its reference for every glob and path.  *)
(***************************************************************************)
EXTENDS Enrichment, FiniteSetTheorems, TLAPS

-----------------------------------------------------------------------------
(* The values of events as functions of what the invocations were given    *)

\* The context that invocation r selects for the payload p, and its keys.
ContextOf(p, ch, r) == <<r, Select(ch[r], p.repo)>>
KeysOf(p, ch, r, kind) ==
  IF ContextOf(p, ch, r)[2] = -1 THEN {} ELSE Writes[r][kind] \ {Fingerprint}

\* Those of the invocations R that write the key k.
Writers(p, ch, R, k, kind) == {r \in R : k \in KeysOf(p, ch, r, kind)}

\* What the metadata, the metrics and the environment are after the event e
\* of p went through the invocations R.
MetaAfter(p, ch, e, R) ==
  [k \in DOMAIN p.events[e].meta |->
     IF R # {} /\ k \in p.sidecar THEN Sidecar
     ELSE IF Writers(p, ch, R, k, "text") = {} THEN p.events[e].meta[k]
     ELSE ContextOf(p, ch, Max(Writers(p, ch, R, k, "text")))]
MetricsAfter(p, ch, e, R) ==
  [k \in DOMAIN p.events[e].metrics |->
     IF Writers(p, ch, R, k, "number") = {} THEN p.events[e].metrics[k]
     ELSE ContextOf(p, ch, Max(Writers(p, ch, R, k, "number")))]
EnvAfter(p, ch, R) ==
  IF Writers(p, ch, R, "env", "text") = {} THEN Nothing
  ELSE ContextOf(p, ch, Min(Writers(p, ch, R, "env", "text")))

\* What the rules of invocation r mean for the event e, the invocations that
\* find owners, and the owners after the invocations R.
Meant(p, ch, e, r) ==
  OwnersByReference(LoadRules(ch[r].places), p.events[e].source, Primary(ch[r]) # -1)
Finders(p, ch, e, R) == {r \in R : Meant(p, ch, e, r) # {}}
OwnersAfter(p, ch, e, R) ==
  IF p.events[e].type = "span" \/ p.events[e].owners # {} \/ Finders(p, ch, e, R) = {}
  THEN p.events[e].owners ELSE Meant(p, ch, e, Min(Finders(p, ch, e, R)))

EventAfter(p, ch, v, e, R) ==
  v = [type |-> p.events[e].type, source |-> p.events[e].source,
       owners |-> OwnersAfter(p, ch, e, R),
       meta |-> MetaAfter(p, ch, e, R), metrics |-> MetricsAfter(p, ch, e, R)]

\* x, the file or the worker's copy, is what p is after the invocations R.
FileAfter(p, ch, x, R) ==
  /\ x = [env |-> EnvAfter(p, ch, R), events |-> x.events]
  /\ DOMAIN x.events \subseteq DOMAIN p.events
  /\ \A e \in DOMAIN x.events : EventAfter(p, ch, x.events[e], e, R)

\* An accepted event went through the invocations R.
SentAfter(p, ch, c, R) ==
  /\ c.id \in DOMAIN p.events
  /\ c.env = EnvAfter(p, ch, R)
  /\ EventAfter(p, ch, c.event, c.id, R)

Earlier(K, r) == {q \in K : q < r} \cup {r}

-----------------------------------------------------------------------------
(* The inductive invariant                                                 *)

\* The file went through the invocations whose copy it got, the copy in
\* addition through the running one once it is enriched.
TagsInv ==
  /\ payload \in Payloads
  /\ run \in Nat /\ chosen \in Seq(Inputs) /\ Len(chosen) = run
  /\ stage \in {"idle", "loaded", "enriched"}
  /\ stage # "idle" => run > 0 /\ run \notin kept
  /\ kept \in SUBSET (1..run)
  /\ disk.events # <<>> => FileAfter(payload, chosen, disk, kept)
  /\ stage = "loaded" => FileAfter(payload, chosen, copy, kept)
  /\ stage = "enriched" => FileAfter(payload, chosen, copy, kept \cup {run})
  /\ \A c \in sent :
       c.run \in 1..run /\ SentAfter(payload, chosen, c, Earlier(kept, c.run))

-----------------------------------------------------------------------------
(* Least and greatest invocations                                          *)

LEMMA LeastOf ==
  ASSUME NEW S \in SUBSET Nat, S # {}
  PROVE  Min(S) \in S /\ \A y \in S : Min(S) <= y
<1> DEFINE R == {p \in Nat \X Nat : p[1] < p[2]}
<1>1. \A p, q \in Nat : p < q => <<p, q>> \in R
  OBVIOUS
<1>2. IsWellFoundedOn(R, Nat)
  BY NatLessThanWellFounded DEF OpToRel
<1> HIDE DEF R
<1>3. \E x \in S : \A y \in S : <<y, x>> \notin R
  BY <1>2, WFMin
<1>4. PICK x \in S : \A y \in S : <<y, x>> \notin R
  BY <1>3
<1>5. \A y \in S : x <= y
  <2> SUFFICES ASSUME NEW y \in S PROVE x <= y
    OBVIOUS
  <2>1. x \in Nat /\ y \in Nat /\ ~(y < x)
    BY <1>1, <1>4
  <2> QED
    BY <2>1
<1>6. \E z \in S : \A y \in S : z <= y
  BY <1>5
<1> QED
  BY <1>6 DEF Min

LEMMA GreatestOf ==
  ASSUME NEW n \in Nat, NEW S \in SUBSET (1..n), S # {}
  PROVE  Max(S) \in S /\ \A y \in S : Max(S) >= y
<1> DEFINE T == {n - x : x \in S}
<1>1. T \in SUBSET Nat /\ T # {}
  <2>1. \A x \in S : n - x \in Nat
    OBVIOUS
  <2> QED
    BY <2>1
<1>2. /\ Min(T) \in T
      /\ \A y \in T : Min(T) <= y
  <2> HIDE DEF T
  <2> QED
    BY <1>1, LeastOf
<1>3. PICK m \in S : Min(T) = n - m
  BY <1>2
<1>4. \A y \in S : m >= y
  <2> SUFFICES ASSUME NEW y \in S PROVE m >= y
    OBVIOUS
  <2>1. n - y \in T
    OBVIOUS
  <2>2. n - m <= n - y
    BY <1>2, <1>3, <2>1
  <2>3. m \in Nat /\ y \in Nat
    OBVIOUS
  <2> QED
    BY <2>2, <2>3
<1>5. \E z \in S : \A y \in S : z >= y
  BY <1>4
<1> QED
  BY <1>5 DEF Max

\* A later invocation is the greatest, and does not change the least.
LEMMA LaterOne ==
  ASSUME NEW n \in Nat, NEW W \in SUBSET Nat, \A w \in W : w < n
  PROVE  /\ Max(W \cup {n}) = n
         /\ W # {} => Min(W \cup {n}) = Min(W)
         /\ Min({n}) = n
<1>1. \A x \in W \cup {n} : (\A y \in W \cup {n} : x >= y) => x = n
  <2> SUFFICES ASSUME NEW x \in W, x >= n PROVE FALSE
    OBVIOUS
  <2> QED
    OBVIOUS
<1>2. n \in W \cup {n} /\ \A y \in W \cup {n} : n >= y
  OBVIOUS
<1>3. \E x \in W \cup {n} : \A y \in W \cup {n} : x >= y
  BY <1>2
<1>4. Max(W \cup {n}) \in W \cup {n} /\ \A y \in W \cup {n} : Max(W \cup {n}) >= y
  BY <1>3 DEF Max
<1>5. Max(W \cup {n}) = n
  BY <1>1, <1>4
<1>6. ASSUME W # {}
      PROVE  Min(W \cup {n}) = Min(W)
  <2>1. Min(W) \in W /\ \A y \in W : Min(W) <= y
    BY <1>6, LeastOf
  <2>2. /\ Min(W \cup {n}) \in W \cup {n}
        /\ \A y \in W \cup {n} : Min(W \cup {n}) <= y
    BY LeastOf
  <2>3. Min(W) < n /\ Min(W) \in Nat /\ Min(W \cup {n}) \in Nat
    BY <2>1, <2>2
  <2>4. Min(W \cup {n}) <= Min(W)
    BY <2>1, <2>2
  <2>5. Min(W \cup {n}) \in W
    BY <2>2, <2>3, <2>4
  <2>6. Min(W) <= Min(W \cup {n})
    BY <2>1, <2>5
  <2> QED
    BY <2>3, <2>4, <2>6
<1>7. Min({n}) = n
  <2>1. \E x \in {n} : \A y \in {n} : x =< y
    OBVIOUS
  <2> QED
    BY <2>1 DEF Min
<1> QED
  BY <1>5, <1>6, <1>7

-----------------------------------------------------------------------------
(* Globs                                                                   *)

\* The segment k of the glob g lies over the segments from a to before b.
Lies(g, segs, k, a, b) ==
  IF g[k] = "**" THEN a + (IF k = Len(g) THEN 1 ELSE 0) <= b
  ELSE b = a + 1 /\ g[k] \in {"*", segs[a]}

Cuts(g, segs) == [1..(Len(g) + 1) -> 1..(Len(segs) + 1)]

\* The rest of the glob from its segment i on can be laid from j on.
LaidFrom(g, dirOnly, segs, i, j) ==
  \E cut \in Cuts(g, segs) :
    /\ cut[i] = j
    /\ \A k \in i..Len(g) : Lies(g, segs, k, cut[k], cut[k + 1])
    /\ dirOnly => cut[Len(g) + 1] <= Len(segs)

\* Laying the rest is laying its first segment and then the others.
LEMMA LaidSplit ==
  ASSUME NEW g, Len(g) \in Nat, NEW segs, Len(segs) \in Nat, NEW dirOnly,
         NEW i \in 1..Len(g), NEW j \in 1..(Len(segs) + 1)
  PROVE  LaidFrom(g, dirOnly, segs, i, j) <=>
           \E b \in 1..(Len(segs) + 1) :
             Lies(g, segs, i, j, b) /\ LaidFrom(g, dirOnly, segs, i + 1, b)
<1> DEFINE n == Len(g)
           m == Len(segs)
<1>1. ASSUME LaidFrom(g, dirOnly, segs, i, j)
      PROVE  \E b \in 1..(m + 1) : Lies(g, segs, i, j, b) /\ LaidFrom(g, dirOnly, segs, i + 1, b)
  <2>1. PICK cut \in Cuts(g, segs) :
          /\ cut[i] = j
          /\ \A k \in i..n : Lies(g, segs, k, cut[k], cut[k + 1])
          /\ dirOnly => cut[n + 1] <= m
    BY <1>1 DEF LaidFrom
  <2>2. i + 1 \in 1..(n + 1) /\ i \in i..n /\ \A k \in (i + 1)..n : k \in i..n
    OBVIOUS
  <2>3. cut[i + 1] \in 1..(m + 1)
    BY <2>2 DEF Cuts
  <2>4. LaidFrom(g, dirOnly, segs, i + 1, cut[i + 1])
    BY <2>1, <2>2 DEF LaidFrom
  <2> QED
    BY <2>1, <2>2, <2>3, <2>4
<1>2. ASSUME NEW b \in 1..(m + 1), Lies(g, segs, i, j, b),
             LaidFrom(g, dirOnly, segs, i + 1, b)
      PROVE  LaidFrom(g, dirOnly, segs, i, j)
  <2>1. PICK cut \in Cuts(g, segs) :
          /\ cut[i + 1] = b
          /\ \A k \in (i + 1)..n : Lies(g, segs, k, cut[k], cut[k + 1])
          /\ dirOnly => cut[n + 1] <= m
    BY <1>2 DEF LaidFrom
  <2> DEFINE new == [cut EXCEPT ![i] = j]
  <2>2. new \in Cuts(g, segs)
    BY DEF Cuts
  <2>3. new[i] = j /\ \A k \in (i + 1)..(n + 1) : new[k] = cut[k]
    BY DEF Cuts
  <2> HIDE DEF new
  <2>4. new[i + 1] = b /\ new[n + 1] = cut[n + 1]
    <3>1. i + 1 \in (i + 1)..(n + 1) /\ n + 1 \in (i + 1)..(n + 1)
      OBVIOUS
    <3> QED
      BY <2>1, <2>3, <3>1
  <2>5. ASSUME NEW k \in i..n
        PROVE  Lies(g, segs, k, new[k], new[k + 1])
    <3>1. CASE k = i
      BY <1>2, <2>3, <2>4, <3>1
    <3>2. CASE k # i
      <4>1. k \in (i + 1)..n /\ k \in (i + 1)..(n + 1) /\ k + 1 \in (i + 1)..(n + 1)
        BY <3>2
      <4>2. new[k] = cut[k] /\ new[k + 1] = cut[k + 1]
        BY <2>3, <4>1
      <4> QED
        BY <2>1, <4>1, <4>2
    <3> QED
      BY <3>1, <3>2
  <2> QED
    BY <2>1, <2>2, <2>3, <2>4, <2>5 DEF LaidFrom
<1> QED
  BY <1>1, <1>2

LEMMA LaidEnd ==
  ASSUME NEW g, Len(g) \in Nat, NEW segs, Len(segs) \in Nat, NEW dirOnly,
         NEW j \in 1..(Len(segs) + 1)
  PROVE  LaidFrom(g, dirOnly, segs, Len(g) + 1, j) <=> (dirOnly => j <= Len(segs))
<1> DEFINE cut == [k \in 1..(Len(g) + 1) |-> j]
<1>1. cut \in Cuts(g, segs) /\ cut[Len(g) + 1] = j
  BY DEF Cuts
<1>2. (Len(g) + 1)..Len(g) = {}
  OBVIOUS
<1> HIDE DEF cut
<1> QED
  BY <1>1, <1>2 DEF LaidFrom

\* The equation of "rest" in Hits.
RestOf(g, dirOnly, segs, rest) ==
  [i \in 1..(Len(g) + 1) |->
     [j \in 1..(Len(segs) + 1) |->
        IF i > Len(g) THEN dirOnly => j - 1 < Len(segs)
        ELSE IF g[i] = "**" /\ i = Len(g) THEN j <= Len(segs) /\ (dirOnly => j < Len(segs))
        ELSE IF g[i] = "**" THEN \E k \in j..(Len(segs) + 1) : rest[i + 1][k]
        ELSE j <= Len(segs) /\ g[i] \in {"*", segs[j]} /\ rest[i + 1][j + 1]]]

LaidTable(g, dirOnly, segs) ==
  [i \in 1..(Len(g) + 1) |->
     [j \in 1..(Len(segs) + 1) |-> LaidFrom(g, dirOnly, segs, i, j)]]

\* What can be laid satisfies it.
LEMMA LaidIsRest ==
  ASSUME NEW g, Len(g) \in Nat, NEW segs, Len(segs) \in Nat, NEW dirOnly \in BOOLEAN
  PROVE  LaidTable(g, dirOnly, segs) =
           RestOf(g, dirOnly, segs, LaidTable(g, dirOnly, segs))
<1> DEFINE n == Len(g)
           m == Len(segs)
           T == LaidTable(g, dirOnly, segs)
           P(i, j) == LaidFrom(g, dirOnly, segs, i, j)
           B(i, j) == IF i > n THEN dirOnly => j - 1 < m
                      ELSE IF g[i] = "**" /\ i = n THEN j <= m /\ (dirOnly => j < m)
                      ELSE IF g[i] = "**" THEN \E k \in j..(m + 1) : T[i + 1][k]
                      ELSE j <= m /\ g[i] \in {"*", segs[j]} /\ T[i + 1][j + 1]
<1>1. \A i \in 1..(n + 1) : \A j \in 1..(m + 1) : T[i][j] = P(i, j)
  BY DEF LaidTable
<1>9. \A i, j : P(i, j) \in BOOLEAN
  BY DEF LaidFrom
<1> HIDE DEF T
<1>2. ASSUME NEW i \in 1..(n + 1), NEW j \in 1..(m + 1)
      PROVE  P(i, j) = B(i, j)
  <2>1. CASE i = n + 1
    <3>1. P(i, j) <=> (dirOnly => j <= m)
      BY <2>1, LaidEnd
    <3>2. j <= m <=> j - 1 < m
      OBVIOUS
    <3>3. i > n
      BY <2>1
    <3>4. B(i, j) = (dirOnly => j - 1 < m)
      BY <3>3
    <3> HIDE DEF P, B
    <3> QED
      BY <1>9, <3>1, <3>2, <3>4
  <2>2. ASSUME i \in 1..n
        PROVE  P(i, j) = B(i, j)
    <3>1. P(i, j) <=> \E b \in 1..(m + 1) : Lies(g, segs, i, j, b) /\ P(i + 1, b)
      BY <2>2, LaidSplit
    <3>2. ~(i > n) /\ i + 1 \in 1..(n + 1)
      BY <2>2
    <3>3. CASE g[i] = "**" /\ i = n
      <4>1. B(i, j) = (j <= m /\ (dirOnly => j < m))
        BY <3>2, <3>3
      <4>2. \A b \in 1..(m + 1) : P(i + 1, b) <=> (dirOnly => b <= m)
        BY <3>3, LaidEnd
      <4>3. \A b : Lies(g, segs, i, j, b) <=> j + 1 <= b
        BY <3>3 DEF Lies
      <4> HIDE DEF P, B
      <4>4. P(i, j) <=> \E b \in 1..(m + 1) : j + 1 <= b /\ (dirOnly => b <= m)
        BY <3>1, <4>2, <4>3
      <4>5. (\E b \in 1..(m + 1) : j + 1 <= b /\ (dirOnly => b <= m))
              <=> (j <= m /\ (dirOnly => j < m))
        <5>1. ASSUME j <= m /\ (dirOnly => j < m)
              PROVE  \E b \in 1..(m + 1) : j + 1 <= b /\ (dirOnly => b <= m)
          <6>1. j + 1 \in 1..(m + 1) /\ j + 1 <= j + 1 /\ (dirOnly => j + 1 <= m)
            BY <5>1
          <6> QED
            BY <6>1
        <5> QED
          BY <5>1
      <4> QED
        BY <1>9, <4>1, <4>4, <4>5, Zenon
    <3>4. CASE g[i] = "**" /\ i # n
      <4>1. B(i, j) = \E k \in j..(m + 1) : T[i + 1][k]
        BY <3>2, <3>4
      <4>2. \A b : Lies(g, segs, i, j, b) <=> j <= b
        BY <3>4 DEF Lies
      <4>3. \A b \in 1..(m + 1) : P(i + 1, b) = T[i + 1][b]
        BY <1>1, <3>2
      <4> HIDE DEF P, B
      <4>4. \A b : b \in j..(m + 1) <=> b \in 1..(m + 1) /\ j <= b
        OBVIOUS
      <4>5. (\E b \in 1..(m + 1) : Lies(g, segs, i, j, b) /\ P(i + 1, b))
              <=> \E k \in j..(m + 1) : T[i + 1][k]
        BY <4>2, <4>3, <4>4, Zenon
      <4> QED
        BY <1>9, <3>1, <4>1, <4>5, Zenon
    <3>5. CASE g[i] # "**"
      <4>1. B(i, j) = (j <= m /\ g[i] \in {"*", segs[j]} /\ T[i + 1][j + 1])
        BY <3>2, <3>5
      <4>2. \A b : Lies(g, segs, i, j, b) <=> b = j + 1 /\ g[i] \in {"*", segs[j]}
        BY <3>5 DEF Lies
      <4>3. \A b \in 1..(m + 1) : P(i + 1, b) = T[i + 1][b]
        BY <1>1, <3>2
      <4>4. j + 1 \in 1..(m + 1) <=> j <= m
        OBVIOUS
      <4> HIDE DEF P, B
      <4>5. (\E b \in 1..(m + 1) : Lies(g, segs, i, j, b) /\ P(i + 1, b))
              <=> (j <= m /\ g[i] \in {"*", segs[j]} /\ T[i + 1][j + 1])
        BY <4>2, <4>3, <4>4, Zenon
      <4> QED
        BY <1>9, <3>1, <4>1, <4>5, Zenon
    <3> QED
      BY <3>3, <3>4, <3>5
  <2>3. i = n + 1 \/ i \in 1..n
    OBVIOUS
  <2> HIDE DEF P, B
  <2> QED
    BY <2>1, <2>2, <2>3
<1>3. T = [i \in 1..(n + 1) |-> [j \in 1..(m + 1) |-> P(i, j)]]
  BY DEF T, LaidTable
<1>4. RestOf(g, dirOnly, segs, T) = [i \in 1..(n + 1) |-> [j \in 1..(m + 1) |-> B(i, j)]]
  BY DEF RestOf
<1> HIDE DEF P, B
<1>5. T = RestOf(g, dirOnly, segs, T)
  BY <1>2, <1>3, <1>4, Zenon
<1> QED
  BY <1>5 DEF T

\* Nothing else does: two tables cannot differ in a last row.
LEMMA RestUnique ==
  ASSUME NEW g, Len(g) \in Nat, NEW segs, Len(segs) \in Nat, NEW dirOnly,
         NEW f, f = RestOf(g, dirOnly, segs, f), NEW h, h = RestOf(g, dirOnly, segs, h)
  PROVE  f = h
<1> DEFINE n == Len(g)
           m == Len(segs)
           row(t, i) == [j \in 1..(m + 1) |->
                           IF i > n THEN dirOnly => j - 1 < m
                           ELSE IF g[i] = "**" /\ i = n THEN j <= m /\ (dirOnly => j < m)
                           ELSE IF g[i] = "**" THEN \E k \in j..(m + 1) : t[i + 1][k]
                           ELSE j <= m /\ g[i] \in {"*", segs[j]} /\ t[i + 1][j + 1]]
           D == {d \in 0..n : f[n + 1 - d] # h[n + 1 - d]}
<1>1. /\ f = [i \in 1..(n + 1) |-> row(f, i)]
      /\ h = [i \in 1..(n + 1) |-> row(h, i)]
  BY Zenon DEF RestOf
<1>2. \A i \in 1..(n + 1) : (i > n \/ f[i + 1] = h[i + 1]) => row(f, i) = row(h, i)
  OBVIOUS
<1> HIDE DEF row
<1>3. \A i \in 1..(n + 1) : (i > n \/ f[i + 1] = h[i + 1]) => f[i] = h[i]
  BY <1>1, <1>2
<1>4. D = {}
  <2> SUFFICES ASSUME D # {} PROVE FALSE
    OBVIOUS
  <2>1. D \in SUBSET Nat
    OBVIOUS
  <2>2. Min(D) \in D /\ \A y \in D : Min(D) <= y
    <3> HIDE DEF D
    <3> QED
      BY <2>1, LeastOf
  <2> DEFINE d == Min(D)
  <2>3. d \in 0..n /\ f[n + 1 - d] # h[n + 1 - d]
    BY <2>2
  <2>4. \A y \in 0..n : y < d => f[n + 1 - y] = h[n + 1 - y]
    BY <2>1, <2>2
  <2> HIDE DEF d, D
  <2>5. CASE d = 0
    <3>1. n + 1 - d \in 1..(n + 1) /\ n + 1 - d > n
      BY <2>5
    <3> QED
      BY <1>3, <2>3, <3>1
  <2>6. CASE d > 0
    <3>1. n + 1 - d \in 1..(n + 1) /\ d - 1 \in 0..n /\ d - 1 < d
          /\ n + 1 - (d - 1) = (n + 1 - d) + 1
      BY <2>3, <2>6
    <3>2. f[(n + 1 - d) + 1] = h[(n + 1 - d) + 1]
      BY <2>4, <3>1
    <3> QED
      BY <1>3, <2>3, <3>1, <3>2
  <2> QED
    BY <2>3, <2>5, <2>6
<1>5. ASSUME NEW i \in 1..(n + 1)
      PROVE  f[i] = h[i]
  <2>1. n + 1 - i \in 0..n /\ n + 1 - (n + 1 - i) = i
    OBVIOUS
  <2> QED
    BY <1>4, <2>1
<1> QED
  BY <1>1, <1>5, Zenon

\* The regular expression that compile_pattern makes of a glob matches exactly
\* the paths over whose segments the glob can be laid, for every glob and path.
THEOREM HitsIsCovers ==
  ASSUME NEW rule, rule.glob \in Seq(STRING), rule.glob # <<>>,
         rule.dirOnly \in BOOLEAN, rule.anchored \in BOOLEAN,
         NEW segs, Len(segs) \in Nat
  PROVE  Hits(rule, segs) <=> Covers(rule, segs)
<1> DEFINE g == rule.glob
           n == Len(g)
           m == Len(segs)
           T == LaidTable(g, rule.dirOnly, segs)
           rest == CHOOSE r : r = RestOf(g, rule.dirOnly, segs, r)
<1>0. n \in Nat /\ n >= 1 /\ DOMAIN g = 1..n
  OBVIOUS
<1>1. rest = T
  <2>1. T = RestOf(g, rule.dirOnly, segs, T)
    BY <1>0, LaidIsRest
  <2>2. rest = RestOf(g, rule.dirOnly, segs, rest)
    BY <2>1
  <2> HIDE DEF rest, T
  <2> QED
    BY <1>0, <2>1, <2>2, RestUnique
<1>2. Hits(rule, segs) =
        IF rule.anchored \/ n > 1 THEN rest[1][1] ELSE \E j \in 1..m : rest[1][j]
  BY Zenon DEF Hits, RestOf
<1>3. \A j \in 1..(m + 1) : T[1][j] = LaidFrom(g, rule.dirOnly, segs, 1, j)
  BY <1>0 DEF LaidTable
<1> DEFINE laid(cut) == /\ \A k \in 1..n : Lies(g, segs, k, cut[k], cut[k + 1])
                        /\ rule.dirOnly => cut[n + 1] <= m
<1>4. Covers(rule, segs) <=>
        \E cut \in Cuts(g, segs) : laid(cut) /\ (rule.anchored \/ n > 1 => cut[1] = 1)
  BY <1>0 DEF Covers, Cuts, Lies
<1>5. \A j : LaidFrom(g, rule.dirOnly, segs, 1, j) <=>
        \E cut \in Cuts(g, segs) : laid(cut) /\ cut[1] = j
  BY DEF LaidFrom
<1>6. ASSUME NEW cut \in Cuts(g, segs), laid(cut), n = 1
      PROVE  cut[1] \in 1..m
  <2>1. Lies(g, segs, 1, cut[1], cut[2])
    BY <1>6
  <2>2. cut[1] \in 1..(m + 1) /\ cut[2] \in 1..(m + 1)
    BY <1>6 DEF Cuts
  <2>3. cut[1] + 1 <= cut[2]
    BY <1>6, <2>1, <2>2 DEF Lies
  <2> QED
    BY <2>2, <2>3
<1> HIDE DEF laid, rest, T
<1>7. CASE rule.anchored \/ n > 1
  <2>1. 1 \in 1..(m + 1)
    OBVIOUS
  <2>2. Hits(rule, segs) = LaidFrom(g, rule.dirOnly, segs, 1, 1)
    BY <1>1, <1>2, <1>3, <1>7, <2>1
  <2> QED
    BY <1>4, <1>5, <1>7, <2>2
<1>8. CASE ~rule.anchored /\ n = 1
  <2>1. ~(rule.anchored \/ n > 1)
    BY <1>8
  <2>2. \A j \in 1..m : j \in 1..(m + 1)
    OBVIOUS
  <2>3. Hits(rule, segs) <=> \E j \in 1..m : LaidFrom(g, rule.dirOnly, segs, 1, j)
    BY <1>1, <1>2, <1>3, <2>1, <2>2, Zenon
  <2>4. Covers(rule, segs) <=> \E cut \in Cuts(g, segs) : laid(cut)
    BY <1>4, <2>1, Zenon
  <2>5. Hits(rule, segs) <=> \E j \in 1..m : \E cut \in Cuts(g, segs) : laid(cut) /\ cut[1] = j
    BY <1>5, <2>3, Zenon
  <2> QED
    BY <1>6, <1>8, <2>4, <2>5, Zenon
<1>9. n > 1 \/ n = 1
  <2> HIDE DEF n
  <2> QED
    BY <1>0
<1> QED
  BY <1>7, <1>8, <1>9, Zenon

-----------------------------------------------------------------------------
(* Paths                                                                   *)

Segments == Seq(STRING)
Walks == [inside : BOOLEAN, stack : Segments]

LEMMA StepTyped ==
  ASSUME NEW s \in Walks, NEW seg \in STRING
  PROVE  Step(s, seg) \in Walks
<1>1. s.stack \in Seq(STRING) /\ s.inside \in BOOLEAN
  BY DEF Walks, Segments
<1>2. Append(s.stack, seg) \in Seq(STRING)
  BY <1>1
<1>3. s.stack # <<>> => Front(s.stack) \in Seq(STRING)
  BY <1>1 DEF Front
<1>4. CASE seg = "." \/ ~s.inside
  BY <1>4 DEF Step
<1>5. CASE ~(seg = "." \/ ~s.inside) /\ seg # ".."
  BY <1>2, <1>5 DEF Step, Walks, Segments
<1>6. CASE ~(seg = "." \/ ~s.inside) /\ seg = ".." /\ s.stack = <<>>
  BY <1>6 DEF Step, Walks, Segments
<1>7. CASE ~(seg = "." \/ ~s.inside) /\ seg = ".." /\ s.stack # <<>>
  BY <1>3, <1>7 DEF Step, Walks, Segments
<1> QED
  BY <1>4, <1>5, <1>6, <1>7

\* The equation of "walked" in Walk, over the first n segments.
WalkedBy(segs, n, walked) ==
  [i \in 0..n |->
     IF i = 0 THEN [inside |-> TRUE, stack |-> <<>>] ELSE Step(walked[i - 1], segs[i])]

\* It has a solution: no least number of segments is without one.
LEMMA WalkExists ==
  ASSUME NEW segs, NEW n \in Nat
  PROVE  \E walked : walked = WalkedBy(segs, n, walked)
<1> DEFINE D == {d \in Nat : ~ \E walked : walked = WalkedBy(segs, d, walked)}
<1>1. \A d \in Nat : d \notin D <=> \E walked : walked = WalkedBy(segs, d, walked)
  OBVIOUS
<1>2. D \in SUBSET Nat
  OBVIOUS
<1> HIDE DEF D
<1>3. 0 \notin D
  <2> DEFINE f == [i \in 0..0 |-> [inside |-> TRUE, stack |-> <<>>]]
  <2>1. f = WalkedBy(segs, 0, f)
    BY DEF WalkedBy
  <2> QED
    BY <1>1, <2>1
<1>4. ASSUME NEW d \in Nat, d \notin D
      PROVE  d + 1 \notin D
  <2>1. PICK f : f = WalkedBy(segs, d, f)
    BY <1>1, <1>4
  <2> DEFINE h == [i \in 0..(d + 1) |-> IF i = d + 1 THEN Step(f[d], segs[d + 1]) ELSE f[i]]
  <2>2. \A i \in 0..d : h[i] = f[i]
    OBVIOUS
  <2>3. \A i \in 0..d : f[i] = IF i = 0 THEN [inside |-> TRUE, stack |-> <<>>]
                               ELSE Step(f[i - 1], segs[i])
    BY <2>1 DEF WalkedBy
  <2>4. h[d + 1] = Step(f[d], segs[d + 1])
    OBVIOUS
  <2>5. h = [i \in 0..(d + 1) |-> h[i]]
    OBVIOUS
  <2> HIDE DEF h
  <2>6. ASSUME NEW i \in 0..(d + 1)
        PROVE  h[i] = IF i = 0 THEN [inside |-> TRUE, stack |-> <<>>]
                      ELSE Step(h[i - 1], segs[i])
    <3>1. CASE i = d + 1
      <4>1. i # 0 /\ i - 1 = d /\ d \in 0..d
        BY <3>1
      <4> QED
        BY <2>2, <2>4, <3>1, <4>1
    <3>2. CASE i # d + 1
      <4>1. i \in 0..d /\ (i # 0 => i - 1 \in 0..d)
        BY <3>2
      <4> QED
        BY <2>2, <2>3, <4>1
    <3> QED
      BY <3>1, <3>2
  <2>7. h = WalkedBy(segs, d + 1, h)
    BY <2>5, <2>6 DEF WalkedBy
  <2> QED
    BY <1>1, <2>7
<1>5. D = {}
  <2> SUFFICES ASSUME D # {} PROVE FALSE
    OBVIOUS
  <2>1. Min(D) \in D /\ \A y \in D : Min(D) <= y
    BY <1>2, LeastOf
  <2>2. Min(D) \in Nat /\ Min(D) # 0
    BY <1>2, <1>3, <2>1
  <2>3. Min(D) - 1 \in Nat /\ ~(Min(D) <= Min(D) - 1) /\ (Min(D) - 1) + 1 = Min(D)
    BY <2>2
  <2>4. Min(D) - 1 \notin D
    BY <2>1, <2>3
  <2> QED
    BY <1>4, <2>1, <2>3, <2>4
<1> QED
  BY <1>1, <1>5

LEMMA WalkTyped ==
  ASSUME NEW segs \in Segments
  PROVE  Walk(segs) \in Walks
<1> DEFINE n == Len(segs)
           f == CHOOSE walked : walked = WalkedBy(segs, n, walked)
<1>0. n \in Nat /\ \A i \in 1..n : segs[i] \in STRING
  BY DEF Segments
<1>1. f = WalkedBy(segs, n, f)
  BY <1>0, WalkExists
<1>2. Walk(segs) = f[n]
  BY Zenon DEF Walk, WalkedBy
<1> HIDE DEF f
<1>3. \A i \in 0..n : f[i] = IF i = 0 THEN [inside |-> TRUE, stack |-> <<>>]
                             ELSE Step(f[i - 1], segs[i])
  BY <1>1 DEF WalkedBy
<1> HIDE DEF n
<1> DEFINE D == {i \in 0..n : f[i] \notin Walks}
<1>4. D \in SUBSET Nat
  BY <1>0
<1>5. D = {}
  <2> SUFFICES ASSUME D # {} PROVE FALSE
    OBVIOUS
  <2>1. Min(D) \in D /\ \A y \in D : Min(D) <= y
    <3> HIDE DEF D
    <3> QED
      BY <1>4, LeastOf
  <2> DEFINE i == Min(D)
  <2>2. i \in 0..n /\ f[i] \notin Walks /\ \A y \in 0..n : y < i => f[y] \in Walks
    BY <1>4, <2>1
  <2> HIDE DEF i, D
  <2>3. i # 0
    <3>1. <<>> \in Seq(STRING)
      OBVIOUS
    <3>2. [inside |-> TRUE, stack |-> <<>>] \in Walks
      BY <3>1 DEF Walks, Segments
    <3> QED
      BY <1>0, <1>3, <2>2, <3>2
  <2>4. i - 1 \in 0..n /\ i - 1 < i /\ i \in 1..n
    BY <1>0, <2>2, <2>3
  <2>5. f[i] \in Walks
    <3>1. f[i] = Step(f[i - 1], segs[i])
      BY <1>3, <2>2, <2>3
    <3>2. f[i - 1] \in Walks /\ segs[i] \in STRING
      BY <1>0, <2>2, <2>4
    <3> QED
      BY <3>1, <3>2, StepTyped
  <2> QED
    BY <2>2, <2>5
<1>6. f[n] \in Walks
  BY <1>0, <1>5
<1> QED
  BY <1>2, <1>6

LEMMA BehindTyped ==
  ASSUME NEW segs \in Segments, NEW n \in Nat
  PROVE  Behind(segs, n) \in Segments
<1>1. Behind(segs, n) = SubSeq(segs, n + 1, Len(segs))
  BY DEF Behind
<1>2. SubSeq(segs, n + 1, Len(segs)) \in Seq(STRING)
  <2>1. Len(segs) \in Nat /\ \A i \in (n + 1)..Len(segs) : segs[i] \in STRING
    BY DEF Segments
  <2> QED
    BY <2>1 DEF Segments
<1> QED
  BY <1>1, <1>2 DEF Segments

LEMMA BelowTyped ==
  ASSUME NEW segs \in Segments, NEW starts \in SUBSET Nat, NEW skip \in Nat, NEW main
  PROVE  Below(segs, starts, skip, main) \in Segments
<1> DEFINE fits == {i \in starts : i + skip < Len(segs) /\ (main => segs[i + skip] = "_main")}
<1>1. Below(segs, starts, skip, main) =
        IF fits = {} THEN <<>> ELSE Behind(segs, Min(fits) + skip)
  BY DEF Below
<1>2. fits \in SUBSET Nat
  OBVIOUS
<1> HIDE DEF fits
<1>3. ASSUME fits # {}
      PROVE  Min(fits) + skip \in Nat
  <2>1. Min(fits) \in fits
    BY <1>2, <1>3, LeastOf
  <2>2. Min(fits) \in Nat
    BY <1>2, <2>1
  <2> QED
    BY <2>2
<1>4. <<>> \in Segments
  BY DEF Segments
<1> QED
  BY <1>1, <1>3, <1>4, BehindTyped

\* Seven candidates, each a sequence of segments.
LEMMA CandidatesTyped ==
  ASSUME NEW source, source.segs \in Segments, NEW hasContext
  PROVE  /\ DOMAIN Candidates(source, hasContext) = 1..7
         /\ \A c \in 1..7 : Candidates(source, hasContext)[c] \in Segments
<1> DEFINE path == Normalized(source)
           end == Walk(source.segs)
<1>0. <<>> \in Segments
  BY DEF Segments
<1>1. path.segs \in Segments
  <2>1. end \in Walks
    BY WalkTyped
  <2>2. end.stack \in Segments
    BY <2>1 DEF Walks
  <2>3. path.segs = IF end.inside THEN end.stack ELSE <<>>
    BY DEF Normalized, NoPath
  <2> QED
    BY <1>0, <2>2, <2>3
<1> HIDE DEF path, end
<1>2. \A root : root.segs \in Segments => Stripped(path, root) \in Segments
  <2> SUFFICES ASSUME NEW root, root.segs \in Segments
               PROVE  Stripped(path, root) \in Segments
    OBVIOUS
  <2>1. Len(root.segs) \in Nat
    BY DEF Segments
  <2>2. Behind(path.segs, Len(root.segs)) \in Segments
    BY <1>1, <2>1, BehindTyped
  <2> QED
    BY <1>0, <2>2 DEF Stripped
<1>3. \A segs \in Segments : Internal(segs) \in Segments
  BY <1>0 DEF Internal
<1> DEFINE roots == {i \in DOMAIN path.segs : path.segs[i] = "execroot" /\ (path.abs \/ i > 1)}
           trees == {i \in DOMAIN path.segs : path.segs[i] \in RunfilesTrees}
           d1 == Internal(Below(path.segs, roots, 2, TRUE))
           d2 == Internal(Below(path.segs, roots, 1, FALSE))
           d3 == Internal(Below(path.segs, trees, 1, TRUE))
           d4 == Internal(Below(path.segs, trees, 1, FALSE))
<1>4. Derived(path) = <<d1, d2, d3, d4>>
  BY DEF Derived
<1>5. roots \in SUBSET Nat /\ trees \in SUBSET Nat
  BY <1>1 DEF Segments
<1> HIDE DEF roots, trees
<1>6. /\ Below(path.segs, roots, 2, TRUE) \in Segments
      /\ Below(path.segs, roots, 1, FALSE) \in Segments
      /\ Below(path.segs, trees, 1, TRUE) \in Segments
      /\ Below(path.segs, trees, 1, FALSE) \in Segments
  BY <1>1, <1>5, BelowTyped
<1>7. d1 \in Segments /\ d2 \in Segments /\ d3 \in Segments /\ d4 \in Segments
  BY <1>3, <1>6
<1> DEFINE s1 == IF hasContext THEN Stripped(path, ContextWorkspace) ELSE <<>>
           s2 == Stripped(path, Workspace)
           own == IF path.abs THEN <<>> ELSE path.segs
           all == <<s1, s2>> \o Derived(path) \o <<own>>
<1>8. s1 \in Segments /\ s2 \in Segments /\ own \in Segments
  <2>1. Workspace.segs \in Segments /\ ContextWorkspace.segs \in Segments
    BY CodeOwnersAssumption DEF Segments
  <2> QED
    BY <1>0, <1>1, <1>2, <2>1
<1>9. Candidates(source, hasContext) =
        [c \in DOMAIN all |-> IF IsStrictPrefix(<<"bazel-out">>, all[c]) THEN <<>> ELSE all[c]]
  BY DEF Candidates, path
<1> HIDE DEF s1, s2, own, d1, d2, d3, d4
<1>10. all \in Seq(Segments) /\ Len(all) = 7
  BY <1>4, <1>7, <1>8
<1> HIDE DEF all
<1>11. DOMAIN all = 1..7 /\ \A c \in 1..7 : all[c] \in Segments
  BY <1>10
<1> QED
  BY <1>0, <1>9, <1>11

-----------------------------------------------------------------------------
(* Rules                                                                   *)

\* match_source finds the owners that the rules mean: those of the last rule
\* that covers the first covered candidate, for every file of rules and source.
THEOREM OwnersAsMeant ==
  ASSUME NEW rules, RuleList(rules), NEW source, source.segs \in Segments, NEW hasContext
  PROVE  Owners(rules, source, hasContext) = OwnersByReference(rules, source, hasContext)
<1> DEFINE candidates == Candidates(source, hasContext)
           covering(c) == {i \in Parsed(rules) : Covers(rules[i], candidates[c])}
           covered == {c \in DOMAIN candidates : covering(c) # {}}
           hit == {c \in DOMAIN candidates : LastHit(rules, candidates[c]) # 0}
<1>1. DOMAIN candidates = 1..7 /\ \A c \in 1..7 : candidates[c] \in Segments
  BY CandidatesTyped
<1> HIDE DEF candidates
<1>2. ASSUME NEW c \in 1..7
      PROVE  LastHit(rules, candidates[c]) = IF covering(c) = {} THEN 0 ELSE Max(covering(c))
  <2>0. Len(candidates[c]) \in Nat
    BY <1>1 DEF Segments
  <2>1. \A i \in Parsed(rules) : Hits(rules[i], candidates[c]) <=> Covers(rules[i], candidates[c])
    BY <2>0, HitsIsCovers DEF RuleList
  <2>2. {i \in Parsed(rules) : Hits(rules[i], candidates[c])} = covering(c)
    BY <2>1
  <2> HIDE DEF covering
  <2> QED
    BY <2>2 DEF LastHit
<1>3. ASSUME NEW c \in 1..7, covering(c) # {}
      PROVE  Max(covering(c)) # 0
  <2>1. covering(c) \in SUBSET (1..Len(rules)) /\ Len(rules) \in Nat
    BY DEF RuleList, Parsed
  <2> HIDE DEF covering
  <2>2. Max(covering(c)) \in covering(c)
    BY <1>3, <2>1, GreatestOf
  <2> QED
    BY <2>1, <2>2
<1> HIDE DEF covering
<1>4. hit = covered
  BY <1>1, <1>2, <1>3
<1>5. ASSUME covered # {}
      PROVE  Min(covered) \in 1..7 /\ covering(Min(covered)) # {}
  <2>1. covered \in SUBSET Nat
    BY <1>1
  <2>2. Min(covered) \in covered
    <3> HIDE DEF covered
    <3> QED
      BY <1>5, <2>1, LeastOf
  <2> QED
    BY <1>1, <2>2
<1>6. Owners(rules, source, hasContext) =
        IF hit = {} THEN {} ELSE rules[LastHit(rules, candidates[Min(hit)])].owners
  BY DEF Owners, candidates
<1>7. OwnersByReference(rules, source, hasContext) =
        IF covered = {} THEN {} ELSE rules[Max(covering(Min(covered)))].owners
  BY DEF OwnersByReference, candidates, covering
<1> HIDE DEF hit, covered
<1> QED
  BY <1>2, <1>4, <1>5, <1>6, <1>7

-----------------------------------------------------------------------------
(* One more invocation, and the same ones with a longer record             *)

\* A later invocation is the last writer of its keys, and the first one only
\* of keys that nobody wrote.
LEMMA OneMoreWriter ==
  ASSUME NEW p, NEW ch, NEW r \in Nat, NEW R \in SUBSET Nat, \A q \in R : q < r,
         NEW k, NEW kind
  PROVE  LET W == Writers(p, ch, R, k, kind)
             V == Writers(p, ch, R \cup {r}, k, kind)
         IN  /\ k \in KeysOf(p, ch, r, kind) =>
                  V # {} /\ Max(V) = r /\ Min(V) = IF W = {} THEN r ELSE Min(W)
             /\ k \notin KeysOf(p, ch, r, kind) => V = W
<1> DEFINE W == Writers(p, ch, R, k, kind)
           V == Writers(p, ch, R \cup {r}, k, kind)
<1>1. W \in SUBSET Nat /\ \A w \in W : w < r
  BY DEF Writers
<1>2. k \notin KeysOf(p, ch, r, kind) => V = W
  BY DEF Writers
<1>3. ASSUME k \in KeysOf(p, ch, r, kind)
      PROVE  V = W \cup {r}
  BY <1>3 DEF Writers
<1> HIDE DEF V, W
<1>4. ASSUME k \in KeysOf(p, ch, r, kind)
      PROVE  V # {} /\ Max(V) = r /\ Min(V) = IF W = {} THEN r ELSE Min(W)
  <2>1. V = W \cup {r} /\ Max(W \cup {r}) = r /\ (W # {} => Min(W \cup {r}) = Min(W))
    BY <1>1, <1>3, <1>4, LaterOne
  <2>2. CASE W = {}
    BY <2>1, <2>2, LaterOne
  <2>3. CASE W # {}
    BY <2>1, <2>3
  <2> QED
    BY <2>1, <2>2, <2>3
<1> QED
  BY <1>2, <1>4 DEF V, W

\* _merge_flat_metadata, once more.
LEMMA MetaGrows ==
  ASSUME NEW p, NEW ch, NEW e, NEW r \in Nat, NEW R \in SUBSET Nat, \A q \in R : q < r
  PROVE  MetaAfter(p, ch, e, R \cup {r}) =
           [k \in DOMAIN p.events[e].meta |->
              IF k \in p.sidecar THEN Sidecar
              ELSE IF k \in KeysOf(p, ch, r, "text") THEN ContextOf(p, ch, r)
              ELSE MetaAfter(p, ch, e, R)[k]]
<1>0. ASSUME NEW k
      PROVE  /\ k \in KeysOf(p, ch, r, "text") =>
                  /\ Writers(p, ch, R \cup {r}, k, "text") # {}
                  /\ Max(Writers(p, ch, R \cup {r}, k, "text")) = r
             /\ k \notin KeysOf(p, ch, r, "text") =>
                  Writers(p, ch, R \cup {r}, k, "text") = Writers(p, ch, R, k, "text")
  BY OneMoreWriter
<1> DEFINE D == DOMAIN p.events[e].meta
           F == MetaAfter(p, ch, e, R \cup {r})
<1>1. ASSUME NEW k \in D
      PROVE  F[k] = IF k \in p.sidecar THEN Sidecar
                    ELSE IF k \in KeysOf(p, ch, r, "text") THEN ContextOf(p, ch, r)
                    ELSE MetaAfter(p, ch, e, R)[k]
  <2> DEFINE Q == R \cup {r}
  <2>0. Q # {}
    OBVIOUS
  <2> HIDE DEF Q
  <2>9. MetaAfter(p, ch, e, Q)[k] =
          IF k \in p.sidecar THEN Sidecar
          ELSE IF Writers(p, ch, Q, k, "text") = {} THEN p.events[e].meta[k]
          ELSE ContextOf(p, ch, Max(Writers(p, ch, Q, k, "text")))
    BY <2>0 DEF MetaAfter
  <2>1. F[k] = IF k \in p.sidecar THEN Sidecar
               ELSE IF Writers(p, ch, R \cup {r}, k, "text") = {} THEN p.events[e].meta[k]
               ELSE ContextOf(p, ch, Max(Writers(p, ch, R \cup {r}, k, "text")))
    BY <2>9 DEF Q
  <2> HIDE DEF F
  <2>2. CASE k \in p.sidecar
    BY <2>1, <2>2
  <2>3. CASE k \notin p.sidecar /\ k \in KeysOf(p, ch, r, "text")
    <3>1. /\ Writers(p, ch, R \cup {r}, k, "text") # {}
          /\ Max(Writers(p, ch, R \cup {r}, k, "text")) = r
      BY <1>0, <2>3
    <3> QED
      BY <2>1, <2>3, <3>1
  <2>4. CASE k \notin p.sidecar /\ k \notin KeysOf(p, ch, r, "text")
    <3>1. Writers(p, ch, R \cup {r}, k, "text") = Writers(p, ch, R, k, "text")
      BY <1>0, <2>4
    <3>2. MetaAfter(p, ch, e, R)[k] =
            IF Writers(p, ch, R, k, "text") = {} THEN p.events[e].meta[k]
            ELSE ContextOf(p, ch, Max(Writers(p, ch, R, k, "text")))
      BY <2>4 DEF MetaAfter
    <3> QED
      BY <2>1, <2>4, <3>1, <3>2
  <2> QED
    BY <2>2, <2>3, <2>4
<1>2. F = [k \in D |-> F[k]]
  BY DEF MetaAfter
<1> HIDE DEF F
<1>3. F = [k \in D |->
             IF k \in p.sidecar THEN Sidecar
             ELSE IF k \in KeysOf(p, ch, r, "text") THEN ContextOf(p, ch, r)
             ELSE MetaAfter(p, ch, e, R)[k]]
  BY <1>1, <1>2
<1> QED
  BY <1>3 DEF F

\* The numbers of the context, once more.
LEMMA MetricsGrow ==
  ASSUME NEW p, NEW ch, NEW e, NEW r \in Nat, NEW R \in SUBSET Nat, \A q \in R : q < r
  PROVE  MetricsAfter(p, ch, e, R \cup {r}) =
           [k \in DOMAIN p.events[e].metrics |->
              IF k \in KeysOf(p, ch, r, "number") THEN ContextOf(p, ch, r)
              ELSE MetricsAfter(p, ch, e, R)[k]]
<1> SUFFICES ASSUME NEW k \in DOMAIN p.events[e].metrics
             PROVE  (IF Writers(p, ch, R \cup {r}, k, "number") = {} THEN p.events[e].metrics[k]
                     ELSE ContextOf(p, ch, Max(Writers(p, ch, R \cup {r}, k, "number"))))
                    = IF k \in KeysOf(p, ch, r, "number") THEN ContextOf(p, ch, r)
                      ELSE MetricsAfter(p, ch, e, R)[k]
  BY DEF MetricsAfter
<1>1. CASE k \in KeysOf(p, ch, r, "number")
  BY <1>1, OneMoreWriter
<1>2. CASE k \notin KeysOf(p, ch, r, "number")
  <2>1. Writers(p, ch, R \cup {r}, k, "number") = Writers(p, ch, R, k, "number")
    BY <1>2, OneMoreWriter
  <2> QED
    BY <1>2, <2>1 DEF MetricsAfter
<1> QED
  BY <1>1, <1>2

\* The environment, once more: the first one stays.
LEMMA EnvGrows ==
  ASSUME NEW p, NEW ch, NEW r \in Nat, r > 0,
         NEW R \in SUBSET (Nat \ {0}), \A q \in R : q < r
  PROVE  EnvAfter(p, ch, R \cup {r}) =
           IF EnvAfter(p, ch, R) = Nothing /\ "env" \in KeysOf(p, ch, r, "text")
             THEN ContextOf(p, ch, r) ELSE EnvAfter(p, ch, R)
<1> DEFINE W == Writers(p, ch, R, "env", "text")
           V == Writers(p, ch, R \cup {r}, "env", "text")
<1>1. W \in SUBSET (Nat \ {0}) /\ R \in SUBSET Nat
  BY DEF Writers
<1>2. /\ "env" \in KeysOf(p, ch, r, "text") =>
           V # {} /\ Min(V) = IF W = {} THEN r ELSE Min(W)
      /\ "env" \notin KeysOf(p, ch, r, "text") => V = W
  BY <1>1, OneMoreWriter
<1>3. EnvAfter(p, ch, R) = Nothing <=> W = {}
  <2>1. W = {} => EnvAfter(p, ch, R) = Nothing
    BY DEF EnvAfter
  <2>2. ASSUME W # {} PROVE EnvAfter(p, ch, R) # Nothing
    <3> HIDE DEF W
    <3>1. Min(W) \in W
      BY <1>1, <2>2, LeastOf
    <3>2. Min(W) # 0
      BY <1>1, <3>1
    <3>3. EnvAfter(p, ch, R) = <<Min(W), Select(ch[Min(W)], p.repo)>>
      BY <2>2 DEF EnvAfter, W, ContextOf
    <3> QED
      BY <3>2, <3>3 DEF Nothing
  <2> QED
    BY <2>1, <2>2
<1>4. /\ EnvAfter(p, ch, R) = IF W = {} THEN Nothing ELSE ContextOf(p, ch, Min(W))
      /\ EnvAfter(p, ch, R \cup {r}) = IF V = {} THEN Nothing ELSE ContextOf(p, ch, Min(V))
  BY DEF EnvAfter
<1> HIDE DEF V, W
<1> QED
  BY <1>2, <1>3, <1>4

\* The owners are those of the first invocation that finds some.
LEMMA OwnersGrow ==
  ASSUME NEW p, NEW ch, NEW e, NEW r \in Nat, NEW R \in SUBSET Nat, \A q \in R : q < r
  PROVE  OwnersAfter(p, ch, e, R \cup {r}) =
           IF p.events[e].type = "span" \/ OwnersAfter(p, ch, e, R) # {}
           THEN OwnersAfter(p, ch, e, R) ELSE Meant(p, ch, e, r)
<1> DEFINE produced == p.events[e]
           W == Finders(p, ch, e, R)
           V == Finders(p, ch, e, R \cup {r})
           meant(q) == Meant(p, ch, e, q)
<1>1. /\ OwnersAfter(p, ch, e, R) =
           IF produced.type = "span" \/ produced.owners # {} \/ W = {}
           THEN produced.owners ELSE meant(Min(W))
      /\ OwnersAfter(p, ch, e, R \cup {r}) =
           IF produced.type = "span" \/ produced.owners # {} \/ V = {}
           THEN produced.owners ELSE meant(Min(V))
  BY DEF OwnersAfter
<1>2. W \in SUBSET Nat /\ (\A w \in W : w < r) /\ \A w \in W : meant(w) # {}
  BY DEF Finders
<1>3. V = IF meant(r) # {} THEN W \cup {r} ELSE W
  BY DEF Finders
<1> HIDE DEF produced, W, V, meant
<1>4. CASE produced.type = "span" \/ produced.owners # {}
  BY <1>1, <1>4 DEF produced
<1>5. CASE produced.type # "span" /\ produced.owners = {} /\ W # {}
  <2>1. Min(W) \in W
    BY <1>2, <1>5, LeastOf
  <2>2. meant(Min(W)) # {}
    BY <1>2, <2>1
  <2>3. V # {} /\ Min(V) = Min(W)
    BY <1>2, <1>3, <1>5, LaterOne
  <2> QED
    BY <1>1, <1>5, <2>2, <2>3 DEF produced
<1>6. CASE produced.type # "span" /\ produced.owners = {} /\ W = {}
  <2>1. OwnersAfter(p, ch, e, R) = {}
    BY <1>1, <1>6
  <2>2. OwnersAfter(p, ch, e, R \cup {r}) = meant(r)
    <3>1. CASE meant(r) # {}
      <4>1. V = {r} /\ Min({r}) = r
        BY <1>2, <1>3, <1>6, <3>1, LaterOne
      <4> QED
        BY <1>1, <1>6, <4>1
    <3>2. CASE meant(r) = {}
      BY <1>1, <1>3, <1>6, <3>2
    <3> QED
      BY <3>1, <3>2
  <2> QED
    BY <1>6, <2>1, <2>2 DEF produced, meant
<1> QED
  BY <1>4, <1>5, <1>6

LEMMA AmongRuns ==
  ASSUME NEW n \in Nat, NEW R \in SUBSET (1..n), NEW W, W \subseteq R
  PROVE  W \in SUBSET (1..n) /\ W \in SUBSET Nat
<1>1. 1..n \subseteq Nat
  BY SMT
<1> QED
  BY <1>1, Zenon

\* What the invocations R were given decides about the values.
LEMMA SameInvocations ==
  ASSUME NEW p, NEW ch, NEW cc, NEW n \in Nat, NEW R \in SUBSET (1..n),
         \A r \in 1..n : ch[r] = cc[r]
  PROVE  /\ \A e : MetaAfter(p, ch, e, R) = MetaAfter(p, cc, e, R)
         /\ \A e : MetricsAfter(p, ch, e, R) = MetricsAfter(p, cc, e, R)
         /\ EnvAfter(p, ch, R) = EnvAfter(p, cc, R)
         /\ \A e : OwnersAfter(p, ch, e, R) = OwnersAfter(p, cc, e, R)
<1>1. \A r \in 1..n : ContextOf(p, ch, r) = ContextOf(p, cc, r)
  BY DEF ContextOf
<1>2. \A k, kind : Writers(p, ch, R, k, kind) = Writers(p, cc, R, k, kind)
  BY <1>1 DEF Writers, KeysOf
<1>3. \A k, kind : Writers(p, ch, R, k, kind) # {} =>
        /\ Max(Writers(p, ch, R, k, kind)) \in 1..n
        /\ Min(Writers(p, ch, R, k, kind)) \in 1..n
  <2> SUFFICES ASSUME NEW k, NEW kind, Writers(p, ch, R, k, kind) # {}
               PROVE  /\ Max(Writers(p, ch, R, k, kind)) \in 1..n
                      /\ Min(Writers(p, ch, R, k, kind)) \in 1..n
    OBVIOUS
  <2> DEFINE W == Writers(p, ch, R, k, kind)
  <2>1. W \in SUBSET (1..n)
    BY DEF Writers
  <2> HIDE DEF W
  <2>2. W \in SUBSET Nat
    BY <2>1
  <2>3. W # {} => Max(W) \in W /\ Min(W) \in W
    BY <2>1, <2>2, LeastOf, GreatestOf
  <2> QED
    BY <2>1, <2>3 DEF W
<1>4. \A k, kind : Writers(p, ch, R, k, kind) # {} =>
        /\ ContextOf(p, ch, Max(Writers(p, ch, R, k, kind))) =
             ContextOf(p, cc, Max(Writers(p, cc, R, k, kind)))
        /\ ContextOf(p, ch, Min(Writers(p, ch, R, k, kind))) =
             ContextOf(p, cc, Min(Writers(p, cc, R, k, kind)))
  BY <1>1, <1>2, <1>3
<1>5. \A e : MetaAfter(p, ch, e, R) = MetaAfter(p, cc, e, R)
  BY <1>2, <1>4 DEF MetaAfter
<1>6. \A e : MetricsAfter(p, ch, e, R) = MetricsAfter(p, cc, e, R)
  BY <1>2, <1>4 DEF MetricsAfter
<1>7. EnvAfter(p, ch, R) = EnvAfter(p, cc, R)
  BY <1>2, <1>4 DEF EnvAfter
<1>8. ASSUME NEW e
      PROVE  OwnersAfter(p, ch, e, R) = OwnersAfter(p, cc, e, R)
  <2>1. \A r \in 1..n : Meant(p, ch, e, r) = Meant(p, cc, e, r)
    BY DEF Meant
  <2>2. Finders(p, ch, e, R) = Finders(p, cc, e, R)
    BY <2>1 DEF Finders
  <2> DEFINE W == Finders(p, ch, e, R)
  <2>0. W \subseteq R
    BY Zenon DEF Finders
  <2>3. W \in SUBSET (1..n) /\ W \in SUBSET Nat
    BY <2>0, AmongRuns, Zenon
  <2>4. W # {} => Min(W) \in 1..n
    <3> HIDE DEF W
    <3> QED
      BY <2>3, LeastOf
  <2> QED
    BY <2>1, <2>2, <2>4 DEF OwnersAfter
<1> QED
  BY <1>5, <1>6, <1>7, <1>8

\* Nothing happened to what no invocation handled.
LEMMA BeforeAll ==
  ASSUME NEW p \in Payloads, NEW ch
  PROVE  FileAfter(p, ch, [env |-> Nothing, events |-> p.events], {})
<1>1. \A k, kind : Writers(p, ch, {}, k, kind) = {}
  BY DEF Writers
<1>2. EnvAfter(p, ch, {}) = Nothing
  BY <1>1 DEF EnvAfter
<1>3. ASSUME NEW e \in DOMAIN p.events
      PROVE  EventAfter(p, ch, p.events[e], e, {})
  <2> DEFINE v == p.events[e]
  <2>1. /\ v = [type |-> v.type, source |-> v.source, owners |-> v.owners,
                meta |-> v.meta, metrics |-> v.metrics]
        /\ v.meta \in [DOMAIN v.meta -> {Nothing, Producer}]
        /\ v.metrics \in [DOMAIN v.metrics -> {Nothing, Producer}]
    BY EnrichmentAssumption
  <2>2. MetaAfter(p, ch, e, {}) = v.meta
    BY <1>1, <2>1 DEF MetaAfter
  <2>3. MetricsAfter(p, ch, e, {}) = v.metrics
    BY <1>1, <2>1 DEF MetricsAfter
  <2>5. OwnersAfter(p, ch, e, {}) = v.owners
    BY DEF OwnersAfter, Finders
  <2>6. v.type = p.events[e].type /\ v.source = p.events[e].source
    OBVIOUS
  <2> HIDE DEF v
  <2>7. v = [type |-> p.events[e].type, source |-> p.events[e].source,
             owners |-> OwnersAfter(p, ch, e, {}),
             meta |-> MetaAfter(p, ch, e, {}), metrics |-> MetricsAfter(p, ch, e, {})]
    BY <2>1, <2>2, <2>3, <2>5, <2>6
  <2>4. EventAfter(p, ch, v, e, {})
    BY <2>7 DEF EventAfter
  <2> QED
    BY <2>4 DEF v
<1> QED
  BY <1>2, <1>3 DEF FileAfter

LEMMA SameFiles ==
  ASSUME NEW p, NEW ch, NEW cc, NEW n \in Nat, NEW R \in SUBSET (1..n),
         \A r \in 1..n : ch[r] = cc[r]
  PROVE  /\ \A x : FileAfter(p, ch, x, R) => FileAfter(p, cc, x, R)
         /\ \A c : SentAfter(p, ch, c, R) => SentAfter(p, cc, c, R)
<1>1. /\ \A e : MetaAfter(p, ch, e, R) = MetaAfter(p, cc, e, R)
      /\ \A e : MetricsAfter(p, ch, e, R) = MetricsAfter(p, cc, e, R)
      /\ EnvAfter(p, ch, R) = EnvAfter(p, cc, R)
      /\ \A e : OwnersAfter(p, ch, e, R) = OwnersAfter(p, cc, e, R)
  BY SameInvocations
<1>2. \A v, e : EventAfter(p, ch, v, e, R) => EventAfter(p, cc, v, e, R)
  BY <1>1 DEF EventAfter
<1> QED
  BY <1>1, <1>2 DEF FileAfter, SentAfter

-----------------------------------------------------------------------------
(* The steps                                                               *)

LEMMA TagsInit == Init => TagsInv
<1> SUFFICES ASSUME Init PROVE TagsInv
  OBVIOUS
<1>1. FileAfter(payload, chosen, disk, {})
  BY BeforeAll DEF Init
<1> QED
  BY <1>1 DEF Init, TagsInv

LEMMA BeginStep ==
  ASSUME TagsInv, Begin
  PROVE  TagsInv'
<1> USE DEF Begin
<1>1. PICK given \in Inputs :
        /\ chosen' = Append(chosen, given)
        /\ stage' = IF LoadRefused(given) THEN "idle" ELSE "loaded"
  OBVIOUS
<1>2. /\ run \in Nat /\ chosen \in Seq(Inputs) /\ Len(chosen) = run
      /\ kept \in SUBSET (1..run)
  BY DEF TagsInv
<1>3. /\ chosen' \in Seq(Inputs) /\ Len(chosen') = run + 1
      /\ \A r \in 1..run : chosen[r] = chosen'[r]
  BY <1>1, <1>2
<1>4. /\ run' = run + 1 /\ run' \in Nat /\ run' > 0 /\ run' \notin kept
      /\ kept' \in SUBSET (1..run') /\ 1..run \subseteq 1..run'
  BY <1>2
<1>5. FileAfter(payload, chosen', disk, kept)
  <2>1. FileAfter(payload, chosen, disk, kept)
    BY DEF TagsInv
  <2> QED
    BY <1>2, <1>3, <2>1, SameFiles
<1>6. ASSUME NEW c \in sent
      PROVE  c.run \in 1..run /\ SentAfter(payload, chosen', c, Earlier(kept, c.run))
  <2>1. c.run \in 1..run /\ SentAfter(payload, chosen, c, Earlier(kept, c.run))
    BY DEF TagsInv
  <2>2. Earlier(kept, c.run) \in SUBSET (1..run)
    BY <1>2, <2>1 DEF Earlier
  <2> QED
    BY <1>2, <1>3, <2>1, <2>2, SameFiles
<1>7. stage' \in {"idle", "loaded"}
  BY <1>1
<1> QED
  BY <1>1, <1>3, <1>4, <1>5, <1>6, <1>7 DEF TagsInv

\* What the model merges is what the context selected in this invocation has.
LEMMA ContextNow ==
  ASSUME run \in Nat, run > 0
  PROVE  /\ \A kind : Written(kind) = KeysOf(payload, chosen, run, kind)
         /\ \A kind : Written(kind) # {} => Context = ContextOf(payload, chosen, run)
         /\ Context # NoContext /\ "env" \in Writes[run]["text"]
              <=> "env" \in KeysOf(payload, chosen, run, "text")
<1> DEFINE i == Select(chosen[run], payload.repo)
<1>1. Context = IF i = -1 THEN NoContext ELSE <<run, i>>
  BY DEF Context
<1>2. ContextOf(payload, chosen, run) = <<run, i>> /\ ContextOf(payload, chosen, run)[2] = i
  BY DEF ContextOf
<1> HIDE DEF i
<1>3. <<run, i>> # NoContext
  BY DEF NoContext
<1>4. Context = NoContext <=> i = -1
  BY <1>1, <1>3
<1>5. Fingerprint # "env"
  BY EnrichmentAssumption
<1> QED
  BY <1>1, <1>2, <1>4, <1>5 DEF Written, KeysOf

\* EnrichEvent as the record it makes.
LEMMA EventEnriched ==
  ASSUME NEW v, NEW meta, NEW metrics,
         v = [type |-> v.type, source |-> v.source, owners |-> v.owners,
              meta |-> meta, metrics |-> metrics]
  PROVE  EnrichEvent(v) =
           [type |-> v.type, source |-> v.source, owners |-> Own(v),
            meta |-> Merge(v.meta, Written("text")),
            metrics |-> [k \in DOMAIN v.metrics |->
                           IF k \in Written("number") THEN Context ELSE v.metrics[k]]]
<1>1. EnrichEvent(v) =
        [v EXCEPT !.meta = Merge(v.meta, Written("text")),
                  !.metrics = [k \in DOMAIN v.metrics |->
                                 IF k \in Written("number") THEN Context ELSE v.metrics[k]],
                  !.owners = Own(v)]
  BY DEF EnrichEvent
<1> DEFINE a == Merge(v.meta, Written("text"))
           b == [k \in DOMAIN v.metrics |->
                   IF k \in Written("number") THEN Context ELSE v.metrics[k]]
           o == Own(v)
<1>2. EnrichEvent(v) = [v EXCEPT !.meta = a, !.metrics = b, !.owners = o]
  BY <1>1
<1> HIDE DEF a, b, o
<1>3. EnrichEvent(v) = [type |-> v.type, source |-> v.source, owners |-> o,
                        meta |-> a, metrics |-> b]
  BY <1>2
<1> QED
  BY <1>3 DEF a, b, o

\* load_codeowners_matcher gives a list of rules.
LEMMA LoadedRules ==
  ASSUME NEW given \in Inputs
  PROVE  RuleList(LoadRules(given.places))
<1> DEFINE places == given.places
           files == {i \in DOMAIN places : places[i].state # "absent"}
<1>1. DOMAIN places \subseteq Nat /\ \A i \in DOMAIN places : RuleList(places[i].lines)
  BY EnrichmentAssumption
<1>2. RuleList(<<>>)
  BY DEF RuleList, Parsed
<1>3. files \in SUBSET Nat /\ files \subseteq DOMAIN places
  BY <1>1
<1>4. LoadRules(places) = IF files = {} \/ places[Min(files)].state = "unreadable" THEN <<>>
                          ELSE places[Min(files)].lines
  BY DEF LoadRules
<1> HIDE DEF files
<1>5. files # {} => Min(files) \in DOMAIN places
  BY <1>3, LeastOf
<1> QED
  BY <1>1, <1>2, <1>4, <1>5

\* An event without owners gets what the rules of this invocation mean.
LEMMA OwnNow ==
  ASSUME payload \in Payloads, run \in Nat, run > 0, chosen \in Seq(Inputs), Len(chosen) = run,
         NEW e \in DOMAIN payload.events, NEW v, v.type = payload.events[e].type,
         v.source = payload.events[e].source
  PROVE  Own(v) = IF v.type = "span" \/ v.owners # {} THEN v.owners
                  ELSE Meant(payload, chosen, e, run)
<1>1. chosen[run] \in Inputs
  OBVIOUS
<1>2. RuleList(LoadRules(chosen[run].places))
  BY <1>1, LoadedRules
<1>3. payload.events[e].source.segs \in Segments
  BY EnrichmentAssumption DEF Segments
<1>4. Owners(Rules, v.source, HasContext) = Meant(payload, chosen, e, run)
  BY <1>2, <1>3, OwnersAsMeant DEF Rules, HasContext, Meant
<1> QED
  BY <1>4 DEF Own

LEMMA EnrichStep ==
  ASSUME TagsInv, Enrich
  PROVE  TagsInv'
<1> USE DEF Enrich
<1> DEFINE R == kept \cup {run}
<1>1. /\ run \in Nat /\ run > 0 /\ kept \in SUBSET (1..run) /\ run \notin kept
      /\ FileAfter(payload, chosen, copy, kept)
  BY DEF TagsInv
<1>2. /\ kept \in SUBSET Nat /\ kept \in SUBSET (Nat \ {0}) /\ \A q \in kept : q < run
  BY <1>1
<1>3. EnrichEnv(copy.env) = EnvAfter(payload, chosen, R)
  <2>1. copy.env = EnvAfter(payload, chosen, kept)
    BY <1>1 DEF FileAfter
  <2>2. EnvAfter(payload, chosen, R) =
          IF copy.env = Nothing /\ "env" \in KeysOf(payload, chosen, run, "text")
            THEN ContextOf(payload, chosen, run) ELSE copy.env
    BY <1>1, <1>2, <2>1, EnvGrows
  <2>3. "env" \in KeysOf(payload, chosen, run, "text") =>
          Context = ContextOf(payload, chosen, run)
    BY <1>1, ContextNow
  <2>4. Context # NoContext /\ "env" \in Writes[run]["text"]
          <=> "env" \in KeysOf(payload, chosen, run, "text")
    BY <1>1, ContextNow
  <2> HIDE DEF R
  <2> QED
    BY <2>2, <2>3, <2>4 DEF EnrichEnv
<1>4. ASSUME NEW e \in DOMAIN copy.events
      PROVE  EventAfter(payload, chosen, EnrichEvent(copy.events[e]), e, R)
  <2> DEFINE v == copy.events[e]
             w == EnrichEvent(v)
             o == payload.events[e]
  <2>0. v = [type |-> o.type, source |-> o.source,
             owners |-> OwnersAfter(payload, chosen, e, kept),
             meta |-> MetaAfter(payload, chosen, e, kept),
             metrics |-> MetricsAfter(payload, chosen, e, kept)]
    BY <1>1 DEF FileAfter, EventAfter
  <2>1. /\ v = [type |-> v.type, source |-> v.source, owners |-> v.owners,
                meta |-> MetaAfter(payload, chosen, e, kept),
                metrics |-> MetricsAfter(payload, chosen, e, kept)]
        /\ v.type = o.type /\ v.source = o.source
        /\ v.owners = OwnersAfter(payload, chosen, e, kept)
    <3> HIDE DEF v, o
    <3> QED
      BY <2>0
  <2>2. w = [type |-> v.type, source |-> v.source, owners |-> Own(v),
             meta |-> Merge(v.meta, Written("text")),
             metrics |-> [k \in DOMAIN v.metrics |->
                            IF k \in Written("number") THEN Context ELSE v.metrics[k]]]
    <3> HIDE DEF v
    <3> QED
      BY <2>1, EventEnriched
  <2>3. Merge(v.meta, Written("text")) = MetaAfter(payload, chosen, e, R)
    <3>1. v.meta = MetaAfter(payload, chosen, e, kept)
      BY <2>1
    <3>2. DOMAIN v.meta = DOMAIN payload.events[e].meta
      BY <3>1 DEF MetaAfter
    <3> HIDE DEF v, w
    <3>3. MetaAfter(payload, chosen, e, R) =
            [k \in DOMAIN payload.events[e].meta |->
               IF k \in payload.sidecar THEN Sidecar
               ELSE IF k \in KeysOf(payload, chosen, run, "text")
                 THEN ContextOf(payload, chosen, run)
               ELSE v.meta[k]]
      BY <1>1, <1>2, <3>1, MetaGrows
    <3>4. /\ Written("text") = KeysOf(payload, chosen, run, "text")
          /\ Written("text") # {} => Context = ContextOf(payload, chosen, run)
      BY <1>1, ContextNow
    <3> HIDE DEF R
    <3> QED
      BY <3>2, <3>3, <3>4 DEF Merge
  <2>4. [k \in DOMAIN v.metrics |-> IF k \in Written("number") THEN Context ELSE v.metrics[k]]
          = MetricsAfter(payload, chosen, e, R)
    <3>1. v.metrics = MetricsAfter(payload, chosen, e, kept)
      BY <2>1
    <3>2. DOMAIN v.metrics = DOMAIN payload.events[e].metrics
      BY <3>1 DEF MetricsAfter
    <3> HIDE DEF v, w
    <3>3. MetricsAfter(payload, chosen, e, R) =
            [k \in DOMAIN payload.events[e].metrics |->
               IF k \in KeysOf(payload, chosen, run, "number")
                 THEN ContextOf(payload, chosen, run)
               ELSE v.metrics[k]]
      BY <1>1, <1>2, <3>1, MetricsGrow
    <3>4. /\ Written("number") = KeysOf(payload, chosen, run, "number")
          /\ Written("number") # {} => Context = ContextOf(payload, chosen, run)
      BY <1>1, ContextNow
    <3> HIDE DEF R
    <3> QED
      BY <3>2, <3>3, <3>4
  <2>7. Own(v) = OwnersAfter(payload, chosen, e, R)
    <3>1. e \in DOMAIN payload.events
      BY <1>1 DEF FileAfter
    <3>2. payload \in Payloads /\ chosen \in Seq(Inputs) /\ Len(chosen) = run
      BY DEF TagsInv
    <3>3. OwnersAfter(payload, chosen, e, R) =
            IF o.type = "span" \/ OwnersAfter(payload, chosen, e, kept) # {}
            THEN OwnersAfter(payload, chosen, e, kept) ELSE Meant(payload, chosen, e, run)
      BY <1>1, <1>2, OwnersGrow
    <3>5. v.type = payload.events[e].type /\ v.source = payload.events[e].source
      BY <2>1
    <3> HIDE DEF v, w, R, o
    <3>4. Own(v) = IF v.type = "span" \/ v.owners # {} THEN v.owners
                   ELSE Meant(payload, chosen, e, run)
      BY <1>1, <3>1, <3>2, <3>5, OwnNow
    <3> QED
      BY <2>1, <3>3, <3>4
  <2>5. w = [type |-> o.type, source |-> o.source,
             owners |-> OwnersAfter(payload, chosen, e, R),
             meta |-> MetaAfter(payload, chosen, e, R),
             metrics |-> MetricsAfter(payload, chosen, e, R)]
    <3> HIDE DEF v, w, R, o
    <3> QED
      BY <2>1, <2>2, <2>3, <2>4, <2>7
  <2> HIDE DEF w
  <2>6. EventAfter(payload, chosen, w, e, R)
    BY <2>5 DEF EventAfter
  <2> QED
    BY <2>6 DEF w
<1>5. FileAfter(payload, chosen, copy', R)
  <2>1. DOMAIN copy.events \subseteq DOMAIN payload.events
    BY <1>1 DEF FileAfter
  <2> HIDE DEF R
  <2> QED
    BY <1>3, <1>4, <2>1 DEF FileAfter
<1> QED
  BY <1>5 DEF TagsInv

\* What is sent of an enriched copy went through this invocation too, and
\* whether the file gets the copy changes nothing for what was sent before.
LEMMA SentStep ==
  ASSUME TagsInv, stage = "enriched", NEW accepted \in SUBSET DOMAIN copy.events,
         NEW K, K \in {kept, kept \cup {run}}
  PROVE  \A c \in Sent(accepted) :
           c.run \in 1..run /\ SentAfter(payload, chosen, c, Earlier(K, c.run))
<1>1. /\ run \in Nat /\ run > 0 /\ kept \in SUBSET (1..run) /\ run \notin kept
      /\ FileAfter(payload, chosen, copy, kept \cup {run})
  BY DEF TagsInv
<1>2. ASSUME NEW c \in sent
      PROVE  c.run \in 1..run /\ SentAfter(payload, chosen, c, Earlier(K, c.run))
  <2>1. c.run \in 1..run /\ SentAfter(payload, chosen, c, Earlier(kept, c.run))
    BY DEF TagsInv
  <2>2. ~(run < c.run)
    BY <1>1, <2>1
  <2>3. Earlier(K, c.run) = Earlier(kept, c.run)
    BY <2>2 DEF Earlier
  <2> QED
    BY <2>1, <2>3
<1>3. Earlier(K, run) = kept \cup {run}
  <2>1. \A q \in kept : q < run
    BY <1>1
  <2>2. ~(run < run)
    BY <1>1
  <2> QED
    BY <2>1, <2>2 DEF Earlier
<1>4. ASSUME NEW e \in accepted
      PROVE  LET c == [run |-> run, id |-> e, env |-> copy.env, event |-> copy.events[e]]
             IN  c.run \in 1..run /\ SentAfter(payload, chosen, c, Earlier(K, c.run))
  <2> DEFINE c == [run |-> run, id |-> e, env |-> copy.env, event |-> copy.events[e]]
  <2>1. c.run = run /\ c.id = e /\ c.env = copy.env /\ c.event = copy.events[e]
    OBVIOUS
  <2>2. copy.env = EnvAfter(payload, chosen, kept \cup {run})
    BY <1>1 DEF FileAfter
  <2>3. /\ e \in DOMAIN payload.events
        /\ EventAfter(payload, chosen, copy.events[e], e, kept \cup {run})
    BY <1>1 DEF FileAfter
  <2>4. run \in 1..run
    BY <1>1
  <2> HIDE DEF c
  <2>5. c.run \in 1..run /\ SentAfter(payload, chosen, c, Earlier(K, c.run))
    BY <1>3, <2>1, <2>2, <2>3, <2>4 DEF SentAfter
  <2> QED
    BY <2>5 DEF c
<1> QED
  BY <1>2, <1>4 DEF Sent

LEMMA DeliverStep ==
  ASSUME TagsInv, Deliver
  PROVE  TagsInv'
<1> USE DEF Deliver
<1>1. PICK accepted \in SUBSET DOMAIN copy.events :
        LET left == DOMAIN copy.events \ accepted
        IN  /\ sent' = Sent(accepted)
            /\ disk' = IF accepted = {} THEN disk
                       ELSE [copy EXCEPT !.events = [e \in left |-> copy.events[e]]]
            /\ kept' = IF accepted # {} /\ left # {} THEN kept \cup {run} ELSE kept
  OBVIOUS
<1> DEFINE left == DOMAIN copy.events \ accepted
<1>2. /\ run \in Nat /\ run > 0 /\ kept \in SUBSET (1..run)
      /\ FileAfter(payload, chosen, copy, kept \cup {run})
  BY DEF TagsInv
<1>3. kept' \in {kept, kept \cup {run}} /\ kept' \in SUBSET (1..run)
  BY <1>1, <1>2
<1>4. \A c \in sent' :
        c.run \in 1..run /\ SentAfter(payload, chosen, c, Earlier(kept', c.run))
  BY <1>1, <1>3, SentStep
<1>5. disk'.events # <<>> => FileAfter(payload, chosen, disk', kept')
  <2>1. CASE accepted = {}
    BY <1>1, <2>1 DEF TagsInv
  <2>2. CASE accepted # {} /\ left = {}
    <3>1. disk' = [copy EXCEPT !.events = [e \in {} |-> copy.events[e]]]
      BY <1>1, <2>2
    <3>2. [e \in {} |-> copy.events[e]] = <<>>
      OBVIOUS
    <3>3. copy = [env |-> copy.env, events |-> copy.events]
      BY <1>2 DEF FileAfter
    <3> QED
      BY <3>1, <3>2, <3>3
  <2>3. CASE accepted # {} /\ left # {}
    <3> DEFINE rest == [e \in left |-> copy.events[e]]
    <3>1. kept' = kept \cup {run} /\ disk' = [copy EXCEPT !.events = rest]
      BY <1>1, <2>3
    <3>2. /\ DOMAIN rest \subseteq DOMAIN copy.events
          /\ \A e \in DOMAIN rest : rest[e] = copy.events[e]
      OBVIOUS
    <3>3. copy = [env |-> copy.env, events |-> copy.events]
      BY <1>2 DEF FileAfter
    <3> HIDE DEF rest
    <3>4. disk' = [env |-> copy.env, events |-> rest]
      BY <3>1, <3>3
    <3>5. disk'.env = copy.env /\ disk'.events = rest
      BY <3>4
    <3>6. /\ copy.env = EnvAfter(payload, chosen, kept \cup {run})
          /\ DOMAIN copy.events \subseteq DOMAIN payload.events
          /\ \A e \in DOMAIN copy.events :
               EventAfter(payload, chosen, copy.events[e], e, kept \cup {run})
      BY <1>2 DEF FileAfter
    <3>7. DOMAIN rest \subseteq DOMAIN payload.events
      BY <3>2, <3>6
    <3>8. ASSUME NEW e \in DOMAIN rest
          PROVE  EventAfter(payload, chosen, rest[e], e, kept \cup {run})
      <4>1. e \in DOMAIN copy.events /\ rest[e] = copy.events[e]
        BY <3>2
      <4> QED
        BY <3>6, <4>1
    <3>9. FileAfter(payload, chosen, disk', kept \cup {run})
      BY <3>4, <3>5, <3>6, <3>7, <3>8 DEF FileAfter
    <3> QED
      BY <3>1, <3>9
  <2> QED
    BY <2>1, <2>2, <2>3
<1>6. stage' = "idle" /\ UNCHANGED <<payload, run, chosen>>
  OBVIOUS
<1> QED
  BY <1>3, <1>4, <1>5, <1>6 DEF TagsInv

LEMMA LeaveStep ==
  ASSUME TagsInv, Leave
  PROVE  TagsInv'
<1> USE DEF Leave
<1>1. PICK accepted \in SUBSET DOMAIN copy.events :
        (stage = "loaded" => accepted = {}) /\ sent' = Sent(accepted)
  OBVIOUS
<1>2. \A c \in sent' :
        c.run \in 1..run /\ SentAfter(payload, chosen, c, Earlier(kept, c.run))
  <2>1. CASE stage = "loaded"
    <3>1. sent' = sent
      BY <1>1, <2>1 DEF Sent
    <3> QED
      BY <3>1 DEF TagsInv
  <2>2. CASE stage = "enriched"
    BY <1>1, <2>2, SentStep
  <2> QED
    BY <2>1, <2>2 DEF TagsInv
<1>3. stage' = "idle" /\ UNCHANGED <<payload, disk, run, chosen, kept>>
  OBVIOUS
<1> QED
  BY <1>2, <1>3 DEF TagsInv

\* TagsInv holds in every reachable state.
THEOREM EnrichmentInvariant == Spec => []TagsInv
<1>1. TagsInv /\ [Next]_vars => TagsInv'
  <2> SUFFICES ASSUME TagsInv, [Next]_vars PROVE TagsInv'
    OBVIOUS
  <2>1. CASE UNCHANGED vars
    BY <2>1 DEF vars, TagsInv
  <2> QED
    BY <2>1, BeginStep, EnrichStep, DeliverStep, LeaveStep DEF Next, Finished
<1> QED
  BY <1>1, TagsInit, PTL DEF Spec

\* Every tag, metric and environment of an accepted event has the origin that
\* the merges of all its invocations give it.
THEOREM TagsAreExplained == Spec => []TagsExplained
<1>1. TagsInv => TagsExplained
  <2> SUFFICES ASSUME TagsInv, NEW c \in sent
               PROVE  LET writers(k, kind) == {r \in Through(c) : k \in WrittenIn(r, kind)}
                          produced == payload.events[c.id]
                      IN  /\ \A k \in DOMAIN produced.meta :
                               c.event.meta[k] =
                                 IF k \in payload.sidecar THEN Sidecar
                                 ELSE IF writers(k, "text") = {} THEN produced.meta[k]
                                 ELSE ContextIn(Max(writers(k, "text")))
                          /\ \A k \in DOMAIN produced.metrics :
                               c.event.metrics[k] =
                                 IF writers(k, "number") = {} THEN produced.metrics[k]
                                 ELSE ContextIn(Max(writers(k, "number")))
                          /\ c.env = IF writers("env", "text") = {} THEN Nothing
                                     ELSE ContextIn(Min(writers("env", "text")))
    BY DEF TagsExplained
  <2> DEFINE R == Earlier(kept, c.run)
             writers(k, kind) == {r \in Through(c) : k \in WrittenIn(r, kind)}
  <2>1. SentAfter(payload, chosen, c, R)
    BY DEF TagsInv
  <2>2. Through(c) = R /\ R # {}
    BY DEF Through, Earlier
  <2>3. \A r : ContextIn(r) = ContextOf(payload, chosen, r)
    BY DEF ContextIn, ContextOf, Given
  <2> HIDE DEF R
  <2>4. \A k, kind : writers(k, kind) = Writers(payload, chosen, R, k, kind)
    BY <2>2, <2>3 DEF Writers, WrittenIn, KeysOf
  <2>5. /\ c.env = EnvAfter(payload, chosen, R)
        /\ c.event.meta = MetaAfter(payload, chosen, c.id, R)
        /\ c.event.metrics = MetricsAfter(payload, chosen, c.id, R)
    BY <2>1 DEF SentAfter, EventAfter
  <2> HIDE DEF writers
  <2>6. \A k \in DOMAIN payload.events[c.id].meta :
          c.event.meta[k] =
            IF k \in payload.sidecar THEN Sidecar
            ELSE IF writers(k, "text") = {} THEN payload.events[c.id].meta[k]
            ELSE ContextIn(Max(writers(k, "text")))
    BY <2>2, <2>3, <2>4, <2>5 DEF MetaAfter
  <2>7. \A k \in DOMAIN payload.events[c.id].metrics :
          c.event.metrics[k] =
            IF writers(k, "number") = {} THEN payload.events[c.id].metrics[k]
            ELSE ContextIn(Max(writers(k, "number")))
    BY <2>3, <2>4, <2>5 DEF MetricsAfter
  <2>8. c.env = IF writers("env", "text") = {} THEN Nothing
                ELSE ContextIn(Min(writers("env", "text")))
    BY <2>3, <2>4, <2>5 DEF EnvAfter
  <2> QED
    BY <2>6, <2>7, <2>8 DEF writers
<1> QED
  BY <1>1, EnrichmentInvariant, PTL

\* The owners of an accepted event are the producer's, or what the rules of
\* the first invocation that finds any mean for its source.
THEOREM OwnersAreExplained == Spec => []OwnersExplained
<1>1. TagsInv => OwnersExplained
  <2> SUFFICES ASSUME TagsInv, NEW c \in sent
               PROVE  LET produced == payload.events[c.id]
                          meant(r) == OwnersByReference(LoadRules(Given(r).places),
                                                        produced.source, Primary(Given(r)) # -1)
                          found == {r \in Through(c) : meant(r) # {}}
                      IN  c.event.owners =
                            IF produced.type = "span" \/ produced.owners # {} \/ found = {}
                            THEN produced.owners ELSE meant(Min(found))
    BY DEF OwnersExplained
  <2> DEFINE R == Earlier(kept, c.run)
             produced == payload.events[c.id]
             meant(r) == OwnersByReference(LoadRules(Given(r).places), produced.source,
                                           Primary(Given(r)) # -1)
             found == {r \in Through(c) : meant(r) # {}}
  <2>1. SentAfter(payload, chosen, c, R)
    BY DEF TagsInv
  <2>2. Through(c) = R
    BY DEF Through, Earlier
  <2>3. \A r : meant(r) = Meant(payload, chosen, c.id, r)
    BY DEF Meant, Given
  <2>4. c.event.owners = OwnersAfter(payload, chosen, c.id, R)
    <3> HIDE DEF R
    <3>1. EventAfter(payload, chosen, c.event, c.id, R)
      BY <2>1 DEF SentAfter
    <3> QED
      BY <3>1 DEF EventAfter
  <2> HIDE DEF R, meant
  <2>5. found = Finders(payload, chosen, c.id, R)
    BY <2>2, <2>3 DEF Finders
  <2> HIDE DEF found
  <2>6. c.event.owners = IF produced.type = "span" \/ produced.owners # {} \/ found = {}
                         THEN produced.owners ELSE meant(Min(found))
    BY <2>3, <2>4, <2>5 DEF OwnersAfter
  <2> QED
    BY <2>6 DEF meant, found
<1> QED
  BY <1>1, EnrichmentInvariant, PTL

-----------------------------------------------------------------------------
(* No value of another repository                                          *)

\* The writer that counts is one of the writers, so it selected a context.
LEMMA WriterSelects ==
  ASSUME NEW p, NEW ch, NEW n \in Nat, NEW R \in SUBSET (1..n), NEW k, NEW kind,
         Writers(p, ch, R, k, kind) # {},
         NEW r \in {Max(Writers(p, ch, R, k, kind)), Min(Writers(p, ch, R, k, kind))}
  PROVE  r \in 1..n /\ Select(ch[r], p.repo) # -1
<1> DEFINE W == Writers(p, ch, R, k, kind)
<1>1. W \in SUBSET (1..n)
  BY DEF Writers
<1>2. \A q \in W : Select(ch[q], p.repo) # -1
  BY DEF Writers, KeysOf, ContextOf
<1> HIDE DEF W
<1>3. W \in SUBSET Nat /\ W # {}
  BY <1>1 DEF W
<1>4. Max(W) \in W /\ Min(W) \in W
  BY <1>1, <1>3, LeastOf, GreatestOf
<1> QED
  BY <1>1, <1>2, <1>4 DEF W

\* A value comes from the test, the sidecar or a context that was selected.
LEMMA ValueOrigins ==
  ASSUME NEW p \in Payloads, NEW ch, NEW c, NEW n \in Nat, NEW R \in SUBSET (1..n),
         SentAfter(p, ch, c, R), NEW value \in Values(c), value[1] > 0
  PROVE  \E r \in 1..n : value = <<r, Select(ch[r], p.repo)>> /\ Select(ch[r], p.repo) # -1
<1>1. /\ c.id \in DOMAIN p.events
      /\ c.env = EnvAfter(p, ch, R)
      /\ c.event.meta = MetaAfter(p, ch, c.id, R)
      /\ c.event.metrics = MetricsAfter(p, ch, c.id, R)
  BY DEF SentAfter, EventAfter
<1>2. /\ p.events[c.id].meta \in [DOMAIN p.events[c.id].meta -> {Nothing, Producer}]
      /\ p.events[c.id].metrics \in [DOMAIN p.events[c.id].metrics -> {Nothing, Producer}]
  BY <1>1, EnrichmentAssumption
<1>3. value \notin {Nothing, Producer, Sidecar}
  BY DEF Nothing, Producer, Sidecar
<1>4. CASE value = c.env
  <2>1. Writers(p, ch, R, "env", "text") # {}
    BY <1>1, <1>3, <1>4 DEF EnvAfter
  <2> DEFINE r == Min(Writers(p, ch, R, "env", "text"))
  <2>2. value = ContextOf(p, ch, r)
    BY <1>1, <1>4, <2>1 DEF EnvAfter
  <2>3. r \in 1..n /\ Select(ch[r], p.repo) # -1
    BY <2>1, WriterSelects
  <2> HIDE DEF r
  <2> QED
    BY <2>2, <2>3 DEF ContextOf
<1>5. ASSUME NEW k \in DOMAIN c.event.meta, value = c.event.meta[k]
      PROVE  \E r \in 1..n : /\ value = <<r, Select(ch[r], p.repo)>>
                             /\ Select(ch[r], p.repo) # -1
  <2>1. k \in DOMAIN p.events[c.id].meta
    BY <1>1, <1>5 DEF MetaAfter
  <2>2. value = IF R # {} /\ k \in p.sidecar THEN Sidecar
                ELSE IF Writers(p, ch, R, k, "text") = {} THEN p.events[c.id].meta[k]
                ELSE ContextOf(p, ch, Max(Writers(p, ch, R, k, "text")))
    BY <1>1, <1>5, <2>1 DEF MetaAfter
  <2>3. p.events[c.id].meta[k] \in {Nothing, Producer}
    BY <1>2, <2>1
  <2>4. Writers(p, ch, R, k, "text") # {}
    BY <1>3, <2>2, <2>3
  <2> DEFINE r == Max(Writers(p, ch, R, k, "text"))
  <2>5. value = ContextOf(p, ch, r)
    BY <1>3, <2>2, <2>4
  <2>6. r \in 1..n /\ Select(ch[r], p.repo) # -1
    BY <2>4, WriterSelects
  <2> HIDE DEF r
  <2> QED
    BY <2>5, <2>6 DEF ContextOf
<1>6. ASSUME NEW k \in DOMAIN c.event.metrics, value = c.event.metrics[k]
      PROVE  \E r \in 1..n : /\ value = <<r, Select(ch[r], p.repo)>>
                             /\ Select(ch[r], p.repo) # -1
  <2>1. k \in DOMAIN p.events[c.id].metrics
    BY <1>1, <1>6 DEF MetricsAfter
  <2>2. value = IF Writers(p, ch, R, k, "number") = {} THEN p.events[c.id].metrics[k]
                ELSE ContextOf(p, ch, Max(Writers(p, ch, R, k, "number")))
    BY <1>1, <1>6, <2>1 DEF MetricsAfter
  <2>3. p.events[c.id].metrics[k] \in {Nothing, Producer}
    BY <1>2, <2>1
  <2>4. Writers(p, ch, R, k, "number") # {}
    BY <1>3, <2>2, <2>3
  <2> DEFINE r == Max(Writers(p, ch, R, k, "number"))
  <2>5. value = ContextOf(p, ch, r)
    BY <2>2, <2>4
  <2>6. r \in 1..n /\ Select(ch[r], p.repo) # -1
    BY <2>4, WriterSelects
  <2> HIDE DEF r
  <2> QED
    BY <2>5, <2>6 DEF ContextOf
<1>7. \/ value = c.env
      \/ \E k \in DOMAIN c.event.meta : value = c.event.meta[k]
      \/ \E k \in DOMAIN c.event.metrics : value = c.event.metrics[k]
  BY DEF Values
<1> QED
  BY <1>4, <1>5, <1>6, <1>7 DEF ContextOf, EnvAfter

UsableOf(given) == {i \in DOMAIN Offered(given) : Offered(given)[i].usable}

\* The first usable context of each repository is loaded.
LEMMA FirstIsLoaded ==
  ASSUME NEW given \in Inputs, NEW i \in UsableOf(given)
  PROVE  \E m \in Loaded(given) : Offered(given)[m].repo = Offered(given)[i].repo
<1> DEFINE all == Offered(given)
           S == {j \in UsableOf(given) : all[j].repo = all[i].repo}
<1>1. Len(all) \in Nat /\ DOMAIN all = 1..Len(all)
  BY EnrichmentAssumption DEF Offered
<1>2. S \in SUBSET Nat /\ i \in S
  BY <1>1 DEF UsableOf
<1>3. Min(S) \in S /\ \A y \in S : Min(S) <= y
  <2> HIDE DEF S
  <2> QED
    BY <1>2, LeastOf
<1> DEFINE m == Min(S)
<1>4. m \in DOMAIN all /\ all[m].usable /\ all[m].repo = all[i].repo /\ m \in Nat
  BY <1>2, <1>3 DEF UsableOf
<1>5. ASSUME NEW j \in 1..(m - 1), all[j].usable
      PROVE  all[j].repo # all[m].repo
  <2>1. j \in DOMAIN all /\ j \in Nat /\ ~(m <= j)
    <3> HIDE DEF m, all
    <3> QED
      BY <1>1, <1>4
  <2>2. j \notin S
    BY <1>3, <2>1
  <2> QED
    BY <1>4, <1>5, <2>1, <2>2 DEF UsableOf
<1> HIDE DEF m
<1>6. m \in Loaded(given)
  BY <1>4, <1>5 DEF Loaded
<1> QED
  BY <1>4, <1>6

\* ContextPlan.select: a context of the repository, or the only one there is.
LEMMA SelectSound ==
  ASSUME NEW given \in Inputs, NEW repo, Select(given, repo) # -1
  PROVE  IF given.override = "readable" THEN Select(given, repo) = 0
         ELSE /\ Select(given, repo) \in UsableOf(given)
              /\ \/ Offered(given)[Select(given, repo)].repo = repo
                 \/ /\ ~given.required
                    /\ \A i, j \in UsableOf(given) :
                         Offered(given)[i].repo = Offered(given)[j].repo
<1> DEFINE L == Loaded(given)
           all == Offered(given)
<1>1. Len(all) \in Nat /\ DOMAIN all = 1..Len(all)
  BY EnrichmentAssumption DEF Offered
<1>2. L \subseteq UsableOf(given) /\ L \in SUBSET (1..Len(all)) /\ L \in SUBSET Nat
  BY <1>1 DEF Loaded, UsableOf
<1>3. CASE given.override = "readable"
  BY <1>3 DEF Select, Primary
<1>4. CASE given.override # "readable" /\ ~given.required /\ Cardinality(L) <= 1
  <2>1. Select(given, repo) = IF L = {} THEN -1 ELSE Min(L)
    BY <1>4 DEF Select, Primary
  <2> HIDE DEF L
  <2>2. Select(given, repo) \in L
    BY <1>2, <2>1, LeastOf
  <2>3. IsFiniteSet(L)
    <3>1. IsFiniteSet(1..Len(all))
      BY <1>1, FS_Interval
    <3> QED
      BY <1>2, <3>1, FS_Subset
  <2>4. \A a, b \in L : a = b
    <3> SUFFICES ASSUME NEW a \in L, NEW b \in L, a # b PROVE FALSE
      OBVIOUS
    <3>1. IsFiniteSet({a}) /\ Cardinality({a}) = 1
      BY FS_Singleton
    <3>2. Cardinality({a} \cup {b}) = 2
      <4>1. Cardinality({a} \cup {b}) = Cardinality({a}) + 1
        BY <3>1, FS_AddElement
      <4> QED
        BY <3>1, <4>1
    <3>3. Cardinality({a} \cup {b}) <= Cardinality(L)
      BY <2>3, FS_Subset
    <3>4. Cardinality(L) \in Nat
      BY <2>3, FS_CardinalityType
    <3> QED
      BY <1>4, <3>2, <3>3, <3>4
  <2>5. \A i, j \in UsableOf(given) : all[i].repo = all[j].repo
    <3> SUFFICES ASSUME NEW i \in UsableOf(given), NEW j \in UsableOf(given)
                 PROVE  all[i].repo = all[j].repo
      OBVIOUS
    <3>1. PICK a \in L : all[a].repo = all[i].repo
      BY FirstIsLoaded DEF L
    <3>2. PICK b \in L : all[b].repo = all[j].repo
      BY FirstIsLoaded DEF L
    <3> QED
      BY <2>4, <3>1, <3>2
  <2> QED
    BY <1>2, <1>4, <2>2, <2>5
<1>5. CASE given.override # "readable" /\ ~(~given.required /\ Cardinality(L) <= 1)
  <2>1. \E i \in L : all[i].repo = repo
    BY <1>5 DEF Select
  <2>2. Select(given, repo) = CHOOSE i \in L : all[i].repo = repo
    BY <1>5, <2>1 DEF Select
  <2> HIDE DEF L, all
  <2>3. Select(given, repo) \in L /\ all[Select(given, repo)].repo = repo
    BY <2>1, <2>2
  <2> QED
    BY <1>2, <1>5, <2>3 DEF all
<1> QED
  BY <1>3, <1>4, <1>5

\* An accepted event carries values of its own repository, of the override,
\* or of the only context there was without runtime selection.
THEOREM ContextsAreOwn == Spec => []OwnContext
<1>1. TagsInv => OwnContext
  <2> SUFFICES ASSUME TagsInv, NEW c \in sent, NEW value \in Values(c), value[1] > 0
               PROVE  LET given == Given(value[1])
                          usable == {i \in DOMAIN Offered(given) : Offered(given)[i].usable}
                      IN  IF given.override = "readable" THEN value[2] = 0
                          ELSE /\ value[2] \in usable
                               /\ \/ Offered(given)[value[2]].repo = payload.repo
                                  \/ /\ ~given.required
                                     /\ \A i, j \in usable :
                                          Offered(given)[i].repo = Offered(given)[j].repo
    BY DEF OwnContext
  <2>1. /\ payload \in Payloads /\ run \in Nat /\ kept \in SUBSET (1..run)
        /\ c.run \in 1..run /\ SentAfter(payload, chosen, c, Earlier(kept, c.run))
        /\ \A r \in 1..run : chosen[r] \in Inputs
    BY DEF TagsInv
  <2>2. Earlier(kept, c.run) \in SUBSET (1..run)
    BY <2>1 DEF Earlier
  <2>3. PICK r \in 1..run : /\ value = <<r, Select(chosen[r], payload.repo)>>
                           /\ Select(chosen[r], payload.repo) # -1
    BY <2>1, <2>2, ValueOrigins
  <2> DEFINE given == chosen[r]
             v == Select(given, payload.repo)
  <2>4. value[1] = r /\ value[2] = v /\ Given(value[1]) = given
    BY <2>3 DEF Given
  <2>5. given \in Inputs /\ v # -1
    BY <2>1, <2>3
  <2> HIDE DEF given
  <2>6. IF given.override = "readable" THEN v = 0
        ELSE /\ v \in UsableOf(given)
             /\ \/ Offered(given)[v].repo = payload.repo
                \/ /\ ~given.required
                   /\ \A i, j \in UsableOf(given) :
                        Offered(given)[i].repo = Offered(given)[j].repo
    BY <2>5, SelectSound
  <2> HIDE DEF v
  <2> QED
    BY <2>4, <2>6 DEF UsableOf
<1> QED
  BY <1>1, EnrichmentInvariant, PTL
=============================================================================
