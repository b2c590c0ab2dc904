------------------------- MODULE ClusterGroupProofs -------------------------
(***************************************************************************)
(* What a group keeps for any nodes, filters and goroutines: the filters   *)
(* mean the same however they are merged and split between server and      *)
(* client, a call returns the nodes of one topology, and calls that were   *)
(* answered from one topology leave no dead node in the cache, however     *)
(* they overlap.                                                           *)
(***************************************************************************)
EXTENDS ClusterGroup, Induction

-----------------------------------------------------------------------------
(* One filter.                                                             *)

Kept(f) == {n \in Nodes : Keeps(f, n)}

LEMMA KindsOf ==
    ASSUME NEW f \in Filters
    PROVE  /\ f.kind \in {"type", "attrs", "ids", "pred", "oldest", "youngest", "random", "except", "none"}
           /\ f.kind = "type" => f \in NodeTypes
           /\ f.kind = "attrs" => f \in NodeAttributes
           /\ f.kind = "ids" => f \in NodeIds
           /\ f.kind = "none" => f = Nothing
           /\ f.kind \notin {"type", "attrs"} => f \notin ServerSide
  BY DEF Filters, ServerSide, NodeTypes, NodeAttributes, NodeIds, Predicates, Positional, ExceptGroups, Nothing

LEMMA ReorderableOutcomes ==
    ASSUME NEW f \in Filters, NEW s \in SUBSET Nodes, NEW o, isReorderingAllowed(f) \/ f = Nothing
    PROVE  Outcomes(f, s, o) = {s \cap Kept(f)}
<1>1. f.kind \in {"type", "attrs", "ids", "pred", "none"}
  BY DEF isReorderingAllowed, Nothing
<1>2. Outcomes(f, s, o) = {{n \in s : Keeps(f, n)}}
  BY <1>1 DEF Outcomes
<1>3. {n \in s : Keeps(f, n)} = s \cap Kept(f)
  BY DEF Kept
<1> QED BY <1>2, <1>3

LEMMA NothingKept == Kept(Nothing) = {}
  BY DEF Kept, Nothing, Keeps

LEMMA ExceptOutcomes ==
    ASSUME NEW f, f.kind = "except", NEW s, NEW o
    PROVE  Outcomes(f, s, o) = {{n \in s : n \notin o \/ ~Keeps(f.group, n)}}
  BY DEF Outcomes

LEMMA PositionalOutcomes ==
    ASSUME NEW f, f.kind \in {"oldest", "youngest", "random"}, NEW s, NEW o
    PROVE  Outcomes(f, s, o) = IF s = {} THEN {{}} ELSE {{n} : n \in {m \in s : Picks(f, s, m)}}
  BY DEF Outcomes

(* A filter by position finds a node: the list is finite. *)
LEMMA SomePicked ==
    ASSUME NEW f, f.kind \in {"oldest", "youngest", "random"}, NEW s \in SUBSET Nodes, s # {}
    PROVE  \E n \in s : Picks(f, s, n)
<1>1. IsFiniteSet(s)
  BY ProjectionAssumption, FS_Subset
<1>2. PICK order : order = [n \in s |-> Info[n].order]
  OBVIOUS
<1>3. order \in [s -> Int] /\ \A n \in s : order[n] = Info[n].order
  BY <1>2, ProjectionAssumption
<1>4. /\ \E x \in s : \A y \in s : order[x] <= order[y]
      /\ \E x \in s : \A y \in s : order[x] >= order[y]
  BY <1>1, <1>3, ExtremesExist
<1> QED BY <1>3, <1>4 DEF Picks

LEMMA OutcomesShrink ==
    ASSUME NEW f \in Filters, NEW s \in SUBSET Nodes, NEW o
    PROVE  /\ Outcomes(f, s, o) \subseteq SUBSET s
           /\ Outcomes(f, s, o) # {}
           /\ s = {} => Outcomes(f, s, o) = {{}}
<1>1. CASE isReorderingAllowed(f) \/ f = Nothing
  <2>1. Outcomes(f, s, o) = {s \cap Kept(f)}
    BY <1>1, ReorderableOutcomes
  <2>2. s \cap Kept(f) \subseteq s /\ (s = {} => s \cap Kept(f) = {})
    OBVIOUS
  <2> QED BY <2>1, <2>2
<1>2. CASE f.kind = "except"
  <2>1. PICK r : r = {n \in s : n \notin o \/ ~Keeps(f.group, n)}
    OBVIOUS
  <2>2. Outcomes(f, s, o) = {r} /\ r \subseteq s /\ (s = {} => r = {})
    BY <1>2, <2>1, ExceptOutcomes
  <2> QED BY <2>2
<1>3. CASE f.kind \in {"oldest", "youngest", "random"}
  <2>1. CASE s = {}
    <3>1. Outcomes(f, s, o) = {{}}
      BY <1>3, <2>1, PositionalOutcomes
    <3> QED BY <2>1, <3>1
  <2>2. CASE s # {}
    <3>1. Outcomes(f, s, o) = {{n} : n \in {m \in s : Picks(f, s, m)}}
      BY <1>3, <2>2, PositionalOutcomes
    <3>2. PICK n \in s : Picks(f, s, n)
      BY <1>3, <2>2, SomePicked
    <3>3. {n} \in Outcomes(f, s, o)
      BY <3>1, <3>2
    <3>4. ASSUME NEW r \in Outcomes(f, s, o)
          PROVE  r \subseteq s
      BY <3>1
    <3> QED BY <2>2, <3>3, <3>4
  <2> QED BY <2>1, <2>2
<1> QED BY <1>1, <1>2, <1>3, KindsOf DEF isReorderingAllowed

(* Another group is asked about the nodes of the list only. *)
AgreeOn(x, o, q) == \A n \in x : n \in o <=> n \in q

LEMMA OutcomesOfOthers ==
    ASSUME NEW f \in Filters, NEW s \in SUBSET Nodes, NEW o, NEW q, AgreeOn(s, o, q)
    PROVE  Outcomes(f, s, o) = Outcomes(f, s, q)
<1>1. CASE isReorderingAllowed(f) \/ f = Nothing
  <2>1. Outcomes(f, s, o) = {s \cap Kept(f)}
    BY <1>1, ReorderableOutcomes
  <2>2. Outcomes(f, s, q) = {s \cap Kept(f)}
    BY <1>1, ReorderableOutcomes
  <2> QED BY <2>1, <2>2
<1>2. CASE f.kind = "except"
  <2>1. Outcomes(f, s, o) = {{n \in s : n \notin o \/ ~Keeps(f.group, n)}}
    BY <1>2, ExceptOutcomes
  <2>2. Outcomes(f, s, q) = {{n \in s : n \notin q \/ ~Keeps(f.group, n)}}
    BY <1>2, ExceptOutcomes
  <2>3. {n \in s : n \notin o \/ ~Keeps(f.group, n)} = {n \in s : n \notin q \/ ~Keeps(f.group, n)}
    BY DEF AgreeOn
  <2> QED BY <2>1, <2>2, <2>3
<1>3. CASE f.kind \in {"oldest", "youngest", "random"}
  <2>1. \A p : Outcomes(f, s, p) = IF s = {} THEN {{}} ELSE {{n} : n \in {m \in s : Picks(f, s, m)}}
    BY <1>3, PositionalOutcomes
  <2> QED BY <2>1
<1> QED BY <1>1, <1>2, <1>3, KindsOf DEF isReorderingAllowed

(* A filter that does not look at positions looks at each node alone. *)
Cut(sets, y) == {r \cap y : r \in sets}
LooksAlone(f) == f.kind \notin {"oldest", "youngest", "random"}

LEMMA OutcomesAlone ==
    ASSUME NEW f \in Filters, LooksAlone(f),
           NEW s \in SUBSET Nodes, NEW y, NEW o, NEW z, z = s \cap y
    PROVE  Outcomes(f, z, o) = Cut(Outcomes(f, s, o), y)
<1>1. CASE isReorderingAllowed(f) \/ f = Nothing
  <2>1. Outcomes(f, s, o) = {s \cap Kept(f)} /\ Outcomes(f, z, o) = {z \cap Kept(f)}
    BY <1>1, ReorderableOutcomes
  <2>2. z \cap Kept(f) = (s \cap Kept(f)) \cap y
    OBVIOUS
  <2> QED BY <2>1, <2>2 DEF Cut
<1>2. CASE f.kind = "except"
  <2>1. /\ Outcomes(f, s, o) = {{n \in s : n \notin o \/ ~Keeps(f.group, n)}}
        /\ Outcomes(f, z, o) = {{n \in z : n \notin o \/ ~Keeps(f.group, n)}}
    BY <1>2, ExceptOutcomes
  <2>2. {n \in z : n \notin o \/ ~Keeps(f.group, n)} = {n \in s : n \notin o \/ ~Keeps(f.group, n)} \cap y
    OBVIOUS
  <2> QED BY <2>1, <2>2 DEF Cut
<1> QED BY <1>1, <1>2, KindsOf DEF isReorderingAllowed, LooksAlone

-----------------------------------------------------------------------------
(* Lists of filters: what may have become of the nodes behind each.        *)

After(f, sets, o) == UNION {Outcomes(f, s, o) : s \in sets}

Run(g, fs, t, o) ==
    /\ g \in [0 .. Len(fs) -> SUBSET SUBSET Nodes] /\ g[0] = {t}
    /\ \A i \in 1 .. Len(fs) : g[i] = After(fs[i], g[i - 1], o)

LEMMA AfterTyped ==
    ASSUME NEW f \in Filters, NEW sets \in SUBSET SUBSET Nodes, NEW o
    PROVE  After(f, sets, o) \in SUBSET SUBSET Nodes
<1>1. ASSUME NEW s \in sets
      PROVE  Outcomes(f, s, o) \subseteq SUBSET Nodes
  BY OutcomesShrink
<1> QED BY <1>1 DEF After

LEMMA ApplyRuns ==
    ASSUME NEW fs \in Seq(Filters), NEW t \in SUBSET Nodes, NEW o
    PROVE  \E g : Run(g, fs, t, o) /\ Apply(fs, t, o) = g[Len(fs)]
<1> DEFINE S == SUBSET SUBSET Nodes
           F == [x \in S \X (1 .. Len(fs)) |-> After(fs[x[2]], x[1], o)]
           R(h) == h = [i \in 0 .. Len(fs) |-> IF i = 0 THEN {t} ELSE UNION {Outcomes(fs[i], s, o) : s \in h[i - 1]}]
<1>1. Len(fs) \in Nat /\ {t} \in S
  OBVIOUS
<1>2. F \in [S \X (1 .. Len(fs)) -> S]
  <2>1. ASSUME NEW sets \in S, NEW i \in 1 .. Len(fs)
        PROVE  After(fs[i], sets, o) \in S
    BY AfterTyped
  <2> HIDE DEF S
  <2> QED BY <2>1
<1>3. \A sets \in S, i \in 1 .. Len(fs) : F[<<sets, i>>] = After(fs[i], sets, o)
  OBVIOUS
<1> HIDE DEF S, F
<1>4. PICK g \in [0 .. Len(fs) -> S] : g[0] = {t} /\ \A i \in 1 .. Len(fs) : g[i] = F[<<g[i - 1], i>>]
  <2>0. PICK b \in S, n \in Nat : b = {t} /\ n = Len(fs)
    BY <1>1
  <2>1. PICK G \in [S \X (1 .. n) -> S] : G = F
    BY <1>2, <2>0
  <2>2. \E g : Recurs(g, S, b, n, G)
    BY RecursionExists
  <2> QED BY <2>0, <2>1, <2>2 DEF Recurs
<1>5. \A i \in 1 .. Len(fs) : g[i] = After(fs[i], g[i - 1], o)
  <2>1. ASSUME NEW i \in 1 .. Len(fs)
        PROVE  g[i] = After(fs[i], g[i - 1], o)
    <3>1. i - 1 \in 0 .. Len(fs) /\ g[i - 1] \in S
      BY <1>1, <1>4
    <3> QED BY <1>3, <1>4, <3>1
  <2> QED BY <2>1
<1>6. R(g)
  <2>1. g = [i \in 0 .. Len(fs) |-> g[i]]
    BY <1>4
  <2>2. \A i \in 0 .. Len(fs) :
            g[i] = IF i = 0 THEN {t} ELSE UNION {Outcomes(fs[i], s, o) : s \in g[i - 1]}
    BY <1>1, <1>4, <1>5 DEF After
  <2> QED BY <2>1, <2>2
<1>7. R(CHOOSE h : R(h))
  <2> HIDE DEF R
  <2> QED BY <1>6
<1>8. PICK h : R(h) /\ Apply(fs, t, o) = h[Len(fs)]
  <2>1. Apply(fs, t, o) = (CHOOSE h : R(h))[Len(fs)]
    BY DEF Apply
  <2> HIDE DEF R
  <2> QED BY <1>7, <2>1
<1>9. \A i \in 0 .. Len(fs) : h[i] = IF i = 0 THEN {t} ELSE After(fs[i], h[i - 1], o)
  BY <1>8 DEF After
<1>10. \A i \in 0 .. Len(fs) : h[i] = g[i]
  <2> DEFINE T == {i \in Nat : i <= Len(fs) => h[i] = g[i]}
  <2>1. 0 \in T
    <3>1. 0 \in 0 .. Len(fs)
      BY <1>1
    <3> QED BY <1>4, <1>9, <3>1
  <2>2. ASSUME NEW i \in Nat, i \in T
        PROVE  i + 1 \in T
    <3>1. SUFFICES ASSUME i + 1 <= Len(fs)
                   PROVE  h[i + 1] = g[i + 1]
      OBVIOUS
    <3>2. h[i] = g[i] /\ i + 1 \in 1 .. Len(fs) /\ i + 1 \in 0 .. Len(fs) /\ i + 1 # 0 /\ (i + 1) - 1 = i
      BY <1>1, <2>2, <3>1
    <3>3. h[i + 1] = After(fs[i + 1], h[(i + 1) - 1], o) /\ g[i + 1] = After(fs[i + 1], g[(i + 1) - 1], o)
      BY <1>5, <1>9, <3>2
    <3> QED BY <3>2, <3>3
  <2> HIDE DEF T
  <2>3. \A i \in Nat : i \in T
    BY <2>1, <2>2, InductionOnNat
  <2> QED BY <2>3 DEF T
<1>11. Run(g, fs, t, o)
  BY <1>4, <1>5 DEF Run, S
<1>12. Apply(fs, t, o) = g[Len(fs)]
  BY <1>1, <1>8, <1>10
<1> QED BY <1>11, <1>12

Same(fs, gs, k, m) == \A i \in (k + 1) .. m : fs[i] = gs[i]

(* Runs that meet and have the same filters ahead stay together. *)
LEMMA RunsAgree ==
    ASSUME NEW fs \in Seq(Filters), NEW gs \in Seq(Filters), NEW x, NEW y, NEW o,
           NEW g, Run(g, fs, x, o), NEW h, Run(h, gs, y, o),
           NEW k \in Nat, NEW m \in Nat, k <= m, m <= Len(fs), m <= Len(gs),
           g[k] = h[k], Same(fs, gs, k, m)
    PROVE  g[m] = h[m]
<1> DEFINE T == {i \in Nat : g[i] = h[i]}
<1>1. ASSUME NEW i \in Nat, k <= i, i < m, i \in T
      PROVE  i + 1 \in T
  <2>1. i + 1 \in 1 .. Len(fs) /\ i + 1 \in 1 .. Len(gs) /\ i + 1 \in (k + 1) .. m /\ (i + 1) - 1 = i
    BY <1>1
  <2>2. g[i + 1] = After(fs[i + 1], g[(i + 1) - 1], o) /\ h[i + 1] = After(gs[i + 1], h[(i + 1) - 1], o)
    BY <2>1 DEF Run
  <2> QED BY <1>1, <2>1, <2>2 DEF Same
<1>2. k \in T
  OBVIOUS
<1> HIDE DEF T
<1>3. \A i \in k .. m : i \in T
  BY <1>1, <1>2, InductionUpTo
<1> QED BY <1>3 DEF T

LEMMA RunsAgreeFromStart ==
    ASSUME NEW fs \in Seq(Filters), NEW gs \in Seq(Filters), NEW t, NEW o,
           NEW g, Run(g, fs, t, o), NEW h, Run(h, gs, t, o),
           NEW m \in Nat, m <= Len(fs), m <= Len(gs), Same(fs, gs, 0, m)
    PROVE  g[m] = h[m]
<1>1. g[0] = h[0] /\ 0 <= m
  BY DEF Run
<1> QED BY <1>1, RunsAgree

LEMMA ApplyOfNone ==
    ASSUME NEW t \in SUBSET Nodes, NEW o
    PROVE  Apply(<<>>, t, o) = {t}
<1>0. <<>> \in Seq(Filters) /\ Len(<<>>) = 0
  OBVIOUS
<1>1. PICK g : Run(g, <<>>, t, o) /\ Apply(<<>>, t, o) = g[Len(<<>>)]
  BY <1>0, ApplyRuns
<1> QED BY <1>0, <1>1 DEF Run

(* One filter more. *)
LEMMA ApplyAppend ==
    ASSUME NEW fs \in Seq(Filters), NEW f \in Filters, NEW t \in SUBSET Nodes, NEW o
    PROVE  Apply(Append(fs, f), t, o) = After(f, Apply(fs, t, o), o)
<1>1. PICK gs \in Seq(Filters) : gs = Append(fs, f)
  <2>1. Append(fs, f) \in Seq(Filters)
    OBVIOUS
  <2> QED BY <2>1
<1>2. /\ Len(fs) \in Nat /\ Len(gs) = Len(fs) + 1 /\ gs[Len(fs) + 1] = f
      /\ \A i \in 1 .. Len(fs) : gs[i] = fs[i]
  BY <1>1
<1>3. PICK g : Run(g, fs, t, o) /\ Apply(fs, t, o) = g[Len(fs)]
  BY ApplyRuns
<1>4. PICK h : Run(h, gs, t, o) /\ Apply(gs, t, o) = h[Len(gs)]
  BY ApplyRuns
<1>5. h[Len(fs)] = g[Len(fs)]
  <2>1. Same(fs, gs, 0, Len(fs)) /\ Len(fs) <= Len(gs)
    BY <1>2 DEF Same
  <2> QED BY <1>2, <1>3, <1>4, <2>1, RunsAgreeFromStart
<1>6. h[Len(fs) + 1] = After(gs[Len(fs) + 1], h[(Len(fs) + 1) - 1], o)
  BY <1>2, <1>4 DEF Run
<1> QED BY <1>1, <1>2, <1>3, <1>4, <1>5, <1>6

Outcome(fs, t, g) == \A i \in 0 .. Len(fs) : g[i] # {} /\ g[i] \subseteq SUBSET t

(* No filter adds a node, and something comes out of each. *)
LEMMA RunShrinks ==
    ASSUME NEW fs \in Seq(Filters), NEW t \in SUBSET Nodes, NEW o, NEW g, Run(g, fs, t, o)
    PROVE  Outcome(fs, t, g)
<1> DEFINE T == {i \in Nat : i <= Len(fs) => g[i] # {} /\ g[i] \subseteq SUBSET t}
<1>1. 0 \in T
  BY DEF Run
<1>2. ASSUME NEW i \in Nat, i \in T
      PROVE  i + 1 \in T
  <2>1. SUFFICES ASSUME i + 1 <= Len(fs)
                 PROVE  g[i + 1] # {} /\ g[i + 1] \subseteq SUBSET t
    OBVIOUS
  <2>2. i + 1 \in 1 .. Len(fs) /\ (i + 1) - 1 = i /\ g[i] # {} /\ g[i] \subseteq SUBSET t
    BY <1>2, <2>1
  <2>3. g[i + 1] = After(fs[i + 1], g[i], o) /\ fs[i + 1] \in Filters
    BY <2>2 DEF Run
  <2>4. ASSUME NEW s \in g[i]
        PROVE  Outcomes(fs[i + 1], s, o) # {} /\ Outcomes(fs[i + 1], s, o) \subseteq SUBSET t
    <3>1. s \in SUBSET t /\ s \in SUBSET Nodes
      BY <2>2
    <3>2. Outcomes(fs[i + 1], s, o) # {} /\ Outcomes(fs[i + 1], s, o) \subseteq SUBSET s
      BY <2>3, <3>1, OutcomesShrink
    <3> QED BY <3>1, <3>2
  <2>5. After(fs[i + 1], g[i], o) # {} /\ After(fs[i + 1], g[i], o) \subseteq SUBSET t
    BY <2>2, <2>4 DEF After
  <2> QED BY <2>3, <2>5
<1> HIDE DEF T
<1>3. \A i \in Nat : i \in T
  BY <1>1, <1>2, InductionOnNat
<1> QED BY <1>3 DEF T, Outcome

LEMMA ApplyShrinks ==
    ASSUME NEW fs \in Seq(Filters), NEW t \in SUBSET Nodes, NEW o
    PROVE  Apply(fs, t, o) # {} /\ Apply(fs, t, o) \subseteq SUBSET t
<1>1. PICK g : Run(g, fs, t, o) /\ Apply(fs, t, o) = g[Len(fs)]
  BY ApplyRuns
<1>2. Outcome(fs, t, g)
  BY <1>1, RunShrinks
<1> QED BY <1>1, <1>2 DEF Outcome

LEMMA AfterReorderable ==
    ASSUME NEW f \in Filters, isReorderingAllowed(f) \/ f = Nothing, NEW sets \in SUBSET SUBSET Nodes, NEW o
    PROVE  After(f, sets, o) = Cut(sets, Kept(f))
<1>1. \A s \in sets : Outcomes(f, s, o) = {s \cap Kept(f)}
  BY ReorderableOutcomes
<1> QED BY <1>1 DEF After, Cut

LEMMA CutTwice ==
    ASSUME NEW sets, NEW x, NEW y, NEW z, z = x \cap y
    PROVE  Cut(Cut(sets, x), y) = Cut(sets, z)
<1>1. \A s : (s \cap x) \cap y = s \cap z
  OBVIOUS
<1>2. ASSUME NEW r \in Cut(Cut(sets, x), y)
      PROVE  r \in Cut(sets, z)
  <2>1. PICK q \in Cut(sets, x) : r = q \cap y
    BY DEF Cut
  <2>2. PICK s \in sets : q = s \cap x
    BY DEF Cut
  <2> QED BY <1>1, <2>1, <2>2 DEF Cut
<1>3. ASSUME NEW r \in Cut(sets, z)
      PROVE  r \in Cut(Cut(sets, x), y)
  <2>1. PICK s \in sets : r = s \cap z
    BY DEF Cut
  <2>2. s \cap x \in Cut(sets, x)
    BY DEF Cut
  <2> QED BY <1>1, <2>1, <2>2 DEF Cut
<1> QED BY <1>2, <1>3

(* The filters up to the k-th may change places, so each looks at one node alone. *)
Prefix(fs, k) == k \in 0 .. Len(fs) /\ \A i \in 1 .. k : isReorderingAllowed(fs[i])
Through(fs, k) == {n \in Nodes : \A i \in 1 .. k : Keeps(fs[i], n)}

Narrowed(g, fs, t, k) == g[k] = {t \cap Through(fs, k)}

LEMMA PrefixRun ==
    ASSUME NEW fs \in Seq(Filters), NEW t \in SUBSET Nodes, NEW o, NEW g, Run(g, fs, t, o),
           NEW k, Prefix(fs, k)
    PROVE  Narrowed(g, fs, t, k)
<1> DEFINE T == {i \in Nat : i <= k => g[i] = {t \cap Through(fs, i)}}
<1>0. k \in Nat /\ k <= Len(fs) /\ \A i \in 1 .. k : isReorderingAllowed(fs[i])
  BY DEF Prefix
<1>1. 0 \in T
  <2>1. t \cap Through(fs, 0) = t
    BY DEF Through
  <2> QED BY <2>1 DEF Run
<1>2. ASSUME NEW i \in Nat, i \in T
      PROVE  i + 1 \in T
  <2>1. SUFFICES ASSUME i + 1 <= k
                 PROVE  g[i + 1] = {t \cap Through(fs, i + 1)}
    OBVIOUS
  <2>2. /\ i + 1 \in 1 .. Len(fs) /\ (i + 1) - 1 = i /\ g[i] = {t \cap Through(fs, i)}
        /\ fs[i + 1] \in Filters /\ isReorderingAllowed(fs[i + 1])
    BY <1>0, <1>2, <2>1
  <2>3. g[i + 1] = After(fs[i + 1], g[i], o)
    BY <2>2 DEF Run
  <2>4. After(fs[i + 1], g[i], o) = {s \cap Kept(fs[i + 1]) : s \in g[i]}
    <3>1. g[i] \in SUBSET SUBSET Nodes
      BY <2>2
    <3>2. After(fs[i + 1], g[i], o) = Cut(g[i], Kept(fs[i + 1]))
      BY <2>2, <3>1, AfterReorderable
    <3> QED BY <3>2 DEF Cut
  <2>5. Through(fs, i) \cap Kept(fs[i + 1]) = Through(fs, i + 1)
    BY <2>2 DEF Through, Kept
  <2>6. {s \cap Kept(fs[i + 1]) : s \in g[i]} = {(t \cap Through(fs, i)) \cap Kept(fs[i + 1])}
    BY <2>2
  <2>7. (t \cap Through(fs, i)) \cap Kept(fs[i + 1]) = t \cap Through(fs, i + 1)
    BY <2>5
  <2> QED BY <2>3, <2>4, <2>6, <2>7
<1> HIDE DEF T
<1>3. \A i \in Nat : i \in T
  BY <1>1, <1>2, InductionOnNat
<1> QED BY <1>0, <1>3 DEF T, Narrowed

(* The nodes that no filter of a prefix lets through do not matter. *)
LEMMA PrefixDecides ==
    ASSUME NEW fs \in Seq(Filters), NEW x \in SUBSET Nodes, NEW y \in SUBSET Nodes, NEW o,
           NEW k, Prefix(fs, k), x \cap Through(fs, k) = y \cap Through(fs, k)
    PROVE  Apply(fs, x, o) = Apply(fs, y, o)
<1>1. PICK g : Run(g, fs, x, o) /\ Apply(fs, x, o) = g[Len(fs)]
  BY ApplyRuns
<1>2. PICK h : Run(h, fs, y, o) /\ Apply(fs, y, o) = h[Len(fs)]
  BY ApplyRuns
<1>3. g[k] = h[k]
  <2>1. Narrowed(g, fs, x, k)
    BY <1>1, PrefixRun
  <2>2. Narrowed(h, fs, y, k)
    BY <1>2, PrefixRun
  <2> QED BY <2>1, <2>2 DEF Narrowed
<1>4. PICK m \in Nat : m = Len(fs)
  OBVIOUS
<1>5. k \in Nat /\ k <= m /\ m <= Len(fs) /\ g[k] = h[k] /\ Same(fs, fs, k, m)
  BY <1>3, <1>4 DEF Prefix, Same
<1>6. g[m] = h[m]
  BY <1>1, <1>2, <1>5, RunsAgree
<1> QED BY <1>1, <1>2, <1>4, <1>6

(* Another group is asked about no node outside the list. *)
LEMMA ApplyOfOthers ==
    ASSUME NEW fs \in Seq(Filters), NEW t \in SUBSET Nodes, NEW o, NEW q, AgreeOn(t, o, q)
    PROVE  Apply(fs, t, o) = Apply(fs, t, q)
<1>0. Len(fs) \in Nat
  OBVIOUS
<1>1. PICK g : Run(g, fs, t, o) /\ Apply(fs, t, o) = g[Len(fs)]
  BY ApplyRuns
<1>2. PICK h : Run(h, fs, t, q) /\ Apply(fs, t, q) = h[Len(fs)]
  BY ApplyRuns
<1>3. Outcome(fs, t, g)
  BY <1>1, RunShrinks
<1> DEFINE T == {i \in Nat : i <= Len(fs) => g[i] = h[i]}
<1>4. 0 \in T
  BY <1>1, <1>2 DEF Run
<1>5. ASSUME NEW i \in Nat, i \in T
      PROVE  i + 1 \in T
  <2>1. SUFFICES ASSUME i + 1 <= Len(fs)
                 PROVE  g[i + 1] = h[i + 1]
    OBVIOUS
  <2>2. i + 1 \in 1 .. Len(fs) /\ (i + 1) - 1 = i /\ g[i] = h[i] /\ fs[i + 1] \in Filters
    BY <1>5, <2>1
  <2>3. g[i + 1] = After(fs[i + 1], g[i], o) /\ h[i + 1] = After(fs[i + 1], g[i], q)
    BY <1>1, <1>2, <2>2 DEF Run
  <2>4. ASSUME NEW s \in g[i]
        PROVE  Outcomes(fs[i + 1], s, o) = Outcomes(fs[i + 1], s, q)
    <3>1. s \in SUBSET Nodes /\ AgreeOn(s, o, q)
      BY <1>0, <1>3, <2>2 DEF Outcome, AgreeOn
    <3>2. PICK f \in Filters : f = fs[i + 1]
      BY <2>2
    <3>3. Outcomes(f, s, o) = Outcomes(f, s, q)
      BY <3>1, OutcomesOfOthers
    <3> QED BY <3>2, <3>3
  <2>5. After(fs[i + 1], g[i], o) = After(fs[i + 1], g[i], q)
    BY <2>4 DEF After
  <2> QED BY <2>3, <2>5
<1> HIDE DEF T
<1>6. \A i \in Nat : i \in T
  BY <1>4, <1>5, InductionOnNat
<1> QED BY <1>0, <1>1, <1>2, <1>6 DEF T

(* Without filters by position a list can be cut down before or after. *)
LEMMA ApplyAlone ==
    ASSUME NEW fs \in Seq(Filters), NEW x \in SUBSET Nodes, NEW y, NEW o, NEW z, z = x \cap y,
           \A i \in DOMAIN fs : LooksAlone(fs[i])
    PROVE  Apply(fs, z, o) = Cut(Apply(fs, x, o), y)
<1>0. z \in SUBSET Nodes /\ Len(fs) \in Nat
  OBVIOUS
<1>1. PICK g : Run(g, fs, x, o) /\ Apply(fs, x, o) = g[Len(fs)]
  BY ApplyRuns
<1>2. PICK h : Run(h, fs, z, o) /\ Apply(fs, z, o) = h[Len(fs)]
  BY <1>0, ApplyRuns
<1>3. Outcome(fs, x, g)
  BY <1>1, RunShrinks
<1> DEFINE T == {i \in Nat : i <= Len(fs) => h[i] = {r \cap y : r \in g[i]}}
<1>4. 0 \in T
  BY <1>1, <1>2 DEF Run
<1>5. ASSUME NEW i \in Nat, i \in T
      PROVE  i + 1 \in T
  <2>1. SUFFICES ASSUME i + 1 <= Len(fs)
                 PROVE  h[i + 1] = {r \cap y : r \in g[i + 1]}
    OBVIOUS
  <2>2. /\ i + 1 \in 1 .. Len(fs) /\ (i + 1) - 1 = i /\ h[i] = {r \cap y : r \in g[i]}
    BY <1>5, <2>1
  <2>3. PICK f \in Filters : f = fs[i + 1] /\ LooksAlone(f)
    BY <2>2
  <2>4. g[i + 1] = After(f, g[i], o) /\ h[i + 1] = After(f, h[i], o)
    BY <1>1, <1>2, <2>2, <2>3 DEF Run
  <2>5. ASSUME NEW s \in g[i]
        PROVE  Outcomes(f, s \cap y, o) = {r \cap y : r \in Outcomes(f, s, o)}
    <3>1. s \in SUBSET Nodes
      BY <1>0, <1>3, <2>2 DEF Outcome
    <3>2. PICK w : w = s \cap y
      OBVIOUS
    <3>3. Outcomes(f, w, o) = Cut(Outcomes(f, s, o), y)
      BY <2>3, <3>1, <3>2, OutcomesAlone
    <3> QED BY <3>2, <3>3 DEF Cut
  <2>6. After(f, h[i], o) = UNION {Outcomes(f, s \cap y, o) : s \in g[i]}
    BY <2>2 DEF After
  <2>7. UNION {Outcomes(f, s \cap y, o) : s \in g[i]} = {r \cap y : r \in After(f, g[i], o)}
    <3>1. ASSUME NEW r \in UNION {Outcomes(f, s \cap y, o) : s \in g[i]}
          PROVE  r \in {q \cap y : q \in After(f, g[i], o)}
      <4>1. PICK s \in g[i] : r \in Outcomes(f, s \cap y, o)
        BY <3>1
      <4>2. PICK q \in Outcomes(f, s, o) : r = q \cap y
        BY <2>5, <4>1
      <4> QED BY <4>2 DEF After
    <3>2. ASSUME NEW q \in After(f, g[i], o)
          PROVE  q \cap y \in UNION {Outcomes(f, s \cap y, o) : s \in g[i]}
      <4>1. PICK s \in g[i] : q \in Outcomes(f, s, o)
        BY DEF After
      <4>2. q \cap y \in Outcomes(f, s \cap y, o)
        BY <2>5, <4>1
      <4> QED BY <4>2
    <3> QED BY <3>1, <3>2
  <2> QED BY <2>4, <2>6, <2>7
<1> HIDE DEF T
<1>6. \A i \in Nat : i \in T
  BY <1>4, <1>5, InductionOnNat
<1> QED BY <1>0, <1>1, <1>2, <1>6 DEF T, Cut

-----------------------------------------------------------------------------
(* What the server reads and answers.                                      *)

(* What is written of a filter says less than the filter. *)
Weaker(f, e) == \A i \in 1 .. Len(e) : \A n \in Nodes : Keeps(f, n) => Keeps(e[i], n)

LEMMA AttributesAre ==
    ASSUME NEW f \in NodeAttributes
    PROVE  f.attrs \subseteq Attrs /\ f.attrs # {} /\ f.kind = "attrs"
<1>1. PICK all : all = (SUBSET Attrs) \ {{}}
  OBVIOUS
<1>2. PICK as \in all : f.attrs = as /\ f.kind = "attrs"
  BY <1>1 DEF NodeAttributes
<1>3. as \subseteq Attrs /\ as # {}
  <2>1. ASSUME as = {}
        PROVE  FALSE
    <3>1. {} \notin all
      BY <1>1
    <3> QED BY <2>1, <3>1
  <2>2. as \subseteq Attrs
    BY <1>1
  <2> QED BY <2>1, <2>2
<1> QED BY <1>2, <1>3

LEMMA EntriesWeaker ==
    ASSUME NEW f \in ServerSide, NEW e \in Entries(f)
    PROVE  e \in Seq(ServerSide) /\ Len(e) >= 1 /\ Weaker(f, e)
<1>1. CASE f.kind = "attrs"
  <2>1. f \in NodeAttributes
    BY <1>1 DEF ServerSide, NodeTypes
  <2>2. PICK l \in SetToSeqs(f.attrs) : e = [i \in DOMAIN l |-> [f EXCEPT !.attrs = {l[i]}]]
    BY <1>1 DEF Entries
  <2>3. PICK c : c = Cardinality(f.attrs)
    OBVIOUS
  <2>4. l \in [1 .. c -> f.attrs]
    BY <2>3 DEF SetToSeqs
  <2>5. c \in Nat /\ c >= 1
    <3>1. IsFiniteSet(Attrs)
      <4>1. PICK all : all = {Info[n].attrs : n \in Nodes}
        OBVIOUS
      <4>2. IsFiniteSet(all)
        <5>1. PICK of : of = [n \in Nodes |-> Info[n].attrs]
          OBVIOUS
        <5>2. of \in [Nodes -> all] /\ \A a \in all : \E n \in Nodes : of[n] = a
          BY <4>1, <5>1
        <5>3. of \in Surjection(Nodes, all)
          BY <5>2 DEF Surjection
        <5> QED BY <5>3, ProjectionAssumption, FS_Surjection
      <4>3. \A a \in all : IsFiniteSet(a)
        BY <4>1, ProjectionAssumption
      <4>4. IsFiniteSet(UNION all)
        BY <4>2, <4>3, FS_UNION
      <4> QED BY <4>1, <4>4 DEF Attrs
    <3>2. f.attrs \subseteq Attrs /\ f.attrs # {}
      BY <2>1, AttributesAre
    <3>3. IsFiniteSet(f.attrs)
      BY <3>1, <3>2, FS_Subset
    <3>4. Cardinality(f.attrs) \in Nat /\ Cardinality(f.attrs) # 0
      BY <3>2, <3>3, FS_CardinalityType, FS_EmptySet
    <3> QED BY <2>3, <3>4
  <2>6. ASSUME NEW i \in 1 .. c
        PROVE  /\ [f EXCEPT !.attrs = {l[i]}] \in ServerSide
               /\ \A n \in Nodes : Keeps(f, n) => Keeps([f EXCEPT !.attrs = {l[i]}], n)
    <3>1. PICK g : g = [f EXCEPT !.attrs = {l[i]}]
      OBVIOUS
    <3>2. g = [kind |-> "attrs", attrs |-> {l[i]}]
      BY <2>1, <3>1 DEF NodeAttributes
    <3>3. l[i] \in f.attrs /\ l[i] \in Attrs
      BY <2>1, <2>4, AttributesAre
    <3>4. g \in NodeAttributes
      <4>1. PICK as \in (SUBSET Attrs) \ {{}} : as = {l[i]}
        <5>1. PICK a \in Attrs : a = l[i]
          BY <3>3
        <5>2. PICK as \in SUBSET Attrs : as = {a}
          OBVIOUS
        <5>3. as # {}
          BY <5>2
        <5> QED BY <5>1, <5>2, <5>3
      <4> QED BY <3>2, <4>1 DEF NodeAttributes
    <3>5. \A n \in Nodes : Keeps(f, n) => Keeps(g, n)
      BY <1>1, <3>2, <3>3 DEF Keeps
    <3> QED BY <3>1, <3>4, <3>5 DEF ServerSide
  <2>7. DOMAIN l = 1 .. c /\ Len(e) = c /\ e \in Seq(ServerSide)
    <3>1. DOMAIN l = 1 .. c /\ DOMAIN e = 1 .. c
      BY <2>2, <2>4
    <3>2. e = [i \in 1 .. c |-> [f EXCEPT !.attrs = {l[i]}]]
      BY <2>2, <3>1
    <3>3. \A i \in 1 .. c : e[i] \in ServerSide
      BY <2>6, <3>2
    <3>4. e \in [1 .. c -> ServerSide]
      BY <3>2, <3>3
    <3> QED BY <2>5, <3>1, <3>4
  <2>8. \A i \in 1 .. c : e[i] = [f EXCEPT !.attrs = {l[i]}]
    BY <2>2, <2>7
  <2> QED BY <2>5, <2>6, <2>7, <2>8 DEF Weaker
<1>2. CASE f.kind # "attrs"
  <2>1. e = <<f>>
    BY <1>2 DEF Entries
  <2> QED BY <2>1 DEF Weaker
<1> QED BY <1>1, <1>2

Writes(w, fs) ==
    /\ w \in [0 .. Len(fs) -> SUBSET Seq(ServerSide)] /\ w[0] = {<<>>}
    /\ \A i \in 1 .. Len(fs) : w[i] = Longer(w[i - 1], Written(fs, i))

LEMMA ServerFiltersAre ==
    ASSUME NEW fs \in Seq(Filters), NEW i \in ServerFilters(fs)
    PROVE  i \in 1 .. Len(fs) /\ fs[i] \in ServerSide /\ \A j \in 1 .. i : isReorderingAllowed(fs[j])
  BY DEF ServerFilters

LEMMA LongerAre ==
    ASSUME NEW lists, NEW more, NEW x \in Longer(lists, more)
    PROVE  \E l \in lists, e \in more : x = l \o e
  BY DEF Longer

LEMMA WrittenTyped ==
    ASSUME NEW fs \in Seq(Filters), NEW i \in 1 .. Len(fs), NEW lists \in SUBSET Seq(ServerSide)
    PROVE  Longer(lists, Written(fs, i)) \in SUBSET Seq(ServerSide)
<1>1. Written(fs, i) \subseteq Seq(ServerSide)
  <2>1. CASE i \in ServerFilters(fs)
    <3>1. PICK f \in ServerSide : f = fs[i]
      BY <2>1, ServerFiltersAre
    <3>2. \A e \in Entries(f) : e \in Seq(ServerSide)
      BY EntriesWeaker
    <3> QED BY <2>1, <3>1, <3>2 DEF Written
  <2>2. CASE i \notin ServerFilters(fs)
    <3>1. Written(fs, i) = {<<>>} /\ <<>> \in Seq(ServerSide)
      BY <2>2 DEF Written
    <3> QED BY <3>1
  <2> QED BY <2>1, <2>2
<1>2. ASSUME NEW l \in lists, NEW e \in Written(fs, i)
      PROVE  l \o e \in Seq(ServerSide)
  <2>1. l \in Seq(ServerSide) /\ e \in Seq(ServerSide)
    BY <1>1
  <2> HIDE DEF ServerSide
  <2> QED BY <2>1
<1>3. ASSUME NEW x \in Longer(lists, Written(fs, i))
      PROVE  x \in Seq(ServerSide)
  <2>1. PICK l \in lists, e \in Written(fs, i) : x = l \o e
    BY LongerAre
  <2> QED BY <1>2, <2>1
<1> QED BY <1>3

LEMMA ReadsAreWritten ==
    ASSUME NEW fs \in Seq(Filters)
    PROVE  \E w : /\ Writes(w, fs)
                  /\ FiltersRead(fs) = {SubSeq(l, 1, Cardinality(ServerFilters(fs))) : l \in w[Len(fs)]}
<1> DEFINE S == SUBSET Seq(ServerSide)
           F == [x \in S \X (1 .. Len(fs)) |-> Longer(x[1], Written(fs, x[2]))]
           R(h) == h = [i \in 0 .. Len(fs) |->
                           IF i = 0 THEN {<<>>} ELSE Longer(h[i - 1], Written(fs, i))]
<1>1. Len(fs) \in Nat /\ {<<>>} \in S
  OBVIOUS
<1>2. F \in [S \X (1 .. Len(fs)) -> S]
  <2>1. ASSUME NEW lists \in S, NEW i \in 1 .. Len(fs)
        PROVE  Longer(lists, Written(fs, i)) \in S
    BY WrittenTyped
  <2> HIDE DEF S
  <2> QED BY <2>1
<1>3. \A lists \in S, i \in 1 .. Len(fs) : F[<<lists, i>>] = Longer(lists, Written(fs, i))
  OBVIOUS
<1> HIDE DEF S, F
<1>4. PICK w \in [0 .. Len(fs) -> S] : w[0] = {<<>>} /\ \A i \in 1 .. Len(fs) : w[i] = F[<<w[i - 1], i>>]
  <2>0. PICK b \in S, n \in Nat : b = {<<>>} /\ n = Len(fs)
    BY <1>1
  <2>1. PICK G \in [S \X (1 .. n) -> S] : G = F
    BY <1>2, <2>0
  <2>2. \E w : Recurs(w, S, b, n, G)
    BY RecursionExists
  <2> QED BY <2>0, <2>1, <2>2 DEF Recurs
<1>5. \A i \in 1 .. Len(fs) : w[i] = Longer(w[i - 1], Written(fs, i))
  <2>1. ASSUME NEW i \in 1 .. Len(fs)
        PROVE  w[i] = Longer(w[i - 1], Written(fs, i))
    <3>1. i - 1 \in 0 .. Len(fs) /\ w[i - 1] \in S
      BY <1>1, <1>4
    <3> QED BY <1>3, <1>4, <3>1
  <2> QED BY <2>1
<1>6. R(w)
  <2>1. w = [i \in 0 .. Len(fs) |-> w[i]]
    BY <1>4
  <2>2. \A i \in 0 .. Len(fs) :
            w[i] = IF i = 0 THEN {<<>>} ELSE Longer(w[i - 1], Written(fs, i))
    BY <1>1, <1>4, <1>5
  <2> QED BY <2>1, <2>2
<1>7. R(CHOOSE h : R(h))
  <2> HIDE DEF R
  <2> QED BY <1>6
<1>8. PICK h : /\ R(h)
               /\ FiltersRead(fs) = {SubSeq(l, 1, Cardinality(ServerFilters(fs))) : l \in h[Len(fs)]}
  <2>1. FiltersRead(fs) = {SubSeq(l, 1, Cardinality(ServerFilters(fs))) : l \in (CHOOSE h : R(h))[Len(fs)]}
    BY DEF FiltersRead
  <2> HIDE DEF R
  <2> QED BY <1>7, <2>1
<1>9. ASSUME NEW i \in 1 .. Len(fs)
      PROVE  h[i] = Longer(h[i - 1], Written(fs, i))
  <2>1. i \in 0 .. Len(fs) /\ i # 0
    BY <1>1
  <2> QED BY <1>8, <2>1
<1>10. h[0] = {<<>>}
  BY <1>1, <1>8
<1> HIDE DEF R
<1>11. \A i \in 0 .. Len(fs) : h[i] = w[i]
  <2> DEFINE T == {i \in Nat : i <= Len(fs) => h[i] = w[i]}
  <2>1. 0 \in T
    BY <1>4, <1>10
  <2>2. ASSUME NEW i \in Nat, i \in T
        PROVE  i + 1 \in T
    <3>1. SUFFICES ASSUME i + 1 <= Len(fs)
                   PROVE  h[i + 1] = w[i + 1]
      OBVIOUS
    <3>2. h[i] = w[i] /\ i + 1 \in 1 .. Len(fs) /\ (i + 1) - 1 = i
      BY <1>1, <2>2, <3>1
    <3> QED BY <1>5, <1>9, <3>2
  <2> HIDE DEF T
  <2>3. \A i \in Nat : i \in T
    BY <2>1, <2>2, InductionOnNat
  <2> QED BY <2>3 DEF T
<1>12. Writes(w, fs)
  BY <1>4, <1>5 DEF Writes, S
<1>13. h[Len(fs)] = w[Len(fs)]
  BY <1>1, <1>11
<1> QED BY <1>8, <1>12, <1>13

(* Every entry that is written stands for a filter of the server's, and each of them has written one. *)
Implied(fs, l) == \A i \in 1 .. Len(l) : \E j \in ServerFilters(fs) : \A n \in Nodes : Keeps(fs[j], n) => Keeps(l[i], n)
Enough(fs, l, k) == Len(l) >= Cardinality(ServerFilters(fs) \cap (1 .. k))

LEMMA WrittenEnough ==
    ASSUME NEW fs \in Seq(Filters), NEW w, Writes(w, fs), NEW k \in 0 .. Len(fs), NEW l \in w[k]
    PROVE  l \in Seq(ServerSide) /\ Implied(fs, l) /\ Enough(fs, l, k)
<1> DEFINE T == {i \in Nat : i <= Len(fs) => \A x \in w[i] : Implied(fs, x) /\ Enough(fs, x, i)}
<1>1. 0 \in T
  <2>1. Implied(fs, <<>>)
    BY DEF Implied
  <2>2. Enough(fs, <<>>, 0)
    <3>1. ServerFilters(fs) \cap (1 .. 0) = {}
      OBVIOUS
    <3> QED BY <3>1, FS_EmptySet DEF Enough
  <2> QED BY <2>1, <2>2 DEF Writes
<1>2. ASSUME NEW i \in Nat, i \in T
      PROVE  i + 1 \in T
  <2>1. SUFFICES ASSUME i + 1 <= Len(fs), NEW x \in w[i + 1]
                 PROVE  Implied(fs, x) /\ Enough(fs, x, i + 1)
    OBVIOUS
  <2>2. i + 1 \in 1 .. Len(fs) /\ (i + 1) - 1 = i /\ i \in 0 .. Len(fs) /\ \A y \in w[i] : Implied(fs, y) /\ Enough(fs, y, i)
    BY <1>2, <2>1
  <2>3. w[i + 1] = Longer(w[i], Written(fs, i + 1))
    BY <2>2 DEF Writes
  <2>4. PICK y \in w[i], e \in Written(fs, i + 1) : x = y \o e
    <3>1. PICK lists, more : lists = w[i] /\ more = Written(fs, i + 1)
      OBVIOUS
    <3> HIDE DEF T
    <3>2. x \in Longer(lists, more)
      BY <2>1, <2>3, <3>1
    <3>3. \E y \in lists, e \in more : x = y \o e
      BY <3>2 DEF Longer
    <3> QED BY <3>1, <3>3
  <2>5. y \in Seq(ServerSide) /\ Implied(fs, y) /\ Enough(fs, y, i)
    BY <2>2, <2>4 DEF Writes
  <2>6. PICK P, Q : P = ServerFilters(fs) \cap (1 .. i) /\ Q = ServerFilters(fs) \cap (1 .. (i + 1))
    OBVIOUS
  <2>7. IsFiniteSet(P) /\ Cardinality(P) \in Nat
    <3>1. IsFiniteSet(1 .. i) /\ P \subseteq 1 .. i
      BY <2>6, FS_Interval
    <3> QED BY <3>1, FS_Subset, FS_CardinalityType
  <2>8. CASE i + 1 \in ServerFilters(fs)
    <3>1. PICK f \in ServerSide : f = fs[i + 1]
      BY <2>8, ServerFiltersAre
    <3>2. e \in Entries(f)
      BY <2>4, <2>8, <3>1 DEF Written
    <3>3. e \in Seq(ServerSide) /\ Len(e) >= 1 /\ Weaker(f, e)
      BY <3>2, EntriesWeaker
    <3>4. /\ Len(x) = Len(y) + Len(e) /\ Len(y) \in Nat /\ Len(e) \in Nat
          /\ \A m \in 1 .. Len(y) : x[m] = y[m]
          /\ \A m \in (Len(y) + 1) .. Len(x) : x[m] = e[m - Len(y)]
      BY <2>4, <2>5, <3>3
    <3>5. Q = P \cup {i + 1} /\ i + 1 \notin P
      BY <2>6, <2>8
    <3>6. Cardinality(Q) = Cardinality(P) + 1
      BY <2>7, <3>5, FS_AddElement
    <3>7. Enough(fs, x, i + 1)
      BY <2>5, <2>6, <2>7, <3>3, <3>4, <3>6 DEF Enough
    <3>8. ASSUME NEW m \in 1 .. Len(x)
          PROVE  \E j \in ServerFilters(fs) : \A n \in Nodes : Keeps(fs[j], n) => Keeps(x[m], n)
      <4>1. CASE m <= Len(y)
        <5>1. m \in 1 .. Len(y)
          BY <3>4, <4>1
        <5> QED BY <2>5, <3>4, <5>1 DEF Implied
      <4>2. CASE m > Len(y)
        <5>1. m - Len(y) \in 1 .. Len(e) /\ m \in (Len(y) + 1) .. Len(x)
          BY <3>4, <4>2
        <5> QED BY <2>8, <3>1, <3>3, <3>4, <5>1 DEF Weaker
      <4> QED BY <3>4, <4>1, <4>2
    <3> QED BY <3>7, <3>8 DEF Implied
  <2>9. CASE i + 1 \notin ServerFilters(fs)
    <3>1. e = <<>>
      BY <2>4, <2>9 DEF Written
    <3>2. x = y
      BY <2>4, <2>5, <3>1
    <3>3. Q = P
      BY <2>6, <2>9
    <3> QED BY <2>5, <2>6, <3>2, <3>3 DEF Enough
  <2> QED BY <2>8, <2>9
<1> HIDE DEF T
<1>3. \A i \in Nat : i \in T
  BY <1>1, <1>2, InductionOnNat
<1>4. k \in T
  BY <1>3
<1> QED BY <1>4 DEF T, Writes

(* The server leaves out only nodes that one of its filters does not keep. *)
Fails(fs, n) == \E j \in ServerFilters(fs) : ~Keeps(fs[j], n)

LEMMA ServerLeavesOut ==
    ASSUME NEW fs \in Seq(Filters), NEW t \in SUBSET Nodes, NEW a \in ServerAnswers(fs, t)
    PROVE  a \subseteq t /\ \A n \in t \ a : Fails(fs, n)
<1>1. PICK r \in FiltersRead(fs) : a = {n \in t : \A i \in DOMAIN r : Keeps(r[i], n)}
  BY DEF ServerAnswers
<1>2. PICK w : /\ Writes(w, fs)
               /\ FiltersRead(fs) = {SubSeq(l, 1, Cardinality(ServerFilters(fs))) : l \in w[Len(fs)]}
  BY ReadsAreWritten
<1>3. PICK l \in w[Len(fs)], c \in {Cardinality(ServerFilters(fs))} : c = Cardinality(ServerFilters(fs)) /\ r = SubSeq(l, 1, c)
  <2>1. r \in {SubSeq(l, 1, Cardinality(ServerFilters(fs))) : l \in w[Len(fs)]}
    BY <1>1, <1>2
  <2>2. PICK l \in w[Len(fs)] : r = SubSeq(l, 1, Cardinality(ServerFilters(fs)))
    BY <2>1
  <2> QED BY <2>2
<1>4. PICK k \in 0 .. Len(fs) : k = Len(fs)
  OBVIOUS
<1>5. l \in Seq(ServerSide) /\ Implied(fs, l) /\ Enough(fs, l, k)
  BY <1>2, <1>3, <1>4, WrittenEnough
<1>6. ServerFilters(fs) \cap (1 .. k) = ServerFilters(fs) /\ IsFiniteSet(ServerFilters(fs))
  <2>1. ServerFilters(fs) \subseteq 1 .. k
    BY <1>4, ServerFiltersAre
  <2>2. IsFiniteSet(1 .. k)
    BY FS_Interval
  <2> QED BY <2>1, <2>2, FS_Subset
<1>7. c \in Nat /\ c <= Len(l)
  BY <1>3, <1>5, <1>6, FS_CardinalityType DEF Enough
<1>8. DOMAIN r = 1 .. c /\ \A i \in 1 .. c : r[i] = l[i] /\ i \in 1 .. Len(l)
  BY <1>3, <1>5, <1>7
<1>9. ASSUME NEW n \in t \ a
      PROVE  Fails(fs, n)
  <2>1. PICK i \in 1 .. c : ~Keeps(l[i], n)
    BY <1>1, <1>8, <1>9
  <2>2. PICK j \in ServerFilters(fs) : Keeps(fs[j], n) => Keeps(l[i], n)
    BY <1>5, <1>8, <2>1 DEF Implied
  <2> QED BY <2>1, <2>2 DEF Fails
<1> QED BY <1>1, <1>9

(* So the projection of the server's answer is that of the topology. *)
LEMMA LeavingOutIsSafe ==
    ASSUME NEW fs \in Seq(Filters), NEW y \in SUBSET Nodes, NEW x \in SUBSET y, NEW o,
           \A n \in y \ x : Fails(fs, n)
    PROVE  Apply(fs, x, o) = Apply(fs, y, o)
<1> DEFINE Ends == {i \in Nat : i <= Len(fs) /\ (i = Len(fs) \/ ~isReorderingAllowed(fs[i + 1]))}
<1>1. PICK k \in Ends : \A i \in Ends : k <= i
  <2>1. Ends \subseteq Nat /\ Len(fs) \in Ends
    OBVIOUS
  <2> HIDE DEF Ends
  <2> QED BY <2>1, LeastNumber
<1>2. Prefix(fs, k)
  <2>1. ASSUME NEW i \in 1 .. k
        PROVE  isReorderingAllowed(fs[i])
    <3>0. k \in Nat /\ i \in Int
      BY <1>1
    <3>1. i - 1 \in Nat /\ i - 1 <= Len(fs) /\ i - 1 < k /\ (i - 1) + 1 = i
      BY <1>1
    <3>2. i - 1 \notin Ends
      <4> HIDE DEF Ends
      <4>1. ASSUME i - 1 \in Ends
            PROVE  FALSE
        <5>1. k <= i - 1
          BY <1>1, <4>1
        <5> QED BY <3>1, <5>1, <3>0
      <4> QED BY <4>1
    <3> QED BY <1>1, <3>1, <3>2
  <2> QED BY <1>1, <2>1 DEF Prefix
<1>3. \A j \in ServerFilters(fs) : j \in 1 .. k
  <2>1. ASSUME NEW j \in ServerFilters(fs), j > k
        PROVE  FALSE
    <3>1. j \in 1 .. Len(fs) /\ \A i \in 1 .. j : isReorderingAllowed(fs[i])
      BY ServerFiltersAre
    <3>2. k + 1 \in 1 .. j /\ k # Len(fs)
      BY <1>1, <2>1, <3>1
    <3> QED BY <1>1, <3>1, <3>2
  <2> QED BY <1>1, <2>1, ServerFiltersAre
<1>4. \A n \in y \ x : n \notin Through(fs, k)
  BY <1>3 DEF Fails, Through
<1>5. x \cap Through(fs, k) = y \cap Through(fs, k)
  BY <1>4
<1>6. x \in SUBSET Nodes
  OBVIOUS
<1> QED BY <1>2, <1>5, <1>6, PrefixDecides

-----------------------------------------------------------------------------
(* Merging: a filter that is merged does what it would do at the end.      *)

(* What one of two merged filters keeps, both keep; contradictory ones keep no node. *)
LEMMA MergeKeepsBoth ==
    ASSUME NEW prev \in Filters, NEW f \in Filters, Mergeable(prev, f)
    PROVE  /\ isReorderingAllowed(f) /\ isReorderingAllowed(prev)
           /\ Contradict(prev, f) => Kept(prev) \cap Kept(f) = {}
           /\ ~Contradict(prev, f) => /\ Merge(prev, f) \in Filters /\ isReorderingAllowed(Merge(prev, f))
                                      /\ Kept(Merge(prev, f)) = Kept(prev) \cap Kept(f)
<1>1. prev.kind = f.kind /\ f.kind \in {"type", "attrs", "ids"}
  BY DEF Mergeable
<1>2. isReorderingAllowed(f) /\ isReorderingAllowed(prev)
  BY <1>1 DEF isReorderingAllowed
<1>3. CASE f.kind = "type"
  <2>1. f \in NodeTypes /\ prev \in NodeTypes /\ prev.kind = "type"
    BY <1>1, <1>3, KindsOf
  <2>2. Contradict(prev, f) <=> prev.isForClients # f.isForClients
    BY <1>3 DEF Contradict
  <2>3. Merge(prev, f) = prev
    BY <1>3 DEF Merge
  <2>4. \A n \in Nodes : /\ Keeps(prev, n) <=> Info[n].isClient = prev.isForClients
                         /\ Keeps(f, n) <=> Info[n].isClient = f.isForClients
    BY <1>3, <2>1 DEF Keeps
  <2> QED BY <1>2, <2>2, <2>3, <2>4 DEF Kept
<1>4. CASE f.kind = "attrs"
  <2>1. f \in NodeAttributes /\ prev \in NodeAttributes /\ prev.kind = "attrs"
    BY <1>1, <1>4, KindsOf
  <2>2. Contradict(prev, f) <=> \E a \in prev.attrs, b \in f.attrs : a[1] = b[1] /\ a[2] # b[2]
    BY <1>4 DEF Contradict
  <2>3. PICK m : m = Merge(prev, f)
    OBVIOUS
  <2>4. m = [kind |-> "attrs", attrs |-> prev.attrs \cup f.attrs]
    <3>1. m = [prev EXCEPT !.attrs = @ \cup f.attrs]
      BY <1>4, <2>3 DEF Merge
    <3> QED BY <2>1, <3>1 DEF NodeAttributes
  <2>5. m \in NodeAttributes
    <3>1. PICK as \in (SUBSET Attrs) \ {{}} : as = prev.attrs \cup f.attrs
      BY <2>1, AttributesAre
    <3> QED BY <2>4, <3>1 DEF NodeAttributes
  <2>6. \A n \in Nodes : /\ Keeps(prev, n) <=> prev.attrs \subseteq Info[n].attrs
                         /\ Keeps(f, n) <=> f.attrs \subseteq Info[n].attrs
                         /\ Keeps(m, n) <=> m.attrs \subseteq Info[n].attrs
    BY <1>4, <2>1, <2>4 DEF Keeps
  <2>7. Kept(m) = Kept(prev) \cap Kept(f)
    BY <2>4, <2>6 DEF Kept
  <2>8. m \in Filters /\ isReorderingAllowed(m)
    BY <2>4, <2>5 DEF Filters, ServerSide, isReorderingAllowed
  <2>9. ASSUME Contradict(prev, f), NEW n \in Nodes, Keeps(prev, n), Keeps(f, n)
        PROVE  FALSE
    <3>1. PICK a \in prev.attrs, b \in f.attrs : a[1] = b[1] /\ a[2] # b[2]
      BY <2>2, <2>9
    <3>2. a \in Info[n].attrs /\ b \in Info[n].attrs
      BY <2>6, <2>9, <3>1
    <3> QED BY <3>1, <3>2, ProjectionAssumption
  <2> QED BY <1>2, <2>3, <2>7, <2>8, <2>9 DEF Kept
<1>5. CASE f.kind = "ids"
  <2>1. f \in NodeIds /\ prev \in NodeIds /\ prev.kind = "ids"
    BY <1>1, <1>5, KindsOf
  <2>2. Contradict(prev, f) <=> prev.ids \cap f.ids = {}
    BY <1>5 DEF Contradict
  <2>3. PICK m : m = Merge(prev, f)
    OBVIOUS
  <2>4. m = [kind |-> "ids", ids |-> prev.ids \cap f.ids]
    <3>1. m = [prev EXCEPT !.ids = @ \cap f.ids]
      BY <1>5, <2>3 DEF Merge
    <3> QED BY <2>1, <3>1 DEF NodeIds
  <2>5. prev.ids \subseteq Nodes
    <3>1. PICK all : all = (SUBSET Nodes) \ {{}}
      OBVIOUS
    <3>2. prev.ids \in all
      BY <2>1, <3>1 DEF NodeIds
    <3> QED BY <3>1, <3>2
  <2>6. \A n \in Nodes : /\ Keeps(prev, n) <=> n \in prev.ids
                         /\ Keeps(f, n) <=> n \in f.ids
                         /\ Keeps(m, n) <=> n \in m.ids
    BY <1>5, <2>1, <2>4 DEF Keeps
  <2>7. Kept(m) = Kept(prev) \cap Kept(f)
    BY <2>4, <2>6 DEF Kept
  <2>8. ASSUME ~Contradict(prev, f)
        PROVE  m \in Filters /\ isReorderingAllowed(m)
    <3>1. PICK is \in (SUBSET Nodes) \ {{}} : is = prev.ids \cap f.ids
      BY <2>2, <2>5, <2>8
    <3>2. m \in NodeIds
      BY <2>4, <3>1 DEF NodeIds
    <3> QED BY <2>4, <3>2 DEF Filters, isReorderingAllowed
  <2>9. Contradict(prev, f) => Kept(prev) \cap Kept(f) = {}
    BY <2>2, <2>6 DEF Kept
  <2> QED BY <1>2, <2>3, <2>7, <2>8, <2>9
<1> QED BY <1>1, <1>3, <1>4, <1>5

(* From the place of a filter on, only nodes that it keeps are left. *)
LEMMA RunKeeps ==
    ASSUME NEW fs \in Seq(Filters), NEW t \in SUBSET Nodes, NEW o, NEW g, Run(g, fs, t, o),
           NEW at \in 1 .. Len(fs), isReorderingAllowed(fs[at])
    PROVE  \A s \in g[Len(fs)] : s \subseteq Kept(fs[at])
<1> DEFINE T == {i \in Nat : i <= Len(fs) => \A s \in g[i] : s \subseteq Kept(fs[at])}
<1>1. at \in T
  <2>1. PICK f \in Filters : f = fs[at] /\ isReorderingAllowed(f)
    OBVIOUS
  <2>2. at - 1 \in 0 .. Len(fs)
    OBVIOUS
  <2>3. g[at] = After(f, g[at - 1], o) /\ g[at - 1] \in SUBSET SUBSET Nodes
    BY <2>1, <2>2 DEF Run
  <2>4. g[at] = {s \cap Kept(f) : s \in g[at - 1]}
    BY <2>1, <2>3, AfterReorderable DEF Cut
  <2> QED BY <2>1, <2>4
<1>2. ASSUME NEW i \in Nat, at <= i, i < Len(fs), i \in T
      PROVE  i + 1 \in T
  <2>1. SUFFICES ASSUME NEW s \in g[i + 1]
                 PROVE  s \subseteq Kept(fs[at])
    OBVIOUS
  <2>2. i + 1 \in 1 .. Len(fs) /\ (i + 1) - 1 = i /\ i \in 0 .. Len(fs) /\ \A r \in g[i] : r \subseteq Kept(fs[at])
    BY <1>2
  <2>3. PICK f \in Filters : f = fs[i + 1]
    BY <2>2
  <2>4. g[i + 1] = After(f, g[i], o) /\ g[i] \in SUBSET SUBSET Nodes
    BY <2>2, <2>3 DEF Run
  <2>5. PICK r \in g[i] : s \in Outcomes(f, r, o)
    BY <2>1, <2>4 DEF After
  <2>6. r \in SUBSET Nodes
    BY <2>4, <2>5
  <2>7. s \subseteq r
    BY <2>5, <2>6, OutcomesShrink
  <2> QED BY <2>2, <2>5, <2>7
<1> HIDE DEF T
<1>3. PICK k \in Nat, m \in Nat : k = at /\ m = Len(fs) /\ k <= m
  OBVIOUS
<1>4. k \in T /\ \A i \in Nat : k <= i /\ i < m /\ i \in T => i + 1 \in T
  BY <1>1, <1>2, <1>3
<1>5. \A i \in k .. m : i \in T
  BY <1>4, InductionUpTo
<1>6. Len(fs) \in T
  BY <1>3, <1>5
<1> QED BY <1>6 DEF T

(* A filter at the end of the list can be put into the one at a place behind which nothing depends on the order. *)
Merged(fs, f, at) == [fs EXCEPT ![at] = Merge(@, f)]

LEMMA MergedRun ==
    ASSUME NEW fs \in Seq(Filters), NEW f \in Filters, NEW t \in SUBSET Nodes, NEW o,
           NEW at \in MergePoints(fs, f), ~Contradict(fs[at], f)
    PROVE  Merged(fs, f, at) \in Seq(Filters) /\ Apply(Merged(fs, f, at), t, o) = After(f, Apply(fs, t, o), o)
<1>1. /\ at \in 1 .. Len(fs) /\ Mergeable(fs[at], f) /\ isReorderingAllowed(f)
      /\ \A j \in at .. Len(fs) : isReorderingAllowed(fs[j])
  BY DEF MergePoints
<1>2. PICK prev, m : prev \in Filters /\ prev = fs[at] /\ m = Merge(prev, f)
  BY <1>1
<1>3. m \in Filters /\ isReorderingAllowed(m) /\ Kept(m) = Kept(prev) \cap Kept(f)
  BY <1>1, <1>2, MergeKeepsBoth
<1>4. PICK rs \in Seq(Filters) :
      /\ rs = Merged(fs, f, at) /\ Len(rs) = Len(fs) /\ rs[at] = m
      /\ \A i \in 1 .. Len(fs) : i # at => rs[i] = fs[i]
  <2>1. Merged(fs, f, at) = [fs EXCEPT ![at] = m]
    BY <1>2 DEF Merged
  <2>2. PICK rs : rs = [fs EXCEPT ![at] = m]
    OBVIOUS
  <2>3. rs \in Seq(Filters) /\ Len(rs) = Len(fs) /\ rs[at] = m /\ \A i \in 1 .. Len(fs) : i # at => rs[i] = fs[i]
    BY <1>1, <1>3, <2>2
  <2> QED BY <2>1, <2>2, <2>3
<1>5. PICK g : Run(g, fs, t, o) /\ Apply(fs, t, o) = g[Len(fs)]
  BY ApplyRuns
<1>6. PICK h : Run(h, rs, t, o) /\ Apply(rs, t, o) = h[Len(rs)]
  BY ApplyRuns
<1>7. g[at - 1] = h[at - 1]
  <2>1. PICK b \in Nat : b = at - 1 /\ b <= Len(fs) /\ b <= Len(rs)
    BY <1>1, <1>4
  <2>2. Same(fs, rs, 0, b)
    BY <1>1, <1>4, <2>1 DEF Same
  <2>3. g[b] = h[b]
    BY <1>5, <1>6, <2>1, <2>2, RunsAgreeFromStart
  <2> QED BY <2>1, <2>3
<1> DEFINE T == {i \in Nat : i <= Len(fs) => h[i] = Cut(g[i], Kept(f))}
<1>8. at \in T
  <2>1. at - 1 \in 0 .. Len(fs) /\ at - 1 \in 0 .. Len(rs)
    BY <1>1, <1>4
  <2>2. PICK sets \in SUBSET SUBSET Nodes : sets = g[at - 1]
    BY <1>5, <2>1 DEF Run
  <2>3. g[at] = After(prev, sets, o)
    BY <1>1, <1>2, <1>5, <2>2 DEF Run
  <2>4. h[at] = After(m, sets, o)
    BY <1>1, <1>4, <1>6, <1>7, <2>2 DEF Run
  <2>5. isReorderingAllowed(prev)
    BY <1>1, <1>2
  <2>6. g[at] = Cut(sets, Kept(prev))
    BY <1>2, <2>3, <2>5, AfterReorderable
  <2>7. h[at] = Cut(sets, Kept(m))
    BY <1>3, <2>4, AfterReorderable
  <2>8. PICK kp, kf, km : kp = Kept(prev) /\ kf = Kept(f) /\ km = Kept(m) /\ km = kp \cap kf
    BY <1>3
  <2>9. Cut(Cut(sets, kp), kf) = Cut(sets, km)
    BY <2>8, CutTwice
  <2> QED BY <1>1, <2>6, <2>7, <2>8, <2>9
<1>9. ASSUME NEW i \in Nat, at <= i, i < Len(fs), i \in T
      PROVE  i + 1 \in T
  <2>1. /\ i + 1 \in 1 .. Len(fs) /\ (i + 1) - 1 = i /\ i \in 0 .. Len(fs) /\ i + 1 \in at .. Len(fs) /\ i + 1 # at
        /\ h[i] = Cut(g[i], Kept(f))
    BY <1>1, <1>9
  <2>2. PICK e \in Filters : e = fs[i + 1] /\ e = rs[i + 1] /\ isReorderingAllowed(e)
    BY <1>1, <1>4, <2>1
  <2>3. PICK x \in SUBSET SUBSET Nodes, y \in SUBSET SUBSET Nodes : x = g[i] /\ y = h[i]
    BY <1>4, <1>5, <1>6, <2>1 DEF Run
  <2>4. g[i + 1] = After(e, x, o) /\ h[i + 1] = After(e, y, o)
    BY <1>4, <1>5, <1>6, <2>1, <2>2, <2>3 DEF Run
  <2>5. g[i + 1] = Cut(x, Kept(e))
    BY <2>2, <2>4, AfterReorderable
  <2>6. h[i + 1] = Cut(y, Kept(e))
    BY <2>2, <2>4, AfterReorderable
  <2>7. PICK ke, kf, z : ke = Kept(e) /\ kf = Kept(f) /\ z = ke \cap kf /\ z = kf \cap ke
    OBVIOUS
  <2>8. Cut(Cut(x, kf), ke) = Cut(x, z)
    BY <2>7, CutTwice
  <2>9. Cut(Cut(x, ke), kf) = Cut(x, z)
    BY <2>7, CutTwice
  <2>10. h[i + 1] = Cut(g[i + 1], Kept(f))
    BY <2>1, <2>3, <2>5, <2>6, <2>7, <2>8, <2>9
  <2> QED BY <2>10
<1>10. h[Len(fs)] = Cut(g[Len(fs)], Kept(f))
  <2> HIDE DEF T
  <2>1. PICK k \in Nat, b \in Nat : k = at /\ b = Len(fs) /\ k <= b
    BY <1>1
  <2>2. k \in T /\ \A i \in Nat : k <= i /\ i < b /\ i \in T => i + 1 \in T
    BY <1>8, <1>9, <2>1
  <2>3. \A i \in k .. b : i \in T
    BY <2>2, InductionUpTo
  <2>4. Len(fs) \in T
    BY <2>1, <2>3
  <2> QED BY <2>4 DEF T
<1>11. After(f, g[Len(fs)], o) = Cut(g[Len(fs)], Kept(f))
  <2>1. PICK sets \in SUBSET SUBSET Nodes : sets = g[Len(fs)]
    BY <1>5 DEF Run
  <2> QED BY <1>1, <2>1, AfterReorderable
<1> QED BY <1>4, <1>5, <1>6, <1>10, <1>11

(* So appending a filter is passing what came out before through one filter more. *)
LEMMA SomeMergePoint ==
    ASSUME NEW fs \in Seq(Filters), NEW f, MergePoints(fs, f) # {}
    PROVE  \E i \in MergePoints(fs, f) : \A j \in MergePoints(fs, f) : j <= i
<1>1. PICK points \in SUBSET (1 .. Len(fs)) : points = MergePoints(fs, f)
  <2>1. \A i \in MergePoints(fs, f) : i \in 1 .. Len(fs)
    BY DEF MergePoints
  <2> QED BY <2>1
<1> DEFINE T == {Len(fs) - i : i \in points}
<1>2. T \subseteq Nat /\ T # {}
  BY <1>1
<1> HIDE DEF T
<1>3. PICK d \in T : \A e \in T : d <= e
  BY <1>2, LeastNumber
<1>4. PICK i \in points : d = Len(fs) - i
  BY DEF T
<1>5. ASSUME NEW j \in points
      PROVE  j <= i
  <2>1. d <= Len(fs) - j /\ i \in Int /\ j \in Int /\ Len(fs) \in Int
    BY <1>1, <1>3 DEF T
  <2> QED BY <1>4, <2>1
<1> QED BY <1>1, <1>5

LEMMA AppendKeepsMeaning ==
    ASSUME NEW fs \in Seq(Filters), NEW f \in Filters
    PROVE  /\ appendFilter(fs, f) \in Seq(Filters)
           /\ \A t \in SUBSET Nodes : \A o : Apply(appendFilter(fs, f), t, o) = After(f, Apply(fs, t, o), o)
<1>1. Nothing \in Filters /\ EmptyProjection \in Seq(Filters)
  BY DEF Filters, EmptyProjection
<1>2. ASSUME NEW t \in SUBSET Nodes, NEW o
      PROVE  Apply(EmptyProjection, t, o) = {{}}
  <2>1. <<>> \in Seq(Filters) /\ EmptyProjection = Append(<<>>, Nothing)
    BY DEF EmptyProjection
  <2>2. Apply(EmptyProjection, t, o) = After(Nothing, Apply(<<>>, t, o), o)
    <3>1. PICK none \in Seq(Filters), f0 \in Filters : none = <<>> /\ f0 = Nothing
      BY <1>1, <2>1
    <3>2. Apply(Append(none, f0), t, o) = After(f0, Apply(none, t, o), o)
      BY ApplyAppend
    <3> QED BY <2>1, <3>1, <3>2
  <2>3. Apply(<<>>, t, o) = {t}
    BY ApplyOfNone
  <2>4. PICK sets \in SUBSET SUBSET Nodes : sets = {t}
    OBVIOUS
  <2>5. After(Nothing, sets, o) = Cut(sets, Kept(Nothing))
    BY <1>1, AfterReorderable
  <2>6. Cut({t}, {}) = {{}}
    BY DEF Cut
  <2> QED BY <2>2, <2>3, <2>4, <2>5, <2>6, NothingKept
<1>3. CASE f = Nothing
  <2>1. appendFilter(fs, f) = EmptyProjection
    BY <1>3 DEF appendFilter
  <2>2. ASSUME NEW t \in SUBSET Nodes, NEW o
        PROVE  After(f, Apply(fs, t, o), o) = {{}}
    <3>1. PICK sets \in SUBSET SUBSET Nodes : sets = Apply(fs, t, o) /\ sets # {}
      BY ApplyShrinks
    <3>2. After(f, sets, o) = Cut(sets, Kept(f))
      BY <1>3, AfterReorderable
    <3> QED BY <1>3, <3>1, <3>2, NothingKept DEF Cut
  <2> QED BY <1>1, <1>2, <2>1, <2>2
<1>4. CASE fs = EmptyProjection /\ f # Nothing
  <2>1. appendFilter(fs, f) = EmptyProjection
    BY <1>4 DEF appendFilter
  <2>2. ASSUME NEW t \in SUBSET Nodes, NEW o
        PROVE  After(f, Apply(fs, t, o), o) = {{}}
    <3>1. Apply(fs, t, o) = {{}}
      BY <1>2, <1>4
    <3>2. PICK none \in SUBSET Nodes : none = {}
      OBVIOUS
    <3>3. Outcomes(f, none, o) = {{}}
      BY <3>2, OutcomesShrink
    <3> QED BY <3>1, <3>2, <3>3 DEF After
  <2> QED BY <1>1, <1>2, <2>1, <2>2
<1>5. CASE fs # EmptyProjection /\ f # Nothing /\ MergePoints(fs, f) = {}
  <2>1. appendFilter(fs, f) = Append(fs, f)
    BY <1>5 DEF appendFilter
  <2> QED BY <2>1, ApplyAppend
<1>6. CASE fs # EmptyProjection /\ f # Nothing /\ MergePoints(fs, f) # {}
  <2>1. PICK at \in MergePoints(fs, f) : at = CHOOSE i \in MergePoints(fs, f) : \A j \in MergePoints(fs, f) : j <= i
    BY <1>6, SomeMergePoint
  <2>2. /\ at \in 1 .. Len(fs) /\ Mergeable(fs[at], f) /\ isReorderingAllowed(f)
        /\ isReorderingAllowed(fs[at]) /\ fs[at] \in Filters
    BY DEF MergePoints
  <2>3. CASE Contradict(fs[at], f)
    <3>1. appendFilter(fs, f) = EmptyProjection
      BY <1>6, <2>1, <2>3 DEF appendFilter
    <3>2. ASSUME NEW t \in SUBSET Nodes, NEW o
          PROVE  After(f, Apply(fs, t, o), o) = {{}}
      <4>1. PICK g : Run(g, fs, t, o) /\ Apply(fs, t, o) = g[Len(fs)]
        BY ApplyRuns
      <4>2. PICK sets \in SUBSET SUBSET Nodes : sets = Apply(fs, t, o) /\ sets # {}
        BY ApplyShrinks
      <4>3. \A s \in sets : s \subseteq Kept(fs[at])
        BY <2>2, <4>1, <4>2, RunKeeps
      <4>4. Kept(fs[at]) \cap Kept(f) = {}
        BY <2>2, <2>3, MergeKeepsBoth
      <4>5. After(f, sets, o) = Cut(sets, Kept(f))
        BY <2>2, AfterReorderable
      <4>6. \A s \in sets : s \cap Kept(f) = {}
        BY <4>3, <4>4
      <4> QED BY <4>2, <4>5, <4>6 DEF Cut
    <3> QED BY <1>1, <1>2, <3>1, <3>2
  <2>4. CASE ~Contradict(fs[at], f)
    <3>1. appendFilter(fs, f) = Merged(fs, f, at)
      BY <1>6, <2>1, <2>4 DEF appendFilter, Merged
    <3>2. ASSUME NEW t \in SUBSET Nodes, NEW o
          PROVE  Merged(fs, f, at) \in Seq(Filters) /\ Apply(Merged(fs, f, at), t, o) = After(f, Apply(fs, t, o), o)
      BY <2>4, MergedRun
    <3>3. {} \in SUBSET Nodes
      OBVIOUS
    <3> QED BY <3>1, <3>2, <3>3
  <2> QED BY <2>3, <2>4
<1> QED BY <1>3, <1>4, <1>5, <1>6

-----------------------------------------------------------------------------
(* The group: what its projection does is what was asked for.              *)

Meaning(fs, gs) == \A t \in SUBSET Nodes, o \in SUBSET Nodes : Apply(fs, t, o) = Apply(gs, t, o)

Faithful == requested \in Seq(Filters) /\ projection \in Seq(Filters) /\ Meaning(projection, requested)

LEMMA OneMoreKeepsMeaning ==
    ASSUME Faithful, NEW f \in Filters,
           requested' = Append(requested, f), projection' = appendFilter(projection, f)
    PROVE  Faithful'
<1>1. PICK ps \in Seq(Filters), rs \in Seq(Filters) : ps = projection /\ rs = requested /\ Meaning(ps, rs)
  BY DEF Faithful
<1>2. PICK ps2 \in Seq(Filters), rs2 \in Seq(Filters) : ps2 = appendFilter(ps, f) /\ rs2 = Append(rs, f)
  <2>1. appendFilter(ps, f) \in Seq(Filters)
    BY AppendKeepsMeaning
  <2>2. Append(rs, f) \in Seq(Filters)
    OBVIOUS
  <2> QED BY <2>1, <2>2
<1>3. ASSUME NEW t \in SUBSET Nodes, NEW o \in SUBSET Nodes
      PROVE  Apply(ps2, t, o) = Apply(rs2, t, o)
  <2>1. Apply(ps2, t, o) = After(f, Apply(ps, t, o), o)
    BY <1>2, AppendKeepsMeaning
  <2>2. Apply(rs2, t, o) = After(f, Apply(rs, t, o), o)
    BY <1>2, ApplyAppend
  <2>3. Apply(ps, t, o) = Apply(rs, t, o)
    BY <1>1 DEF Meaning
  <2> QED BY <2>1, <2>2, <2>3
<1>4. Meaning(ps2, rs2)
  BY <1>3 DEF Meaning
<1> QED BY <1>1, <1>2, <1>4 DEF Faithful

LEMMA GroupsFaithful ==
    ASSUME Faithful, [Next]_vars
    PROVE  Faithful'
<1>1. ASSUME NEW f \in FilterChoices, AddFilter(f)
      PROVE  Faithful'
  <2>1. f \in Filters
    BY ClusterAssumption
  <2> QED BY <1>1, <2>1, OneMoreKeepsMeaning DEF AddFilter
<1>2. ASSUME NEW ns \in Seeds, AddClusterNodes(ns)
      PROVE  Faithful'
  <2>1. PICK f : /\ f = IF ns = {} THEN Nothing ELSE [kind |-> "ids", ids |-> ns]
                 /\ requested' = Append(requested, f) /\ projection' = appendFilter(projection, f)
    BY <1>2 DEF AddClusterNodes
  <2>2. f \in Filters
    <3>1. CASE ns = {}
      BY <2>1, <3>1 DEF Filters
    <3>2. CASE ns # {}
      <4>1. PICK is \in (SUBSET Nodes) \ {{}} : is = ns
        BY <3>2, ClusterAssumption
      <4>2. f \in NodeIds
        BY <2>1, <3>2, <4>1 DEF NodeIds
      <4> QED BY <4>2 DEF Filters
    <3> QED BY <3>1, <3>2
  <2> QED BY <2>1, <2>2, OneMoreKeepsMeaning
<1>3. CASE UNCHANGED <<requested, projection>>
  BY <1>3 DEF Faithful
<1> QED BY <1>1, <1>2, <1>3 DEF Next, vars, group, GetClusterGroup, TopologyChanges, Call, Enter, BeginNodes,
        BeginNode, NodeAnswersIds, LoadTopVer, CompareAndSwap, BeginRange, Prune, LoadCached, NodeAnswersNodes,
        Store, Leave, ApplyProjection, RequestFails

(* ProjectionFaithful: however the filters are merged, and whatever part   *)
(* of them the server applies, the group is the one that was asked for.    *)
THEOREM ProjectionsAreFaithful == Spec => []ProjectionFaithful
<1>1. Init => Faithful
  <2>1. ASSUME Init
        PROVE  Faithful
    <3>1. requested = <<>> /\ projection = <<>> /\ <<>> \in Seq(Filters)
      BY <2>1 DEF Init
    <3> QED BY <3>1 DEF Faithful, Meaning
  <2> QED BY <2>1
<1>2. Faithful /\ [Next]_vars => Faithful'
  BY GroupsFaithful
<1>3. Faithful => ProjectionFaithful
  <2>1. ASSUME Faithful, NEW t \in SUBSET Nodes, NEW a \in ServerAnswers(projection, t)
        PROVE  Apply(projection, a, t) = Apply(requested, t, t)
    <3>1. PICK ps \in Seq(Filters) : ps = projection
      BY <2>1 DEF Faithful
    <3>2. PICK x \in SUBSET t : x = a /\ \A n \in t \ x : Fails(ps, n)
      BY <2>1, <3>1, ServerLeavesOut
    <3>3. Apply(ps, x, t) = Apply(ps, t, t)
      BY <3>2, LeavingOutIsSafe
    <3>4. Apply(projection, t, t) = Apply(requested, t, t)
      BY <2>1 DEF Faithful, Meaning
    <3> QED BY <3>1, <3>2, <3>3, <3>4
  <2> QED BY <2>1 DEF ProjectionFaithful
<1> QED BY <1>1, <1>2, <1>3, PTL DEF Spec

-----------------------------------------------------------------------------
(* Calls.                                                                  *)

States == {"idle", "askIds", "gotIds", "swap", "range", "prune", "load", "askNodes", "store", "apply", "returned"}
Detailing == {"load", "askNodes", "store", "apply"}
HaveIds == {"gotIds", "swap", "range", "prune"} \cup Detailing

Typed ==
    /\ topology \in SUBSET Nodes /\ gone \in SUBSET Nodes /\ topology \cap gone = {}
    /\ version \in Nat /\ topVer \in Nat /\ nodes \in SUBSET Nodes /\ built \in BOOLEAN
    /\ pc \in [Procs -> States]
    /\ ask \in [Procs -> SUBSET Nodes] /\ snapshot \in [Procs -> SUBSET Nodes] /\ ids \in [Procs -> SUBSET Nodes]
    /\ visit \in [Procs -> SUBSET Nodes] /\ found \in [Procs -> SUBSET Nodes] /\ result \in [Procs -> SUBSET Nodes]
    /\ ver \in [Procs -> Nat] /\ loaded \in [Procs -> Nat]

(* A call wants one node or all, has ids of a topology whose other nodes   *)
(* the projection does not let through, and goes on to apply it with every *)
(* node it wants that has not left.                                        *)
Answered(p) ==
    /\ pc[p] # "idle" => built
    /\ \A m, n \in ask[p] : m = n
    /\ snapshot[p] \subseteq topology \cup gone
    /\ pc[p] \in HaveIds => ids[p] \subseteq snapshot[p] /\ \A n \in snapshot[p] \ ids[p] : Fails(projection, n)
    /\ pc[p] \notin Detailing => found[p] = {}
    /\ pc[p] \in Detailing => found[p] \subseteq Wanted(p)
    /\ pc[p] \in {"load", "store"} => visit[p] \subseteq Wanted(p)
    /\ pc[p] \in {"store", "apply"} => Wanted(p) \cap topology \subseteq found[p]

Answers == \A p \in Procs : Answered(p)

LEMMA TypedKept ==
    ASSUME Faithful, Typed, [Next]_vars
    PROVE  Typed'
<1> USE DEF Typed
<1>1. CASE UNCHANGED vars
  BY <1>1 DEF vars, group, cluster, cache, answer
<1>2. ASSUME NEW f \in FilterChoices, AddFilter(f)
      PROVE  Typed'
  BY <1>2 DEF AddFilter, cluster, cache, answer
<1>3. ASSUME NEW ns \in Seeds, AddClusterNodes(ns)
      PROVE  Typed'
  <2>1. ns \in SUBSET Nodes
    BY ClusterAssumption
  <2> QED BY <1>3, <2>1 DEF AddClusterNodes, cluster, answer
<1>4. CASE GetClusterGroup
  BY <1>4 DEF GetClusterGroup, cluster, cache, answer
<1>5. CASE TopologyChanges
  <2>1. version' \in Nat
    BY <1>5 DEF TopologyChanges
  <2>2. topology' \in SUBSET Nodes /\ gone' \in SUBSET Nodes /\ topology' \cap gone' = {}
    BY <1>5 DEF TopologyChanges
  <2> QED BY <1>5, <2>1, <2>2 DEF TopologyChanges, group, cache, answer
<1>6. ASSUME NEW p \in Procs, NEW asked \in SUBSET Nodes, NEW at \in {"askIds", "returned"}, Enter(p, asked, at)
      PROVE  Typed'
  <2>1. pc' \in [Procs -> States]
    BY <1>6 DEF Enter, Goto, States
  <2>2. /\ ask' \in [Procs -> SUBSET Nodes] /\ snapshot' \in [Procs -> SUBSET Nodes]
        /\ result' \in [Procs -> SUBSET Nodes]
    BY <1>6 DEF Enter
  <2> QED BY <1>6, <2>1, <2>2 DEF Enter, group, cluster, cache
<1>7. ASSUME NEW p \in Procs, NodeAnswersIds(p)
      PROVE  Typed'
  <2>1. PICK a \in ServerAnswers(projection, topology) : ids' = [ids EXCEPT ![p] = a]
    BY <1>7 DEF NodeAnswersIds
  <2>2. a \in SUBSET Nodes
    <3>1. a \subseteq topology
      BY ServerLeavesOut DEF Faithful
    <3> QED BY <3>1
  <2>3. pc' \in [Procs -> States]
    BY <1>7 DEF NodeAnswersIds, Goto, States
  <2>4. /\ snapshot' \in [Procs -> SUBSET Nodes] /\ ver' \in [Procs -> Nat] /\ ids' \in [Procs -> SUBSET Nodes]
    BY <1>7, <2>1, <2>2 DEF NodeAnswersIds
  <2> QED BY <1>7, <2>3, <2>4 DEF NodeAnswersIds, group, cluster, cache
<1>8. ASSUME NEW p \in Procs, LoadTopVer(p)
      PROVE  Typed'
  <2>1. pc' \in [Procs -> States] /\ loaded' \in [Procs -> Nat]
    BY <1>8 DEF LoadTopVer, Goto, States
  <2> QED BY <1>8, <2>1 DEF LoadTopVer, group, cluster, cache, answer
<1>9. ASSUME NEW p \in Procs
      PROVE  Wanted(p) \in SUBSET Nodes
  BY DEF Wanted
<1>10. ASSUME NEW p \in Procs, CompareAndSwap(p)
       PROVE  Typed'
  <2>1. topVer' \in Nat
    BY <1>10 DEF CompareAndSwap
  <2>2. pc' \in [Procs -> States] /\ visit' \in [Procs -> SUBSET Nodes]
    BY <1>9, <1>10 DEF CompareAndSwap, Goto, States
  <2> QED BY <1>10, <2>1, <2>2 DEF CompareAndSwap, group, cluster, answer
<1>11. ASSUME NEW p \in Procs, BeginRange(p)
       PROVE  Typed'
  <2>1. pc' \in [Procs -> States] /\ visit' \in [Procs -> SUBSET Nodes]
    BY <1>11 DEF BeginRange, ToPrune, Goto, States
  <2> QED BY <1>11, <2>1 DEF BeginRange, group, cluster, cache, answer
<1>12. ASSUME NEW p \in Procs, Prune(p)
       PROVE  Typed'
  <2>1. pc' \in [Procs -> States] /\ visit' \in [Procs -> SUBSET Nodes] /\ nodes' \in SUBSET Nodes
    BY <1>9, <1>12 DEF Prune, Goto, States
  <2> QED BY <1>12, <2>1 DEF Prune, group, cluster, answer
<1>13. ASSUME NEW p \in Procs, LoadCached(p)
       PROVE  Typed'
  <2>1. pc' \in [Procs -> States] /\ visit' \in [Procs -> SUBSET Nodes]
    BY <1>13 DEF LoadCached, Goto, States
  <2>2. found' \in [Procs -> SUBSET Nodes]
    BY <1>13 DEF LoadCached
  <2> QED BY <1>13, <2>1, <2>2 DEF LoadCached, group, cluster, cache, answer
<1>14. ASSUME NEW p \in Procs, NodeAnswersNodes(p)
       PROVE  Typed'
  <2>1. PICK there \in SUBSET Nodes : /\ visit' = [visit EXCEPT ![p] = there]
                                      /\ found' = [found EXCEPT ![p] = @ \cup there]
    BY <1>14 DEF NodeAnswersNodes
  <2>2. pc' \in [Procs -> States] /\ visit' \in [Procs -> SUBSET Nodes] /\ found' \in [Procs -> SUBSET Nodes]
    BY <1>14, <2>1 DEF NodeAnswersNodes, Goto, States
  <2> QED BY <1>14, <2>2 DEF NodeAnswersNodes, group, cluster, cache, answer
<1>15. ASSUME NEW p \in Procs, Store(p)
       PROVE  Typed'
  <2>1. pc' \in [Procs -> States] /\ visit' \in [Procs -> SUBSET Nodes] /\ nodes' \in SUBSET Nodes
    BY <1>15 DEF Store, Goto, States
  <2> QED BY <1>15, <2>1 DEF Store, group, cluster, answer
<1>16. ASSUME NEW p \in Procs, NEW at \in {"idle", "returned"}, Leave(p, at), result' \in [Procs -> SUBSET Nodes],
              snapshot' \in [Procs -> SUBSET Nodes]
       PROVE  Typed'
  <2>1. pc' \in [Procs -> States]
    BY <1>16 DEF Leave, Goto, States
  <2>2. /\ ids' \in [Procs -> SUBSET Nodes] /\ visit' \in [Procs -> SUBSET Nodes] /\ found' \in [Procs -> SUBSET Nodes]
        /\ ver' \in [Procs -> Nat] /\ loaded' \in [Procs -> Nat]
    BY <1>16 DEF Leave
  <2> QED BY <1>16, <2>1, <2>2 DEF Leave, group, cluster, cache
<1>17. ASSUME NEW p \in Procs, ApplyProjection(p)
       PROVE  Typed'
  <2>1. PICK r \in Apply(projection, found[p], topology) : result' = [result EXCEPT ![p] = r]
    BY <1>17 DEF ApplyProjection, Candidates
  <2>2. r \in SUBSET Nodes
    <3>1. PICK fs \in Seq(Filters), t \in SUBSET Nodes : fs = projection /\ t = found[p]
      BY DEF Faithful
    <3>2. r \subseteq t
      BY <2>1, <3>1, ApplyShrinks
    <3> QED BY <3>2
  <2> QED BY <1>16, <1>17, <2>1, <2>2 DEF ApplyProjection
<1>18. ASSUME NEW p \in Procs, RequestFails(p)
       PROVE  Typed'
  <2>1. snapshot' \in [Procs -> SUBSET Nodes] /\ result' = result /\ Leave(p, "idle")
    BY <1>18 DEF RequestFails
  <2> QED BY <1>16, <2>1
<1>19. ASSUME NEW p \in Procs, Call(p)
       PROVE  Typed'
  <2>1. CASE BeginNodes(p)
    <3>1. {} \in SUBSET Nodes
      OBVIOUS
    <3> QED BY <1>6, <2>1, <3>1 DEF BeginNodes
  <2>2. ASSUME NEW n \in Nodes, BeginNode(p, n)
        PROVE  Typed'
    <3>1. {n} \in SUBSET Nodes
      OBVIOUS
    <3> QED BY <1>6, <2>2, <3>1 DEF BeginNode
  <2> HIDE DEF Typed
  <2> QED BY <1>7, <1>8, <1>10, <1>11, <1>12, <1>13, <1>14, <1>15, <1>17, <1>18, <1>19, <2>1, <2>2 DEF Call
<1> HIDE DEF Typed
<1> QED BY <1>1, <1>2, <1>3, <1>4, <1>5, <1>19 DEF Next

(* A call changes nothing of the group, the cluster or another call. *)
Still(q) ==
    /\ pc'[q] = pc[q] /\ ask'[q] = ask[q] /\ snapshot'[q] = snapshot[q] /\ ids'[q] = ids[q]
    /\ loaded'[q] = loaded[q] /\ visit'[q] = visit[q] /\ found'[q] = found[q] /\ result'[q] = result[q]

LEMMA CallsAreApart ==
    ASSUME Typed, NEW p \in Procs, Call(p)
    PROVE  UNCHANGED <<group, cluster>> /\ \A q \in Procs \ {p} : Still(q)
<1> USE DEF Typed, group, cluster, cache, answer, Goto, Still
<1>1. ASSUME NEW asked \in SUBSET Nodes, NEW at \in {"askIds", "returned"}, Enter(p, asked, at)
      PROVE  UNCHANGED <<group, cluster>> /\ \A q \in Procs \ {p} : Still(q)
  BY <1>1 DEF Enter
<1>2. CASE BeginNodes(p)
  BY <1>1, <1>2 DEF BeginNodes
<1>3. ASSUME NEW n \in Nodes, BeginNode(p, n)
      PROVE  UNCHANGED <<group, cluster>> /\ \A q \in Procs \ {p} : Still(q)
  BY <1>1, <1>3 DEF BeginNode
<1>4. CASE NodeAnswersIds(p)
  BY <1>4 DEF NodeAnswersIds
<1>5. CASE LoadTopVer(p)
  BY <1>5 DEF LoadTopVer
<1>6. CASE CompareAndSwap(p)
  BY <1>6 DEF CompareAndSwap
<1>7. CASE BeginRange(p)
  BY <1>7 DEF BeginRange
<1>8. CASE Prune(p)
  BY <1>8 DEF Prune
<1>9. CASE LoadCached(p)
  BY <1>9 DEF LoadCached
<1>10. CASE NodeAnswersNodes(p)
  BY <1>10 DEF NodeAnswersNodes
<1>11. CASE Store(p)
  BY <1>11 DEF Store
<1>12. CASE ApplyProjection(p)
  BY <1>12 DEF ApplyProjection, Leave
<1>13. CASE RequestFails(p)
  BY <1>13 DEF RequestFails, Leave
<1> HIDE DEF Typed, group, cluster, cache, answer, Goto, Still
<1> QED BY <1>2, <1>3, <1>4, <1>5, <1>6, <1>7, <1>8, <1>9, <1>10, <1>11, <1>12, <1>13 DEF Call

LEMMA OwnAnswerKept ==
    ASSUME Faithful, Typed, NEW p \in Procs, Answered(p), Call(p)
    PROVE  Answered(p)'
<1> USE DEF Typed, cluster, group, cache, answer, Goto, HaveIds, Detailing, States
<1>1. ASSUME NEW asked \in SUBSET Nodes, \A m, n \in asked : m = n, NEW at \in {"askIds", "returned"}, Enter(p, asked, at)
      PROVE  Answered(p)'
  <2>1. /\ built' /\ pc'[p] = at /\ ask'[p] = asked /\ topology' = topology /\ gone' = gone
        /\ snapshot'[p] \subseteq topology /\ found'[p] = found[p] /\ pc[p] \in {"idle", "returned"}
    BY <1>1 DEF Enter
  <2>2. found[p] = {}
    BY <2>1 DEF Answered
  <2> QED BY <1>1, <2>1, <2>2 DEF Answered
<1>2. CASE BeginNodes(p)
  BY <1>1, <1>2 DEF BeginNodes
<1>3. ASSUME NEW n \in Nodes, BeginNode(p, n)
      PROVE  Answered(p)'
  BY <1>1, <1>3 DEF BeginNode
<1>4. CASE NodeAnswersIds(p)
  <2>1. PICK a \in ServerAnswers(projection, topology) : ids' = [ids EXCEPT ![p] = a]
    BY <1>4 DEF NodeAnswersIds
  <2>2. a \subseteq topology /\ \A n \in topology \ a : Fails(projection, n)
    BY ServerLeavesOut DEF Faithful
  <2>3. /\ pc[p] = "askIds" /\ pc'[p] = "gotIds" /\ snapshot'[p] = topology /\ ids'[p] = a /\ found' = found
        /\ ask' = ask /\ topology' = topology /\ gone' = gone /\ built' = built /\ projection' = projection
    BY <1>4, <2>1 DEF NodeAnswersIds
  <2> QED BY <2>2, <2>3 DEF Answered
<1>5. CASE LoadTopVer(p)
  BY <1>5 DEF LoadTopVer, Answered
<1>6. CASE CompareAndSwap(p)
  BY <1>6 DEF CompareAndSwap, Answered, Wanted
<1>7. CASE BeginRange(p)
  BY <1>7 DEF BeginRange, Answered
<1>8. CASE Prune(p)
  BY <1>8 DEF Prune, Answered, Wanted
<1>9. CASE LoadCached(p)
  BY <1>9 DEF LoadCached, Answered, Wanted
<1>10. CASE NodeAnswersNodes(p)
  BY <1>10 DEF NodeAnswersNodes, Answered, Wanted
<1>11. CASE Store(p)
  BY <1>11 DEF Store, Answered, Wanted
<1>12. CASE ApplyProjection(p)
  BY <1>12 DEF ApplyProjection, Leave, Answered
<1>13. CASE RequestFails(p)
  BY <1>13 DEF RequestFails, Leave, Answered
<1> HIDE DEF Typed, cluster, group, cache, answer, Goto, HaveIds, Detailing, States
<1> QED BY <1>2, <1>3, <1>4, <1>5, <1>6, <1>7, <1>8, <1>9, <1>10, <1>11, <1>12, <1>13 DEF Call

LEMMA AnswersKept ==
    ASSUME Faithful, Typed, Answers, [Next]_vars
    PROVE  Answers'
<1> SUFFICES ASSUME NEW q \in Procs
             PROVE  Answered(q)'
  BY DEF Answers
<1>0. Answered(q)
  BY DEF Answers
<1>1. CASE UNCHANGED vars
  BY <1>0, <1>1 DEF vars, group, cluster, cache, answer, Answered, Wanted
<1>2. ASSUME ~built, UNCHANGED <<cluster, pc, ask, answer, visit, found>>
      PROVE  Answered(q)'
  <2>1. pc[q] = "idle"
    BY <1>0, <1>2 DEF Answered, Typed
  <2> QED BY <1>0, <1>2, <2>1 DEF Answered, HaveIds, Detailing, cluster, answer
<1>3. CASE TopologyChanges
  <2>1. /\ topology \cup gone \subseteq topology' \cup gone'
        /\ \A n \in topology \cup gone : n \in topology' => n \in topology
    BY <1>3 DEF TopologyChanges
  <2>2. UNCHANGED <<group, pc, ask, answer, visit, found>>
    BY <1>3 DEF TopologyChanges
  <2>3. Wanted(q)' = Wanted(q) /\ (pc[q] \in HaveIds => Wanted(q) \subseteq topology \cup gone)
    BY <1>0, <2>2 DEF answer, Answered, Wanted
  <2> QED BY <1>0, <2>1, <2>2, <2>3 DEF Answered, HaveIds, Detailing, answer, group
<1>4. ASSUME NEW p \in Procs, Call(p)
      PROVE  Answered(q)'
  <2>1. CASE p = q
    BY <1>0, <1>4, <2>1, OwnAnswerKept
  <2>2. CASE p # q
    <3>1. Still(q) /\ UNCHANGED <<group, cluster>>
      BY <1>4, <2>2, CallsAreApart
    <3> QED BY <1>0, <3>1 DEF Still, group, cluster, Answered, Wanted
  <2> QED BY <2>1, <2>2
<1>5. ASSUME NEW f \in FilterChoices, AddFilter(f)
      PROVE  Answered(q)'
  BY <1>2, <1>5 DEF AddFilter
<1>6. ASSUME NEW ns \in Seeds, AddClusterNodes(ns)
      PROVE  Answered(q)'
  BY <1>2, <1>6 DEF AddClusterNodes
<1>7. CASE GetClusterGroup
  BY <1>2, <1>7 DEF GetClusterGroup
<1> QED BY <1>1, <1>3, <1>4, <1>5, <1>6, <1>7 DEF Next

-----------------------------------------------------------------------------
(* Results.                                                                *)

OfSnapshot(p) ==
    pc[p] = "returned" /\ (ask[p] = {} \/ Positions = {}) =>
        \E a, o \in SUBSET snapshot[p] :
            /\ snapshot[p] \cap topology \subseteq a \cap o
            /\ \E r \in Apply(requested, a, o) : result[p] = IF ask[p] = {} THEN r ELSE r \cap ask[p]

LEMMA ResultsAreOfSnapshots == ResultIsOfSnapshot <=> \A p \in Procs : OfSnapshot(p)
  BY DEF ResultIsOfSnapshot, OfSnapshot

(* The nodes a call found, with those it did not want, are a topology for the group that was asked for. *)
LEMMA AppliedResult ==
    ASSUME Faithful, Typed, NEW p \in Procs, Answered(p), ApplyProjection(p)
    PROVE  OfSnapshot(p)'
<1> USE DEF Typed
<1>1. /\ pc[p] = "apply" /\ pc'[p] = "returned" /\ ask' = ask /\ snapshot' = snapshot
      /\ topology' = topology /\ requested' = requested
  BY DEF ApplyProjection, Leave, Goto, group, cluster
<1>2. PICK fs \in Seq(Filters), gs \in Seq(Filters), s \in SUBSET Nodes, d \in SUBSET Nodes, w \in SUBSET Nodes, q \in SUBSET Nodes :
          /\ fs = projection /\ gs = requested /\ s = snapshot[p] /\ d = found[p] /\ w = Wanted(p) /\ q = ask[p]
  BY DEF Faithful, Wanted
<1>3. PICK t \in SUBSET Nodes : t = topology
  OBVIOUS
<1>4. PICK r \in Apply(fs, d, t) : result'[p] = r
  BY <1>2, <1>3 DEF ApplyProjection, Candidates
<1>5. /\ w \subseteq s /\ d \subseteq w /\ w \cap t \subseteq d
      /\ \A n \in s \ ids[p] : Fails(fs, n)
      /\ w = IF q = {} THEN ids[p] ELSE q \cap ids[p]
      /\ \A m, n \in q : m = n
  BY <1>1, <1>2, <1>3 DEF Answered, HaveIds, Detailing, Wanted
<1>6. PICK a \in SUBSET s, o \in SUBSET s : a = d \cup (s \ w) /\ o = s \cap t
  BY <1>5
<1>7. s \cap t \subseteq a \cap o
  BY <1>5, <1>6
<1>8. a \in SUBSET Nodes /\ o \in SUBSET Nodes
  OBVIOUS
<1> HIDE DEF Typed
<1>9. CASE q = {}
  <2>1. d \in SUBSET a /\ \A n \in a \ d : Fails(fs, n)
    BY <1>5, <1>6, <1>9
  <2>2. Apply(fs, d, t) = Apply(fs, a, t)
    BY <1>8, <2>1, LeavingOutIsSafe
  <2>3. AgreeOn(a, t, o)
    BY <1>6 DEF AgreeOn
  <2>4. Apply(fs, a, t) = Apply(fs, a, o)
    BY <1>8, <2>3, ApplyOfOthers
  <2>5. Apply(fs, a, o) = Apply(gs, a, o)
    BY <1>2, <1>8 DEF Faithful, Meaning
  <2>6. r \in Apply(gs, a, o)
    BY <2>2, <2>4, <2>5
  <2> QED BY <1>1, <1>2, <1>3, <1>4, <1>7, <1>9, <2>6 DEF OfSnapshot
<1>10. CASE q # {} /\ Positions = {}
  <2>1. PICK z \in SUBSET Nodes : z = a \cap q
    OBVIOUS
  <2>2. d \in SUBSET z
    BY <1>5, <1>6, <1>10, <2>1
  <2>3. \A n \in z \ d : Fails(fs, n)
    BY <1>5, <1>6, <1>10, <2>1
  <2>4. Apply(fs, d, t) = Apply(fs, z, t)
    BY <2>2, <2>3, LeavingOutIsSafe
  <2>5. AgreeOn(z, t, o)
    BY <1>6, <2>1 DEF AgreeOn
  <2>6. Apply(fs, z, t) = Apply(fs, z, o)
    BY <2>5, ApplyOfOthers
  <2>7. Apply(fs, z, o) = Apply(gs, z, o)
    BY <1>2, <1>8 DEF Faithful, Meaning
  <2>8. \A i \in DOMAIN gs : LooksAlone(gs[i])
    BY <1>2, <1>10 DEF Positions, LooksAlone
  <2>9. Apply(gs, z, o) = Cut(Apply(gs, a, o), q)
    BY <1>8, <2>1, <2>8, ApplyAlone
  <2>10. PICK x \in Apply(gs, a, o) : r = x \cap q
    BY <2>4, <2>6, <2>7, <2>9 DEF Cut
  <2> QED BY <1>1, <1>2, <1>3, <1>4, <1>7, <1>10, <2>10 DEF OfSnapshot
<1>11. CASE q # {} /\ Positions # {}
  <2>1. ~(pc'[p] = "returned" /\ (ask'[p] = {} \/ Positions' = {}))
    BY <1>1, <1>2, <1>11 DEF Positions
  <2> QED BY <2>1 DEF OfSnapshot
<1> QED BY <1>9, <1>10, <1>11

LEMMA OnlyElement ==
    ASSUME NEW S, NEW l \in Seq(S), Len(l) = 1
    PROVE  l[1] \in S
  OBVIOUS

(* A group of given ids answers for a node that is none of them without a request. *)
LEMMA ExcludedResult ==
    ASSUME Faithful, Typed, NEW p \in Procs, NEW n \in Nodes, isExcludedByFilters(projection, n),
           Enter(p, {n}, "returned")
    PROVE  OfSnapshot(p)'
<1>1. /\ ask'[p] = {n} /\ snapshot'[p] = topology /\ result'[p] = {}
      /\ topology' = topology /\ requested' = requested
  BY DEF Enter, Typed, group, cluster
<1>2. PICK fs \in Seq(Filters), gs \in Seq(Filters), s \in SUBSET Nodes : fs = projection /\ gs = requested /\ s = topology
  BY DEF Faithful, Typed
<1>3. Len(fs) = 1 /\ fs[1] \in Filters /\ fs[1].kind = "ids" /\ n \notin fs[1].ids
  <2>1. isExcludedByFilters(fs, n)
    BY <1>2
  <2>2. Len(fs) = 1 /\ fs[1].kind = "ids" /\ n \notin fs[1].ids
    BY <2>1 DEF isExcludedByFilters
  <2>3. ASSUME Len(fs) = 1
        PROVE  fs[1] \in Filters
    BY <2>3, OnlyElement
  <2> QED BY <2>2, <2>3
<1>4. Prefix(fs, 1) /\ n \notin Through(fs, 1)
  BY <1>3 DEF Prefix, Through, isReorderingAllowed, Keeps
<1>5. PICK g : Run(g, fs, s, s) /\ Apply(fs, s, s) = g[Len(fs)]
  BY ApplyRuns
<1>6. Narrowed(g, fs, s, 1)
  BY <1>4, <1>5, PrefixRun
<1>7. PICK r \in Apply(fs, s, s) : n \notin r
  BY <1>3, <1>4, <1>5, <1>6 DEF Narrowed
<1>8. r \in Apply(gs, s, s)
  BY <1>2, <1>7 DEF Faithful, Meaning
<1>9. {n} # {} /\ r \cap {n} = {} /\ s \cap s \subseteq s \cap s /\ s \in SUBSET s
  BY <1>7
<1> QED BY <1>1, <1>2, <1>8, <1>9 DEF OfSnapshot

LEMMA ResultsKept ==
    ASSUME Faithful, Typed, Answers, ResultIsOfSnapshot, [Next]_vars
    PROVE  ResultIsOfSnapshot'
<1> SUFFICES ASSUME NEW q \in Procs
             PROVE  OfSnapshot(q)'
  BY DEF ResultIsOfSnapshot, OfSnapshot
<1>0. OfSnapshot(q) /\ Answered(q)
  BY ResultsAreOfSnapshots DEF Answers
<1>1. ASSUME pc'[q] # "returned"
      PROVE  OfSnapshot(q)'
  BY <1>1 DEF OfSnapshot
<1>2. ASSUME pc'[q] = pc[q], ask'[q] = ask[q], snapshot'[q] = snapshot[q], result'[q] = result[q],
             requested' = requested, snapshot[q] \cap topology' \subseteq snapshot[q] \cap topology
      PROVE  OfSnapshot(q)'
  <2>1. SUFFICES ASSUME pc[q] = "returned", ask[q] = {} \/ Positions = {}
                 PROVE  OfSnapshot(q)'
    BY <1>2 DEF OfSnapshot, Positions
  <2>2. PICK a \in SUBSET snapshot[q], o \in SUBSET snapshot[q] :
            /\ snapshot[q] \cap topology \subseteq a \cap o
            /\ \E r \in Apply(requested, a, o) : result[q] = IF ask[q] = {} THEN r ELSE r \cap ask[q]
    BY <1>0, <2>1 DEF OfSnapshot
  <2>3. snapshot[q] \cap topology' \subseteq a \cap o
    BY <1>2, <2>2
  <2>4. \E r \in Apply(requested', a, o) : result'[q] = IF ask'[q] = {} THEN r ELSE r \cap ask'[q]
    BY <1>2, <2>2
  <2> QED BY <1>2, <2>3, <2>4 DEF OfSnapshot
<1>3. CASE UNCHANGED vars
  BY <1>2, <1>3 DEF vars, group, cluster, answer
<1>4. ASSUME ~built, pc' = pc
      PROVE  OfSnapshot(q)'
  BY <1>0, <1>1, <1>4 DEF Answered
<1>5. CASE TopologyChanges
  <2>1. \A n \in topology \cup gone : n \in topology' => n \in topology
    BY <1>5 DEF TopologyChanges
  <2>2. snapshot[q] \cap topology' \subseteq snapshot[q] \cap topology
    BY <1>0, <2>1 DEF Answered
  <2> QED BY <1>2, <1>5, <2>2 DEF TopologyChanges, group, answer
<1>6. ASSUME NEW p \in Procs, Call(p), p # q
      PROVE  OfSnapshot(q)'
  <2>1. Still(q) /\ UNCHANGED <<group, cluster>>
    BY <1>6, CallsAreApart
  <2> QED BY <1>2, <2>1 DEF Still, group, cluster
<1>7. CASE Call(q)
  <2>1. CASE BeginNodes(q)
    BY <1>1, <2>1 DEF BeginNodes, Enter, Goto, Typed
  <2>2. ASSUME NEW n \in Nodes, BeginNode(q, n)
        PROVE  OfSnapshot(q)'
    <3>1. CASE isExcludedByFilters(projection, n)
      BY <2>2, <3>1, ExcludedResult DEF BeginNode
    <3>2. CASE ~isExcludedByFilters(projection, n)
      BY <1>1, <2>2, <3>2 DEF BeginNode, Enter, Goto, Typed
    <3> QED BY <3>1, <3>2
  <2>3. CASE ApplyProjection(q)
    BY <1>0, <2>3, AppliedResult
  <2>4. CASE NodeAnswersIds(q) \/ LoadTopVer(q) \/ CompareAndSwap(q) \/ BeginRange(q)
    BY <1>1, <2>4 DEF NodeAnswersIds, LoadTopVer, CompareAndSwap, BeginRange, Goto, Typed
  <2>5. CASE Prune(q) \/ LoadCached(q) \/ NodeAnswersNodes(q) \/ Store(q) \/ RequestFails(q)
    BY <1>1, <2>5 DEF Prune, LoadCached, NodeAnswersNodes, Store, RequestFails, Leave, Goto, Typed
  <2> QED BY <1>7, <2>1, <2>2, <2>3, <2>4, <2>5 DEF Call
<1>8. ASSUME NEW f \in FilterChoices, AddFilter(f)
      PROVE  OfSnapshot(q)'
  BY <1>4, <1>8 DEF AddFilter
<1>9. ASSUME NEW ns \in Seeds, AddClusterNodes(ns)
      PROVE  OfSnapshot(q)'
  BY <1>4, <1>9 DEF AddClusterNodes
<1>10. CASE GetClusterGroup
  BY <1>4, <1>10 DEF GetClusterGroup
<1> QED BY <1>3, <1>5, <1>6, <1>7, <1>8, <1>9, <1>10 DEF Next

-----------------------------------------------------------------------------
(* The cache.                                                              *)

Seen(p) == pc[p] \in HaveIds => snapshot[p] \in seen

(* The nodes of other topologies than t are gone from the cache, or will   *)
(* be: a call is about to look for them, or deletes what is left of them,  *)
(* or some call will be the first to swap the version it has loaded.       *)
Forgets(t) ==
    \/ nodes \subseteq t
    \/ \E p \in Procs : pc[p] = "range"
    \/ \E p \in Procs : pc[p] = "prune" /\ nodes \ t \subseteq visit[p]
    \/ /\ \E p \in Procs : pc[p] \in {"gotIds", "swap"}
       /\ \A q \in Procs : pc[q] = "swap" => loaded[q] = topVer

Cached ==
    /\ ~built => seen = {}
    /\ \A p \in Procs : Seen(p)
    /\ \A t \in seen : seen = {t} => Forgets(t)

(* Whose ids are there was answered from a topology that has been seen. *)
LEMMA SeenKept ==
    ASSUME Typed, Cached, NEW p \in Procs, Call(p), NEW q \in Procs
    PROVE  Seen(q)'
<1> USE DEF Typed, Goto, HaveIds, Detailing, States
<1>0. Seen(q) /\ \A r \in Procs \ {p} : Still(r)
  BY CallsAreApart DEF Cached
<1>1. ASSUME NEW asked \in SUBSET Nodes, NEW at \in {"askIds", "returned"}, Enter(p, asked, at)
      PROVE  Seen(q)'
  BY <1>0, <1>1 DEF Enter, AtRest, Seen, Still
<1>2. CASE BeginNodes(p)
  BY <1>1, <1>2 DEF BeginNodes
<1>3. ASSUME NEW n \in Nodes, BeginNode(p, n)
      PROVE  Seen(q)'
  BY <1>1, <1>3 DEF BeginNode
<1>4. CASE NodeAnswersIds(p)
  BY <1>0, <1>4 DEF NodeAnswersIds, Seen, Still
<1>5. CASE LoadTopVer(p) \/ CompareAndSwap(p) \/ BeginRange(p) \/ Prune(p) \/ LoadCached(p)
           \/ NodeAnswersNodes(p) \/ Store(p)
  BY <1>0, <1>5 DEF LoadTopVer, CompareAndSwap, BeginRange, Prune, LoadCached, NodeAnswersNodes, Store, Seen,
                    Still, answer
<1>6. CASE ApplyProjection(p) \/ RequestFails(p)
  BY <1>0, <1>6 DEF ApplyProjection, RequestFails, Leave, Seen, Still
<1> HIDE DEF Typed, Goto, HaveIds, Detailing, States
<1> QED BY <1>2, <1>3, <1>4, <1>5, <1>6 DEF Call

(* What a call has to do with the nodes it asked for is with nodes of t. *)
LEMMA OfOneTopology ==
    ASSUME Cached, NEW p \in Procs, Answered(p), NEW t, seen = {t}, pc[p] \in HaveIds
    PROVE  ids[p] \subseteq t /\ (pc[p] = "store" => visit[p] \subseteq t)
<1>1. snapshot[p] = t
  BY DEF Cached, Seen
<1> QED BY <1>1 DEF Answered, Wanted

LEMMA ForgetsKept ==
    ASSUME Typed, Answers, Cached, NEW p \in Procs, Call(p), NEW t, seen = {t}, seen' = {t}
    PROVE  Forgets(t)'
<1> USE DEF Typed, Goto, cache, answer
<1>0. /\ \A r \in Procs \ {p} : Still(r)
      /\ Forgets(t) /\ Answered(p)
      /\ pc[p] \in HaveIds => ids[p] \subseteq t /\ (pc[p] = "store" => visit[p] \subseteq t)
  BY CallsAreApart, OfOneTopology DEF Cached, Answers
<1>1. ASSUME NEW asked \in SUBSET Nodes, NEW at \in {"askIds", "returned"}, Enter(p, asked, at)
      PROVE  Forgets(t)'
  BY <1>0, <1>1 DEF Enter, Forgets, Still
<1>2. CASE BeginNodes(p)
  BY <1>1, <1>2 DEF BeginNodes
<1>3. ASSUME NEW n \in Nodes, BeginNode(p, n)
      PROVE  Forgets(t)'
  BY <1>1, <1>3 DEF BeginNode
<1>4. CASE NodeAnswersIds(p)
  BY <1>0, <1>4 DEF NodeAnswersIds, Forgets, Still
<1>5. CASE LoadTopVer(p)
  BY <1>0, <1>5 DEF LoadTopVer, Forgets, Still
<1>6. CASE CompareAndSwap(p)
  <2>1. CASE pc'[p] = "range"
    BY <2>1 DEF Forgets
  <2>2. CASE topVer # loaded[p] /\ UNCHANGED <<nodes, topVer>> /\ pc'[p] = "load"
    BY <1>0, <1>6, <2>2 DEF CompareAndSwap, Forgets, Still
  <2> QED BY <1>6, <2>1, <2>2 DEF CompareAndSwap
<1>7. CASE BeginRange(p)
  <2>1. pc'[p] = "prune" /\ visit'[p] = nodes \ ids[p] /\ UNCHANGED nodes /\ ids[p] \subseteq t
    BY <1>0, <1>7 DEF BeginRange, ToPrune, HaveIds
  <2>2. nodes' \ t \subseteq visit'[p]
    BY <2>1
  <2> QED BY <2>1, <2>2 DEF Forgets
<1>8. CASE Prune(p)
  <2>1. ASSUME NEW n \in visit[p], nodes' = nodes \ {n}, visit' = [visit EXCEPT ![p] = @ \ {n}], UNCHANGED pc
        PROVE  Forgets(t)'
    BY <1>0, <1>8, <2>1 DEF Prune, Forgets, Still
  <2>2. CASE visit[p] = {} /\ UNCHANGED nodes /\ pc' = [pc EXCEPT ![p] = "load"]
    BY <1>0, <1>8, <2>2 DEF Prune, Forgets, Still
  <2> QED BY <1>8, <2>1, <2>2 DEF Prune
<1>9. CASE LoadCached(p)
  BY <1>0, <1>9 DEF LoadCached, Forgets, Still
<1>10. CASE NodeAnswersNodes(p)
  BY <1>0, <1>10 DEF NodeAnswersNodes, Forgets, Still
<1>11. CASE Store(p)
  <2>1. pc[p] = "store" /\ visit[p] \subseteq t
    BY <1>0, <1>11 DEF Store, HaveIds, Detailing
  <2> QED BY <1>0, <1>11, <2>1 DEF Store, Forgets, Still
<1>12. CASE ApplyProjection(p)
  BY <1>0, <1>12 DEF ApplyProjection, Leave, Forgets, Still
<1>13. CASE RequestFails(p)
  BY <1>0, <1>13 DEF RequestFails, Leave, Forgets, Still
<1> HIDE DEF Typed, Goto, cache, answer
<1> QED BY <1>2, <1>3, <1>4, <1>5, <1>6, <1>7, <1>8, <1>9, <1>10, <1>11, <1>12, <1>13 DEF Call

(* The first answer since nobody was calling. *)
LEMMA FirstAnswer ==
    ASSUME Typed, Cached, NEW p \in Procs, NodeAnswersIds(p), seen = {}, NEW t
    PROVE  Forgets(t)'
<1>1. \A q \in Procs : pc[q] # "swap"
  BY DEF Cached, Seen, HaveIds
<1>2. pc' = [pc EXCEPT ![p] = "gotIds"]
  BY DEF NodeAnswersIds, Goto
<1>3. pc'[p] = "gotIds" /\ \A q \in Procs : pc'[q] # "swap"
  BY <1>1, <1>2 DEF Typed
<1> QED BY <1>3 DEF Forgets

(* What a step of a call does to the topologies that have been seen. *)
LEMMA SeenGrows ==
    ASSUME Typed, NEW p \in Procs, Call(p)
    PROVE  /\ built \/ pc[p] # "idle"
           /\ seen' \in {{}, seen} \/ (NodeAnswersIds(p) /\ seen' = seen \cup {topology})
<1>1. ASSUME NEW asked, NEW at, Enter(p, asked, at)
      PROVE  built /\ seen' \in {{}, seen}
  BY <1>1 DEF Enter
<1>2. CASE BeginNodes(p)
  BY <1>1, <1>2 DEF BeginNodes
<1>3. ASSUME NEW n \in Nodes, BeginNode(p, n)
      PROVE  built /\ seen' \in {{}, seen}
  BY <1>1, <1>3 DEF BeginNode
<1>4. CASE NodeAnswersIds(p)
  BY <1>4 DEF NodeAnswersIds
<1>5. CASE LoadTopVer(p) \/ CompareAndSwap(p) \/ BeginRange(p) \/ Prune(p) \/ LoadCached(p)
           \/ NodeAnswersNodes(p) \/ Store(p) \/ ApplyProjection(p) \/ RequestFails(p)
  BY <1>5 DEF LoadTopVer, CompareAndSwap, BeginRange, Prune, LoadCached, NodeAnswersNodes, Store,
              ApplyProjection, RequestFails
<1> QED BY <1>2, <1>3, <1>4, <1>5 DEF Call

LEMMA CachedKept ==
    ASSUME Typed, Answers, Cached, [Next]_vars
    PROVE  Cached'
<1>1. CASE UNCHANGED vars
  BY <1>1 DEF vars, group, cache, answer, Cached, Seen, Forgets
<1>2. ASSUME ~built, UNCHANGED <<pc, snapshot, seen>>
      PROVE  Cached'
  <2>1. seen' = {} /\ \A p \in Procs : pc'[p] = "idle"
    BY <1>2 DEF Cached, Answers, Answered
  <2> QED BY <2>1 DEF Cached, Seen, HaveIds, Detailing
<1>3. CASE TopologyChanges
  BY <1>3 DEF TopologyChanges, group, cache, answer, Cached, Seen, Forgets
<1>4. ASSUME NEW p \in Procs, Call(p)
      PROVE  Cached'
  <2>1. built' = built /\ \A q \in Procs : Seen(q)'
    BY <1>4, CallsAreApart, SeenKept DEF group
  <2>2. built
    BY <1>4, SeenGrows DEF Answers, Answered
  <2>3. ASSUME NEW t \in seen', seen' = {t}
        PROVE  Forgets(t)'
    <3>1. CASE seen = {t}
      BY <1>4, <2>3, <3>1, ForgetsKept
    <3>2. CASE seen # {t}
      <4>1. NodeAnswersIds(p) /\ seen = {}
        BY <1>4, <2>3, <3>2, SeenGrows
      <4> QED BY <4>1, FirstAnswer
    <3> QED BY <3>1, <3>2
  <2> QED BY <2>1, <2>2, <2>3 DEF Cached
<1>5. ASSUME NEW f \in FilterChoices, AddFilter(f)
      PROVE  Cached'
  BY <1>2, <1>5 DEF AddFilter, answer
<1>6. ASSUME NEW ns \in Seeds, AddClusterNodes(ns)
      PROVE  Cached'
  BY <1>2, <1>6 DEF AddClusterNodes, answer
<1>7. CASE GetClusterGroup
  BY <1>2, <1>7 DEF GetClusterGroup, answer
<1> QED BY <1>1, <1>3, <1>4, <1>5, <1>6, <1>7 DEF Next

-----------------------------------------------------------------------------
(* The theorems about calls.                                               *)

GroupInvariant == Faithful /\ Typed /\ Answers /\ ResultIsOfSnapshot /\ Cached

LEMMA GroupInvariantHolds == Spec => []GroupInvariant
<1>1. ASSUME Init
      PROVE  GroupInvariant
  <2>1. requested = <<>> /\ projection = <<>> /\ <<>> \in Seq(Filters)
    BY <1>1 DEF Init
  <2>2. Faithful
    BY <2>1 DEF Faithful, Meaning
  <2>3. Typed
    <3>1. topology \in SUBSET Nodes
      BY <1>1 DEF Init
    <3> QED BY <1>1, <3>1 DEF Init, Typed, States
  <2>4. \A p \in Procs : /\ pc[p] = "idle" /\ ask[p] = {} /\ snapshot[p] = {} /\ found[p] = {}
    BY <1>1 DEF Init
  <2>5. Answers
    BY <2>4 DEF Answers, Answered, HaveIds, Detailing
  <2>6. ResultIsOfSnapshot
    BY <2>4 DEF ResultIsOfSnapshot
  <2>7. Cached
    BY <1>1, <2>4 DEF Init, Cached, Seen, HaveIds, Detailing
  <2> QED BY <2>2, <2>3, <2>5, <2>6, <2>7 DEF GroupInvariant
<1>2. ASSUME GroupInvariant, [Next]_vars
      PROVE  GroupInvariant'
  <2>1. Faithful /\ Typed /\ Answers /\ ResultIsOfSnapshot /\ Cached
    BY <1>2 DEF GroupInvariant
  <2> QED BY <1>2, <2>1, GroupsFaithful, TypedKept, AnswersKept, ResultsKept, CachedKept DEF GroupInvariant
<1> QED BY <1>1, <1>2, PTL DEF Spec

(* ResultIsOfSnapshot: what Nodes and Node return is what the filters make *)
(* of the topology in which the ids were taken, less nodes that have left, *)
(* whatever the cache holds and whoever else uses it.                      *)
THEOREM ResultsOfOneTopology == Spec => []ResultIsOfSnapshot
<1>1. GroupInvariant => ResultIsOfSnapshot
  BY DEF GroupInvariant
<1> QED BY <1>1, GroupInvariantHolds, PTL

(* CacheFollows: calls that overlapped, all answered from one topology,    *)
(* leave no node in the cache that is not in it, however their steps meet: *)
(* the compare-and-swap one of them loses, what is pruned or stored in     *)
(* between, and requests that fail.                                        *)
THEOREM CachesFollow == Spec => []CacheFollows
<1>1. ASSUME GroupInvariant, AtRest, NEW t \in seen, seen = {t}
      PROVE  nodes \subseteq t
  BY <1>1 DEF GroupInvariant, Cached, Forgets, AtRest
<1>2. GroupInvariant => CacheFollows
  BY <1>1 DEF CacheFollows
<1> QED BY <1>2, GroupInvariantHolds, PTL
=============================================================================
