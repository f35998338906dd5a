---------------------------- MODULE ProjectorProofs ----------------------------
(***************************************************************************)
(* Theorems about Projector, for every number of generations, losses,      *)
(* timeouts and every queue of a recovery.                                 *)
(*                                                                         *)
(* The invariant reads what is still to be applied, Trail, as a promise:   *)
(* the last fact about the active generation tells the truth, and what it  *)
(* ends with names another generation only as long as a later one is still *)
(* to be announced.  Known and Read say the same of the cache and of what  *)
(* a recovery has read, once nothing that is to come mentions the active   *)
(* generation.                                                             *)
(***************************************************************************)
EXTENDS Projector, FiniteSetTheorems, SequenceTheorems, WellFoundedInduction, TLAPS

USE DEF Generations

-----------------------------------------------------------------------------
(* Induction over the naturals, for sets instead of predicates             *)

\* A set of naturals that is not empty has a least element.
LEMMA LeastNatural ==
  ASSUME NEW T, T \subseteq Nat, T # {}
  PROVE  \E x \in T : \A y \in T : x <= y
<1> DEFINE U == {1 .. x : x \in T}
<1>1. U \subseteq FiniteSubsetsOf(Nat) /\ U # {}
  <2>1. ASSUME NEW x \in T PROVE 1 .. x \in FiniteSubsetsOf(Nat)
    <3>1. x \in Int /\ 1 .. x \subseteq Nat
      OBVIOUS
    <3>2. IsFiniteSet(1 .. x)
      BY <3>1, FS_Interval
    <3> QED
      BY <3>1, <3>2 DEF FiniteSubsetsOf
  <2> QED
    BY <2>1
<1>2. IsWellFoundedOn(StrictSubsetOrdering(Nat), FiniteSubsetsOf(Nat))
  BY FS_StrictSubsetOrderingWellFounded
<1>3. \E s \in U : \A t \in U : <<t, s>> \notin StrictSubsetOrdering(Nat)
  <2> HIDE DEF U
  <2> QED
    BY <1>1, <1>2, WFMin
<1>4. PICK x \in T : \A y \in T : <<1 .. y, 1 .. x>> \notin StrictSubsetOrdering(Nat)
  BY <1>3
<1>5. ASSUME NEW y \in T, y < x PROVE FALSE
  <2>1. 1 .. y \subseteq Nat /\ 1 .. x \subseteq Nat /\ 1 .. y \subseteq 1 .. x
    BY <1>5
  <2>2. x \in 1 .. x /\ x \notin 1 .. y
    BY <1>5
  <2> QED
    BY <1>4, <2>1, <2>2 DEF StrictSubsetOrdering
<1> QED
  BY <1>5

\* A set that holds 0 and every successor holds every natural.
LEMMA SetInduction ==
  ASSUME NEW T, 0 \in T, \A n \in Nat : n \in T => n + 1 \in T
  PROVE  Nat \subseteq T
<1>1. SUFFICES ASSUME Nat \ T # {} PROVE FALSE
  OBVIOUS
<1> DEFINE V == Nat \ T
<1>2. V \subseteq Nat /\ V # {}
  BY <1>1
<1>3. \E x \in V : \A y \in V : x <= y
  <2> HIDE DEF V
  <2> QED
    BY <1>2, LeastNatural
<1>4. PICK x \in V : \A y \in V : x <= y
  BY <1>3
<1>5. x \in Nat /\ x # 0
  OBVIOUS
<1>6. x - 1 \in Nat /\ x - 1 \in T
  BY <1>4, <1>5
<1> QED
  BY <1>4, <1>6

\* f starts with b, and F makes each value from the one before.
Unfolds(f, b, F, m) == f[0] = b /\ \A n \in 1 .. m : f[n] = F[<<f[n - 1], n>>]

\* What is defined step by step exists.
LEMMA Recursion ==
  ASSUME NEW m \in Nat, NEW S, NEW b \in S, NEW F \in [S \X (1 .. m) -> S]
  PROVE  \E f \in [0 .. m -> S] : Unfolds(f, b, F, m)
<1> DEFINE step(f, n) == IF n = 0 THEN b ELSE F[<<f[n - 1], n>>]
           Upto(k) == \E f \in [0 .. k -> S] : \A n \in 0 .. k : f[n] = step(f, n)
           T == {k \in Nat : k <= m => Upto(k)}
<1>1. 0 \in T
  <2> DEFINE f == [n \in 0 .. 0 |-> b]
  <2>1. f \in [0 .. 0 -> S] /\ \A n \in 0 .. 0 : f[n] = step(f, n)
    OBVIOUS
  <2> QED
    BY <2>1
<1>2. ASSUME NEW k \in Nat, k \in T PROVE k + 1 \in T
  <2> HIDE DEF Upto
  <2> SUFFICES ASSUME k + 1 <= m PROVE Upto(k + 1)
    OBVIOUS
  <2> USE DEF Upto
  <2>1. PICK f \in [0 .. k -> S] : \A n \in 0 .. k : f[n] = step(f, n)
    BY <1>2
  <2> DEFINE x == F[<<f[k], k + 1>>]
             g == [n \in 0 .. k + 1 |-> IF n <= k THEN f[n] ELSE x]
  <2>2. x \in S
    <3>1. k \in 0 .. k /\ k + 1 \in 1 .. m
      OBVIOUS
    <3> QED
      BY <2>1, <3>1
  <2> HIDE DEF x
  <2>3. g \in [0 .. k + 1 -> S]
    <3>1. \A n \in 0 .. k + 1 : n <= k => n \in 0 .. k
      OBVIOUS
    <3> QED
      BY <2>1, <2>2, <3>1
  <2>4. ASSUME NEW n \in 0 .. k + 1 PROVE g[n] = step(g, n)
    <3>1. CASE n <= k
      <4>1. n \in 0 .. k /\ g[n] = f[n]
        BY <3>1
      <4>2. n # 0 => n - 1 \in 0 .. k + 1 /\ n - 1 <= k /\ g[n - 1] = f[n - 1]
        BY <3>1
      <4> QED
        BY <2>1, <4>1, <4>2
    <3>2. CASE n = k + 1
      <4>1. g[n] = x /\ n # 0 /\ n - 1 = k /\ g[n - 1] = f[k]
        BY <3>2
      <4> QED
        BY <3>2, <4>1 DEF x
    <3> QED
      BY <3>1, <3>2
  <2> HIDE DEF g
  <2> QED
    BY <2>3, <2>4
<1>3. Nat \subseteq T
  <2> HIDE DEF T
  <2> QED
    BY <1>1, <1>2, SetInduction
<1>4. Upto(m)
  <2> HIDE DEF Upto
  <2> QED
    BY <1>3
<1>5. PICK f \in [0 .. m -> S] : \A n \in 0 .. m : f[n] = step(f, n)
  BY <1>4
<1>6. 0 \in 0 .. m /\ \A n \in 1 .. m : n \in 0 .. m /\ n # 0
  OBVIOUS
<1>7. Unfolds(f, b, F, m)
  BY <1>5, <1>6 DEF Unfolds
<1> QED
  BY <1>7

-----------------------------------------------------------------------------
(* The inductive invariant *)

\* Generation h was announced, and no connection is begun for it any more.
Old(h) == h \in 1 .. generation /\ h \notin begun \cup owed
\* Every generation after h is still to be announced.
Later(h) == h + 1 .. generation \subseteq owed
Live == runtime = generation /\ generation # 0

WorldOK ==
    /\ generation \in Nat /\ runtime \in 0 .. generation
    /\ owed \subseteq 1 .. generation /\ begun \subseteq 1 .. generation
    /\ \A h \in actors : Old(h)
    /\ up \subseteq actors
    /\ runtime # 0 => runtime \in actors

IsGeneration(f) == f.kind = "generation"
About(f, h) == f.kind # "generation" /\ f.generation = h
Unmentioned(s) == \A i \in DOMAIN s : s[i].generation # generation

\* The facts s tell the truth at their end, of LV1 and of the generation.
FactsOld(s) == \A i \in DOMAIN s : ~IsGeneration(s[i]) => Old(s[i].generation)
LastGeneration(s) ==
    \A i \in DOMAIN s :
       /\ IsGeneration(s[i]) /\ \A j \in DOMAIN s : i < j => ~IsGeneration(s[j])
       /\ \/ s[i].generation \in actors
          \/ \E j \in DOMAIN s : i < j /\ s[j] = Fact("connected", s[i].generation)
       => Later(s[i].generation)
LastAbout(s) ==
    \A i \in DOMAIN s :
       Live /\ About(s[i], generation) /\ (\A j \in DOMAIN s : i < j => ~About(s[j], generation))
       => (s[i].kind = "connected" <=> generation \in up)
ConnectedLater(s) ==
    \A i \in DOMAIN s :
       Live /\ generation \in up /\ IsGeneration(s[i]) /\ s[i].generation = generation
       => \E j \in DOMAIN s : i < j /\ About(s[j], generation)
Trail(s) == FactsOld(s) /\ LastGeneration(s) /\ LastAbout(s) /\ ConnectedLater(s)

\* The cache c with the facts s still to come.
CacheLater(c, s) ==
    /\ \A i \in DOMAIN s : ~IsGeneration(s[i])
    /\ \/ c.connected \/ c.generation \in actors
       \/ \E j \in DOMAIN s : s[j] = Fact("connected", c.generation)
    => Later(c.generation)
CacheTrue(c, s) ==
    Live /\ c.generation = generation /\ Unmentioned(s) =>
        /\ c.connected => generation \in up
        /\ timeouts = 0 /\ generation \in up => c.connected
Known(c, s) == (c.connected => Old(c.generation)) /\ CacheLater(c, s) /\ CacheTrue(c, s)

\* What the recovery r has read with the facts s still to come.
ReadTrue(r, s) ==
    r.at # "source" /\ ~r.restart /\ Live /\ Unmentioned(s) =>
        /\ r.lv1 # generation /\ timeouts = 0 => generation \notin up
        /\ r.lv1 = generation /\ r.at # "ask" =>
              /\ r.live => generation \in up
              /\ timeouts = 0 /\ generation \in up => r.live
ReadOrder(r) ==
    /\ r.lv1 # 0 \/ r.live => Old(r.lv1)
    /\ r.at = "source" => r.lv1 = 0
    /\ r.at \in {"source", "ask"} => ~r.live
    /\ r.at = "done" => r.lv1 <= r.active /\ r.active <= generation
Read(r, s) == ReadOrder(r) /\ ReadTrue(r, s)

ToCome == IF Recovering THEN recovery.queue \o events ELSE events

FollowInv ==
    /\ TypeOK /\ WorldOK
    /\ Trail(ToCome)
    /\ IF Recovering THEN Read(recovery, ToCome) ELSE Known(cache, ToCome)
    /\ ~dirty => view.connected = cache.connected

-----------------------------------------------------------------------------
(* Facts to come *)

LEMMA FactSeq ==
  ASSUME NEW s \in Seq(Facts)
  PROVE  /\ Len(s) \in Nat /\ DOMAIN s = 1 .. Len(s)
         /\ \A i \in DOMAIN s : s[i] \in Facts /\ s[i].generation \in Nat
<1>1. \A f \in Facts : f.generation \in Nat
  BY ProjectorAssumption DEF Facts
<1>2. s \in [1 .. Len(s) -> Facts] /\ Len(s) \in Nat /\ DOMAIN s = 1 .. Len(s)
  BY LenProperties
<1> QED
  BY <1>1, <1>2

\* What is left of the facts keeps its promise.
LEMMA SuffixTrail ==
  ASSUME NEW s \in Seq(Facts), NEW t \in Seq(Facts), NEW k \in Nat, Trail(s),
         Len(s) = Len(t) + k, \A i \in DOMAIN t : t[i] = s[i + k]
  PROVE  Trail(t)
<1>1. /\ Len(s) \in Nat /\ DOMAIN s = 1 .. Len(s) /\ Len(t) \in Nat /\ DOMAIN t = 1 .. Len(t)
  BY FactSeq
<1>2. \A i \in DOMAIN t : i \in Nat /\ i + k \in DOMAIN s
  BY <1>1
<1>3. \A i \in DOMAIN t, j \in DOMAIN s : i + k < j => j - k \in DOMAIN t /\ s[j] = t[j - k] /\ i < j - k
  BY <1>1
<1>4. \A i, j \in DOMAIN t : i < j => i + k < j + k
  BY <1>2
<1>5. FactsOld(t)
  BY <1>2 DEF Trail, FactsOld
<1>6. LastGeneration(t)
  <2> SUFFICES ASSUME NEW i \in DOMAIN t, IsGeneration(t[i]),
                      \A j \in DOMAIN t : i < j => ~IsGeneration(t[j]),
                      \/ t[i].generation \in actors
                      \/ \E j \in DOMAIN t : i < j /\ t[j] = Fact("connected", t[i].generation)
               PROVE  Later(t[i].generation)
    BY DEF LastGeneration
  <2>1. \A j \in DOMAIN s : i + k < j => ~IsGeneration(s[j])
    BY <1>3
  <2>2. \/ s[i + k].generation \in actors
        \/ \E j \in DOMAIN s : i + k < j /\ s[j] = Fact("connected", s[i + k].generation)
    BY <1>2, <1>4
  <2>3. i + k \in DOMAIN s /\ s[i + k] = t[i]
    BY <1>2
  <2> QED
    BY <2>1, <2>2, <2>3 DEF Trail, LastGeneration
<1>7. LastAbout(t)
  <2> SUFFICES ASSUME NEW i \in DOMAIN t, Live, About(t[i], generation),
                      \A j \in DOMAIN t : i < j => ~About(t[j], generation)
               PROVE  t[i].kind = "connected" <=> generation \in up
    BY DEF LastAbout
  <2>1. \A j \in DOMAIN s : i + k < j => ~About(s[j], generation)
    BY <1>3
  <2>2. i + k \in DOMAIN s /\ s[i + k] = t[i]
    BY <1>2
  <2> QED
    BY <2>1, <2>2 DEF Trail, LastAbout
<1>8. ConnectedLater(t)
  <2> SUFFICES ASSUME NEW i \in DOMAIN t, Live, generation \in up, IsGeneration(t[i]),
                      t[i].generation = generation
               PROVE  \E j \in DOMAIN t : i < j /\ About(t[j], generation)
    BY DEF ConnectedLater
  <2>1. i + k \in DOMAIN s /\ s[i + k] = t[i]
    BY <1>2
  <2>2. PICK j \in DOMAIN s : i + k < j /\ About(s[j], generation)
    BY <2>1 DEF Trail, ConnectedLater
  <2> QED
    BY <1>3, <2>2
<1> QED
  BY <1>5, <1>6, <1>7, <1>8 DEF Trail

Caches == [generation : Generations, connected : BOOLEAN]

LEMMA ApplyType ==
  ASSUME NEW c \in Caches, NEW f \in Facts PROVE Apply(c, f) \in Caches
BY DEF Apply, ResetFor, Caches, Facts

\* Applying the first of the facts to come leaves the cache right for the rest.
LEMMA ApplyKnown ==
  ASSUME NEW c \in Caches, NEW s \in Seq(Facts), s # <<>>, Trail(s), Known(c, s)
  PROVE  Trail(Tail(s)) /\ Known(Apply(c, Head(s)), Tail(s))
<1>1. /\ Len(s) \in Nat /\ DOMAIN s = 1 .. Len(s) /\ Len(s) # 0 /\ Head(s) = s[1]
      /\ \A i \in DOMAIN s : s[i] \in Facts
  BY FactSeq, EmptySeq
<1>2. PICK t \in Seq(Facts) : t = Tail(s)
  BY HeadTailProperties
<1>3. Len(t) = Len(s) - 1 /\ DOMAIN t = 1 .. Len(t) /\ \A i \in DOMAIN t : t[i] = s[i + 1]
  BY <1>1, <1>2, FactSeq, HeadTailProperties
<1>4. PICK f \in Facts : f = s[1] /\ f = Head(s)
  BY <1>1
<1>5. PICK d \in Caches : d = Apply(c, f)
  BY <1>4, ApplyType
<1>6. Trail(t)
  <2>1. Len(s) = Len(t) + 1
    BY <1>1, <1>3
  <2> QED
    BY <1>3, <2>1, SuffixTrail
<1>7. /\ 1 \in DOMAIN s
      /\ \A j \in DOMAIN s : j = 1 \/ (j - 1 \in DOMAIN t /\ t[j - 1] = s[j] /\ 1 < j)
      /\ \A i \in DOMAIN t : i + 1 \in DOMAIN s /\ s[i + 1] = t[i] /\ 1 < i + 1
  BY <1>1, <1>3
<1>8. CASE IsGeneration(f)
  <2>1. d.generation = f.generation /\ ~d.connected
    BY <1>5, <1>8 DEF Apply, ResetFor, IsGeneration
  <2>2. CacheLater(d, t)
    <3> SUFFICES ASSUME \A i \in DOMAIN t : ~IsGeneration(t[i]),
                        \/ d.generation \in actors
                        \/ \E j \in DOMAIN t : t[j] = Fact("connected", d.generation)
                 PROVE  Later(d.generation)
      BY <2>1 DEF CacheLater
    <3>1. \A j \in DOMAIN s : 1 < j => ~IsGeneration(s[j])
      BY <1>7
    <3>2. \/ s[1].generation \in actors
          \/ \E j \in DOMAIN s : 1 < j /\ s[j] = Fact("connected", s[1].generation)
      BY <1>4, <1>7, <2>1
    <3> QED
      BY <1>4, <1>7, <1>8, <2>1, <3>1, <3>2 DEF Trail, LastGeneration
  <2>3. CacheTrue(d, t)
    <3> SUFFICES ASSUME Live, d.generation = generation, Unmentioned(t), generation \in up
                 PROVE  FALSE
      BY <2>1 DEF CacheTrue
    <3>1. PICK j \in DOMAIN s : 1 < j /\ About(s[j], generation)
      BY <1>4, <1>7, <1>8, <2>1 DEF Trail, ConnectedLater
    <3> QED
      BY <1>7, <3>1 DEF Unmentioned, About
  <2> QED
    BY <1>2, <1>4, <1>5, <1>6, <2>1, <2>2, <2>3 DEF Known
<1>9. CASE ~IsGeneration(f)
  <2>1. /\ d.generation = c.generation
        /\ d.connected = IF f.generation = c.generation THEN f.kind = "connected" ELSE c.connected
    BY <1>5, <1>9 DEF Apply, IsGeneration, Caches
  <2>2. d.connected => Old(d.generation)
    BY <1>4, <1>7, <1>9, <2>1 DEF Known, Trail, FactsOld
  <2>3. CacheLater(d, t)
    <3> SUFFICES ASSUME \A i \in DOMAIN t : ~IsGeneration(t[i]),
                        \/ d.connected \/ d.generation \in actors
                        \/ \E j \in DOMAIN t : t[j] = Fact("connected", d.generation)
                 PROVE  Later(d.generation)
      BY DEF CacheLater
    <3>1. \A j \in DOMAIN s : ~IsGeneration(s[j])
      BY <1>4, <1>7, <1>9
    <3>2. d.connected => c.connected \/ s[1] = Fact("connected", c.generation)
      <4>1. f = Fact(f.kind, f.generation)
        BY DEF Facts, Fact
      <4> QED
        BY <1>4, <2>1, <4>1
    <3>3. \/ c.connected \/ c.generation \in actors
          \/ \E j \in DOMAIN s : s[j] = Fact("connected", c.generation)
      BY <1>7, <2>1, <3>2
    <3> QED
      BY <2>1, <3>1, <3>3 DEF Known, CacheLater
  <2>4. CacheTrue(d, t)
    <3> SUFFICES ASSUME Live, d.generation = generation, Unmentioned(t)
                 PROVE  /\ d.connected => generation \in up
                        /\ timeouts = 0 /\ generation \in up => d.connected
      BY DEF CacheTrue
    <3>1. CASE f.generation = generation
      <4>1. About(s[1], generation) /\ \A j \in DOMAIN s : 1 < j => ~About(s[j], generation)
        BY <1>4, <1>7, <1>9, <3>1 DEF About, Unmentioned, IsGeneration
      <4>2. f.kind = "connected" <=> generation \in up
        BY <1>4, <1>7, <4>1 DEF Trail, LastAbout
      <4> QED
        BY <2>1, <3>1, <4>2
    <3>2. CASE f.generation # generation
      <4>1. ASSUME NEW j \in DOMAIN s PROVE s[j].generation # generation
        <5>1. CASE j = 1
          BY <1>4, <3>2, <5>1
        <5>2. CASE j # 1
          <6>1. j - 1 \in DOMAIN t /\ t[j - 1] = s[j]
            BY <1>7, <5>2
          <6>2. t[j - 1].generation # generation
            BY <6>1 DEF Unmentioned
          <6> QED
            BY <6>1, <6>2
        <5> QED
          BY <5>1, <5>2
      <4>2. Unmentioned(s)
        BY <4>1 DEF Unmentioned
      <4> QED
        BY <2>1, <3>2, <4>2 DEF Known, CacheTrue
    <3> QED
      BY <3>1, <3>2
  <2> QED
    BY <1>2, <1>4, <1>5, <1>6, <2>2, <2>3, <2>4 DEF Known
<1> QED
  BY <1>8, <1>9

\* Replaying the facts q leaves the cache right for those after them.
LEMMA ReplayKnown ==
  ASSUME NEW c \in Caches, NEW q \in Seq(Facts), NEW e \in Seq(Facts),
         Trail(q \o e), Known(c, q \o e)
  PROVE  Replay(c, q) \in Caches /\ Trail(e) /\ Known(Replay(c, q), e)
<1> DEFINE m == Len(q)
           F == [x \in Caches \X (1 .. m) |-> Apply(x[1], q[x[2]])]
<1>1. m \in Nat /\ DOMAIN q = 1 .. m /\ \A n \in 1 .. m : q[n] \in Facts
  BY FactSeq
<1>2. F \in [Caches \X (1 .. m) -> Caches]
  <2>1. \A x \in Caches \X (1 .. m) : Apply(x[1], q[x[2]]) \in Caches
    BY <1>1, ApplyType
  <2> QED
    BY <2>1
<1>3. \A x \in Caches, n \in 1 .. m : F[<<x, n>>] = Apply(x, q[n])
  OBVIOUS
<1> HIDE DEF F, m
<1>4. PICK f \in [0 .. m -> Caches] : f[0] = c /\ \A n \in 1 .. m : f[n] = F[<<f[n - 1], n>>]
  <2>1. \E f \in [0 .. m -> Caches] : Unfolds(f, c, F, m)
    BY <1>1, <1>2, Recursion, Zenon
  <2> QED
    BY <2>1 DEF Unfolds
<1> DEFINE after == CHOOSE h : h = [n \in 0 .. m |-> IF n = 0 THEN c ELSE Apply(h[n - 1], q[n])]
<1>5. f = [n \in 0 .. m |-> IF n = 0 THEN c ELSE Apply(f[n - 1], q[n])]
  <2>1. ASSUME NEW n \in 0 .. m, n # 0 PROVE f[n] = Apply(f[n - 1], q[n])
    <3>1. n \in 1 .. m /\ n - 1 \in 0 .. m /\ f[n - 1] \in Caches
      BY <1>1, <2>1
    <3> QED
      BY <1>3, <1>4, <3>1
  <2>2. \A n \in 0 .. m : f[n] = IF n = 0 THEN c ELSE Apply(f[n - 1], q[n])
    BY <1>4, <2>1
  <2>3. f = [n \in 0 .. m |-> f[n]]
    OBVIOUS
  <2> QED
    BY <2>2, <2>3
<1>6. after = [n \in 0 .. m |-> IF n = 0 THEN c ELSE Apply(after[n - 1], q[n])]
  BY <1>5
<1>7. Replay(c, q) = after[m]
  BY DEF Replay, m
<1> HIDE DEF after
<1>8. \A n \in 0 .. m : after[n] = IF n = 0 THEN c ELSE Apply(after[n - 1], q[n])
  BY <1>6
<1>9. PICK w \in Seq(Facts) : /\ w = q \o e /\ Len(w) = m + Len(e)
                              /\ \A i \in 1 .. m : w[i] = q[i]
  <2>1. /\ q \o e \in Seq(Facts) /\ Len(q \o e) = m + Len(e)
        /\ \A i \in 1 .. m + Len(e) : (q \o e)[i] = IF i <= m THEN q[i] ELSE e[i - m]
    BY ConcatProperties DEF m
  <2>2. Len(e) \in Nat
    BY FactSeq
  <2>3. \A i \in 1 .. m : i \in 1 .. m + Len(e) /\ i <= m
    BY <1>1, <2>2
  <2> QED
    BY <2>1, <2>3
<1>10. Len(w) \in Nat /\ Len(e) \in Nat
  BY FactSeq
<1> DEFINE Rest(n) == SubSeq(w, n + 1, Len(w))
           Good(x, n) == x \in Caches /\ Trail(Rest(n)) /\ Known(x, Rest(n))
           T == {n \in Nat : n <= m => Good(after[n], n)}
<1>11. 0 \in T
  <2>1. after[0] = c
    BY <1>1, <1>8
  <2>2. Rest(0) = w
    BY SubSeqFull
  <2> QED
    BY <1>9, <2>1, <2>2
<1>12. ASSUME NEW n \in Nat, n \in T PROVE n + 1 \in T
  <2> SUFFICES ASSUME n + 1 <= m PROVE Good(after[n + 1], n + 1)
    OBVIOUS
  <2>1. Good(after[n], n)
    BY <1>1, <1>12
  <2>2. /\ n + 1 \in 0 .. m /\ n + 1 # 0 /\ n + 1 - 1 = n /\ n + 1 \in 1 .. m
        /\ n + 1 \in 1 .. Len(w) /\ Len(w) \in n + 1 .. Len(w)
    BY <1>1, <1>9, <1>10
  <2>3. after[n + 1] = Apply(after[n], q[n + 1])
    BY <1>8, <2>2
  <2>4. Head(Rest(n)) = w[n + 1] /\ Tail(Rest(n)) = SubSeq(w, n + 1 + 1, Len(w))
    BY <2>2, HeadTailOfSubSeq
  <2>5. w[n + 1] = q[n + 1] /\ q[n + 1] \in Facts
    BY <1>1, <1>9, <2>2
  <2>6. Rest(n) \in Seq(Facts) /\ Rest(n) # <<>>
    <3>1. \A i \in n + 1 .. Len(w) : w[i] \in Facts
      BY <1>10, FactSeq
    <3>2. Rest(n) \in Seq(Facts) /\ Len(Rest(n)) = Len(w) - (n + 1) + 1
      <4>1. n + 1 \in Int /\ Len(w) \in Int /\ n + 1 <= Len(w)
        BY <1>10, <2>2
      <4>2. /\ SubSeq(w, n + 1, Len(w)) \in Seq(Facts)
            /\ Len(SubSeq(w, n + 1, Len(w))) = IF n + 1 <= Len(w) THEN Len(w) - (n + 1) + 1 ELSE 0
        BY <3>1, <4>1, SubSeqProperties
      <4> QED
        BY <4>1, <4>2
    <3>3. Len(Rest(n)) # 0
      <4>1. Len(w) - (n + 1) + 1 # 0
        BY <1>10, <2>2
      <4> QED
        BY <3>2, <4>1
    <3> QED
      BY <3>2, <3>3, EmptySeq
  <2>7. PICK x \in Caches, r \in Seq(Facts) : x = after[n] /\ r = Rest(n)
    BY <2>1, <2>6
  <2>8. Trail(Tail(r)) /\ Known(Apply(x, Head(r)), Tail(r))
    BY <2>1, <2>6, <2>7, ApplyKnown
  <2>9. Apply(x, q[n + 1]) \in Caches
    BY <2>5, ApplyType
  <2> QED
    BY <2>3, <2>4, <2>5, <2>7, <2>8, <2>9
<1>13. Nat \subseteq T
  <2> HIDE DEF T
  <2> QED
    BY <1>11, <1>12, SetInduction
<1>14. Good(after[m], m)
  <2> HIDE DEF Good
  <2> QED
    BY <1>1, <1>13
<1>15. Rest(m) = e
  <2>1. CASE Len(e) = 0
    <3>1. e = <<>> /\ Len(w) < m + 1
      BY <1>1, <1>9, <2>1, EmptySeq
    <3> QED
      BY <1>1, <1>10, <3>1, SubSeqEmpty
  <2>2. CASE Len(e) # 0
    <3>1. m + 1 \in m + 1 .. m + Len(e) /\ Len(w) \in m + 1 .. m + Len(e)
      BY <1>1, <1>9, <1>10, <2>2
    <3>2. SubSeq(q \o e, m + 1, Len(w)) = SubSeq(e, m + 1 - m, Len(w) - m)
      BY <3>1, SubSeqOfConcat2 DEF m
    <3>3. m + 1 - m = 1 /\ Len(w) - m = Len(e)
      BY <1>1, <1>9, <1>10
    <3> QED
      BY <1>9, <3>2, <3>3, SubSeqFull
  <2> QED
    BY <2>1, <2>2
<1> QED
  BY <1>7, <1>14, <1>15

-----------------------------------------------------------------------------
(* The world moves *)

Recoveries ==
    [at : {"none", "source", "ask", "generation", "done"}, lv1 : Generations,
     live : BOOLEAN, active : Generations, queue : Seq(Facts), restart : BOOLEAN]

\* Nothing is published: what is promised of any facts to come stays promised.
LEMMA SilentKeeps ==
  ASSUME WorldOK, Silent \/ StateChanges, UNCHANGED timeouts
  PROVE  /\ WorldOK'
         /\ \A s \in Seq(Facts) : Trail(s) => Trail(s)'
         /\ \A c \in Caches, s \in Seq(Facts) : Known(c, s) => Known(c, s)'
         /\ \A r \in Recoveries, s \in Seq(Facts) : Read(r, s) => Read(r, s)'
<1>1. /\ WorldOK'
      /\ generation <= generation'
      /\ \A h \in Nat : Old(h) => Old(h)'
      /\ \A h \in actors' : h \in actors \/ Later(h)'
      /\ \A h \in Nat : Later(h) => Later(h)'
      /\ Live' => /\ generation' = generation
                  /\ \/ Live /\ (generation' \in up' <=> generation \in up)
                     \/ ~Old(generation) /\ generation' \notin up'
  <2>1. CASE Advance
    BY <2>1 DEF Advance, Keep, WorldOK, Old, Later, Live
  <2>2. CASE InstallCurrent
    BY <2>2 DEF InstallCurrent, Keep, WorldOK, Old, Later, Live
  <2>3. CASE Release
    BY <2>3 DEF Release, Keep, WorldOK, Old, Later, Live
  <2>4. CASE \E g \in begun : Refuse(g)
    BY <2>4 DEF Refuse, WorldOK, Old, Later, Live
  <2>5. CASE StateChanges
    BY <2>5 DEF StateChanges, connectionVars, WorldOK, Old, Later, Live
  <2> QED
    BY <2>1, <2>2, <2>3, <2>4, <2>5 DEF Silent
<1>2. ASSUME NEW s \in Seq(Facts), Trail(s) PROVE Trail(s)'
  <2>1. \A i \in DOMAIN s : s[i].generation \in Nat
    BY FactSeq
  <2>2. FactsOld(s)'
    BY <1>1, <1>2, <2>1 DEF Trail, FactsOld
  <2>3. LastGeneration(s)'
    BY <1>1, <1>2, <2>1 DEF Trail, LastGeneration
  <2>4. CASE ~Live'
    BY <2>2, <2>3, <2>4 DEF Trail, LastAbout, ConnectedLater
  <2>5. CASE Live' /\ Live /\ generation' = generation /\ (generation' \in up' <=> generation \in up)
    <3>1. LastAbout(s)'
      BY <1>2, <2>5 DEF Trail, LastAbout
    <3>2. ConnectedLater(s)'
      BY <1>2, <2>5 DEF Trail, ConnectedLater
    <3> QED
      BY <2>2, <2>3, <3>1, <3>2 DEF Trail
  <2>6. CASE ~Old(generation) /\ generation' = generation /\ generation' \notin up'
    <3>1. LastAbout(s)'
      BY <1>2, <2>6 DEF Trail, FactsOld, LastAbout, About, IsGeneration
    <3>2. ConnectedLater(s)'
      BY <2>6 DEF ConnectedLater
    <3> QED
      BY <2>2, <2>3, <3>1, <3>2 DEF Trail
  <2> QED
    BY <1>1, <2>4, <2>5, <2>6
<1>3. ASSUME NEW c \in Caches, NEW s \in Seq(Facts), Known(c, s) PROVE Known(c, s)'
  <2>1. c.generation \in Nat
    BY ProjectorAssumption DEF Caches
  <2>2. (c.connected => Old(c.generation))'
    BY <1>1, <1>3, <2>1 DEF Known
  <2>3. CacheLater(c, s)'
    BY <1>1, <1>3, <2>1 DEF Known, CacheLater
  <2>4. CacheTrue(c, s)'
    BY <1>1, <1>3 DEF Known, CacheTrue, Unmentioned
  <2> QED
    BY <2>2, <2>3, <2>4 DEF Known
<1>4. ASSUME NEW r \in Recoveries, NEW s \in Seq(Facts), Read(r, s) PROVE Read(r, s)'
  <2>1. r.lv1 \in Nat /\ r.active \in Nat
    BY ProjectorAssumption DEF Recoveries
  <2>2. ReadOrder(r)'
    BY <1>1, <1>4, <2>1 DEF Read, ReadOrder, WorldOK
  <2>3. ReadTrue(r, s)'
    BY <1>1, <1>4, <2>1 DEF Read, ReadOrder, ReadTrue, Unmentioned, Live
  <2> QED
    BY <2>2, <2>3 DEF Read
<1> QED
  BY <1>1, <1>2, <1>3, <1>4

\* One more fact at the end.
LEMMA Appended ==
  ASSUME NEW s \in Seq(Facts), NEW f \in Facts
  PROVE  /\ Append(s, f) \in Seq(Facts)
         /\ Len(s) \in Nat /\ DOMAIN s = 1 .. Len(s) /\ DOMAIN Append(s, f) = 1 .. Len(s) + 1
         /\ \A i \in DOMAIN s : Append(s, f)[i] = s[i] /\ i \in DOMAIN Append(s, f) /\ i < Len(s) + 1
         /\ Append(s, f)[Len(s) + 1] = f /\ Len(s) + 1 \in DOMAIN Append(s, f)
         /\ \A i \in DOMAIN Append(s, f) : i \in DOMAIN s \/ i = Len(s) + 1
         /\ \A i \in DOMAIN Append(s, f) : ~(Len(s) + 1 < i)
<1>1. Len(s) \in Nat /\ DOMAIN s = 1 .. Len(s)
  BY FactSeq
<1>2. /\ Append(s, f) \in Seq(Facts) /\ Len(Append(s, f)) = Len(s) + 1
      /\ \A i \in 1 .. Len(s) : Append(s, f)[i] = s[i]
      /\ Append(s, f)[Len(s) + 1] = f
  BY AppendProperties
<1>3. DOMAIN Append(s, f) = 1 .. Len(s) + 1
  BY <1>2, FactSeq
<1> QED
  BY <1>1, <1>2, <1>3

\* A generation is announced: it was never installed, so no fact is about it.
LEMMA AnnounceKeeps ==
  ASSUME WorldOK, NEW g \in Generations, AnnounceGeneration(g), UNCHANGED timeouts,
         NEW f, f = Fact("generation", g), f \in Facts
  PROVE  /\ WorldOK'
         /\ \A s \in Seq(Facts) : Trail(s) => Trail(Append(s, f))'
         /\ \A c \in Caches, s \in Seq(Facts) : Known(c, s) => Known(c, Append(s, f))'
         /\ \A r \in Recoveries, s \in Seq(Facts) : Read(r, s) => Read(r, Append(s, f))'
<1>1. /\ WorldOK'
      /\ UNCHANGED <<generation, runtime, begun, actors, up>>
      /\ \A h \in Nat : Old(h) => Old(h)'
      /\ g \notin actors /\ (Live => g # generation)
      /\ f.kind = "generation" /\ f.generation = g
  BY DEF AnnounceGeneration, WorldOK, Old, Live, Fact
<1>2. Live' = Live
  BY <1>1 DEF Live
<1>3. ASSUME NEW s \in Seq(Facts), NEW t \in Seq(Facts), t = Append(s, f)
      PROVE  /\ \A i \in DOMAIN s : t[i] = s[i] /\ i \in DOMAIN t /\ i < Len(s) + 1
             /\ t[Len(s) + 1] = f /\ Len(s) + 1 \in DOMAIN t
             /\ \A i \in DOMAIN t : i \in DOMAIN s \/ i = Len(s) + 1
             /\ \A i \in DOMAIN t : ~(Len(s) + 1 < i)
             /\ Unmentioned(t)' => Unmentioned(s)
  <2>1. /\ \A i \in DOMAIN s : t[i] = s[i] /\ i \in DOMAIN t /\ i < Len(s) + 1
        /\ t[Len(s) + 1] = f /\ Len(s) + 1 \in DOMAIN t
        /\ \A i \in DOMAIN t : i \in DOMAIN s \/ i = Len(s) + 1
        /\ \A i \in DOMAIN t : ~(Len(s) + 1 < i)
    BY <1>3, Appended
  <2> QED
    BY <1>1, <2>1 DEF Unmentioned
<1>4. ASSUME NEW s \in Seq(Facts), Trail(s) PROVE Trail(Append(s, f))'
  <2>1. PICK t, n : t \in Seq(Facts) /\ t = Append(s, f) /\ n = Len(s) + 1
    BY Appended
  <2>2. /\ \A i \in DOMAIN s : t[i] = s[i] /\ i \in DOMAIN t /\ i < n /\ s[i].generation \in Nat
        /\ t[n] = f /\ n \in DOMAIN t
        /\ \A i \in DOMAIN t : i \in DOMAIN s \/ i = n
        /\ \A i \in DOMAIN t : ~(n < i)
    BY <1>3, <2>1, FactSeq
  <2>3. FactsOld(t)'
    BY <1>1, <1>4, <2>2 DEF Trail, FactsOld, IsGeneration
  <2>4. LastGeneration(t)'
    BY <1>1, <2>2 DEF LastGeneration, IsGeneration
  <2>5. LastAbout(t)'
    BY <1>1, <1>2, <1>4, <2>2 DEF Trail, LastAbout, About
  <2>6. ConnectedLater(t)'
    BY <1>1, <1>2, <1>4, <2>2 DEF Trail, ConnectedLater
  <2> QED
    BY <2>1, <2>3, <2>4, <2>5, <2>6 DEF Trail
<1>5. ASSUME NEW c \in Caches, NEW s \in Seq(Facts), Known(c, s) PROVE Known(c, Append(s, f))'
  <2>1. PICK t \in Seq(Facts) : t = Append(s, f)
    BY Appended
  <2>2. CacheLater(c, t)'
    BY <1>1, <1>3, <2>1 DEF CacheLater, IsGeneration
  <2>3. CacheTrue(c, t)'
    BY <1>1, <1>2, <1>3, <1>5, <2>1 DEF Known, CacheTrue
  <2>4. (c.connected => Old(c.generation))'
    BY <1>1, <1>5, ProjectorAssumption DEF Known, Caches
  <2> QED
    BY <2>1, <2>2, <2>3, <2>4 DEF Known
<1>6. ASSUME NEW r \in Recoveries, NEW s \in Seq(Facts), Read(r, s) PROVE Read(r, Append(s, f))'
  <2>1. PICK t \in Seq(Facts) : t = Append(s, f)
    BY Appended
  <2>2. ReadOrder(r)'
    BY <1>1, <1>6, ProjectorAssumption DEF Read, ReadOrder, Recoveries
  <2>3. ReadTrue(r, t)'
    BY <1>1, <1>2, <1>3, <1>6, <2>1 DEF Read, ReadTrue
  <2> QED
    BY <2>1, <2>2, <2>3 DEF Read
<1> QED
  BY <1>1, <1>4, <1>5, <1>6

\* An LV1 actor connects or loses its connection.
LEMMA ConnectionKeeps ==
  ASSUME WorldOK, NEW g \in Generations, ConnectLv1(g) \/ DropLv1(g), UNCHANGED timeouts,
         NEW f, f = Fact(IF ConnectLv1(g) THEN "connected" ELSE "disconnected", g), f \in Facts
  PROVE  /\ WorldOK'
         /\ \A s \in Seq(Facts) : Trail(s) => Trail(Append(s, f))'
         /\ \A c \in Caches, s \in Seq(Facts) : Known(c, s) => Known(c, Append(s, f))'
         /\ \A r \in Recoveries, s \in Seq(Facts) : Read(r, s) => Read(r, Append(s, f))'
<1>1. /\ WorldOK'
      /\ UNCHANGED <<generation, runtime, begun, owed, actors>>
      /\ g \in actors /\ Old(g) /\ g \in Nat
      /\ f.kind # "generation" /\ f.generation = g /\ (f.kind = "connected" <=> g \in up')
      /\ \A h : h # g => (h \in up' <=> h \in up)
  <2>1. CASE ConnectLv1(g)
    <3>1. f.kind = "connected" /\ f.generation = g
      BY <2>1 DEF Fact
    <3> QED
      BY <2>1, <3>1 DEF ConnectLv1, WorldOK, Old
  <2>2. CASE ~ConnectLv1(g) /\ DropLv1(g)
    <3>1. f.kind = "disconnected" /\ f.generation = g
      BY <2>2 DEF Fact
    <3> QED
      BY <2>2, <3>1 DEF DropLv1, WorldOK, Old
  <2> QED
    BY <2>1, <2>2
<1>2. (Live' <=> Live) /\ \A h : (Old(h)' <=> Old(h)) /\ (Later(h)' <=> Later(h))
  BY <1>1 DEF Live, Old, Later
<1>3. ASSUME NEW s \in Seq(Facts), NEW t \in Seq(Facts), t = Append(s, f)
      PROVE  /\ \A i \in DOMAIN s : t[i] = s[i] /\ i \in DOMAIN t /\ i < Len(s) + 1
             /\ t[Len(s) + 1] = f /\ Len(s) + 1 \in DOMAIN t
             /\ \A i \in DOMAIN t : i \in DOMAIN s \/ i = Len(s) + 1
             /\ \A i \in DOMAIN t : ~(Len(s) + 1 < i)
             /\ Unmentioned(t)' => Unmentioned(s) /\ g # generation
  <2>1. /\ \A i \in DOMAIN s : t[i] = s[i] /\ i \in DOMAIN t /\ i < Len(s) + 1
        /\ t[Len(s) + 1] = f /\ Len(s) + 1 \in DOMAIN t
        /\ \A i \in DOMAIN t : i \in DOMAIN s \/ i = Len(s) + 1
        /\ \A i \in DOMAIN t : ~(Len(s) + 1 < i)
    BY <1>3, Appended
  <2> QED
    BY <1>1, <2>1 DEF Unmentioned
<1>4. ASSUME NEW s \in Seq(Facts), Trail(s) PROVE Trail(Append(s, f))'
  <2>1. PICK t, n : t \in Seq(Facts) /\ t = Append(s, f) /\ n = Len(s) + 1
    BY Appended
  <2>2. /\ \A i \in DOMAIN s : t[i] = s[i] /\ i \in DOMAIN t /\ i < n /\ s[i].generation \in Nat
        /\ t[n] = f /\ n \in DOMAIN t
        /\ \A i \in DOMAIN t : i \in DOMAIN s \/ i = n
        /\ \A i \in DOMAIN t : ~(n < i)
    BY <1>3, <2>1, FactSeq
  <2>3. FactsOld(t)'
    BY <1>1, <1>2, <1>4, <2>2 DEF Trail, FactsOld
  <2>4. LastGeneration(t)'
    <3> SUFFICES ASSUME NEW i \in DOMAIN t, IsGeneration(t[i]),
                        \A j \in DOMAIN t : i < j => ~IsGeneration(t[j]),
                        \/ t[i].generation \in actors
                        \/ \E j \in DOMAIN t : i < j /\ t[j] = Fact("connected", t[i].generation)
                 PROVE  Later(t[i].generation)
      BY <1>1, <1>2 DEF LastGeneration
    <3>1. i \in DOMAIN s /\ t[i] = s[i] /\ \A j \in DOMAIN s : i < j => ~IsGeneration(s[j])
      BY <1>1, <2>2 DEF IsGeneration
    <3>2. \/ s[i].generation \in actors
          \/ \E j \in DOMAIN s : i < j /\ s[j] = Fact("connected", s[i].generation)
      BY <1>1, <2>2, <3>1 DEF Fact
    <3> QED
      BY <1>4, <3>1, <3>2 DEF Trail, LastGeneration
  <2>5. LastAbout(t)'
    <3> SUFFICES ASSUME NEW i \in DOMAIN t, Live, About(t[i], generation),
                        \A j \in DOMAIN t : i < j => ~About(t[j], generation)
                 PROVE  t[i].kind = "connected" <=> generation \in up'
      BY <1>1, <1>2 DEF LastAbout
    <3>1. CASE i = n
      BY <1>1, <2>2, <3>1 DEF About
    <3>2. CASE i # n
      <4>1. i \in DOMAIN s /\ t[i] = s[i] /\ \A j \in DOMAIN s : i < j => ~About(s[j], generation)
        BY <2>2, <3>2
      <4>2. g # generation
        BY <1>1, <2>2, <4>1 DEF About
      <4> QED
        BY <1>1, <1>4, <4>1, <4>2 DEF Trail, LastAbout
    <3> QED
      BY <3>1, <3>2
  <2>6. ConnectedLater(t)'
    <3> SUFFICES ASSUME NEW i \in DOMAIN t, Live, generation \in up', IsGeneration(t[i]),
                        t[i].generation = generation
                 PROVE  \E j \in DOMAIN t : i < j /\ About(t[j], generation)
      BY <1>1, <1>2 DEF ConnectedLater
    <3>1. i \in DOMAIN s /\ t[i] = s[i] /\ i < n
      BY <1>1, <2>2 DEF IsGeneration
    <3>2. CASE g = generation
      BY <1>1, <2>2, <3>1, <3>2 DEF About
    <3>3. CASE g # generation
      BY <1>1, <1>4, <2>2, <3>1, <3>3 DEF Trail, ConnectedLater
    <3> QED
      BY <3>2, <3>3
  <2> QED
    BY <2>1, <2>3, <2>4, <2>5, <2>6 DEF Trail
<1>5. ASSUME NEW c \in Caches, NEW s \in Seq(Facts), Known(c, s) PROVE Known(c, Append(s, f))'
  <2>1. PICK t, n : t \in Seq(Facts) /\ t = Append(s, f) /\ n = Len(s) + 1
    BY Appended
  <2>2. /\ \A i \in DOMAIN s : t[i] = s[i] /\ i \in DOMAIN t
        /\ t[n] = f
        /\ \A i \in DOMAIN t : i \in DOMAIN s \/ i = n
        /\ Unmentioned(t)' => Unmentioned(s) /\ g # generation
    BY <1>3, <2>1
  <2>3. CacheLater(c, t)'
    <3>1. (\E j \in DOMAIN t : t[j] = Fact("connected", c.generation)) =>
             \/ c.generation \in actors
             \/ \E j \in DOMAIN s : s[j] = Fact("connected", c.generation)
      BY <1>1, <2>2 DEF Fact
    <3>2. (\A j \in DOMAIN t : ~IsGeneration(t[j])) => \A j \in DOMAIN s : ~IsGeneration(s[j])
      BY <2>2
    <3> QED
      BY <1>1, <1>2, <1>5, <3>1, <3>2 DEF Known, CacheLater
  <2>4. CacheTrue(c, t)'
    BY <1>1, <1>2, <1>5, <2>2 DEF Known, CacheTrue
  <2>5. (c.connected => Old(c.generation))'
    BY <1>2, <1>5 DEF Known
  <2> QED
    BY <2>1, <2>3, <2>4, <2>5 DEF Known
<1>6. ASSUME NEW r \in Recoveries, NEW s \in Seq(Facts), Read(r, s) PROVE Read(r, Append(s, f))'
  <2>1. PICK t \in Seq(Facts) : t = Append(s, f)
    BY Appended
  <2>2. ReadOrder(r)'
    BY <1>1, <1>2, <1>6 DEF Read, ReadOrder
  <2>3. ReadTrue(r, t)'
    BY <1>1, <1>2, <1>3, <1>6, <2>1 DEF Read, ReadTrue
  <2> QED
    BY <2>1, <2>2, <2>3 DEF Read
<1> QED
  BY <1>1, <1>4, <1>5, <1>6

LEMMA WorldTypes == ASSUME TypeOK, World PROVE TypeOK'
<1>1. UNCHANGED <<cache, seen, dirty, view, recovery, lags, timeouts>>
  BY DEF World, projectorVars
<1>2. /\ generation' \in Generations /\ runtime' \in Generations
      /\ owed' \subseteq Generations /\ begun' \subseteq Generations
      /\ actors' \subseteq Generations /\ up' \subseteq actors'
      /\ events' \in Seq(Facts) /\ retained' \in 0 .. MaxChanges /\ flaps' \in 0 .. MaxFlaps
      /\ retained <= retained'
  <2>1. CASE StateChanges
    BY <2>1, ProjectorAssumption DEF StateChanges, connectionVars, TypeOK
  <2>2. CASE Silent /\ UNCHANGED retained
    <3>1. CASE generation < MaxGeneration /\ Advance
      BY <2>2, <3>1, ProjectorAssumption DEF Silent, Advance, Keep, TypeOK
    <3>2. CASE InstallCurrent
      BY <2>2, <3>2, ProjectorAssumption DEF Silent, InstallCurrent, Keep, TypeOK
    <3>3. CASE Release
      BY <2>2, <3>3, ProjectorAssumption DEF Silent, Release, Keep, TypeOK
    <3>4. CASE \E g \in begun : Refuse(g)
      BY <2>2, <3>4, ProjectorAssumption DEF Silent, Refuse, TypeOK
    <3> QED
      BY <2>2, <3>1, <3>2, <3>3, <3>4 DEF Silent
  <2>3. ASSUME NEW g \in Generations, Announced(g) \/ Connects(g) \/ Drops(g), UNCHANGED retained
        PROVE  /\ generation' \in Generations /\ runtime' \in Generations
               /\ owed' \subseteq Generations /\ begun' \subseteq Generations
               /\ actors' \subseteq Generations /\ up' \subseteq actors'
               /\ events' \in Seq(Facts) /\ flaps' \in 0 .. MaxFlaps /\ retained <= retained'
    <3>1. \A k \in {"generation", "connected", "disconnected"} : Append(events, Fact(k, g)) \in Seq(Facts)
      BY AppendProperties DEF TypeOK, Fact, Facts
    <3>2. retained <= retained' /\ flaps \in Int
      BY <2>3, ProjectorAssumption DEF TypeOK
    <3>3. CASE Announced(g)
      <4>1. events' \in Seq(Facts)
        BY <3>1, <3>3 DEF Announced, Publish
      <4> QED
        BY <3>2, <3>3, <4>1 DEF Announced, AnnounceGeneration, TypeOK
    <3>4. CASE Connects(g)
      <4>1. events' \in Seq(Facts)
        BY <3>1, <3>4 DEF Connects, Publish
      <4> QED
        BY <3>2, <3>4, <4>1 DEF Connects, ConnectLv1, TypeOK
    <3>5. CASE Drops(g)
      <4>1. events' \in Seq(Facts)
        BY <3>1, <3>5 DEF Drops, Publish
      <4>2. flaps' \in 0 .. MaxFlaps
        BY <3>5, ProjectorAssumption DEF Drops, TypeOK
      <4> QED
        BY <3>2, <3>5, <4>1, <4>2 DEF Drops, DropLv1, TypeOK
    <3> QED
      BY <2>3, <3>3, <3>4, <3>5
  <2> QED
    BY <2>1, <2>2, <2>3 DEF World, TypeOK
<1>3. seen' \in 0 .. retained' /\ view' \in [connected : BOOLEAN, retained : 0 .. retained']
  <2>1. retained \in Int /\ retained' \in Int
    BY <1>2, ProjectorAssumption DEF TypeOK
  <2>2. 0 .. retained \subseteq 0 .. retained'
    BY <1>2, <2>1
  <2> QED
    BY <1>1, <2>2 DEF TypeOK
<1> QED
  BY <1>1, <1>2, <1>3 DEF TypeOK

\* A fact the world publishes is one more to come.
LEMMA ToComeGrows ==
  ASSUME TypeOK, NEW f \in Facts, events' = Append(events, f), UNCHANGED recovery
  PROVE  ToCome' = Append(ToCome, f) /\ ToCome \in Seq(Facts)
<1>1. recovery.queue \in Seq(Facts) /\ events \in Seq(Facts)
  BY DEF TypeOK
<1>2. PICK q \in Seq(Facts), e \in Seq(Facts) : q = recovery.queue /\ e = events
  BY <1>1
<1>3. q \o Append(e, f) = Append(q \o e, f)
  <2>1. /\ e \o <<f>> = Append(e, f) /\ <<f>> \in Seq(Facts)
        /\ q \o e \in Seq(Facts) /\ (q \o e) \o <<f>> = Append(q \o e, f)
    BY AppendIsConcat, ConcatProperties
  <2>2. q \o (e \o <<f>>) = (q \o e) \o <<f>>
    BY <2>1, ConcatAssociative
  <2> QED
    BY <2>1, <2>2
<1>4. q \o e \in Seq(Facts)
  BY ConcatProperties
<1> QED
  BY <1>2, <1>3, <1>4 DEF ToCome, Recovering

LEMMA FollowWorld == ASSUME FollowInv, World PROVE FollowInv'
<1>1. TypeOK'
  BY WorldTypes DEF FollowInv
<1>2. UNCHANGED <<cache, dirty, view, recovery, timeouts>> /\ (Recovering' <=> Recovering)
  BY DEF World, projectorVars, Recovering
<1>3. PICK s, c, r : /\ s = ToCome /\ c = cache /\ r = recovery
                     /\ s \in Seq(Facts) /\ c \in Caches /\ r \in Recoveries
  <2>1. ToCome \in Seq(Facts)
    BY ConcatProperties DEF FollowInv, TypeOK, ToCome
  <2> QED
    BY <2>1 DEF FollowInv, TypeOK, Caches, Recoveries
<1>4. Trail(s) /\ (Recovering => Read(r, s)) /\ (~Recovering => Known(c, s)) /\ WorldOK
  BY <1>3 DEF FollowInv
<1>5. CASE Silent \/ StateChanges
  <2>1. UNCHANGED events
    BY <1>5 DEF Silent, StateChanges
  <2>2. ToCome' = s
    BY <1>2, <1>3, <2>1 DEF ToCome
  <2>3. WorldOK' /\ Trail(s)' /\ (Recovering => Read(r, s)') /\ (~Recovering => Known(c, s)')
    BY <1>2, <1>3, <1>4, <1>5, SilentKeeps
  <2> QED
    BY <1>1, <1>2, <1>3, <2>2, <2>3 DEF FollowInv
<1>6. ASSUME NEW g \in Generations, Announced(g) \/ Connects(g) \/ Drops(g) PROVE FollowInv'
  <2>1. PICK f \in Facts :
           /\ events' = Append(events, f)
           /\ \/ AnnounceGeneration(g) /\ f = Fact("generation", g)
              \/ /\ ConnectLv1(g) \/ DropLv1(g)
                 /\ f = Fact(IF ConnectLv1(g) THEN "connected" ELSE "disconnected", g)
    <3>1. \A k \in {"generation", "connected", "disconnected"} : Fact(k, g) \in Facts
      BY DEF Fact, Facts
    <3>2. CASE Announced(g)
      BY <3>1, <3>2 DEF Announced, Publish
    <3>3. CASE Connects(g)
      BY <3>1, <3>3 DEF Connects, Publish
    <3>4. CASE Drops(g)
      <4>1. ~ConnectLv1(g)
        BY <3>4 DEF Drops, DropLv1, ConnectLv1
      <4> QED
        BY <3>1, <3>4, <4>1 DEF Drops, Publish
    <3> QED
      BY <1>6, <3>2, <3>3, <3>4
  <2>2. ToCome' = Append(s, f)
    BY <1>2, <1>3, <2>1, ToComeGrows DEF FollowInv
  <2>3. /\ WorldOK' /\ Trail(Append(s, f))'
        /\ (Recovering => Read(r, Append(s, f))') /\ (~Recovering => Known(c, Append(s, f))')
    <3>1. CASE AnnounceGeneration(g) /\ f = Fact("generation", g)
      BY <1>2, <1>3, <1>4, <3>1, AnnounceKeeps
    <3>2. CASE /\ ConnectLv1(g) \/ DropLv1(g)
               /\ f = Fact(IF ConnectLv1(g) THEN "connected" ELSE "disconnected", g)
      BY <1>2, <1>3, <1>4, <3>2, ConnectionKeeps
    <3> QED
      BY <2>1, <3>1, <3>2
  <2>4. PICK t : t = Append(s, f)
    OBVIOUS
  <2> QED
    BY <1>1, <1>2, <1>3, <2>2, <2>3, <2>4 DEF FollowInv
<1> QED
  BY <1>5, <1>6 DEF World, FollowInv

-----------------------------------------------------------------------------
(* The projector steps *)

\* The steps of the projector leave what is promised to the connections.
LEMMA QuietKeeps ==
  ASSUME UNCHANGED connectionVars
  PROVE  /\ WorldOK' <=> WorldOK
         /\ \A s : Trail(s)' <=> Trail(s)
         /\ UNCHANGED timeouts => \A c, s : Known(c, s)' <=> Known(c, s)
         /\ \A r : ReadOrder(r)' <=> ReadOrder(r)
         /\ UNCHANGED timeouts => \A r, s : ReadTrue(r, s)' <=> ReadTrue(r, s)
<1>1. UNCHANGED <<generation, runtime, owed, begun, actors, up>>
  BY DEF connectionVars
<1>2. (WorldOK' <=> WorldOK) /\ (Live' <=> Live)
      /\ \A h : (Old(h)' <=> Old(h)) /\ (Later(h)' <=> Later(h))
  BY <1>1 DEF WorldOK, Live, Old, Later
<1>3. \A s : Trail(s)' <=> Trail(s)
  BY <1>1, <1>2 DEF Trail, FactsOld, LastGeneration, LastAbout, ConnectedLater
<1>4. UNCHANGED timeouts => \A c, s : Known(c, s)' <=> Known(c, s)
  BY <1>1, <1>2 DEF Known, CacheLater, CacheTrue, Unmentioned
<1>5. \A r : ReadOrder(r)' <=> ReadOrder(r)
  BY <1>1, <1>2 DEF ReadOrder
<1>6. UNCHANGED timeouts => \A r, s : ReadTrue(r, s)' <=> ReadTrue(r, s)
  BY <1>1, <1>2 DEF ReadTrue, Unmentioned
<1> QED
  BY <1>2, <1>3, <1>4, <1>5, <1>6

\* What TypeOK says of the variables the projector may change, when it keeps
\* the world.
LEMMA QuietTypes ==
  ASSUME TypeOK, KeepWorld, events' \in Seq(Facts), cache' \in Caches,
         seen' \in {seen, retained}, dirty' \in BOOLEAN,
         view' \in {view, [connected |-> cache.connected, retained |-> retained]},
         recovery' \in Recoveries, Len(recovery'.queue) <= MaxPending,
         lags' \in 0 .. MaxLags, timeouts' \in 0 .. MaxTimeouts
  PROVE  TypeOK'
<1>1. UNCHANGED <<generation, runtime, owed, begun, actors, up, retained, flaps>>
  BY DEF KeepWorld, connectionVars
<1>2. retained \in 0 .. retained
  BY ProjectorAssumption DEF TypeOK
<1>3. seen' \in 0 .. retained'
  BY <1>1, <1>2 DEF TypeOK
<1>4. view' \in [connected : BOOLEAN, retained : 0 .. retained']
  <2>1. cache.connected \in BOOLEAN /\ view \in [connected : BOOLEAN, retained : 0 .. retained]
    BY DEF TypeOK
  <2> QED
    BY <1>1, <1>2, <2>1
<1> QED
  BY <1>1, <1>3, <1>4 DEF TypeOK, Caches, Recoveries

LEMMA FollowTypes ==
  ASSUME FollowInv
  PROVE  /\ TypeOK /\ WorldOK /\ Trail(ToCome) /\ ToCome \in Seq(Facts)
         /\ events \in Seq(Facts) /\ cache \in Caches /\ recovery \in Recoveries
         /\ recovery.queue \in Seq(Facts) /\ Len(recovery.queue) <= MaxPending
         /\ dirty \in BOOLEAN /\ lags \in 0 .. MaxLags /\ timeouts \in 0 .. MaxTimeouts
<1>1. /\ TypeOK /\ WorldOK /\ Trail(ToCome)
      /\ events \in Seq(Facts) /\ cache \in Caches /\ recovery \in Recoveries
      /\ Len(recovery.queue) <= MaxPending
      /\ dirty \in BOOLEAN /\ lags \in 0 .. MaxLags /\ timeouts \in 0 .. MaxTimeouts
  BY DEF FollowInv, TypeOK, Caches, Recoveries
<1>2. recovery.queue \in Seq(Facts)
  BY <1>1 DEF Recoveries
<1>3. ToCome \in Seq(Facts)
  BY <1>1, <1>2, ConcatProperties DEF ToCome
<1> QED
  BY <1>1, <1>2, <1>3

LEMMA EmptyTrail == Trail(<<>>)
BY DEF Trail, FactsOld, LastGeneration, LastAbout, ConnectedLater

LEMMA FollowReadFact == ASSUME FollowInv, ReadFact PROVE FollowInv'
<1>1. /\ events # <<>> /\ events' = Tail(events) /\ KeepWorld
      /\ cache' = Apply(cache, Head(events))
      /\ UNCHANGED <<seen, view, recovery, lags, timeouts>> /\ ~Recovering
      /\ dirty' = (dirty \/ Head(events).kind = "generation"
                         \/ Head(events).generation = cache.generation)
  BY DEF ReadFact, Receive
<1>2. PICK e \in Seq(Facts), c \in Caches, f \in Facts, t \in Seq(Facts) :
         e = events /\ c = cache /\ f = Head(events) /\ t = Tail(events)
  BY <1>1, FollowTypes, HeadTailProperties
<1>3. Trail(e) /\ Known(c, e)
  BY <1>1, <1>2 DEF FollowInv, ToCome
<1>4. PICK d \in Caches : d = Apply(c, f) /\ Trail(t) /\ Known(d, t)
  BY <1>1, <1>2, <1>3, ApplyKnown, ApplyType
<1>5. cache' = d /\ ~Recovering' /\ ToCome' = t
  BY <1>1, <1>2, <1>4 DEF Recovering, ToCome
<1>6. TypeOK'
  <2>1. dirty' \in BOOLEAN
    BY <1>1
  <2> QED
    BY <1>1, <1>2, <1>5, <2>1, FollowTypes, QuietTypes
<1>7. WorldOK' /\ Trail(t)' /\ Known(d, t)'
  <2>1. UNCHANGED connectionVars /\ UNCHANGED timeouts
    BY <1>1 DEF KeepWorld
  <2> QED
    BY <1>4, <2>1, FollowTypes, QuietKeeps
<1>8. (~dirty => view.connected = cache.connected)'
  <2> SUFFICES ASSUME ~dirty' PROVE view'.connected = cache'.connected
    OBVIOUS
  <2>1. ~dirty /\ f.kind # "generation" /\ f.generation # c.generation
    BY <1>1, <1>2
  <2>2. cache' = cache
    BY <1>2, <1>4, <1>5, <2>1 DEF Apply
  <2> QED
    BY <1>1, <2>1, <2>2 DEF FollowInv
<1> QED
  BY <1>5, <1>6, <1>7, <1>8 DEF FollowInv

LEMMA FollowShow == ASSUME FollowInv, RetainedChanged \/ Tick PROVE FollowInv'
<1>1. /\ UNCHANGED <<cache, recovery, lags, timeouts, events>> /\ KeepWorld
      /\ seen' = retained /\ dirty' \in BOOLEAN
      /\ view' \in {view, [connected |-> cache.connected, retained |-> retained]}
      /\ ~dirty' => view'.connected = cache'.connected
  <2>1. CASE RetainedChanged
    BY <2>1 DEF RetainedChanged
  <2>2. CASE Tick
    <3>1. view'.connected = cache.connected /\ cache' = cache
      BY <2>2 DEF Tick
    <3> QED
      BY <2>2, <3>1 DEF Tick
  <2> QED
    BY <2>1, <2>2
<1>2. PICK s, c, r : s = ToCome /\ c = cache /\ r = recovery
  OBVIOUS
<1>3. (Recovering' <=> Recovering) /\ ToCome' = s
  BY <1>1, <1>2 DEF Recovering, ToCome
<1>4. TypeOK'
  BY <1>1, FollowTypes, QuietTypes
<1>5. WorldOK' /\ Trail(s)' /\ (Recovering => Read(r, s)') /\ (~Recovering => Known(c, s)')
  <2>1. UNCHANGED connectionVars /\ UNCHANGED timeouts
    BY <1>1 DEF KeepWorld
  <2> QED
    BY <1>2, <2>1, QuietKeeps DEF FollowInv, Read
<1> QED
  BY <1>1, <1>2, <1>3, <1>4, <1>5 DEF FollowInv

LEMMA StartTypes ==
  ASSUME NEW q \in Seq(Facts)
  PROVE  [NoRecovery EXCEPT !.at = "source", !.queue = q] \in Recoveries
<1>1. NoRecovery \in Recoveries
  <2>1. 0 \in Generations /\ <<>> \in Seq(Facts)
    BY ProjectorAssumption
  <2> QED
    BY <2>1 DEF NoRecovery, Recoveries
<1> QED
  BY <1>1 DEF Recoveries

\* A recovery that begins has read nothing.
LEMMA StartRead ==
  ASSUME NEW q, NEW s
  PROVE  Read([NoRecovery EXCEPT !.at = "source", !.queue = q], s)
BY DEF Read, ReadOrder, ReadTrue, NoRecovery

LEMMA FollowLag == ASSUME FollowInv, Lag PROVE FollowInv'
<1>1. /\ lags < MaxLags /\ lags' = lags + 1 /\ events' = <<>>
      /\ UNCHANGED <<seen, view, timeouts>> /\ KeepWorld
  BY DEF Lag
<1>2. lags' \in 0 .. MaxLags /\ <<>> \in Seq(Facts) /\ Len(<<>>) <= MaxPending
  BY <1>1, FollowTypes, ProjectorAssumption
<1>3. UNCHANGED connectionVars /\ UNCHANGED timeouts
  BY <1>1 DEF KeepWorld
<1>4. WorldOK' /\ Trail(<<>>)'
  BY <1>3, FollowTypes, EmptyTrail, QuietKeeps
<1>5. <<>> \o <<>> = <<>>
  BY <1>2, ConcatEmptySeq
<1>6. PICK r \in Recoveries : r = recovery
  BY FollowTypes
<1>7. CASE Recovering
  <2>1. /\ recovery' = [r EXCEPT !.queue = <<>>, !.restart = TRUE]
        /\ UNCHANGED <<cache, dirty>>
    BY <1>6, <1>7 DEF Lag
  <2>2. PICK n \in Recoveries : n = [r EXCEPT !.queue = <<>>, !.restart = TRUE]
    BY <1>2 DEF Recoveries
  <2>3. /\ n.queue = <<>> /\ n.restart /\ n.at = r.at /\ n.lv1 = r.lv1 /\ n.live = r.live
        /\ n.active = r.active
    BY <2>2 DEF Recoveries
  <2>4. recovery' = n /\ Recovering' /\ ToCome' = <<>>
    BY <1>1, <1>5, <1>6, <1>7, <2>1, <2>2, <2>3 DEF Recovering, ToCome
  <2>5. TypeOK'
    BY <1>1, <1>2, <2>1, <2>3, <2>4, FollowTypes, QuietTypes
  <2>6. Read(n, <<>>)
    BY <1>6, <1>7, <2>3 DEF FollowInv, Read, ReadOrder, ReadTrue
  <2>7. Read(n, <<>>)'
    BY <1>3, <2>6, QuietKeeps DEF Read
  <2> QED
    BY <1>1, <1>4, <2>1, <2>4, <2>5, <2>7 DEF FollowInv
<1>8. CASE ~Recovering
  <2>1. /\ recovery' = [NoRecovery EXCEPT !.at = "source", !.queue = <<>>]
        /\ cache' = ResetFor(cache.generation) /\ dirty' = TRUE
    BY <1>8 DEF Lag, StartRecovery
  <2>2. PICK n \in Recoveries : n = [NoRecovery EXCEPT !.at = "source", !.queue = <<>>]
    BY <1>2, StartTypes
  <2>3. n.at = "source" /\ n.queue = <<>>
    BY <2>2 DEF NoRecovery
  <2>4. recovery' = n /\ Recovering' /\ ToCome' = <<>>
    BY <1>1, <1>5, <2>1, <2>2, <2>3 DEF Recovering, ToCome
  <2>5. cache' \in Caches
    BY <2>1, FollowTypes DEF Caches, ResetFor
  <2>6. TypeOK'
    BY <1>1, <1>2, <2>1, <2>3, <2>4, <2>5, FollowTypes, QuietTypes
  <2>7. Read(n, <<>>)'
    BY <1>3, <2>2, StartRead, QuietKeeps DEF Read
  <2> QED
    BY <1>4, <2>1, <2>4, <2>6, <2>7 DEF FollowInv
<1> QED
  BY <1>7, <1>8

\* A fact that waits is still to come; when the queue is full, it and those
\* after it are all that is to come.
LEMMA QueueToCome ==
  ASSUME NEW q \in Seq(Facts), NEW e \in Seq(Facts), e # <<>>
  PROVE  /\ Append(q, Head(e)) \o Tail(e) = q \o e
         /\ Append(<<>>, Head(e)) \o Tail(e) = e
         /\ Append(q, Head(e)) \in Seq(Facts) /\ Append(<<>>, Head(e)) \in Seq(Facts)
         /\ Len(Append(q, Head(e))) = Len(q) + 1 /\ Len(Append(<<>>, Head(e))) = 1
         /\ Trail(q \o e) => Trail(e)
<1>1. PICK f \in Facts, t \in Seq(Facts) : f = Head(e) /\ t = Tail(e) /\ e = <<f>> \o t
  <2>1. PICK f \in Facts, t \in Seq(Facts) : f = Head(e) /\ t = Tail(e)
    BY HeadTailProperties
  <2>2. Len(e) \in Nat /\ Len(e) # 0
    BY FactSeq, EmptySeq
  <2>3. 1 \in 1 .. Len(e) /\ Len(e) \in 1 .. Len(e) /\ 1 + 1 = 2
    BY <2>2
  <2>4. SubSeq(e, 1, Len(e)) = <<e[1]>> \o SubSeq(e, 1 + 1, Len(e))
    BY <2>3, SubSeqRecursiveFirst
  <2>5. SubSeq(e, 1, Len(e)) = e /\ SubSeq(e, 2, Len(e)) = t /\ e[1] = f
    BY <2>1, SubSeqFull, TailIsSubSeq
  <2> QED
    BY <2>1, <2>3, <2>4, <2>5
<1>2. /\ <<>> \in Seq(Facts) /\ <<f>> \in Seq(Facts) /\ Append(<<>>, f) = <<f>>
      /\ Append(q, f) = q \o <<f>>
  BY AppendIsConcat
<1>3. (q \o <<f>>) \o t = q \o (<<f>> \o t)
  BY <1>2, ConcatAssociative
<1>4. Append(q, f) \in Seq(Facts) /\ Len(Append(q, f)) = Len(q) + 1 /\ Len(<<f>>) = 1
  BY AppendProperties
<1>5. PICK s, k : s \in Seq(Facts) /\ s = q \o e /\ k = Len(q)
  BY ConcatProperties
<1>6. /\ k \in Nat /\ Len(e) \in Nat /\ DOMAIN e = 1 .. Len(e) /\ Len(s) = k + Len(e)
      /\ \A i \in 1 .. k + Len(e) : s[i] = IF i <= k THEN q[i] ELSE e[i - k]
  BY <1>5, FactSeq, ConcatProperties
<1>7. Len(s) = Len(e) + k /\ \A i \in DOMAIN e : e[i] = s[i + k]
  <2>1. ASSUME NEW i \in DOMAIN e PROVE e[i] = s[i + k]
    <3>1. i + k \in 1 .. k + Len(e) /\ ~(i + k <= k) /\ i + k - k = i
      BY <1>6
    <3> QED
      BY <1>6, <3>1
  <2> QED
    BY <1>6, <2>1
<1>8. Trail(s) => Trail(e)
  BY <1>5, <1>6, <1>7, SuffixTrail
<1> QED
  BY <1>1, <1>2, <1>3, <1>4, <1>5, <1>8

LEMMA FollowQueueFact == ASSUME FollowInv, QueueFact PROVE FollowInv'
<1>1. /\ Recovering /\ events # <<>> /\ events' = Tail(events) /\ KeepWorld
      /\ recovery' = PushEvent(Head(events))
      /\ UNCHANGED <<cache, seen, dirty, view, lags, timeouts>>
  BY DEF QueueFact, Receive
<1>2. PICK e \in Seq(Facts), q \in Seq(Facts), r \in Recoveries, f \in Facts, t \in Seq(Facts) :
         /\ e = events /\ q = recovery.queue /\ r = recovery /\ f = Head(e) /\ t = Tail(e)
         /\ q = r.queue
  BY <1>1, FollowTypes, HeadTailProperties
<1>3. ToCome = q \o e /\ Trail(q \o e) /\ Read(r, q \o e)
  BY <1>1, <1>2 DEF FollowInv, ToCome
<1>4. /\ Append(q, f) \o t = q \o e /\ Append(<<>>, f) \o t = e
      /\ Append(q, f) \in Seq(Facts) /\ Append(<<>>, f) \in Seq(Facts)
      /\ Len(Append(q, f)) = Len(q) + 1 /\ Len(Append(<<>>, f)) = 1
      /\ Trail(e)
  BY <1>1, <1>2, <1>3, QueueToCome
<1>5. UNCHANGED connectionVars /\ UNCHANGED timeouts
  BY <1>1 DEF KeepWorld
<1>6. ASSUME NEW n \in Recoveries, NEW s, recovery' = n, n.at = r.at, n.queue \o t = s,
             Len(n.queue) <= MaxPending, Trail(s), Read(n, s)
      PROVE  FollowInv'
  <2>1. Recovering' /\ ToCome' = s
    BY <1>1, <1>2, <1>6 DEF Recovering, ToCome
  <2>2. TypeOK'
    BY <1>1, <1>2, <1>6, FollowTypes, QuietTypes
  <2>3. WorldOK' /\ Trail(s)' /\ Read(n, s)'
    BY <1>5, <1>6, FollowTypes, QuietKeeps DEF Read
  <2>4. (~dirty => view.connected = cache.connected)'
    BY <1>1 DEF FollowInv
  <2> QED
    BY <1>6, <2>1, <2>2, <2>3, <2>4 DEF FollowInv
<1>7. CASE Len(q) = MaxPending
  <2>1. PICK n \in Recoveries : n = [r EXCEPT !.queue = Append(<<>>, f), !.restart = TRUE]
    BY <1>4 DEF Recoveries
  <2>2. /\ n.at = r.at /\ n.lv1 = r.lv1 /\ n.live = r.live /\ n.active = r.active
        /\ n.queue = Append(<<>>, f) /\ n.restart
    BY <2>1 DEF Recoveries
  <2>3. recovery' = n
    BY <1>1, <1>2, <1>7, <2>1 DEF PushEvent
  <2>4. Read(n, e)
    BY <1>3, <2>2 DEF Read, ReadOrder, ReadTrue
  <2>5. Len(n.queue) <= MaxPending
    BY <1>4, <2>2, ProjectorAssumption
  <2> QED
    BY <1>4, <1>6, <2>2, <2>3, <2>4, <2>5
<1>8. CASE Len(q) # MaxPending
  <2>1. PICK n \in Recoveries : n = [r EXCEPT !.queue = Append(q, f)]
    BY <1>4 DEF Recoveries
  <2>2. /\ n.at = r.at /\ n.lv1 = r.lv1 /\ n.live = r.live /\ n.active = r.active
        /\ n.queue = Append(q, f) /\ n.restart = r.restart
    BY <2>1 DEF Recoveries
  <2>3. recovery' = n
    <3>1. [r EXCEPT !.queue = Append(q, f), !.restart = r.restart] = n
      BY <2>1 DEF Recoveries
    <3>2. r.restart \in BOOLEAN
      BY DEF Recoveries
    <3> QED
      BY <1>1, <1>2, <1>8, <3>1, <3>2 DEF PushEvent
  <2>4. Read(n, q \o e)
    BY <1>3, <2>2 DEF Read, ReadOrder, ReadTrue
  <2>5. Len(n.queue) <= MaxPending
    <3>1. Len(q) \in Nat /\ Len(q) <= MaxPending
      BY <1>2, FollowTypes, FactSeq
    <3> QED
      BY <1>4, <1>8, <2>2, <3>1, ProjectorAssumption
  <2> QED
    BY <1>3, <1>4, <1>6, <2>2, <2>3, <2>4, <2>5
<1> QED
  BY <1>7, <1>8

\* A recovery asks and is answered: nothing new is to come.
LEMMA FollowRecoveryStep ==
  ASSUME FollowInv, KeepWorld, UNCHANGED <<cache, seen, dirty, view, lags, events>>,
         timeouts' \in 0 .. MaxTimeouts, Recovering,
         NEW n \in Recoveries, recovery' = n, n.at # "none", n.queue = recovery.queue,
         ReadOrder(n), ReadTrue(n, ToCome)'
  PROVE  FollowInv'
<1>1. UNCHANGED connectionVars
  BY DEF KeepWorld
<1>2. Recovering' /\ ToCome' = ToCome
  BY DEF Recovering, ToCome
<1>3. PICK s : s = ToCome
  OBVIOUS
<1>4. TypeOK'
  BY FollowTypes, QuietTypes
<1>5. WorldOK' /\ Trail(s)' /\ ReadOrder(n)'
  BY <1>1, <1>3, FollowTypes, QuietKeeps
<1>6. (~dirty => view.connected = cache.connected)'
  BY DEF FollowInv
<1> QED
  BY <1>2, <1>3, <1>4, <1>5, <1>6 DEF FollowInv, Read

LEMMA FollowSourceAnswers == ASSUME FollowInv, SourceAnswers PROVE FollowInv'
<1>1. /\ recovery.at = "source" /\ KeepWorld
      /\ UNCHANGED <<cache, seen, dirty, view, lags, timeouts, events>>
      /\ recovery' = IF Live THEN [recovery EXCEPT !.at = "ask", !.lv1 = generation]
                     ELSE [recovery EXCEPT !.at = "generation"]
  BY DEF SourceAnswers, RecoveryStep, Live
<1>2. PICK r \in Recoveries : r = recovery
  BY FollowTypes
<1>3. Recovering /\ ReadOrder(r)
  BY <1>1, <1>2 DEF FollowInv, Recovering, Read
<1>4. UNCHANGED <<generation, runtime, up>> /\ timeouts' \in 0 .. MaxTimeouts
  BY <1>1, FollowTypes DEF KeepWorld, connectionVars
<1>5. CASE Live
  <2>1. PICK n \in Recoveries : n = [r EXCEPT !.at = "ask", !.lv1 = generation]
    BY FollowTypes DEF TypeOK, Recoveries
  <2>2. /\ recovery' = n /\ n.at = "ask" /\ n.lv1 = generation /\ n.queue = r.queue
        /\ n.live = r.live
    BY <1>1, <1>2, <1>5, <2>1 DEF Recoveries
  <2>3. ReadOrder(n)
    BY <1>1, <1>2, <1>3, <1>5, <2>2, FollowTypes DEF ReadOrder, WorldOK, Live
  <2>4. ReadTrue(n, ToCome)'
    BY <1>4, <2>2 DEF ReadTrue
  <2> QED
    BY <1>1, <1>2, <1>3, <1>4, <2>2, <2>3, <2>4, FollowRecoveryStep
<1>6. CASE ~Live
  <2>1. PICK n \in Recoveries : n = [r EXCEPT !.at = "generation"]
    BY DEF Recoveries
  <2>2. /\ recovery' = n /\ n.at = "generation" /\ n.lv1 = r.lv1 /\ n.queue = r.queue
        /\ n.live = r.live
    BY <1>1, <1>2, <1>6, <2>1 DEF Recoveries
  <2>3. ReadOrder(n)
    BY <1>3, <2>2 DEF ReadOrder
  <2>4. ReadTrue(n, ToCome)'
    BY <1>4, <1>6 DEF ReadTrue, Live
  <2> QED
    BY <1>1, <1>2, <1>3, <1>4, <2>2, <2>3, <2>4, FollowRecoveryStep
<1> QED
  BY <1>5, <1>6

LEMMA FollowLv1Answers == ASSUME FollowInv, Lv1Answers PROVE FollowInv'
<1>1. /\ recovery.at = "ask" /\ KeepWorld
      /\ UNCHANGED <<cache, seen, dirty, view, lags, timeouts, events>>
      /\ recovery' = [recovery EXCEPT !.at = "generation", !.live = recovery.lv1 \in up]
  BY DEF Lv1Answers, RecoveryStep
<1>2. PICK r \in Recoveries : r = recovery
  BY FollowTypes
<1>3. Recovering /\ ReadOrder(r) /\ ReadTrue(r, ToCome)
  BY <1>1, <1>2 DEF FollowInv, Recovering, Read
<1>4. UNCHANGED <<generation, runtime, up, timeouts>> /\ timeouts' \in 0 .. MaxTimeouts
  BY <1>1, FollowTypes DEF KeepWorld, connectionVars
<1>5. PICK n \in Recoveries : n = [r EXCEPT !.at = "generation", !.live = r.lv1 \in up]
  <2>1. PICK b \in BOOLEAN : b = (r.lv1 \in up)
    <3>1. (r.lv1 \in up) = TRUE \/ (r.lv1 \in up) = FALSE
      BY SMT
    <3> QED
      BY <3>1, Zenon
  <2>2. [r EXCEPT !.at = "generation", !.live = b] \in Recoveries
    BY DEF Recoveries
  <2> QED
    BY <2>1, <2>2
<1>6. /\ recovery' = n /\ n.at = "generation" /\ n.lv1 = r.lv1 /\ n.queue = r.queue
      /\ n.live = (r.lv1 \in up) /\ n.restart = r.restart
  BY <1>1, <1>2, <1>5 DEF Recoveries
<1>7. ReadOrder(n)
  BY <1>3, <1>6, FollowTypes DEF ReadOrder, WorldOK
<1>8. PICK s : s = ToCome /\ s = ToCome'
  BY <1>1, <1>2, <1>3, <1>6 DEF ToCome, Recovering
<1>9. ReadTrue(n, s)'
  <2>1. (Live' <=> Live) /\ (Unmentioned(s)' <=> Unmentioned(s))
    BY <1>4 DEF Live, Unmentioned
  <2> QED
    BY <1>1, <1>2, <1>3, <1>4, <1>6, <1>8, <2>1 DEF ReadTrue
<1> QED
  BY <1>1, <1>2, <1>3, <1>4, <1>6, <1>7, <1>8, <1>9, FollowRecoveryStep

LEMMA FollowGenerationRead == ASSUME FollowInv, GenerationRead PROVE FollowInv'
<1>1. /\ recovery.at = "generation" /\ KeepWorld
      /\ UNCHANGED <<cache, seen, dirty, view, lags, timeouts, events>>
      /\ recovery' = [recovery EXCEPT !.at = "done", !.active = generation]
  BY DEF GenerationRead, RecoveryStep
<1>2. PICK r \in Recoveries : r = recovery
  BY FollowTypes
<1>3. Recovering /\ ReadOrder(r) /\ ReadTrue(r, ToCome)
  BY <1>1, <1>2 DEF FollowInv, Recovering, Read
<1>4. UNCHANGED <<generation, runtime, up, timeouts>> /\ timeouts' \in 0 .. MaxTimeouts
  BY <1>1, FollowTypes DEF KeepWorld, connectionVars
<1>5. PICK n \in Recoveries : n = [r EXCEPT !.at = "done", !.active = generation]
  BY FollowTypes DEF TypeOK, Recoveries
<1>6. /\ recovery' = n /\ n.at = "done" /\ n.lv1 = r.lv1 /\ n.queue = r.queue
      /\ n.live = r.live /\ n.restart = r.restart /\ n.active = generation
  BY <1>1, <1>2, <1>5 DEF Recoveries
<1>7. ReadOrder(n)
  BY <1>3, <1>6, FollowTypes DEF ReadOrder, WorldOK, Old
<1>8. PICK s : s = ToCome /\ s = ToCome'
  BY <1>1, <1>2, <1>3, <1>6 DEF ToCome, Recovering
<1>9. ReadTrue(n, s)'
  <2>1. (Live' <=> Live) /\ (Unmentioned(s)' <=> Unmentioned(s))
    BY <1>4 DEF Live, Unmentioned
  <2> QED
    BY <1>1, <1>2, <1>3, <1>4, <1>6, <1>8, <2>1 DEF ReadTrue
<1> QED
  BY <1>1, <1>2, <1>3, <1>4, <1>6, <1>7, <1>8, <1>9, FollowRecoveryStep

\* Nothing was read in time, and no connection is shown for it.
LEMMA FollowTimeout == ASSUME FollowInv, RecoveryTimesOut PROVE FollowInv'
<1>1. /\ recovery.at \in {"source", "ask", "generation"} /\ KeepWorld
      /\ timeouts < MaxTimeouts /\ timeouts' = timeouts + 1
      /\ UNCHANGED <<cache, seen, dirty, view, lags, events>>
      /\ recovery' = [recovery EXCEPT !.at = "done", !.live = FALSE, !.active = generation]
  BY DEF RecoveryTimesOut
<1>2. PICK r \in Recoveries : r = recovery
  BY FollowTypes
<1>3. Recovering /\ ReadOrder(r)
  BY <1>1, <1>2 DEF FollowInv, Recovering, Read
<1>4. timeouts' \in 0 .. MaxTimeouts /\ timeouts' # 0
  BY <1>1, FollowTypes, ProjectorAssumption
<1>5. PICK n \in Recoveries : n = [r EXCEPT !.at = "done", !.live = FALSE, !.active = generation]
  BY FollowTypes DEF TypeOK, Recoveries
<1>6. /\ recovery' = n /\ n.at = "done" /\ n.lv1 = r.lv1 /\ n.queue = r.queue
      /\ ~n.live /\ n.active = generation
  BY <1>1, <1>2, <1>5 DEF Recoveries
<1>7. ReadOrder(n)
  BY <1>3, <1>6, FollowTypes DEF ReadOrder, WorldOK, Old
<1>8. ReadTrue(n, ToCome)'
  BY <1>4, <1>6 DEF ReadTrue
<1> QED
  BY <1>1, <1>2, <1>3, <1>4, <1>6, <1>7, <1>8, FollowRecoveryStep

\* What was read, and then what waited, is what the cache should know.
LEMMA FollowCompletes == ASSUME FollowInv, RecoveryCompletes PROVE FollowInv'
<1>1. /\ recovery.at = "done" /\ KeepWorld /\ dirty' = TRUE
      /\ UNCHANGED <<seen, view, lags, timeouts, events>>
  BY DEF RecoveryCompletes
<1>2. PICK r \in Recoveries, q \in Seq(Facts), e \in Seq(Facts) :
         r = recovery /\ q = recovery.queue /\ q = r.queue /\ e = events
  BY FollowTypes
<1>3. /\ Recovering /\ ToCome = q \o e /\ Trail(q \o e) /\ Read(r, q \o e)
      /\ UNCHANGED connectionVars
  BY <1>1, <1>2 DEF FollowInv, Recovering, ToCome, KeepWorld
<1>4. CASE recovery.restart
  <2>1. recovery' = [NoRecovery EXCEPT !.at = "source", !.queue = q] /\ cache' = cache
    BY <1>2, <1>4 DEF RecoveryCompletes, StartRecovery
  <2>2. PICK n \in Recoveries : n = [NoRecovery EXCEPT !.at = "source", !.queue = q]
    BY StartTypes
  <2>3. n.at = "source" /\ n.queue = q
    BY <2>2 DEF NoRecovery
  <2>4. PICK s : s = q \o e
    OBVIOUS
  <2>5. Recovering' /\ ToCome' = s
    BY <1>1, <1>2, <2>1, <2>2, <2>3, <2>4 DEF Recovering, ToCome
  <2>6. TypeOK'
    BY <1>1, <1>2, <2>1, <2>2, <2>3, FollowTypes, QuietTypes
  <2>7. WorldOK' /\ Trail(s)' /\ Read(n, s)'
    BY <1>1, <1>3, <2>2, <2>4, FollowTypes, StartRead, QuietKeeps DEF Read
  <2> QED
    BY <1>1, <2>1, <2>2, <2>5, <2>6, <2>7 DEF FollowInv
<1>5. CASE ~recovery.restart
  <2>1. recovery' = NoRecovery /\ cache' = Replay(Recovered, q)
    BY <1>2, <1>5 DEF RecoveryCompletes
  <2>2. PICK c \in Caches : c = Recovered
    BY FollowTypes DEF TypeOK, Caches, Recoveries, Recovered
  <2>3. /\ c.generation = generation
        /\ c.connected <=> r.live /\ r.active = generation /\ r.lv1 = generation
    BY <1>2, <2>2 DEF Recovered
  <2>4. Known(c, q \o e)
    <3>1. c.connected => Old(c.generation)
      BY <1>3, <2>3 DEF Read, ReadOrder
    <3>2. CacheLater(c, q \o e)
      BY <2>3, FollowTypes DEF CacheLater, Later, WorldOK
    <3>3. CacheTrue(c, q \o e)
      <4>1. r.lv1 = generation => r.active = generation
        BY <1>1, <1>2, <1>3, FollowTypes, ProjectorAssumption
           DEF Read, ReadOrder, WorldOK, Recoveries
      <4> QED
        BY <1>1, <1>2, <1>3, <1>5, <2>3, <4>1 DEF CacheTrue, Read, ReadTrue
    <3> QED
      BY <3>1, <3>2, <3>3 DEF Known
  <2>5. PICK d \in Caches : d = Replay(c, q) /\ Trail(e) /\ Known(d, e)
    BY <1>3, <2>4, ReplayKnown
  <2>6. cache' = d /\ ~Recovering' /\ ToCome' = e
    BY <1>1, <1>2, <2>1, <2>2, <2>5 DEF Recovering, ToCome, NoRecovery
  <2>7. TypeOK'
    <3>1. NoRecovery \in Recoveries /\ Len(NoRecovery.queue) <= MaxPending
      <4>1. 0 \in Generations /\ <<>> \in Seq(Facts) /\ Len(<<>>) <= MaxPending
        BY ProjectorAssumption
      <4> QED
        BY <4>1 DEF NoRecovery, Recoveries
    <3> QED
      BY <1>1, <1>2, <2>1, <2>6, <3>1, FollowTypes, QuietTypes
  <2>8. WorldOK' /\ Trail(e)' /\ Known(d, e)'
    BY <1>1, <1>3, <2>5, FollowTypes, QuietKeeps
  <2> QED
    BY <1>1, <2>6, <2>7, <2>8 DEF FollowInv
<1> QED
  BY <1>4, <1>5

-----------------------------------------------------------------------------
(* Theorems *)

LEMMA FollowInit == Init => FollowInv
<1> SUFFICES ASSUME Init PROVE FollowInv
  OBVIOUS
<1> USE DEF Init, ConnectionsInit
<1>1. ~Recovering /\ ToCome = <<>>
  BY DEF Recovering, ToCome, NoRecovery
<1>2. TypeOK
  <2>1. /\ 0 \in Generations /\ <<>> \in Seq(Facts) /\ Len(<<>>) <= MaxPending
        /\ 0 \in 0 .. MaxChanges /\ 0 \in 0 .. MaxFlaps /\ 0 \in 0 .. MaxLags
        /\ 0 \in 0 .. MaxTimeouts /\ 0 \in 0 .. 0
    BY ProjectorAssumption
  <2> QED
    BY <2>1 DEF TypeOK, NoRecovery
<1>3. WorldOK
  BY DEF WorldOK
<1>4. Known(cache, <<>>)
  BY DEF Known, CacheLater, CacheTrue, Live
<1> QED
  BY <1>1, <1>2, <1>3, <1>4, EmptyTrail DEF FollowInv

LEMMA FollowNext == FollowInv /\ [Next]_vars => FollowInv'
<1> SUFFICES ASSUME FollowInv, [Next]_vars PROVE FollowInv'
  OBVIOUS
<1>1. CASE World
  BY <1>1, FollowWorld
<1>2. CASE Reads
  BY <1>2, FollowReadFact, FollowQueueFact DEF Reads
<1>3. CASE RetainedChanged \/ Tick
  BY <1>3, FollowShow
<1>4. CASE Recovers
  BY <1>4, FollowSourceAnswers, FollowLv1Answers, FollowGenerationRead, FollowCompletes
     DEF Recovers
<1>5. CASE Lag
  BY <1>5, FollowLag
<1>6. CASE RecoveryTimesOut
  BY <1>6, FollowTimeout
<1>7. CASE UNCHANGED vars
  <2>1. /\ UNCHANGED <<cache, seen, dirty, view, recovery, lags, timeouts, events, retained>>
        /\ KeepWorld
    BY <1>7 DEF vars, worldVars, projectorVars, KeepWorld
  <2>2. PICK s, c, r : s = ToCome /\ c = cache /\ r = recovery
    OBVIOUS
  <2>3. (Recovering' <=> Recovering) /\ ToCome' = s
    BY <2>1, <2>2 DEF Recovering, ToCome
  <2>4. TypeOK'
    BY <2>1, FollowTypes, QuietTypes
  <2>5. WorldOK' /\ Trail(s)' /\ (Recovering => Read(r, s)') /\ (~Recovering => Known(c, s)')
    <3>1. UNCHANGED connectionVars /\ UNCHANGED timeouts
      BY <2>1 DEF KeepWorld
    <3> QED
      BY <2>2, <3>1, QuietKeeps DEF FollowInv, Read
  <2>6. (~dirty => view.connected = cache.connected)'
    BY <2>1 DEF FollowInv
  <2> QED
    BY <2>1, <2>2, <2>3, <2>4, <2>5, <2>6 DEF FollowInv
<1> QED
  BY <1>1, <1>2, <1>3, <1>4, <1>5, <1>6, <1>7 DEF Next

LEMMA FollowTrue == FollowInv => ViewIsTrue
<1> SUFFICES ASSUME FollowInv, Settled PROVE ViewIsTrue
  BY DEF ViewIsTrue, NoFalseConnected, ConnectedIsShown
<1>1. /\ owed = {} /\ ToCome = <<>> /\ Known(cache, <<>>) /\ WorldOK /\ cache \in Caches
      /\ view.connected = cache.connected
  BY FollowTypes DEF FollowInv, Settled, ToCome
<1>2. Unmentioned(<<>>) /\ \A i \in DOMAIN <<>> : ~IsGeneration(<<>>[i])
  BY DEF Unmentioned
<1>3. cache.connected => cache.generation \in 1 .. generation /\ Later(cache.generation)
  BY <1>1, <1>2 DEF Known, CacheLater, Old
<1>4. cache.connected => cache.generation = generation
  <2> SUFFICES ASSUME cache.connected, cache.generation # generation PROVE FALSE
    OBVIOUS
  <2>1. PICK h \in Int : h = cache.generation /\ h \in 1 .. generation
    BY <1>3
  <2>2. generation \in Int /\ h + 1 <= generation
    BY <1>1, <2>1 DEF WorldOK
  <2>3. generation \in h + 1 .. generation
    BY <2>1, <2>2
  <2> QED
    BY <1>1, <1>3, <2>1, <2>3 DEF Later
<1>5. NoFalseConnected
  BY <1>1, <1>2, <1>3, <1>4 DEF NoFalseConnected, Known, CacheTrue, Live, WorldOK
<1>6. generation \in up => generation # 0
  BY <1>1 DEF WorldOK, Old
<1>7. ConnectedIsShown
  BY <1>1, <1>2, <1>6 DEF ConnectedIsShown, Known, CacheTrue, Live
<1> QED
  BY <1>5, <1>7 DEF ViewIsTrue

\* Whatever the bus drops, a full queue discards or a recovery reads while the
\* connection changes, a projector that has caught up shows an LV1 connected
\* when it is, if no recovery timed out and its generation is the active one,
\* and only then.
THEOREM ViewCorrect == Spec => []ViewIsTrue
<1>1. Init => FollowInv
  BY FollowInit
<1>2. FollowInv /\ [Next]_vars => FollowInv'
  BY FollowNext
<1>3. FollowInv => ViewIsTrue
  BY FollowTrue
<1> QED
  BY <1>1, <1>2, <1>3, PTL DEF Spec

=============================================================================
