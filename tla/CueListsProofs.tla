---------------------------- MODULE CueListsProofs ----------------------------
(***************************************************************************)
(* Theorems about CueLists and the SceneLibrary below it, for every desk,  *)
(* every number of edits and every length of the queues.                   *)
(*                                                                         *)
(* ReadyInv knows that the last fact queued tells the truth about LV1, and *)
(* that a snapshot of the present revision does once the queue is empty.   *)
(* CueInv knows the shape of the cue document, above all that its lists    *)
(* have different UUIDs: without that, deleting one list could leave a cue *)
(* that is an entry of another.                                            *)
(* FollowInv remembers what the desk's list was, edition by edition: every *)
(* list on its way is one of them, and the configurations are those of the *)
(* one last aligned with.                                                  *)
(***************************************************************************)
EXTENDS CueLists, FiniteSetTheorems, SequenceTheorems, WellFoundedInduction, TLAPS

-----------------------------------------------------------------------------
(* Induction over the naturals, for sets instead of predicates             *)

\* A set of naturals that is not empty has a least element.
LEMMA LeastNatural ==
  ASSUME NEW T, T \subseteq Nat, T # {}
  PROVE  \E x \in T : \A y \in T : x <= y
<1> DEFINE U == {1 .. x : x \in T}
<1>1. U \subseteq FiniteSubsetsOf(Nat) /\ U # {}
  <2>1. ASSUME NEW x \in T PROVE 1 .. x \in FiniteSubsetsOf(Nat)
    <3>1. x \in Int /\ 1 .. x \subseteq Nat
      OBVIOUS
    <3>2. IsFiniteSet(1 .. x)
      BY <3>1, FS_Interval
    <3> QED
      BY <3>1, <3>2 DEF FiniteSubsetsOf
  <2> QED
    BY <2>1
<1>2. IsWellFoundedOn(StrictSubsetOrdering(Nat), FiniteSubsetsOf(Nat))
  BY FS_StrictSubsetOrderingWellFounded
<1>3. \E s \in U : \A t \in U : <<t, s>> \notin StrictSubsetOrdering(Nat)
  <2> HIDE DEF U
  <2> QED
    BY <1>1, <1>2, WFMin
<1>4. PICK x \in T : \A y \in T : <<1 .. y, 1 .. x>> \notin StrictSubsetOrdering(Nat)
  BY <1>3
<1>5. ASSUME NEW y \in T, y < x PROVE FALSE
  <2>1. 1 .. y \subseteq Nat /\ 1 .. x \subseteq Nat /\ 1 .. y \subseteq 1 .. x
    BY <1>5
  <2>2. x \in 1 .. x /\ x \notin 1 .. y
    BY <1>5
  <2> QED
    BY <1>4, <2>1, <2>2 DEF StrictSubsetOrdering
<1> QED
  BY <1>5

\* A set that holds 0 and every successor holds every natural.
LEMMA SetInduction ==
  ASSUME NEW T, 0 \in T, \A n \in Nat : n \in T => n + 1 \in T
  PROVE  Nat \subseteq T
<1>1. SUFFICES ASSUME Nat \ T # {} PROVE FALSE
  OBVIOUS
<1> DEFINE V == Nat \ T
<1>2. V \subseteq Nat /\ V # {}
  BY <1>1
<1>3. \E x \in V : \A y \in V : x <= y
  <2> HIDE DEF V
  <2> QED
    BY <1>2, LeastNatural
<1>4. PICK x \in V : \A y \in V : x <= y
  BY <1>3
<1>5. x \in Nat /\ x # 0
  OBVIOUS
<1>6. x - 1 \in Nat /\ x - 1 \in T
  BY <1>4, <1>5
<1> QED
  BY <1>4, <1>6

-----------------------------------------------------------------------------
(* Sequences whose elements have no type, by the set of their elements     *)

Listed(s) == s \in Seq(ToSet(s))

LEMMA ListedOf ==
  ASSUME NEW S, NEW s \in Seq(S)
  PROVE  /\ Listed(s) /\ ToSet(s) \subseteq S
         /\ Len(s) \in Nat /\ DOMAIN s = 1 .. Len(s)
<1>1. s \in [1 .. Len(s) -> S] /\ Len(s) \in Nat /\ DOMAIN s = 1 .. Len(s)
  BY LenProperties
<1>2. \A k \in 1 .. Len(s) : s[k] \in ToSet(s) /\ s[k] \in S
  BY <1>1 DEF ToSet
<1>3. s \in [1 .. Len(s) -> ToSet(s)]
  BY <1>1, <1>2
<1>4. ToSet(s) \subseteq S
  BY <1>1, <1>2 DEF ToSet
<1> QED
  BY <1>1, <1>3, <1>4, SeqDef DEF Listed

LEMMA ListedAppend ==
  ASSUME NEW s, Listed(s), NEW e
  PROVE  /\ Listed(Append(s, e)) /\ ToSet(Append(s, e)) = ToSet(s) \cup {e}
         /\ Len(Append(s, e)) = Len(s) + 1
         /\ \A k \in 1 .. Len(s) : Append(s, e)[k] = s[k]
         /\ Append(s, e)[Len(s) + 1] = e
<1> DEFINE S == ToSet(s) \cup {e}
<1>1. s \in Seq(S) /\ Len(s) \in Nat /\ DOMAIN s = 1 .. Len(s)
  <2>1. s \in Seq(ToSet(s)) /\ ToSet(s) \subseteq S
    BY DEF Listed
  <2> HIDE DEF S
  <2> QED
    BY <2>1, SeqMonotonic, ListedOf
<1>2. e \in S
  OBVIOUS
<1>3. /\ Append(s, e) \in Seq(S) /\ Len(Append(s, e)) = Len(s) + 1
      /\ \A k \in 1 .. Len(s) : Append(s, e)[k] = s[k]
      /\ Append(s, e)[Len(s) + 1] = e
  <2> HIDE DEF S
  <2> QED
    BY <1>1, <1>2, AppendProperties
<1>4. Listed(Append(s, e)) /\ ToSet(Append(s, e)) \subseteq S /\ DOMAIN Append(s, e) = 1 .. Len(s) + 1
  <2> HIDE DEF S
  <2> QED
    BY <1>3, ListedOf
<1>5. S \subseteq ToSet(Append(s, e))
  <2>1. e \in ToSet(Append(s, e))
    BY <1>1, <1>3, <1>4 DEF ToSet
  <2>2. ASSUME NEW k \in 1 .. Len(s) PROVE s[k] \in ToSet(Append(s, e))
    <3>1. k \in DOMAIN Append(s, e) /\ Append(s, e)[k] = s[k]
      BY <1>1, <1>3, <1>4
    <3> QED
      BY <3>1 DEF ToSet
  <2> QED
    BY <1>1, <2>1, <2>2 DEF ToSet
<1> QED
  BY <1>3, <1>4, <1>5

LEMMA ListedTail ==
  ASSUME NEW s, Listed(s), s # <<>>
  PROVE  Listed(Tail(s)) /\ ToSet(Tail(s)) \subseteq ToSet(s) /\ Head(s) \in ToSet(s)
<1>1. Tail(s) \in Seq(ToSet(s)) /\ Head(s) \in ToSet(s)
  BY HeadTailProperties DEF Listed
<1> QED
  BY <1>1, ListedOf

LEMMA InsertedElements ==
  ASSUME NEW S, NEW s \in Seq(S), NEW e \in S, NEW i \in 1 .. Len(s) + 1
  PROVE  /\ InsertAt(s, i, e) \in Seq(S) /\ Len(InsertAt(s, i, e)) = Len(s) + 1
         /\ \A k \in 1 .. Len(s) + 1 :
               InsertAt(s, i, e)[k] = IF k < i THEN s[k] ELSE IF k = i THEN e ELSE s[k - 1]
<1> DEFINE a == SubSeq(s, 1, i - 1)
           b == SubSeq(s, i, Len(s))
<1>1. Len(s) \in Nat /\ i \in Int /\ i - 1 \in Int /\ \A k \in 1 .. Len(s) : s[k] \in S
  BY LenProperties, ElementOfSeq
<1>2. /\ a \in Seq(S) /\ Len(a) = i - 1
      /\ \A k \in 1 .. i - 1 : a[k] = s[k]
  <2>1. \A k \in 1 .. i - 1 : s[k] \in S
    BY <1>1
  <2>2. /\ a \in Seq(S) /\ Len(a) = IF 1 <= i - 1 THEN i - 1 - 1 + 1 ELSE 0
        /\ \A k \in 1 .. i - 1 - 1 + 1 : a[k] = s[1 + k - 1]
    BY <1>1, <2>1, SubSeqProperties
  <2> QED
    BY <1>1, <2>2
<1>3. /\ b \in Seq(S) /\ Len(b) = Len(s) - i + 1
      /\ \A k \in 1 .. Len(s) - i + 1 : b[k] = s[i + k - 1]
  <2>1. \A k \in i .. Len(s) : s[k] \in S
    BY <1>1
  <2>2. /\ b \in Seq(S) /\ Len(b) = IF i <= Len(s) THEN Len(s) - i + 1 ELSE 0
        /\ \A k \in 1 .. Len(s) - i + 1 : b[k] = s[i + k - 1]
    BY <1>1, <2>1, SubSeqProperties
  <2> QED
    BY <1>1, <2>2
<1>4. <<e>> \in Seq(S) /\ Len(<<e>>) = 1 /\ <<e>>[1] = e
  OBVIOUS
<1> HIDE DEF a, b
<1>5. /\ a \o <<e>> \in Seq(S) /\ Len(a \o <<e>>) = i
      /\ \A k \in 1 .. i : (a \o <<e>>)[k] = IF k < i THEN s[k] ELSE e
  <2>1. /\ a \o <<e>> \in Seq(S) /\ Len(a \o <<e>>) = Len(a) + 1
        /\ \A k \in 1 .. Len(a) + 1 :
              (a \o <<e>>)[k] = IF k <= Len(a) THEN a[k] ELSE <<e>>[k - Len(a)]
    BY <1>2, <1>4, ConcatProperties
  <2> QED
    BY <1>1, <1>2, <1>4, <2>1
<1>6. /\ (a \o <<e>>) \o b \in Seq(S) /\ Len((a \o <<e>>) \o b) = i + Len(b)
      /\ \A k \in 1 .. i + Len(b) :
            ((a \o <<e>>) \o b)[k] = IF k <= i THEN (a \o <<e>>)[k] ELSE b[k - i]
  <2> DEFINE c == a \o <<e>>
  <2>1. c \in Seq(S) /\ Len(c) = i
    BY <1>5
  <2> HIDE DEF c
  <2>2. /\ c \o b \in Seq(S) /\ Len(c \o b) = Len(c) + Len(b)
        /\ \A k \in 1 .. Len(c) + Len(b) : (c \o b)[k] = IF k <= Len(c) THEN c[k] ELSE b[k - Len(c)]
    BY <1>3, <2>1, ConcatProperties
  <2>3. /\ c \o b \in Seq(S) /\ Len(c \o b) = i + Len(b)
        /\ \A k \in 1 .. i + Len(b) : (c \o b)[k] = IF k <= i THEN c[k] ELSE b[k - i]
    BY <2>1, <2>2
  <2> QED
    BY <2>3 DEF c
<1>7. InsertAt(s, i, e) = (a \o <<e>>) \o b
  BY DEF InsertAt, a, b
<1>8. i + Len(b) = Len(s) + 1
  BY <1>1, <1>3
<1>9. \A k \in 1 .. i : (a \o <<e>>)[k] = IF k < i THEN s[k] ELSE e
  BY <1>5
<1>10. ASSUME NEW k \in 1 .. Len(s) + 1
      PROVE  ((a \o <<e>>) \o b)[k] = IF k < i THEN s[k] ELSE IF k = i THEN e ELSE s[k - 1]
  <2>0. k \in Nat \ {0} /\ i \in Nat \ {0}
    BY <1>1
  <2> DEFINE t == (a \o <<e>>) \o b
  <2>1. t[k] = IF k <= i THEN (a \o <<e>>)[k] ELSE b[k - i]
    BY <1>6, <1>8
  <2> HIDE DEF t
  <2>2. CASE k < i
    <3>0. k <= i /\ k \in 1 .. i
      BY <2>0, <2>2
    <3>1. t[k] = (a \o <<e>>)[k] /\ k \in 1 .. i
      BY <2>1, <3>0
    <3>2. (a \o <<e>>)[k] = s[k]
      BY <1>1, <1>9, <2>2, <3>1
    <3> QED
      BY <2>2, <3>1, <3>2 DEF t
  <2>3. CASE k = i
    <3>1. t[k] = (a \o <<e>>)[k] /\ k \in 1 .. i /\ ~(k < i)
      BY <1>1, <2>1, <2>3
    <3> QED
      BY <1>5, <2>3, <3>1 DEF t
  <2>4. CASE k > i
    <3>1. t[k] = b[k - i] /\ ~(k < i) /\ k # i
      BY <1>1, <2>1, <2>4
    <3>2. k - i \in 1 .. Len(s) - i + 1 /\ i + (k - i) - 1 = k - 1
      BY <1>1, <2>4
    <3>3. b[k - i] = s[i + (k - i) - 1]
      BY <1>3, <3>2
    <3> QED
      BY <3>1, <3>2, <3>3 DEF t
  <2>5. k < i \/ k = i \/ k > i
    BY <1>1
  <2> QED
    BY <2>2, <2>3, <2>4, <2>5
<1> QED
  BY <1>6, <1>7, <1>8, <1>10

LEMMA ListedInsert ==
  ASSUME NEW s, Listed(s), NEW e, NEW i \in 1 .. Len(s) + 1
  PROVE  Listed(InsertAt(s, i, e)) /\ ToSet(InsertAt(s, i, e)) = ToSet(s) \cup {e}
<1> DEFINE S == ToSet(s) \cup {e}
           r == InsertAt(s, i, e)
<1>1. s \in Seq(S) /\ Len(s) \in Nat /\ DOMAIN s = 1 .. Len(s) /\ e \in S
  <2>1. s \in Seq(ToSet(s)) /\ ToSet(s) \subseteq S /\ e \in S
    BY DEF Listed
  <2> HIDE DEF S
  <2> QED
    BY <2>1, SeqMonotonic, ListedOf
<1>2. /\ r \in Seq(S) /\ Len(r) = Len(s) + 1
      /\ \A k \in 1 .. Len(s) + 1 : r[k] = IF k < i THEN s[k] ELSE IF k = i THEN e ELSE s[k - 1]
  <2> HIDE DEF S
  <2> QED
    BY <1>1, InsertedElements
<1>3. Listed(r) /\ ToSet(r) \subseteq S /\ DOMAIN r = 1 .. Len(s) + 1
  <2> HIDE DEF S, r
  <2> QED
    BY <1>2, ListedOf
<1> HIDE DEF r
<1>4. e \in ToSet(r)
  <2>1. i \in DOMAIN r /\ r[i] = e
    BY <1>1, <1>2, <1>3
  <2> QED
    BY <2>1 DEF ToSet
<1>5. ASSUME NEW k \in 1 .. Len(s) PROVE s[k] \in ToSet(r)
  <2>1. CASE k < i
    <3>1. k \in DOMAIN r /\ r[k] = s[k]
      BY <1>1, <1>2, <1>3, <2>1
    <3> QED
      BY <3>1 DEF ToSet
  <2>2. CASE ~(k < i)
    <3>1. k + 1 \in DOMAIN r /\ r[k + 1] = s[k]
      BY <1>1, <1>2, <1>3, <2>2
    <3> QED
      BY <3>1 DEF ToSet
  <2> QED
    BY <2>1, <2>2
<1>6. S \subseteq ToSet(r)
  BY <1>1, <1>4, <1>5 DEF ToSet
<1> QED
  BY <1>3, <1>6 DEF r

LEMMA RemovedElements ==
  ASSUME NEW S, NEW s \in Seq(S), NEW i \in 1 .. Len(s)
  PROVE  /\ RemoveAt(s, i) \in Seq(S) /\ Len(RemoveAt(s, i)) = Len(s) - 1
         /\ \A k \in 1 .. Len(s) - 1 :
               RemoveAt(s, i)[k] = IF k < i THEN s[k] ELSE s[k + 1]
<1> DEFINE a == SubSeq(s, 1, i - 1)
           b == SubSeq(s, i + 1, Len(s))
<1>1. /\ Len(s) \in Nat /\ i \in Int /\ i - 1 \in Int /\ i + 1 \in Int
      /\ \A k \in 1 .. Len(s) : s[k] \in S
  BY LenProperties, ElementOfSeq
<1>2. /\ a \in Seq(S) /\ Len(a) = i - 1
      /\ \A k \in 1 .. i - 1 : a[k] = s[k]
  <2>1. \A k \in 1 .. i - 1 : s[k] \in S
    BY <1>1
  <2>2. /\ a \in Seq(S) /\ Len(a) = IF 1 <= i - 1 THEN i - 1 - 1 + 1 ELSE 0
        /\ \A k \in 1 .. i - 1 - 1 + 1 : a[k] = s[1 + k - 1]
    BY <1>1, <2>1, SubSeqProperties
  <2> QED
    BY <1>1, <2>2
<1>3. /\ b \in Seq(S) /\ Len(b) = Len(s) - i
      /\ \A k \in 1 .. Len(s) - i : b[k] = s[i + k]
  <2>1. \A k \in i + 1 .. Len(s) : s[k] \in S
    BY <1>1
  <2>2. /\ b \in Seq(S) /\ Len(b) = IF i + 1 <= Len(s) THEN Len(s) - (i + 1) + 1 ELSE 0
        /\ \A k \in 1 .. Len(s) - (i + 1) + 1 : b[k] = s[(i + 1) + k - 1]
    BY <1>1, <2>1, SubSeqProperties
  <2> QED
    BY <1>1, <2>2
<1> HIDE DEF a, b
<1>4. /\ a \o b \in Seq(S) /\ Len(a \o b) = Len(a) + Len(b)
      /\ \A k \in 1 .. Len(a) + Len(b) : (a \o b)[k] = IF k <= Len(a) THEN a[k] ELSE b[k - Len(a)]
  BY <1>2, <1>3, ConcatProperties
<1>5. RemoveAt(s, i) = a \o b
  BY DEF RemoveAt, a, b
<1>6. Len(a) + Len(b) = Len(s) - 1
  BY <1>1, <1>2, <1>3
<1>7. ASSUME NEW k \in 1 .. Len(s) - 1
      PROVE (a \o b)[k] = IF k < i THEN s[k] ELSE s[k + 1]
  <2>1. CASE k < i
    <3>1. k \in 1 .. i - 1 /\ k <= Len(a) /\ k \in 1 .. Len(a) + Len(b)
      BY <1>1, <1>2, <1>6, <2>1
    <3> QED
      BY <1>2, <1>4, <2>1, <3>1
  <2>2. CASE ~(k < i)
    <3>1. ~(k <= Len(a)) /\ k \in 1 .. Len(a) + Len(b)
      BY <1>1, <1>2, <1>6, <2>2
    <3>2. k - Len(a) \in 1 .. Len(s) - i /\ i + (k - Len(a)) = k + 1
      BY <1>1, <1>2, <2>2
    <3> QED
      BY <1>3, <1>4, <2>2, <3>1, <3>2
  <2> QED
    BY <2>1, <2>2
<1> QED
  BY <1>4, <1>5, <1>6, <1>7

\* Every element but the removed one stays, and no position is used twice.
LEMMA ListedRemove ==
  ASSUME NEW s, Listed(s), NEW i \in DOMAIN s
  PROVE  /\ Listed(RemoveAt(s, i))
         /\ ToSet(RemoveAt(s, i)) = {s[k] : k \in DOMAIN s \ {i}}
         /\ \A k \in DOMAIN RemoveAt(s, i) : \E m \in DOMAIN s :
               m = (IF k < i THEN k ELSE k + 1) /\ RemoveAt(s, i)[k] = s[m]
<1> DEFINE r == RemoveAt(s, i)
           S == ToSet(s)
<1>1. s \in Seq(S) /\ Len(s) \in Nat /\ DOMAIN s = 1 .. Len(s)
  BY ListedOf DEF Listed
<1>2. /\ r \in Seq(S) /\ Len(r) = Len(s) - 1
      /\ \A k \in 1 .. Len(s) - 1 : r[k] = IF k < i THEN s[k] ELSE s[k + 1]
  <2> HIDE DEF S
  <2> QED
    BY <1>1, RemovedElements
<1>3. Listed(r) /\ DOMAIN r = 1 .. Len(s) - 1
  <2> HIDE DEF S, r
  <2> QED
    BY <1>2, ListedOf
<1> HIDE DEF r, S
<1>4. ASSUME NEW k \in DOMAIN r
      PROVE \E m \in DOMAIN s \ {i} : m = (IF k < i THEN k ELSE k + 1) /\ r[k] = s[m]
  <2>1. CASE k < i
    <3>1. k \in DOMAIN s \ {i} /\ r[k] = s[k]
      BY <1>1, <1>2, <1>3, <2>1
    <3> QED
      BY <2>1, <3>1
  <2>2. CASE ~(k < i)
    <3>1. k + 1 \in DOMAIN s \ {i} /\ r[k] = s[k + 1]
      BY <1>1, <1>2, <1>3, <2>2
    <3> QED
      BY <2>2, <3>1
  <2> QED
    BY <2>1, <2>2
<1>5. ASSUME NEW m \in DOMAIN s \ {i} PROVE \E k \in DOMAIN r : r[k] = s[m]
  <2>1. CASE m < i
    <3>1. m \in DOMAIN r /\ r[m] = s[m]
      BY <1>1, <1>2, <1>3, <2>1
    <3> QED
      BY <3>1
  <2>2. CASE ~(m < i)
    <3>1. m - 1 \in DOMAIN r /\ r[m - 1] = s[m]
      BY <1>1, <1>2, <1>3, <2>2
    <3> QED
      BY <3>1
  <2> QED
    BY <2>1, <2>2
<1>6. ToSet(r) = {s[k] : k \in DOMAIN s \ {i}}
  BY <1>4, <1>5 DEF ToSet
<1> QED
  BY <1>3, <1>4, <1>6 DEF r

LEMMA ListedExcept ==
  ASSUME NEW s, Listed(s), NEW i \in DOMAIN s, NEW e, NEW r, r = [s EXCEPT ![i] = e]
  PROVE  Listed(r) /\ ToSet(r) \subseteq ToSet(s) \cup {e} /\ DOMAIN r = DOMAIN s
<1> DEFINE S == ToSet(s) \cup {e}
<1>1. s \in Seq(S) /\ DOMAIN s = 1 .. Len(s) /\ e \in S
  <2>1. s \in Seq(ToSet(s)) /\ ToSet(s) \subseteq S /\ e \in S
    BY DEF Listed
  <2> HIDE DEF S
  <2> QED
    BY <2>1, SeqMonotonic, ListedOf
<1> HIDE DEF S
<1>2. r \in Seq(S)
  BY <1>1, ExceptSeq
<1>3. Listed(r) /\ ToSet(r) \subseteq S
  BY <1>2, ListedOf
<1> QED
  BY <1>3 DEF S

-----------------------------------------------------------------------------
(* The cue document                                                        *)

\* Entries and lists handed out so far; n is the last UUID.
EntriesOK(s, n) ==
    Listed(s) /\ \A e \in ToSet(s) : e = [id |-> e.id, scene |-> e.scene] /\ e.id \in 1 .. n
ListOK(l, n) == l = [id |-> l.id, entries |-> l.entries] /\ l.id \in 1 .. n /\ EntriesOK(l.entries, n)
Unique(s) == \A i, j \in DOMAIN s : s[i].id = s[j].id => i = j
DocOK(doc, n) ==
    /\ doc = [lists |-> doc.lists, active |-> doc.active, cued |-> doc.cued]
    /\ Listed(doc.lists) /\ Unique(doc.lists)
    /\ \A l \in ToSet(doc.lists) : ListOK(l, n)
Confined(doc) ==
    /\ doc.active = NoId \/ HasActive(doc)
    /\ doc.cued = NoId \/ IsOneOf(ActiveEntries(doc), doc.cued)

\* At finds what IsOneOf promises.
LEMMA FoundAt ==
  ASSUME NEW s, NEW id, IsOneOf(s, id)
  PROVE  At(s, id) \in DOMAIN s /\ s[At(s, id)].id = id
BY DEF At, IsOneOf

LEMMA OneOfSet ==
  ASSUME NEW s, NEW id
  PROVE  IsOneOf(s, id) <=> \E x \in ToSet(s) : x.id = id
BY DEF IsOneOf, ToSet

LEMMA NoEntries == EntriesOK(<<>>, 0) /\ \A n : EntriesOK(<<>>, n)
<1>1. Listed(<<>>) /\ ToSet(<<>>) = {}
  BY EmptySeq DEF Listed, ToSet
<1> QED
  BY <1>1 DEF EntriesOK

LEMMA EntriesGrow ==
  ASSUME NEW s, NEW n \in Nat, EntriesOK(s, n) PROVE EntriesOK(s, n + 1)
<1>1. 1 .. n \subseteq 1 .. n + 1
  OBVIOUS
<1> QED
  BY <1>1 DEF EntriesOK

LEMMA DocGrow ==
  ASSUME NEW doc, NEW n \in Nat, DocOK(doc, n) PROVE DocOK(doc, n + 1)
<1>1. 1 .. n \subseteq 1 .. n + 1
  OBVIOUS
<1>2. ASSUME NEW l \in ToSet(doc.lists) PROVE ListOK(l, n + 1)
  BY <1>1, EntriesGrow DEF DocOK, ListOK
<1> QED
  BY <1>2 DEF DocOK

\* The list of the active UUID is the active list.
LEMMA ActiveIs ==
  ASSUME NEW doc, NEW n, DocOK(doc, n), NEW k \in DOMAIN doc.lists, doc.lists[k].id = doc.active
  PROVE  HasActive(doc) /\ At(doc.lists, doc.active) = k /\ ActiveEntries(doc) = doc.lists[k].entries
<1>1. HasActive(doc)
  BY DEF HasActive, IsOneOf
<1>2. At(doc.lists, doc.active) \in DOMAIN doc.lists /\ doc.lists[At(doc.lists, doc.active)].id = doc.active
  BY <1>1, FoundAt DEF HasActive
<1>3. At(doc.lists, doc.active) = k
  BY <1>2 DEF DocOK, Unique
<1> QED
  BY <1>1, <1>3 DEF ActiveEntries

LEMMA ActiveFound ==
  ASSUME NEW doc, NEW n, DocOK(doc, n), HasActive(doc)
  PROVE  /\ At(doc.lists, doc.active) \in DOMAIN doc.lists
         /\ doc.lists[At(doc.lists, doc.active)].id = doc.active
         /\ ActiveEntries(doc) = doc.lists[At(doc.lists, doc.active)].entries
BY FoundAt DEF HasActive, ActiveEntries

LEMMA ActiveEntriesOK ==
  ASSUME NEW doc, NEW n, DocOK(doc, n) PROVE EntriesOK(ActiveEntries(doc), n)
<1>1. CASE HasActive(doc)
  <2> DEFINE k == At(doc.lists, doc.active)
  <2>1. k \in DOMAIN doc.lists /\ ActiveEntries(doc) = doc.lists[k].entries
    BY <1>1, ActiveFound
  <2> HIDE DEF k
  <2>2. doc.lists[k] \in ToSet(doc.lists)
    BY <2>1 DEF ToSet
  <2> QED
    BY <2>1, <2>2 DEF DocOK, ListOK
<1>2. CASE ~HasActive(doc)
  BY <1>2, NoEntries DEF ActiveEntries
<1> QED
  BY <1>1, <1>2

\* SetEntries changes the entries of the active list and nothing else.
LEMMA SetEntriesOK ==
  ASSUME NEW doc, NEW n, DocOK(doc, n), HasActive(doc), NEW es, EntriesOK(es, n)
  PROVE  /\ DocOK(SetEntries(doc, es), n) /\ HasActive(SetEntries(doc, es))
         /\ ActiveEntries(SetEntries(doc, es)) = es
         /\ SetEntries(doc, es).active = doc.active /\ SetEntries(doc, es).cued = doc.cued
<1> DEFINE ls == doc.lists
           k == At(ls, doc.active)
           new == SetEntries(doc, es)
<1>1. k \in DOMAIN ls /\ ls[k].id = doc.active /\ Listed(ls) /\ Unique(ls)
  BY ActiveFound DEF DocOK
<1>2. ls[k] = [id |-> ls[k].id, entries |-> ls[k].entries] /\ ListOK(ls[k], n)
  <2>1. ls[k] \in ToSet(ls)
    BY <1>1 DEF ToSet
  <2> QED
    BY <2>1 DEF DocOK, ListOK
<1> HIDE DEF k
<1> DEFINE l == [ls[k] EXCEPT !.entries = es]
<1>3. l = [id |-> doc.active, entries |-> es]
  BY <1>1, <1>2
<1>4. new = [doc EXCEPT !.lists = [ls EXCEPT ![k] = l]]
  BY DEF SetEntries, k
<1>5. /\ new.lists = [ls EXCEPT ![k] = l] /\ new.active = doc.active /\ new.cued = doc.cued
      /\ new = [lists |-> new.lists, active |-> new.active, cued |-> new.cued]
  BY <1>4 DEF DocOK
<1>6. ListOK(l, n)
  BY <1>1, <1>2, <1>3 DEF ListOK
<1> HIDE DEF ls, l, new
<1>7. /\ Listed(new.lists) /\ DOMAIN new.lists = DOMAIN ls
      /\ ToSet(new.lists) \subseteq ToSet(ls) \cup {l}
  <2>1. Listed(ls) /\ k \in DOMAIN ls
    BY <1>1
  <2>2. PICK s : s = new.lists
    OBVIOUS
  <2>3. s = [ls EXCEPT ![k] = l]
    BY <1>5, <2>2
  <2>4. Listed(s) /\ ToSet(s) \subseteq ToSet(ls) \cup {l} /\ DOMAIN s = DOMAIN ls
    BY <2>1, <2>3, ListedExcept
  <2> QED
    BY <2>2, <2>4
<1>8. \A i \in DOMAIN ls : new.lists[i] = IF i = k THEN l ELSE ls[i]
  BY <1>1, <1>5
<1>9. \A i \in DOMAIN ls : new.lists[i].id = ls[i].id
  BY <1>1, <1>3, <1>8
<1>10. Unique(new.lists)
  BY <1>1, <1>7, <1>9 DEF Unique
<1>11. \A m \in ToSet(new.lists) : ListOK(m, n)
  BY <1>6, <1>7 DEF DocOK, ls
<1>12. DocOK(new, n)
  BY <1>5, <1>7, <1>10, <1>11 DEF DocOK
<1>13. k \in DOMAIN new.lists /\ new.lists[k].id = new.active /\ new.lists[k].entries = es
  BY <1>1, <1>3, <1>5, <1>7, <1>8
<1>14. HasActive(new) /\ ActiveEntries(new) = es
  BY <1>12, <1>13, ActiveIs
<1> QED
  BY <1>5, <1>12, <1>14 DEF new

\* f starts with b, and F makes each value from the one before.
Unfolds(f, b, F, m) == f[0] = b /\ \A n \in 1 .. m : f[n] = F[<<f[n - 1], n>>]

\* What is defined step by step exists.
LEMMA Recursion ==
  ASSUME NEW m \in Nat, NEW S, NEW b \in S, NEW F \in [S \X (1 .. m) -> S]
  PROVE  \E f \in [0 .. m -> S] : Unfolds(f, b, F, m)
<1> DEFINE step(f, n) == IF n = 0 THEN b ELSE F[<<f[n - 1], n>>]
           Upto(k) == \E f \in [0 .. k -> S] : \A n \in 0 .. k : f[n] = step(f, n)
           T == {k \in Nat : k <= m => Upto(k)}
<1>1. 0 \in T
  <2> DEFINE f == [n \in 0 .. 0 |-> b]
  <2>1. f \in [0 .. 0 -> S] /\ \A n \in 0 .. 0 : f[n] = step(f, n)
    OBVIOUS
  <2> QED
    BY <2>1
<1>2. ASSUME NEW k \in Nat, k \in T PROVE k + 1 \in T
  <2> HIDE DEF Upto
  <2> SUFFICES ASSUME k + 1 <= m PROVE Upto(k + 1)
    OBVIOUS
  <2> USE DEF Upto
  <2>1. PICK f \in [0 .. k -> S] : \A n \in 0 .. k : f[n] = step(f, n)
    BY <1>2
  <2> DEFINE x == F[<<f[k], k + 1>>]
             g == [n \in 0 .. k + 1 |-> IF n <= k THEN f[n] ELSE x]
  <2>2. x \in S
    <3>1. k \in 0 .. k /\ k + 1 \in 1 .. m
      OBVIOUS
    <3> QED
      BY <2>1, <3>1
  <2> HIDE DEF x
  <2>3. g \in [0 .. k + 1 -> S]
    <3>1. \A n \in 0 .. k + 1 : n <= k => n \in 0 .. k
      OBVIOUS
    <3> QED
      BY <2>1, <2>2, <3>1
  <2>4. ASSUME NEW n \in 0 .. k + 1 PROVE g[n] = step(g, n)
    <3>1. CASE n <= k
      <4>1. n \in 0 .. k /\ g[n] = f[n]
        BY <3>1
      <4>2. n # 0 => n - 1 \in 0 .. k + 1 /\ n - 1 <= k /\ g[n - 1] = f[n - 1]
        BY <3>1
      <4> QED
        BY <2>1, <4>1, <4>2
    <3>2. CASE n = k + 1
      <4>1. g[n] = x /\ n # 0 /\ n - 1 = k /\ g[n - 1] = f[k]
        BY <3>2
      <4> QED
        BY <3>2, <4>1 DEF x
    <3> QED
      BY <3>1, <3>2
  <2> HIDE DEF g
  <2> QED
    BY <2>3, <2>4
<1>3. Nat \subseteq T
  <2> HIDE DEF T
  <2> QED
    BY <1>1, <1>2, SetInduction
<1>4. Upto(m)
  <2> HIDE DEF Upto
  <2> QED
    BY <1>3
<1>5. PICK f \in [0 .. m -> S] : \A n \in 0 .. m : f[n] = step(f, n)
  BY <1>4
<1>6. 0 \in 0 .. m /\ \A n \in 1 .. m : n \in 0 .. m /\ n # 0
  OBVIOUS
<1>7. Unfolds(f, b, F, m)
  BY <1>5, <1>6 DEF Unfolds
<1> QED
  BY <1>7

LEMMA UniqueAppend ==
  ASSUME NEW s, Listed(s), Unique(s), NEW e, \A x \in ToSet(s) : x.id # e.id
  PROVE  Unique(Append(s, e))
<1>1. /\ Listed(Append(s, e)) /\ Len(Append(s, e)) = Len(s) + 1
      /\ \A k \in 1 .. Len(s) : Append(s, e)[k] = s[k]
      /\ Append(s, e)[Len(s) + 1] = e
  BY ListedAppend
<1>2. Len(s) \in Nat /\ DOMAIN s = 1 .. Len(s) /\ DOMAIN Append(s, e) = 1 .. Len(s) + 1
  BY <1>1, ListedOf DEF Listed
<1>3. \A k \in 1 .. Len(s) : s[k].id # e.id
  BY <1>2 DEF ToSet
<1>4. \A k \in 1 .. Len(s) + 1 : k \in 1 .. Len(s) \/ k = Len(s) + 1
  BY <1>2
<1> QED
  BY <1>1, <1>2, <1>3, <1>4 DEF Unique

\* A part of a sequence has the elements of its positions, each once.
LEMMA KeptIs ==
  ASSUME NEW s, Listed(s), NEW P
  PROVE  /\ Listed(Kept(s, P)) /\ ToSet(Kept(s, P)) = {s[k] : k \in P \cap DOMAIN s}
         /\ Unique(s) => Unique(Kept(s, P))
<1> DEFINE m == Len(s)
           S == Seq(ToSet(s))
           F == [x \in S \X (1 .. m) |-> IF x[2] \in P THEN Append(x[1], s[x[2]]) ELSE x[1]]
<1>1. m \in Nat /\ DOMAIN s = 1 .. m /\ \A k \in 1 .. m : s[k] \in ToSet(s)
  BY ListedOf DEF Listed, ToSet
<1>2. F \in [S \X (1 .. m) -> S]
  <2>1. ASSUME NEW x \in S \X (1 .. m)
        PROVE (IF x[2] \in P THEN Append(x[1], s[x[2]]) ELSE x[1]) \in S
    <3>1. x[1] \in Seq(ToSet(s)) /\ s[x[2]] \in ToSet(s)
      BY <1>1, <2>1
    <3>2. Append(x[1], s[x[2]]) \in Seq(ToSet(s))
      BY <3>1, AppendProperties
    <3> QED
      BY <3>1, <3>2
  <2> QED
    BY <2>1
<1>3. \A x \in S, n \in 1 .. m : F[<<x, n>>] = IF n \in P THEN Append(x, s[n]) ELSE x
  OBVIOUS
<1>4. <<>> \in S
  BY EmptySeq
<1> HIDE DEF F, S, m
<1>5. PICK f \in [0 .. m -> S] : f[0] = <<>> /\ \A n \in 1 .. m : f[n] = F[<<f[n - 1], n>>]
  <2>1. \E f \in [0 .. m -> S] : Unfolds(f, <<>>, F, m)
    BY <1>1, <1>2, <1>4, Recursion, Zenon
  <2> QED
    BY <2>1 DEF Unfolds
<1> DEFINE kept == CHOOSE h : h = [n \in 0 .. m |->
                      IF n = 0 THEN <<>> ELSE IF n \in P THEN Append(h[n - 1], s[n]) ELSE h[n - 1]]
<1>6. f = [n \in 0 .. m |-> IF n = 0 THEN <<>> ELSE IF n \in P THEN Append(f[n - 1], s[n]) ELSE f[n - 1]]
  <2>1. ASSUME NEW n \in 0 .. m, n # 0
        PROVE F[<<f[n - 1], n>>] = IF n \in P THEN Append(f[n - 1], s[n]) ELSE f[n - 1]
    <3>1. n \in 1 .. m /\ n - 1 \in 0 .. m /\ f[n - 1] \in S
      BY <1>1, <2>1
    <3> QED
      BY <1>3, <3>1
  <2>2. \A n \in 0 .. m : f[n] = IF n = 0 THEN <<>> ELSE IF n \in P THEN Append(f[n - 1], s[n]) ELSE f[n - 1]
    <3>1. \A n \in 0 .. m : n # 0 => n \in 1 .. m
      BY <1>1
    <3> QED
      BY <1>5, <2>1, <3>1
  <2>3. f = [n \in 0 .. m |-> f[n]]
    OBVIOUS
  <2> QED
    BY <2>2, <2>3
<1>7. kept = [n \in 0 .. m |->
                 IF n = 0 THEN <<>> ELSE IF n \in P THEN Append(kept[n - 1], s[n]) ELSE kept[n - 1]]
  BY <1>6
<1>8. Kept(s, P) = kept[m]
  BY DEF Kept, m
<1> HIDE DEF kept
<1>9. \A n \in 0 .. m : kept[n] =
          IF n = 0 THEN <<>> ELSE IF n \in P THEN Append(kept[n - 1], s[n]) ELSE kept[n - 1]
  BY <1>7
<1> DEFINE Good(t, n) == /\ Listed(t) /\ ToSet(t) = {s[k] : k \in P \cap (1 .. n)}
                         /\ Unique(s) => Unique(t)
           T == {n \in Nat : n <= m => Good(kept[n], n)}
<1>10. 0 \in T
  <2>0. 0 \in 0 .. m
    BY <1>1
  <2>1. kept[0] = <<>> /\ ToSet(<<>>) = {} /\ Listed(<<>>) /\ Unique(<<>>)
    BY <2>0, <1>9, EmptySeq DEF ToSet, Listed, Unique
  <2>2. P \cap (1 .. 0) = {}
    OBVIOUS
  <2> QED
    BY <2>1, <2>2
<1>11. ASSUME NEW n \in Nat, n \in T PROVE n + 1 \in T
  <2> HIDE DEF Good
  <2> SUFFICES ASSUME n + 1 <= m PROVE Good(kept[n + 1], n + 1)
    OBVIOUS
  <2>1. Good(kept[n], n)
    BY <1>1, <1>11
  <2>2. n + 1 \in 0 .. m /\ n + 1 # 0 /\ n + 1 - 1 = n /\ n + 1 \in 1 .. m
    BY <1>1
  <2>3. kept[n + 1] = IF n + 1 \in P THEN Append(kept[n], s[n + 1]) ELSE kept[n]
    BY <1>9, <2>2
  <2>4. 1 .. n + 1 = (1 .. n) \cup {n + 1}
    OBVIOUS
  <2>5. CASE n + 1 \in P
    <3>1. /\ Listed(Append(kept[n], s[n + 1]))
          /\ ToSet(Append(kept[n], s[n + 1])) = ToSet(kept[n]) \cup {s[n + 1]}
      BY <2>1, ListedAppend DEF Good
    <3>2. {s[k] : k \in P \cap (1 .. n + 1)} = {s[k] : k \in P \cap (1 .. n)} \cup {s[n + 1]}
      BY <2>4, <2>5
    <3>3. ASSUME Unique(s) PROVE Unique(Append(kept[n], s[n + 1]))
      <4>1. ASSUME NEW x \in ToSet(kept[n]) PROVE x.id # s[n + 1].id
        <5>1. PICK k \in 1 .. n : x = s[k]
          BY <2>1 DEF Good
        <5>2. k \in 1 .. m /\ k # n + 1
          BY <1>1, <2>2
        <5> QED
          BY <1>1, <2>2, <3>3, <5>1, <5>2 DEF Unique
      <4> QED
        BY <2>1, <3>3, <4>1, UniqueAppend DEF Good
    <3> QED
      BY <2>1, <2>3, <2>5, <3>1, <3>2, <3>3 DEF Good
  <2>6. CASE n + 1 \notin P
    <3>1. P \cap (1 .. n + 1) = P \cap (1 .. n)
      BY <2>4, <2>6
    <3> QED
      BY <2>1, <2>3, <2>6, <3>1 DEF Good
  <2> QED
    BY <2>5, <2>6
<1>12. Nat \subseteq T
  <2> HIDE DEF T
  <2> QED
    BY <1>10, <1>11, SetInduction
<1> HIDE DEF Good
<1>13. Good(kept[m], m)
  BY <1>1, <1>12
<1> QED
  BY <1>1, <1>8, <1>13 DEF Good

\* A reordering names every element, and its elements are those of the sequence.
LEMMA ReorderedElements ==
  ASSUME NEW s, Listed(s), NEW order, Listed(order), Reorders(s, order)
  PROVE  /\ DOMAIN Reordered(s, order) = DOMAIN order /\ Listed(Reordered(s, order))
         /\ \A k \in DOMAIN order : Reordered(s, order)[k] \in ToSet(s) /\ Reordered(s, order)[k].id = order[k]
         /\ \A x \in ToSet(s) : \E y \in ToSet(Reordered(s, order)) : y.id = x.id
<1> DEFINE r == Reordered(s, order)
<1>1. ToSet(order) = {s[k].id : k \in DOMAIN s}
  BY DEF Reorders, ToSet, IdsOf
<1>2. DOMAIN r = DOMAIN order /\ \A k \in DOMAIN order : r[k] = s[At(s, order[k])]
  BY DEF Reordered
<1> HIDE DEF r
<1>3. ASSUME NEW k \in DOMAIN order PROVE r[k] \in ToSet(s) /\ r[k].id = order[k]
  <2>1. IsOneOf(s, order[k])
    BY <1>1 DEF ToSet, IsOneOf
  <2>2. At(s, order[k]) \in DOMAIN s /\ s[At(s, order[k])].id = order[k]
    BY <2>1, FoundAt
  <2> QED
    BY <1>2, <2>2 DEF ToSet
<1>4. Listed(r)
  <2>1. Len(order) \in Nat /\ DOMAIN order = 1 .. Len(order)
    BY ListedOf DEF Listed
  <2>2. r \in [1 .. Len(order) -> ToSet(r)]
    <3>1. \A k \in 1 .. Len(order) : r[k] \in ToSet(r)
      BY <1>2, <2>1 DEF ToSet
    <3>2. r = [k \in DOMAIN order |-> r[k]]
      BY <1>2 DEF r, Reordered
    <3> QED
      BY <2>1, <3>1, <3>2
  <2> QED
    BY <2>1, <2>2, SeqDef DEF Listed
<1>5. ASSUME NEW x \in ToSet(s) PROVE \E y \in ToSet(r) : y.id = x.id
  <2>1. PICK k \in DOMAIN order : order[k] = x.id
    BY <1>1 DEF ToSet
  <2> QED
    BY <1>2, <1>3, <2>1 DEF ToSet
<1> QED
  BY <1>2, <1>3, <1>4, <1>5 DEF r

\* As many positions as elements: none is named twice.
LEMMA ReorderedUnique ==
  ASSUME NEW s, Listed(s), Unique(s), NEW order, Listed(order), Reorders(s, order)
  PROVE  Unique(Reordered(s, order)) /\ ToSet(Reordered(s, order)) \subseteq ToSet(s)
<1> DEFINE n == Len(s)
           T == ToSet(IdsOf(s))
           r == Reordered(s, order)
<1>1. n \in Nat /\ DOMAIN s = 1 .. n /\ Len(order) = n /\ DOMAIN order = 1 .. n /\ ToSet(order) = T
  BY ListedOf DEF Listed, Reorders
<1>2. Cardinality(T) = n /\ IsFiniteSet(1 .. n) /\ Cardinality(1 .. n) = n
  <2>1. IdsOf(s) \in Bijection(1 .. n, T)
    <3>1. IdsOf(s) = [k \in 1 .. n |-> s[k].id]
      BY <1>1 DEF IdsOf
    <3>2. T = {s[k].id : k \in 1 .. n}
      BY <3>1 DEF ToSet
    <3>3. IdsOf(s) \in [1 .. n -> T]
      BY <3>1, <3>2
    <3>4. \A i, j \in 1 .. n : IdsOf(s)[i] = IdsOf(s)[j] => i = j
      BY <1>1, <3>1 DEF Unique
    <3>5. \A t \in T : \E k \in 1 .. n : IdsOf(s)[k] = t
      BY <3>1, <3>2
    <3> QED
      BY <3>3, <3>4, <3>5 DEF Bijection, Injection, Surjection, IsInjective
  <2>2. ExistsBijection(1 .. n, T)
    BY <2>1 DEF ExistsBijection
  <2> HIDE DEF T, n
  <2>3. Cardinality(T) = n
    BY <1>1, <2>2, FS_CountingElements
  <2>4. IsFiniteSet(1 .. n) /\ Cardinality(1 .. n) = IF 1 > n THEN 0 ELSE n - 1 + 1
    BY <1>1, FS_Interval
  <2> QED
    BY <1>1, <2>3, <2>4
<1>3. order \in Injection(1 .. n, T)
  <2>1. order \in [1 .. n -> T]
    <3>1. order \in Seq(ToSet(order))
      BY DEF Listed
    <3>2. order \in [1 .. Len(order) -> ToSet(order)]
      BY <3>1, LenProperties
    <3> QED
      BY <1>1, <3>2
  <2>2. \A t \in T : \E k \in 1 .. n : order[k] = t
    <3>1. \A t \in ToSet(order) : \E k \in DOMAIN order : order[k] = t
      BY DEF ToSet
    <3> QED
      BY <1>1, <3>1
  <2>3. order \in Surjection(1 .. n, T)
    BY <2>1, <2>2 DEF Surjection
  <2> HIDE DEF T, n
  <2> QED
    BY <1>2, <2>3, FS_SurjSameCardinalityImpliesInj
<1>4. DOMAIN r = 1 .. n /\ \A k \in 1 .. n : r[k] \in ToSet(s) /\ r[k].id = order[k]
  BY <1>1, ReorderedElements
<1> HIDE DEF r, T, n
<1>5. Unique(r)
  BY <1>3, <1>4 DEF Unique, Injection, IsInjective
<1>6. ToSet(r) \subseteq ToSet(s)
  BY <1>4 DEF ToSet
<1> QED
  BY <1>5, <1>6 DEF r

-----------------------------------------------------------------------------
(* What a command makes of the document                                    *)

LEMMA CuedAside ==
  ASSUME NEW doc, NEW n, DocOK(doc, n), NEW x, NEW new, new = [doc EXCEPT !.cued = x]
  PROVE  /\ DocOK(new, n) /\ new.cued = x /\ new.active = doc.active /\ new.lists = doc.lists
         /\ ActiveEntries(new) = ActiveEntries(doc) /\ (HasActive(new) <=> HasActive(doc))
<1>1. /\ new.cued = x /\ new.active = doc.active /\ new.lists = doc.lists
      /\ new = [lists |-> new.lists, active |-> new.active, cued |-> new.cued]
  BY DEF DocOK
<1> QED
  BY <1>1 DEF DocOK, HasActive, ActiveEntries

LEMMA CuedHasActive ==
  ASSUME NEW doc, Confined(doc), doc.cued # NoId
  PROVE  HasActive(doc) /\ IsOneOf(ActiveEntries(doc), doc.cued)
BY DEF Confined, ActiveEntries, IsOneOf

\* The entries may change as long as the cue stays among them.
LEMMA EntriesChange ==
  ASSUME NEW doc, NEW n, DocOK(doc, n), HasActive(doc), Confined(doc), NEW es, EntriesOK(es, n),
         \A e \in ToSet(ActiveEntries(doc)) : e.id = doc.cued => \E d \in ToSet(es) : d.id = e.id
  PROVE  DocOK(SetEntries(doc, es), n) /\ Confined(SetEntries(doc, es))
<1> DEFINE new == SetEntries(doc, es)
<1>1. /\ DocOK(new, n) /\ HasActive(new) /\ ActiveEntries(new) = es
      /\ new.active = doc.active /\ new.cued = doc.cued
  BY SetEntriesOK
<1> HIDE DEF new
<1>2. doc.cued # NoId => IsOneOf(es, doc.cued)
  BY OneOfSet DEF Confined
<1> QED
  BY <1>1, <1>2 DEF Confined, new

LEMMA CreateListOK ==
  ASSUME NEW doc, NEW n \in Nat, DocOK(doc, n)
  PROVE  DocOK(CreateList(doc, n + 1), n + 1) /\ Confined(CreateList(doc, n + 1))
<1> DEFINE l == [id |-> n + 1, entries |-> <<>>]
           ls == Append(doc.lists, l)
           new == CreateList(doc, n + 1)
           m == Len(doc.lists)
<1>1. new = [lists |-> ls, active |-> n + 1, cued |-> NoId]
  BY DEF CreateList
<1>2. new.lists = ls /\ new.active = n + 1 /\ new.cued = NoId
  BY <1>1
<1>3. Listed(doc.lists) /\ m \in Nat /\ DOMAIN doc.lists = 1 .. m
  BY ListedOf DEF DocOK, Listed
<1>4. ListOK(l, n + 1) /\ l.id = n + 1
  BY NoEntries DEF ListOK
<1> HIDE DEF l
<1>5. /\ Listed(ls) /\ ToSet(ls) = ToSet(doc.lists) \cup {l} /\ Len(ls) = m + 1
      /\ \A k \in 1 .. m : ls[k] = doc.lists[k]
      /\ ls[m + 1] = l
  BY <1>3, ListedAppend
<1>6. DOMAIN ls = 1 .. m + 1
  BY <1>5, ListedOf DEF Listed
<1> HIDE DEF ls, new, m
<1>7. \A k \in 1 .. m : ls[k].id \in 1 .. n
  BY <1>3, <1>5 DEF DocOK, ListOK, ToSet
<1>8. Unique(ls)
  <2> SUFFICES ASSUME NEW i \in 1 .. m + 1, NEW j \in 1 .. m + 1, ls[i].id = ls[j].id
               PROVE i = j
    BY <1>6 DEF Unique
  <2>1. CASE i \in 1 .. m /\ j \in 1 .. m
    BY <1>3, <1>5, <2>1 DEF DocOK, Unique
  <2>2. CASE i = m + 1 \/ j = m + 1
    <3>1. n + 1 \notin 1 .. n
      OBVIOUS
    <3>2. i = m + 1 => ls[i].id = n + 1
      BY <1>4, <1>5
    <3>3. j = m + 1 => ls[j].id = n + 1
      BY <1>4, <1>5
    <3>4. (i \in 1 .. m \/ i = m + 1) /\ (j \in 1 .. m \/ j = m + 1)
      BY <1>3
    <3> QED
      BY <1>7, <2>2, <3>1, <3>2, <3>3, <3>4
  <2> QED
    BY <1>3, <2>1, <2>2
<1>9. \A k \in ToSet(ls) : ListOK(k, n + 1)
  BY <1>4, <1>5, DocGrow DEF DocOK
<1>10. DocOK(new, n + 1)
  BY <1>1, <1>2, <1>5, <1>8, <1>9 DEF DocOK
<1>11. HasActive(new)
  <2>1. m + 1 \in DOMAIN new.lists /\ new.lists[m + 1].id = new.active
    BY <1>2, <1>3, <1>4, <1>5, <1>6
  <2> QED
    BY <1>10, <2>1, ActiveIs
<1> QED
  BY <1>2, <1>10, <1>11 DEF Confined, new

LEMMA DeleteListOK ==
  ASSUME NEW doc, NEW n, DocOK(doc, n), Confined(doc), NEW id
  PROVE  DocOK(DeleteList(doc, id), n) /\ Confined(DeleteList(doc, id))
<1>1. CASE ~IsOneOf(doc.lists, id)
  BY <1>1 DEF DeleteList
<1>2. CASE IsOneOf(doc.lists, id)
  <2> DEFINE k == At(doc.lists, id)
             ls == RemoveAt(doc.lists, k)
             new == DeleteList(doc, id)
  <2>1. k \in DOMAIN doc.lists /\ doc.lists[k].id = id
    BY <1>2, FoundAt
  <2> HIDE DEF k
  <2>2. /\ new.lists = ls
        /\ new.active = (IF doc.active = id THEN NoId ELSE doc.active)
        /\ new.cued = (IF doc.active = id THEN NoId ELSE doc.cued)
        /\ new = [lists |-> new.lists, active |-> new.active, cued |-> new.cued]
    BY <1>2 DEF DeleteList, k
  <2>3. /\ Listed(ls)
        /\ ToSet(ls) = {doc.lists[m] : m \in DOMAIN doc.lists \ {k}}
        /\ \A i \in DOMAIN ls : \E m \in DOMAIN doc.lists :
              m = (IF i < k THEN i ELSE i + 1) /\ ls[i] = doc.lists[m]
    BY <2>1, ListedRemove DEF DocOK
  <2>4. DOMAIN ls \subseteq Nat /\ DOMAIN doc.lists \subseteq Nat
    BY <2>3, ListedOf DEF Listed, DocOK
  <2> HIDE DEF new, ls
  <2>5. Unique(ls)
    <3> SUFFICES ASSUME NEW i \in DOMAIN ls, NEW j \in DOMAIN ls, ls[i].id = ls[j].id PROVE i = j
      BY DEF Unique
    <3>1. PICK a \in DOMAIN doc.lists : a = (IF i < k THEN i ELSE i + 1) /\ ls[i] = doc.lists[a]
      BY <2>3
    <3>2. PICK b \in DOMAIN doc.lists : b = (IF j < k THEN j ELSE j + 1) /\ ls[j] = doc.lists[b]
      BY <2>3
    <3>3. a = b
      BY <3>1, <3>2 DEF DocOK, Unique
    <3>4. i \in Nat /\ j \in Nat /\ k \in Nat
      BY <2>1, <2>4
    <3> QED
      BY <3>1, <3>2, <3>3, <3>4
  <2>6. \A l \in ToSet(ls) : ListOK(l, n)
    BY <2>3 DEF DocOK, ToSet
  <2>7. DocOK(new, n)
    BY <2>2, <2>3, <2>5, <2>6 DEF DocOK
  <2>8. CASE doc.active = id
    BY <2>2, <2>7, <2>8 DEF Confined, new
  <2>9. CASE doc.active # id /\ HasActive(doc)
    <3> DEFINE a == At(doc.lists, doc.active)
    <3>1. a \in DOMAIN doc.lists /\ doc.lists[a].id = doc.active /\ ActiveEntries(doc) = doc.lists[a].entries
      BY <2>9, ActiveFound
    <3> HIDE DEF a
    <3>2. doc.lists[a] \in ToSet(ls)
      BY <2>1, <2>3, <2>9, <3>1
    <3>3. PICK i \in DOMAIN new.lists : new.lists[i] = doc.lists[a]
      BY <2>2, <3>2 DEF ToSet
    <3>4. new.lists[i].id = new.active /\ new.lists[i].entries = ActiveEntries(doc)
      BY <2>2, <2>9, <3>1, <3>3
    <3>5. HasActive(new) /\ ActiveEntries(new) = ActiveEntries(doc)
      BY <2>7, <3>4, ActiveIs
    <3> QED
      BY <2>2, <2>7, <2>9, <3>5 DEF Confined, new
  <2>10. CASE doc.active # id /\ ~HasActive(doc)
    <3>1. new.active = NoId /\ new.cued = NoId
      BY <2>2, <2>10, CuedHasActive DEF Confined
    <3> QED
      BY <2>7, <3>1 DEF Confined, new
  <2> QED
    BY <2>8, <2>9, <2>10
<1> QED
  BY <1>1, <1>2

LEMMA ReorderListsOK ==
  ASSUME NEW doc, NEW n, DocOK(doc, n), Confined(doc), NEW order, Listed(order)
  PROVE  DocOK(ReorderLists(doc, order), n) /\ Confined(ReorderLists(doc, order))
<1>1. CASE ~Reorders(doc.lists, order)
  BY <1>1 DEF ReorderLists
<1>2. CASE Reorders(doc.lists, order)
  <2> DEFINE ls == Reordered(doc.lists, order)
             new == ReorderLists(doc, order)
  <2>1. /\ new.lists = ls /\ new.active = doc.active /\ new.cued = doc.cued
        /\ new = [lists |-> new.lists, active |-> new.active, cued |-> new.cued]
    BY <1>2 DEF ReorderLists, DocOK
  <2>2. /\ Listed(ls) /\ Unique(ls) /\ ToSet(ls) \subseteq ToSet(doc.lists)
        /\ \A x \in ToSet(doc.lists) : \E y \in ToSet(ls) : y.id = x.id
    BY <1>2, ReorderedElements, ReorderedUnique DEF DocOK
  <2> HIDE DEF ls, new
  <2>3. DocOK(new, n)
    BY <2>1, <2>2 DEF DocOK
  <2>4. CASE HasActive(doc)
    <3> DEFINE a == At(doc.lists, doc.active)
    <3>1. a \in DOMAIN doc.lists /\ doc.lists[a].id = doc.active /\ ActiveEntries(doc) = doc.lists[a].entries
      BY <2>4, ActiveFound
    <3> HIDE DEF a
    <3>2. PICK y \in ToSet(ls) : y.id = doc.active
      BY <2>2, <3>1 DEF ToSet
    <3>3. y = doc.lists[a]
      <4>1. PICK m \in DOMAIN doc.lists : y = doc.lists[m]
        BY <2>2, <3>2 DEF ToSet
      <4> QED
        BY <3>1, <3>2, <4>1 DEF DocOK, Unique
    <3>4. PICK i \in DOMAIN new.lists : new.lists[i] = y
      BY <2>1, <3>2 DEF ToSet
    <3>5. HasActive(new) /\ ActiveEntries(new) = ActiveEntries(doc)
      BY <2>1, <2>3, <3>1, <3>2, <3>3, <3>4, ActiveIs
    <3> QED
      BY <2>1, <2>3, <2>4, <3>5 DEF Confined, new
  <2>5. CASE ~HasActive(doc)
    <3>1. new.active = NoId /\ new.cued = NoId
      BY <2>1, <2>5, CuedHasActive DEF Confined
    <3> QED
      BY <2>3, <3>1 DEF Confined, new
  <2> QED
    BY <2>4, <2>5
<1> QED
  BY <1>1, <1>2

LEMMA SetActiveOK ==
  ASSUME NEW doc, NEW n, DocOK(doc, n), Confined(doc), NEW id
  PROVE  DocOK(SetActive(doc, id), n) /\ Confined(SetActive(doc, id))
<1>1. CASE (id # NoId /\ ~IsOneOf(doc.lists, id)) \/ doc.active = id
  BY <1>1 DEF SetActive
<1>2. CASE ~((id # NoId /\ ~IsOneOf(doc.lists, id)) \/ doc.active = id)
  <2> DEFINE new == SetActive(doc, id)
  <2>1. /\ new.lists = doc.lists /\ new.active = id /\ new.cued = NoId
        /\ new = [lists |-> new.lists, active |-> new.active, cued |-> new.cued]
    BY <1>2 DEF SetActive, DocOK
  <2> HIDE DEF new
  <2>2. DocOK(new, n)
    BY <2>1 DEF DocOK
  <2> QED
    BY <1>2, <2>1, <2>2 DEF Confined, HasActive, new
<1> QED
  BY <1>1, <1>2

LEMMA InsertEntryOK ==
  ASSUME NEW doc, NEW n \in Nat, DocOK(doc, n), HasActive(doc), Confined(doc),
         NEW at \in Nat \ {0}, at <= Len(ActiveEntries(doc)) + 1, NEW scene
  PROVE  /\ DocOK(InsertEntry(doc, at, [id |-> n + 1, scene |-> scene]), n + 1)
         /\ Confined(InsertEntry(doc, at, [id |-> n + 1, scene |-> scene]))
<1> DEFINE e == [id |-> n + 1, scene |-> scene]
           old == ActiveEntries(doc)
           es == InsertAt(old, at, e)
<1>1. EntriesOK(old, n + 1) /\ Listed(old)
  BY ActiveEntriesOK, EntriesGrow DEF EntriesOK
<1>2. Len(old) \in Nat /\ at \in 1 .. Len(old) + 1
  BY <1>1, ListedOf DEF Listed
<1>3. e = [id |-> e.id, scene |-> e.scene] /\ e.id \in 1 .. n + 1
  OBVIOUS
<1> HIDE DEF e, old
<1>4. Listed(es) /\ ToSet(es) = ToSet(old) \cup {e}
  BY <1>1, <1>2, ListedInsert
<1> HIDE DEF es
<1>5. EntriesOK(es, n + 1)
  BY <1>1, <1>3, <1>4 DEF EntriesOK
<1>6. \A d \in ToSet(old) : d.id = doc.cued => \E c \in ToSet(es) : c.id = d.id
  BY <1>4
<1>7. DocOK(doc, n + 1)
  BY DocGrow
<1>8. DocOK(SetEntries(doc, es), n + 1) /\ Confined(SetEntries(doc, es))
  BY <1>5, <1>6, <1>7, EntriesChange DEF old
<1> QED
  BY <1>8 DEF InsertEntry, es, e, old

LEMMA MinOfTwo ==
  ASSUME NEW a \in Nat, NEW b \in Nat
  PROVE  Min({a, b}) \in {a, b} /\ Min({a, b}) <= a /\ Min({a, b}) <= b
<1>1. \E x \in {a, b} : \A y \in {a, b} : x <= y
  OBVIOUS
<1>2. Min({a, b}) \in {a, b} /\ \A y \in {a, b} : Min({a, b}) <= y
  BY <1>1 DEF Min
<1> QED
  BY <1>2

LEMMA AddSceneOK ==
  ASSUME NEW doc, NEW n \in Nat, DocOK(doc, n), Confined(doc), NEW at \in Nat \ {0}, NEW scene
  PROVE  DocOK(AddScene(doc, scene, at, n + 1), n + 1) /\ Confined(AddScene(doc, scene, at, n + 1))
<1>1. CASE ~HasActive(doc)
  BY <1>1, DocGrow DEF AddScene
<1>2. CASE HasActive(doc)
  <2> DEFINE top == Len(ActiveEntries(doc)) + 1
             pos == Min({at, top})
  <2>1. Len(ActiveEntries(doc)) \in Nat
    BY ActiveEntriesOK, ListedOf DEF EntriesOK, Listed
  <2>2. top \in Nat \ {0}
    BY <2>1
  <2> HIDE DEF top
  <2>3. pos \in Nat \ {0} /\ pos <= top
    BY <2>2, MinOfTwo
  <2> HIDE DEF pos
  <2>4. /\ DocOK(InsertEntry(doc, pos, [id |-> n + 1, scene |-> scene]), n + 1)
        /\ Confined(InsertEntry(doc, pos, [id |-> n + 1, scene |-> scene]))
    BY <1>2, <2>3, InsertEntryOK DEF top
  <2> QED
    BY <1>2, <2>4 DEF AddScene, pos, top
<1> QED
  BY <1>1, <1>2

LEMMA InsertCueOK ==
  ASSUME NEW doc, NEW n \in Nat, DocOK(doc, n), Confined(doc),
         NEW command, command.at \in Nat \ {0}
  PROVE  DocOK(InsertCue(doc, command, n + 1), n + 1) /\ Confined(InsertCue(doc, command, n + 1))
<1> DEFINE does == /\ Aimed(command, doc)
                   /\ IdsOf(ActiveEntries(doc)) = command.order
                   /\ command.at <= Len(command.order) + 1
<1>1. CASE ~does
  BY <1>1, DocGrow DEF InsertCue
<1>2. CASE does
  <2> DEFINE old == ActiveEntries(doc)
  <2>1. Len(old) \in Nat /\ DOMAIN old = 1 .. Len(old)
    BY ActiveEntriesOK, ListedOf DEF EntriesOK, Listed
  <2>2. Len(IdsOf(old)) = Len(old)
    BY <2>1 DEF IdsOf
  <2>3. command.at <= Len(old) + 1 /\ HasActive(doc)
    BY <1>2, <2>2 DEF Aimed
  <2>4. /\ DocOK(InsertEntry(doc, command.at, [id |-> n + 1, scene |-> command.scene]), n + 1)
        /\ Confined(InsertEntry(doc, command.at, [id |-> n + 1, scene |-> command.scene]))
    BY <2>3, InsertEntryOK
  <2> QED
    BY <1>2, <2>4 DEF InsertCue
<1> QED
  BY <1>1, <1>2

LEMMA EditEntryOK ==
  ASSUME NEW doc, NEW n, DocOK(doc, n), Confined(doc), NEW command
  PROVE  DocOK(EditEntry(doc, command), n) /\ Confined(EditEntry(doc, command))
<1> DEFINE old == ActiveEntries(doc)
           does == Aimed(command, doc) /\ IsOneOf(old, command.entry)
<1>1. CASE ~does
  BY <1>1 DEF EditEntry
<1>2. CASE does
  <2> DEFINE k == At(old, command.entry)
             es == [old EXCEPT ![k].scene = command.scene]
             e == [old[k] EXCEPT !.scene = command.scene]
  <2>1. k \in DOMAIN old /\ EntriesOK(old, n) /\ HasActive(doc)
    BY <1>2, FoundAt, ActiveEntriesOK DEF Aimed
  <2>2. EditEntry(doc, command) = SetEntries(doc, es)
    BY <1>2 DEF EditEntry
  <2> HIDE DEF k, old
  <2>3. old[k] \in ToSet(old)
    BY <2>1 DEF ToSet
  <2>4. e = [id |-> e.id, scene |-> e.scene] /\ e.id = old[k].id /\ e.id \in 1 .. n
    <3>1. PICK o : o = old[k]
      OBVIOUS
    <3>2. o = [id |-> o.id, scene |-> o.scene] /\ o.id \in 1 .. n
      BY <2>1, <2>3, <3>1 DEF EntriesOK
    <3> QED
      BY <3>1, <3>2
  <2>5. es = [old EXCEPT ![k] = e]
    OBVIOUS
  <2> HIDE DEF e, es
  <2>6. Listed(es) /\ ToSet(es) \subseteq ToSet(old) \cup {e} /\ DOMAIN es = DOMAIN old
    BY <2>1, <2>5, ListedExcept DEF EntriesOK
  <2>7. EntriesOK(es, n)
    BY <2>1, <2>4, <2>6 DEF EntriesOK
  <2>8. ASSUME NEW d \in ToSet(old) PROVE \E c \in ToSet(es) : c.id = d.id
    <3>1. PICK m \in DOMAIN old : d = old[m]
      BY DEF ToSet
    <3>2. es[m] = IF m = k THEN e ELSE old[m]
      BY <2>1, <2>5, <3>1
    <3>3. es[m].id = d.id
      BY <2>4, <3>1, <3>2
    <3> QED
      BY <2>6, <3>3 DEF ToSet
  <2> QED
    BY <2>1, <2>2, <2>7, <2>8, EntriesChange DEF old
<1> QED
  BY <1>1, <1>2

LEMMA RemoveEntryOK ==
  ASSUME NEW doc, NEW n, DocOK(doc, n), Confined(doc), NEW id
  PROVE  DocOK(RemoveEntry(doc, id), n) /\ Confined(RemoveEntry(doc, id))
<1> DEFINE old == ActiveEntries(doc)
<1>1. CASE ~IsOneOf(old, id)
  BY <1>1 DEF RemoveEntry
<1>2. CASE IsOneOf(old, id)
  <2> DEFINE k == At(old, id)
             es == RemoveAt(old, k)
             mid == SetEntries(doc, es)
             new == RemoveEntry(doc, id)
  <2>1. k \in DOMAIN old /\ old[k].id = id /\ EntriesOK(old, n) /\ HasActive(doc)
    <3>1. HasActive(doc)
      BY <1>2 DEF ActiveEntries, IsOneOf
    <3> QED
      BY <1>2, <3>1, FoundAt, ActiveEntriesOK
  <2>2. new = [mid EXCEPT !.cued = IF mid.cued = id THEN NoId ELSE mid.cued]
    BY <1>2 DEF RemoveEntry
  <2> HIDE DEF k
  <2>3. Listed(es) /\ ToSet(es) = {old[m] : m \in DOMAIN old \ {k}}
    BY <2>1, ListedRemove DEF EntriesOK
  <2> HIDE DEF old, es
  <2>4. EntriesOK(es, n)
    BY <2>1, <2>3 DEF EntriesOK, ToSet
  <2>5. /\ DocOK(mid, n) /\ HasActive(mid) /\ ActiveEntries(mid) = es
        /\ mid.active = doc.active /\ mid.cued = doc.cued
    BY <2>1, <2>4, SetEntriesOK
  <2> HIDE DEF mid, new
  <2>6. /\ DocOK(new, n) /\ new.cued = (IF doc.cued = id THEN NoId ELSE doc.cued)
        /\ new.active = mid.active /\ ActiveEntries(new) = es /\ HasActive(new)
    BY <2>2, <2>5, CuedAside
  <2>7. ASSUME new.cued # NoId PROVE IsOneOf(es, new.cued)
    <3>1. new.cued = doc.cued /\ doc.cued # id
      BY <2>6, <2>7
    <3>2. PICK m \in DOMAIN old : old[m].id = doc.cued
      BY <2>7, <3>1, CuedHasActive DEF IsOneOf, old
    <3>3. m # k
      BY <2>1, <3>1, <3>2
    <3> QED
      BY <2>3, <3>1, <3>2, <3>3, OneOfSet
  <2> QED
    BY <2>6, <2>7 DEF Confined, new
<1> QED
  BY <1>1, <1>2

LEMMA ReorderEntriesOK ==
  ASSUME NEW doc, NEW n, DocOK(doc, n), Confined(doc), NEW order, Listed(order)
  PROVE  DocOK(ReorderEntries(doc, order), n) /\ Confined(ReorderEntries(doc, order))
<1> DEFINE old == ActiveEntries(doc)
           does == HasActive(doc) /\ Reorders(old, order)
<1>1. CASE ~does
  BY <1>1 DEF ReorderEntries
<1>2. CASE does
  <2> DEFINE es == Reordered(old, order)
  <2>1. EntriesOK(old, n) /\ HasActive(doc)
    BY <1>2, ActiveEntriesOK
  <2>2. ReorderEntries(doc, order) = SetEntries(doc, es)
    BY <1>2 DEF ReorderEntries
  <2> HIDE DEF old
  <2>3. /\ DOMAIN es = DOMAIN order /\ Listed(es)
        /\ \A k \in DOMAIN order : es[k] \in ToSet(old)
        /\ \A x \in ToSet(old) : \E y \in ToSet(es) : y.id = x.id
    BY <1>2, <2>1, ReorderedElements DEF EntriesOK
  <2> HIDE DEF es
  <2>4. EntriesOK(es, n)
    BY <2>1, <2>3 DEF EntriesOK, ToSet
  <2> QED
    BY <2>1, <2>2, <2>3, <2>4, EntriesChange DEF old
<1> QED
  BY <1>1, <1>2

LEMMA CueEntryOK ==
  ASSUME NEW doc, NEW n, DocOK(doc, n), Confined(doc), NEW id
  PROVE  DocOK(CueEntry(doc, id), n) /\ Confined(CueEntry(doc, id))
<1>1. CASE ~(id = NoId \/ IsOneOf(ActiveEntries(doc), id))
  BY <1>1 DEF CueEntry
<1>2. CASE id = NoId \/ IsOneOf(ActiveEntries(doc), id)
  <2> DEFINE new == CueEntry(doc, id)
  <2>1. new = [doc EXCEPT !.cued = id]
    BY <1>2 DEF CueEntry
  <2> HIDE DEF new
  <2>2. /\ DocOK(new, n) /\ new.cued = id /\ new.active = doc.active
        /\ ActiveEntries(new) = ActiveEntries(doc) /\ (HasActive(new) <=> HasActive(doc))
    BY <2>1, CuedAside
  <2> QED
    BY <1>2, <2>2 DEF Confined, new
<1> QED
  BY <1>1, <1>2

LEMMA AdvanceCueOK ==
  ASSUME NEW doc, NEW n, DocOK(doc, n), Confined(doc)
  PROVE  /\ DocOK(AdvanceCue(doc), n) /\ Confined(AdvanceCue(doc))
         /\ ActiveEntries(AdvanceCue(doc)) = ActiveEntries(doc)
<1> DEFINE es == ActiveEntries(doc)
           next == At(es, doc.cued) + 1
           x == IF next \in DOMAIN es THEN es[next].id ELSE NoId
           new == AdvanceCue(doc)
<1>1. new = [doc EXCEPT !.cued = x]
  BY DEF AdvanceCue
<1>2. x = NoId \/ IsOneOf(es, x)
  <2> HIDE DEF next
  <2> QED
    BY DEF IsOneOf
<1> HIDE DEF x, new, es
<1>3. /\ DocOK(new, n) /\ new.cued = x /\ new.active = doc.active
      /\ ActiveEntries(new) = ActiveEntries(doc) /\ (HasActive(new) <=> HasActive(doc))
  BY <1>1, CuedAside
<1> QED
  BY <1>2, <1>3 DEF Confined, new, es

\* Reconciling confines any document, and leaves a confined one its active list.
LEMMA ReconcileOK ==
  ASSUME NEW doc, NEW n, DocOK(doc, n), NEW sceneIds
  PROVE  /\ DocOK(Reconcile(doc, sceneIds), n) /\ Confined(Reconcile(doc, sceneIds))
         /\ Reconcile(doc, sceneIds).cued \in {doc.cued, NoId}
         /\ Confined(doc) => ActiveEntries(Reconcile(doc, sceneIds)) = ActiveEntries(doc)
<1> DEFINE es == ActiveEntries(doc)
           valid == /\ IsOneOf(es, doc.cued)
                    /\ es[At(es, doc.cued)].scene \in sceneIds
           new == Reconcile(doc, sceneIds)
<1>1. /\ new.lists = doc.lists
      /\ new.active = (IF HasActive(doc) THEN doc.active ELSE NoId)
      /\ new.cued = (IF valid THEN doc.cued ELSE NoId)
      /\ new = [lists |-> new.lists, active |-> new.active, cued |-> new.cued]
  <2> DEFINE a == IF HasActive(doc) THEN doc.active ELSE NoId
             c == IF valid THEN doc.cued ELSE NoId
  <2>1. new = [doc EXCEPT !.active = a, !.cued = c]
    BY Zenon DEF Reconcile
  <2>2. doc = [lists |-> doc.lists, active |-> doc.active, cued |-> doc.cued]
    BY DEF DocOK
  <2> HIDE DEF a, c, new
  <2>3. new = [lists |-> doc.lists, active |-> a, cued |-> c]
    BY <2>1, <2>2
  <2> QED
    BY <2>3 DEF a, c
<1>2. valid => HasActive(doc) /\ IsOneOf(es, doc.cued)
  BY DEF ActiveEntries, IsOneOf
<1>3. HasActive(doc) => HasActive(new) /\ ActiveEntries(new) = es
  BY <1>1 DEF HasActive, ActiveEntries
<1> HIDE DEF new, valid, es
<1>4. DocOK(new, n)
  BY <1>1 DEF DocOK
<1>5. Confined(new)
  BY <1>1, <1>2, <1>3 DEF Confined
<1>6. Confined(doc) => ActiveEntries(new) = ActiveEntries(doc)
  <2>1. CASE HasActive(doc)
    BY <1>3, <2>1 DEF es
  <2>2. CASE ~HasActive(doc) /\ Confined(doc)
    <3>1. new.active = doc.active /\ new.lists = doc.lists
      BY <1>1, <2>2 DEF Confined
    <3> QED
      BY <3>1 DEF ActiveEntries, HasActive
  <2> QED
    BY <2>1, <2>2
<1> QED
  BY <1>1, <1>4, <1>5, <1>6 DEF new

-----------------------------------------------------------------------------
(* Commands on their way                                                   *)

\* What Surviving keeps are commands of the queue.
LEMMA SurvivingListed ==
  ASSUME NEW q, Listed(q)
  PROVE  Listed(Surviving(q)) /\ ToSet(Surviving(q)) \subseteq ToSet(q)
BY KeptIs DEF Surviving, ToSet

CommandKinds == {"create", "deleteList", "reorderLists", "setActive", "add", "edit",
                 "insert", "remove", "reorder", "cue"}
CommandOK(c) ==
    /\ c.kind \in CommandKinds \cup {"go"}
    /\ c.kind \in {"reorderLists", "reorder"} => Listed(c.order)
    /\ c.kind \in {"add", "insert"} => c.at \in Nat \ {0}
CommandsOK(q) == Listed(q) /\ \A c \in ToSet(q) : CommandOK(c)

LEMMA ResultOK ==
  ASSUME NEW doc, NEW n \in Nat, DocOK(doc, n), Confined(doc),
         NEW c, CommandOK(c), c.kind # "go"
  PROVE  /\ DocOK(Result(doc, c, n + 1), IF c.kind \in Inserting THEN n + 1 ELSE n)
         /\ Confined(Result(doc, c, n + 1))
<1>1. CASE c.kind = "create"
  BY <1>1, CreateListOK DEF Result, Inserting
<1>2. CASE c.kind = "deleteList"
  BY <1>2, DeleteListOK DEF Result, Inserting
<1>3. CASE c.kind = "reorderLists"
  BY <1>3, ReorderListsOK DEF Result, Inserting, CommandOK
<1>4. CASE c.kind = "setActive"
  BY <1>4, SetActiveOK DEF Result, Inserting
<1>5. CASE c.kind = "add"
  BY <1>5, AddSceneOK DEF Result, Inserting, CommandOK
<1>6. CASE c.kind = "edit"
  BY <1>6, EditEntryOK DEF Result, Inserting
<1>7. CASE c.kind = "insert"
  BY <1>7, InsertCueOK DEF Result, Inserting, CommandOK
<1>8. CASE c.kind = "remove"
  BY <1>8, RemoveEntryOK DEF Result, Inserting
<1>9. CASE c.kind = "reorder"
  BY <1>9, ReorderEntriesOK DEF Result, Inserting, CommandOK
<1>10. CASE c.kind = "cue"
  BY <1>10, CueEntryOK DEF Result, Inserting
<1> QED
  BY <1>1, <1>2, <1>3, <1>4, <1>5, <1>6, <1>7, <1>8, <1>9, <1>10 DEF CommandOK, CommandKinds

LEMMA OrdersListed ==
  ASSUME NEW s, Listed(s), NEW order \in Orders(IdsOf(s)) PROVE Listed(order)
<1> DEFINE t == IdsOf(s)
<1>1. Len(s) \in Nat /\ DOMAIN t = 1 .. Len(s)
  BY ListedOf DEF Listed, IdsOf
<1> HIDE DEF t
<1>2. order \in [1 .. Len(s) -> ToSet(t)]
  BY <1>1 DEF Orders, t
<1>3. order \in Seq(ToSet(t))
  BY <1>1, <1>2, SeqDef
<1> QED
  BY <1>3, ListedOf

-----------------------------------------------------------------------------
(* A ready library is current                                              *)

\* The last fact queued tells the truth about LV1.
Truthful ==
    facts # <<>> =>
        IF facts[Len(facts)].kind = "list" THEN known /\ facts[Len(facts)].list = desk ELSE ~known
\* A snapshot may be late, but not unless a fact is queued or has been taken since.
RecoveryOK ==
    recovery # None =>
        /\ recovery = [revision |-> recovery.revision, answered |-> recovery.answered,
                       list |-> recovery.list, edition |-> recovery.edition]
        /\ recovery.revision \in Nat /\ recovery.revision <= revision
        /\ recovery.answered /\ recovery.revision = revision /\ recovery.list # None /\ Quiet =>
              known /\ recovery.list = desk
ReadyInv ==
    Listed(facts) /\ revision \in Nat /\ known \in BOOLEAN /\ Truthful /\ ReadyIsCurrent /\ RecoveryOK

LEMMA FactPublished ==
  ASSUME Listed(facts), NEW fact, facts' = Append(facts, fact)
  PROVE  Listed(facts') /\ facts' # <<>> /\ facts'[Len(facts')] = fact
<1>1. facts \in Seq(ToSet(facts)) /\ Len(facts) \in Nat
  BY ListedOf DEF Listed
<1>2. /\ Listed(Append(facts, fact)) /\ Len(Append(facts, fact)) = Len(facts) + 1
      /\ Append(facts, fact)[Len(facts) + 1] = fact
  BY ListedAppend
<1>3. PICK s : s = facts'
  OBVIOUS
<1>4. Listed(s) /\ Len(s) = Len(facts) + 1 /\ s[Len(s)] = fact
  BY <1>2, <1>3
<1>5. s # <<>>
  BY <1>1, <1>4
<1> QED
  BY <1>3, <1>4, <1>5 DEF Listed, ToSet

LEMMA FactTaken ==
  ASSUME Listed(facts), facts # <<>>, facts' = Tail(facts)
  PROVE  /\ Listed(facts')
         /\ facts' # <<>> => facts'[Len(facts')] = facts[Len(facts)]
         /\ facts' = <<>> => Head(facts) = facts[Len(facts)]
<1>1. PICK s : s = facts /\ Listed(s) /\ s # <<>>
  BY DEF Listed, ToSet
<1>2. PICK t : t = Tail(s) /\ t = facts'
  BY <1>1
<1>3. s \in Seq(ToSet(s)) /\ Len(s) \in Nat \ {0} /\ t \in Seq(ToSet(s)) /\ Len(t) = Len(s) - 1
      /\ \A i \in 1 .. Len(t) : t[i] = s[i + 1]
  BY <1>1, <1>2, EmptySeq, HeadTailProperties DEF Listed
<1>4. Listed(t)
  BY <1>3, ListedOf
<1>5. t # <<>> => t[Len(t)] = s[Len(s)]
  <2> SUFFICES ASSUME t # <<>> PROVE t[Len(t)] = s[Len(s)]
    OBVIOUS
  <2>1. Len(t) \in Nat \ {0} /\ Len(t) + 1 = Len(s)
    BY <1>3, EmptySeq
  <2>2. Len(t) \in 1 .. Len(t)
    BY <2>1
  <2> QED
    BY <1>3, <2>1, <2>2
<1>6. t = <<>> => Head(s) = s[Len(s)]
  <2> SUFFICES ASSUME t = <<>> PROVE Head(s) = s[Len(s)]
    OBVIOUS
  <2>1. Len(s) = 1 /\ Head(s) = s[1]
    BY <1>3, EmptySeq
  <2> QED
    BY <2>1
<1>7. Listed(facts')
  BY <1>2, <1>4
<1> QED
  BY <1>1, <1>2, <1>5, <1>6, <1>7

\* Every change of what LV1 knows is announced.
LEMMA ReadyAnnounced ==
  ASSUME ReadyInv, NEW fact, facts' = Append(facts, fact), known' \in BOOLEAN,
         IF fact.kind = "list" THEN known' /\ fact.list = desk' ELSE ~known',
         UNCHANGED <<lagged, trackVars>>
  PROVE  ReadyInv'
<1>1. Listed(facts') /\ facts' # <<>> /\ facts'[Len(facts')] = fact
  BY FactPublished DEF ReadyInv
<1>2. Truthful'
  BY <1>1 DEF Truthful
<1>3. ~Quiet'
  BY <1>1 DEF Quiet
<1>4. RecoveryOK'
  BY <1>3 DEF ReadyInv, RecoveryOK, trackVars
<1>5. Listed(facts)' /\ ReadyIsCurrent' /\ revision' \in Nat
  BY <1>1, <1>3 DEF ReadyInv, ReadyIsCurrent, trackVars, Listed, ToSet
<1> QED
  BY <1>2, <1>4, <1>5 DEF ReadyInv

LEMMA ReadyKept ==
  ASSUME ReadyInv, UNCHANGED <<desk, known, facts, lagged, trackVars>> PROVE ReadyInv'
BY DEF ReadyInv, Truthful, ReadyIsCurrent, RecoveryOK, Quiet, trackVars, Listed, ToSet

LEMMA ReadyConsole ==
  ASSUME ReadyInv, Console PROVE ReadyInv'
<1>1. CASE DeskEdit
  <2>1. CASE known
    <3> DEFINE fact == [kind |-> "list", list |-> desk', edition |-> edition']
    <3>1. facts' = Append(facts, fact) /\ known' /\ known' \in BOOLEAN /\ UNCHANGED <<lagged, trackVars>>
      BY <1>1, <2>1 DEF DeskEdit, Publish, ListFact, ReadyInv
    <3>2. fact.kind = "list" /\ fact.list = desk'
      OBVIOUS
    <3> HIDE DEF fact
    <3> QED
      BY <3>1, <3>2, ReadyAnnounced
  <2>2. CASE ~known
    <3>1. UNCHANGED <<known, facts, lagged, trackVars>>
      BY <1>1, <2>2 DEF DeskEdit
    <3> QED
      BY <2>2, <3>1 DEF ReadyInv, Truthful, ReadyIsCurrent, RecoveryOK, Quiet, trackVars, Listed, ToSet
  <2> QED
    BY <2>1, <2>2
<1>2. CASE Lose
  <2>1. /\ facts' = Append(facts, [kind |-> "gone"]) /\ known' = FALSE
        /\ UNCHANGED <<lagged, trackVars>> /\ [kind |-> "gone"].kind = "gone"
    BY <1>2 DEF Lose, Publish
  <2> QED
    BY <2>1, ReadyAnnounced
<1>3. CASE Reconnect
  BY <1>3, ReadyKept DEF Reconnect
<1>4. CASE Announce
  <2> DEFINE fact == [kind |-> "list", list |-> desk', edition |-> edition']
  <2>1. facts' = Append(facts, fact) /\ known' = TRUE /\ UNCHANGED <<lagged, trackVars>>
    BY <1>4 DEF Announce, Publish, ListFact
  <2>2. fact.kind = "list" /\ fact.list = desk'
    OBVIOUS
  <2> HIDE DEF fact
  <2> QED
    BY <2>1, <2>2, ReadyAnnounced
<1>5. CASE AnswerRecovery
  <2>1. /\ recovery # None /\ UNCHANGED <<desk, known, facts, lagged, status, seen, revision>>
        /\ recovery' = [recovery EXCEPT !.answered = TRUE, !.edition = edition,
                                        !.list = IF known THEN desk ELSE None]
    BY <1>5 DEF AnswerRecovery, lv1Vars
  <2>2. PICK n \in Nat : n = recovery.revision /\ n <= revision
    BY <2>1 DEF ReadyInv, RecoveryOK
  <2>3. recovery' = [revision |-> n, answered |-> TRUE, list |-> IF known THEN desk ELSE None,
                     edition |-> edition]
    BY <2>1, <2>2 DEF ReadyInv, RecoveryOK
  <2>4. RecoveryOK'
    BY <2>1, <2>2, <2>3 DEF RecoveryOK
  <2> QED
    BY <2>1, <2>4 DEF ReadyInv, Truthful, ReadyIsCurrent, Quiet, Listed, ToSet
<1>6. CASE BusLag
  <2>1. /\ facts # <<>> /\ facts' = Tail(facts) /\ lagged' = TRUE
        /\ UNCHANGED <<desk, known, status, seen, revision, recovery>>
    BY <1>6 DEF BusLag, lv1Vars, trackVars
  <2>2. Listed(facts)' /\ Truthful'
    BY <2>1, FactTaken DEF ReadyInv, Truthful, Listed, ToSet
  <2>3. ~Quiet'
    BY <2>1 DEF Quiet
  <2> QED
    BY <2>1, <2>2, <2>3 DEF ReadyInv, ReadyIsCurrent, RecoveryOK
<1> QED
  BY <1>1, <1>2, <1>3, <1>4, <1>5, <1>6 DEF Console

LEMMA ReadyScenes ==
  ASSUME ReadyInv, ReceiveList \/ FinishRecovery \/ ReceiveDisconnected \/ ReceiveLag
  PROVE  ReadyInv'
<1>1. CASE ReceiveList
  <2>1. /\ ~lagged /\ facts # <<>> /\ facts' = Tail(facts) /\ Head(facts).kind = "list"
        /\ revision' = revision + 1 /\ seen' = Head(facts).list /\ status' = "ready"
        /\ UNCHANGED <<desk, known, lagged, recovery>>
    BY <1>1 DEF ReceiveList, Receives, Apply, lv1Vars
  <2>2. Listed(facts)' /\ Truthful'
    BY <2>1, FactTaken DEF ReadyInv, Truthful, Listed, ToSet
  <2>3. ReadyIsCurrent'
    BY <2>1, FactTaken DEF ReadyInv, Truthful, ReadyIsCurrent, Quiet
  <2>4. RecoveryOK'
    <3>1. recovery # None => recovery.revision # revision'
      BY <2>1 DEF ReadyInv, RecoveryOK
    <3> QED
      BY <2>1, <3>1 DEF ReadyInv, RecoveryOK
  <2> QED
    BY <2>1, <2>2, <2>3, <2>4 DEF ReadyInv
<1>2. CASE FinishRecovery
  <2>1. /\ Quiet /\ recovery # None /\ recovery.answered /\ recovery' = None
        /\ UNCHANGED <<desk, known, facts, lagged, revision>>
    BY <1>2 DEF FinishRecovery, lv1Vars
  <2>2. ReadyIsCurrent'
    <3>1. CASE recovery.revision = revision /\ recovery.list # None
      <4>1. seen' = recovery.list /\ status' = "ready"
        BY <1>2, <3>1 DEF FinishRecovery, Apply
      <4>2. known /\ recovery.list = desk
        BY <2>1, <3>1 DEF ReadyInv, RecoveryOK
      <4> QED
        BY <2>1, <4>1, <4>2 DEF ReadyIsCurrent
    <3>2. CASE ~(recovery.revision = revision /\ recovery.list # None)
      BY <1>2, <2>1, <3>2 DEF FinishRecovery, ReadyInv, ReadyIsCurrent, Quiet
    <3> QED
      BY <3>1, <3>2
  <2>3. RecoveryOK'
    BY <2>1 DEF RecoveryOK
  <2> QED
    BY <2>1, <2>2, <2>3 DEF ReadyInv, Truthful, Listed, ToSet
<1>3. CASE ReceiveDisconnected
  <2>1. /\ facts # <<>> /\ facts' = Tail(facts) /\ revision' = revision + 1
        /\ recovery' = None /\ status' = "awaiting" /\ UNCHANGED <<desk, known, lagged>>
    BY <1>3 DEF ReceiveDisconnected, Receives, lv1Vars
  <2>2. Listed(facts)' /\ Truthful'
    BY <2>1, FactTaken DEF ReadyInv, Truthful, Listed, ToSet
  <2> QED
    BY <2>1, <2>2 DEF ReadyInv, ReadyIsCurrent, RecoveryOK
<1>4. CASE ReceiveLag
  <2>1. /\ lagged' = FALSE /\ facts' = <<>> /\ status' = "awaiting"
        /\ recovery' = [revision |-> revision, answered |-> FALSE, list |-> None, edition |-> 0]
        /\ UNCHANGED <<desk, known, revision>>
    BY <1>4 DEF ReceiveLag, lv1Vars
  <2>2. Listed(facts)' /\ Truthful'
    BY <2>1, NoEntries DEF Truthful, EntriesOK, Listed, ToSet
  <2>3. RecoveryOK'
    BY <2>1 DEF ReadyInv, RecoveryOK
  <2> QED
    BY <2>1, <2>2, <2>3 DEF ReadyInv, ReadyIsCurrent
<1> QED
  BY <1>1, <1>2, <1>3, <1>4

LEMMA ReadyStep ==
  ASSUME ReadyInv, [Next]_vars PROVE ReadyInv'
<1>1. CASE ConsoleTurn
  BY <1>1, ReadyConsole DEF ConsoleTurn
<1>2. CASE LibraryTurn
  <2>1. CASE LinkConfig \/ DeleteConfig
    <3>1. UNCHANGED <<desk, known, facts, lagged, trackVars>>
      BY <2>1 DEF LinkConfig, DeleteConfig, lv1Vars
    <3> QED
      BY <3>1, ReadyKept
  <2> QED
    BY <1>2, <2>1, ReadyScenes DEF LibraryTurn
<1>3. CASE SendCommand \/ OpenEditor \/ SendGo \/ TakeCue \/ RecallGo \/ CompleteGo
           \/ SaveSession \/ ReplaceSession \/ UNCHANGED vars
  <2>1. UNCHANGED <<desk, known, facts, lagged, trackVars>>
    BY <1>3 DEF SendCommand, OpenEditor, SendGo, TakeCue, RecallGo, CompleteGo, SaveSession,
                ReplaceSession, vars, libraryVars, lv1Vars
  <2> QED
    BY <2>1, ReadyKept
<1> QED
  BY <1>1, <1>2, <1>3 DEF Next

\* A library that calls itself ready and has heard everything shows the list of the
\* desk it is connected to, however announcements, losses, snapshots and edits
\* interleave.
THEOREM ReadyCorrect == Spec => []ReadyIsCurrent
<1>1. CueInit => ReadyInv
  BY NoEntries DEF CueInit, LibraryInit, ReadyInv, Truthful, ReadyIsCurrent, RecoveryOK, EntriesOK
<1>2. ReadyInv => ReadyIsCurrent
  BY DEF ReadyInv
<1> QED
  BY <1>1, <1>2, ReadyStep, PTL DEF Spec

-----------------------------------------------------------------------------
(* The cue stays in the active list                                        *)

CurrentOK == current = NoId \/ IsOneOf(ActiveEntries(cues), current)
CueInv ==
    /\ cueIds \in Nat /\ DocOK(cues, cueIds) /\ Confined(cues) /\ CurrentOK
    /\ DocOK(saved.cues, cueIds)
    /\ CommandsOK(inbox)
\* As long as the entry of a GO is cued, it stands for the scene that is recalled.
GoInv ==
    /\ go = [entry |-> go.entry, scene |-> go.scene, at |-> go.at, list |-> go.list]
    /\ GoPending => go.entry # NoId
    /\ GoPending /\ cues.cued = go.entry =>
          \E e \in ToSet(ActiveEntries(cues)) : e = [id |-> go.entry, scene |-> go.scene]

LEMMA CueConfinedFollows == CueInv => CueConfined
<1> SUFFICES ASSUME CueInv PROVE CueConfined
  OBVIOUS
<1>1. \A id : IsOneOf(ActiveEntries(cues), id) => id \in EntryIds
  BY DEF IsOneOf, EntryIds, IdsOf, ToSet
<1> QED
  BY <1>1 DEF CueInv, Confined, CurrentOK, CueConfined

LEMMA CueKept ==
  ASSUME CueInv, UNCHANGED <<cues, cueIds, current, saved, inbox>> PROVE CueInv'
BY DEF CueInv, CurrentOK

LEMMA GoKept == ASSUME GoInv, UNCHANGED <<cues, go>> PROVE GoInv'
BY DEF GoInv, GoPending

\* The window sends commands a list or an entry can be found for.
LEMMA CommandsFormed ==
  ASSUME CueInv, NEW c \in Commands \cup InlineCommands PROVE CommandOK(c)
<1>1. Listed(cues.lists) /\ Listed(ActiveEntries(cues)) /\ Len(ActiveEntries(cues)) \in Nat
  BY ActiveEntriesOK, ListedOf DEF CueInv, DocOK, EntriesOK, Listed
<1>2. CASE c \in Plain("create") \cup WithId("deleteList", ListIds)
             \cup WithId("setActive", ListIds \cup {NoId})
             \cup WithId("remove", EntryIds) \cup WithId("cue", EntryIds \cup {NoId})
  BY <1>2 DEF Plain, WithId, CommandOK, CommandKinds
<1>3. CASE c \in [kind : {"reorderLists"}, order : Orders(IdsOf(cues.lists))]
  BY <1>1, <1>3, OrdersListed DEF CommandOK, CommandKinds
<1>4. CASE c \in [kind : {"reorder"}, order : Orders(IdsOf(ActiveEntries(cues)))]
  BY <1>1, <1>4, OrdersListed DEF CommandOK, CommandKinds
<1>5. CASE c \in [kind : {"add"}, scene : SceneIds, at : 1 .. Len(ActiveEntries(cues)) + 1]
  BY <1>1, <1>5 DEF CommandOK, CommandKinds
<1>6. CASE c \in [kind : {"edit"}, session : {editor.session}, list : {editor.list},
                  entry : {editor.entry}, scene : SceneIds]
  BY <1>6 DEF CommandOK, CommandKinds
<1>7. CASE c \in [kind : {"insert"}, session : {editor.session}, list : {editor.list},
                  scene : SceneIds, at : 1 .. Len(ActiveEntries(cues)) + 1,
                  order : {IdsOf(ActiveEntries(cues))}]
  BY <1>1, <1>7 DEF CommandOK, CommandKinds
<1> QED
  BY <1>2, <1>3, <1>4, <1>5, <1>6, <1>7 DEF Commands, InlineCommands

LEMMA CueSend ==
  ASSUME CueInv, NEW c, CommandOK(c), SendTo(c), UNCHANGED <<cues, cueIds, current, saved>>
  PROVE  CueInv'
<1>1. Listed(Append(inbox, c)) /\ ToSet(Append(inbox, c)) = ToSet(inbox) \cup {c}
  BY ListedAppend DEF CueInv, CommandsOK
<1>2. CommandsOK(Append(inbox, c))
  BY <1>1 DEF CueInv, CommandsOK
<1>3. CommandsOK(inbox)'
  BY <1>2 DEF SendTo
<1> QED
  BY <1>3 DEF CueInv, CurrentOK

LEMMA CueSends ==
  ASSUME CueInv, GoInv, SendCommand \/ SendGo PROVE CueInv' /\ GoInv'
<1>1. UNCHANGED <<cues, cueIds, current, go, saved>>
  BY DEF SendCommand, SendGo
<1>2. CASE SendCommand
  <2>1. PICK c \in Commands \cup InlineCommands : SendTo(c)
    BY <1>2 DEF SendCommand
  <2> QED
    BY <1>1, <2>1, CommandsFormed, CueSend, GoKept
<1>3. CASE SendGo
  <2>1. CommandOK([kind |-> "go"]) /\ SendTo([kind |-> "go"])
    BY <1>3 DEF SendGo, CommandOK
  <2> QED
    BY <1>1, <2>1, CueSend, GoKept
<1> QED
  BY <1>2, <1>3

LEMMA CueDispatch ==
  ASSUME CueInv, NEW c, CommandOK(c), c.kind # "go", Dispatch(c), CommandsOK(inbox)', UNCHANGED saved
  PROVE  CueInv'
<1> DEFINE doc == Result(cues, c, cueIds + 1)
<1>1. /\ cues' = doc
      /\ cueIds' = IF c.kind \in Inserting /\ doc # cues THEN cueIds + 1 ELSE cueIds
      /\ current' = IF IsOneOf(ActiveEntries(doc), current) THEN current ELSE NoId
  BY DEF Dispatch
<1>2. /\ DocOK(doc, IF c.kind \in Inserting THEN cueIds + 1 ELSE cueIds)
      /\ Confined(doc)
  BY ResultOK DEF CueInv
<1> HIDE DEF doc
<1>3. PICK n \in Nat : n = cueIds' /\ (n = cueIds \/ n = cueIds + 1)
  BY <1>1 DEF CueInv
<1>4. DocOK(doc, n)
  BY <1>1, <1>2, <1>3 DEF CueInv
<1>5. DocOK(saved.cues, n)
  BY <1>3, DocGrow DEF CueInv
<1> QED
  BY <1>1, <1>2, <1>3, <1>4, <1>5 DEF CueInv, CurrentOK

LEMMA CueTake ==
  ASSUME CueInv, GoInv, TakeCue PROVE CueInv' /\ GoInv'
<1>1. inbox # <<>> /\ inbox' = Tail(inbox) /\ ~GoPending /\ UNCHANGED saved
  BY DEF TakeCue
<1>2. CommandsOK(inbox') /\ CommandOK(Head(inbox))
  <2>1. Listed(Tail(inbox)) /\ ToSet(Tail(inbox)) \subseteq ToSet(inbox) /\ Head(inbox) \in ToSet(inbox)
    BY <1>1, ListedTail DEF CueInv, CommandsOK
  <2> QED
    BY <1>1, <2>1 DEF CueInv, CommandsOK
<1>3. CASE Head(inbox).kind = "go"
  <2>1. BeginRecall /\ UNCHANGED <<cues, cueIds, current>>
    BY <1>3 DEF TakeCue
  <2>2. CueInv'
    BY <1>1, <1>2, <2>1 DEF CueInv, CurrentOK
  <2> DEFINE es == ActiveEntries(cues)
  <2>3. CASE ~IsOneOf(es, cues.cued)
    BY <2>1, <2>2, <2>3, GoKept DEF BeginRecall
  <2>4. CASE IsOneOf(es, cues.cued)
    <3> DEFINE e == es[At(es, cues.cued)]
    <3>1. e \in ToSet(es) /\ e.id = cues.cued
      BY <2>4, FoundAt DEF ToSet
    <3>2. e = [id |-> e.id, scene |-> e.scene] /\ e.id # NoId
      BY <3>1, ActiveEntriesOK DEF CueInv, EntriesOK, NoId
    <3>3. go' = [entry |-> cues.cued, scene |-> e.scene,
                 at |-> IF status = "ready" THEN "admission" ELSE "failed", list |-> None]
      BY <2>1, <2>4 DEF BeginRecall
    <3> HIDE DEF e, es
    <3>4. /\ go' = [entry |-> go'.entry, scene |-> go'.scene, at |-> go'.at, list |-> go'.list]
          /\ go'.entry = e.id /\ go'.scene = e.scene
      BY <3>1, <3>3
    <3>5. e \in ToSet(ActiveEntries(cues')) /\ e = [id |-> go'.entry, scene |-> go'.scene]
      BY <2>1, <3>1, <3>2, <3>4 DEF es
    <3>6. GoInv'
      BY <3>2, <3>4, <3>5 DEF GoInv
    <3> QED
      BY <2>2, <3>6
  <2> QED
    BY <2>3, <2>4
<1>4. CASE Head(inbox).kind # "go"
  <2>1. Dispatch(Head(inbox)) /\ UNCHANGED go
    BY <1>4 DEF TakeCue
  <2>2. CueInv'
    BY <1>1, <1>2, <1>4, <2>1, CueDispatch
  <2>3. GoInv'
    BY <1>1, <2>1 DEF GoInv, GoPending
  <2> QED
    BY <2>2, <2>3
<1> QED
  BY <1>3, <1>4

\* While a GO is under way its entry and scene do not change.
LEMMA CueRecall ==
  ASSUME CueInv, GoInv, RecallGo PROVE CueInv' /\ GoInv' /\ GoPending /\ GoPending'
<1>1. UNCHANGED <<cues, cueIds, current, saved, inbox>>
  BY DEF RecallGo
<1>2. \E at, list : go' = [go EXCEPT !.at = at, !.list = list] /\ at # "idle"
  <2>1. ASSUME NEW from, NEW to, GoStage(from, to), to # "idle"
        PROVE \E at, list : go' = [go EXCEPT !.at = at, !.list = list] /\ at # "idle"
    <3>1. PICK at \in {to, "failed"} : go' = [go EXCEPT !.at = at]
      BY <2>1 DEF GoStage
    <3>2. [go EXCEPT !.at = at] = [go EXCEPT !.at = at, !.list = go.list]
      BY DEF GoInv
    <3> QED
      BY <2>1, <3>1, <3>2
  <2>2. CASE TakeSnapshot
    <3> DEFINE l == IF known THEN desk ELSE None
    <3>1. go' = [go EXCEPT !.at = "snapshot", !.list = l] /\ "snapshot" # "idle"
      BY <2>2 DEF TakeSnapshot
    <3> HIDE DEF l
    <3> QED
      BY <3>1
  <2>3. ASSUME NEW at, at # "idle", go' = [go EXCEPT !.at = at, !.list = None]
        PROVE \E a, list : go' = [go EXCEPT !.at = a, !.list = list] /\ a # "idle"
    BY <2>3
  <2>4. \/ GoStage("admission", "queued") \/ GoStage("queued", "failed") \/ TakeSnapshot
        \/ go' = [go EXCEPT !.at = "dispatch", !.list = None]
        \/ go' = [go EXCEPT !.at = "failed", !.list = None]
        \/ GoStage("dispatch", "accepted")
    BY DEF RecallGo
  <2> QED
    BY <2>1, <2>2, <2>3, <2>4
<1>3. PICK at, list : go' = [go EXCEPT !.at = at, !.list = list] /\ at # "idle"
  BY <1>2
<1>4. go' = [entry |-> go.entry, scene |-> go.scene, at |-> at, list |-> list]
  BY <1>3 DEF GoInv
<1>5. GoPending
  BY DEF RecallGo, GoStage, TakeSnapshot, GoPending
<1>6. GoInv' /\ GoPending'
  BY <1>1, <1>3, <1>4, <1>5 DEF GoInv, GoPending
<1> QED
  BY <1>1, <1>5, <1>6, CueKept

LEMMA CueComplete ==
  ASSUME CueInv, GoInv, CompleteGo PROVE CueInv' /\ GoInv'
<1>1. go' = Idle /\ UNCHANGED <<cueIds, saved, inbox>>
  BY DEF CompleteGo
<1>2. GoInv'
  BY <1>1 DEF GoInv, GoPending, Idle
<1>3. CASE go.at = "accepted" /\ cues.cued = go.entry
  <2>1. cues' = AdvanceCue(cues) /\ current' = cues.cued
    BY <1>3 DEF CompleteGo
  <2>2. /\ DocOK(AdvanceCue(cues), cueIds) /\ Confined(AdvanceCue(cues))
        /\ ActiveEntries(AdvanceCue(cues)) = ActiveEntries(cues)
    BY AdvanceCueOK DEF CueInv
  <2>3. CurrentOK'
    BY <2>1, <2>2 DEF CueInv, Confined, CurrentOK
  <2> QED
    BY <1>1, <1>2, <2>1, <2>2, <2>3 DEF CueInv
<1>4. CASE ~(go.at = "accepted" /\ cues.cued = go.entry)
  BY <1>1, <1>2, <1>4, CueKept DEF CompleteGo
<1> QED
  BY <1>3, <1>4

LEMMA CueReconcile ==
  ASSUME CueInv, GoInv, ReconcileTurn, go' \in {go, [go EXCEPT !.at = "failed", !.list = None]},
         go' # go => GoPending, UNCHANGED <<cueIds, saved, inbox>>
  PROVE  CueInv' /\ GoInv'
<1> DEFINE doc == Reconcile(cues, ToSet(IdsOf(configs')))
<1>1. /\ DocOK(doc, cueIds) /\ Confined(doc) /\ doc.cued \in {cues.cued, NoId}
      /\ ActiveEntries(doc) = ActiveEntries(cues)
  BY ReconcileOK DEF CueInv
<1>2. \/ UNCHANGED <<cues, current>>
      \/ cues' = doc /\ current' = IF IsOneOf(ActiveEntries(doc), current) THEN current ELSE NoId
  BY DEF ReconcileTurn
<1> HIDE DEF doc
<1>3. CueInv'
  <2>1. CASE UNCHANGED <<cues, current>>
    BY <2>1, CueKept
  <2>2. CASE cues' = doc /\ current' = IF IsOneOf(ActiveEntries(doc), current) THEN current ELSE NoId
    BY <1>1, <2>2 DEF CueInv, CurrentOK
  <2> QED
    BY <1>2, <2>1, <2>2
<1>4. /\ go' = [entry |-> go'.entry, scene |-> go'.scene, at |-> go'.at, list |-> go'.list]
      /\ go'.entry = go.entry /\ go'.scene = go.scene /\ (GoPending' => GoPending)
  BY DEF GoInv, GoPending
<1>5. cues'.cued \in {cues.cued, NoId} /\ ActiveEntries(cues') = ActiveEntries(cues)
  BY <1>1, <1>2
<1>6. GoInv'
  BY <1>4, <1>5 DEF GoInv
<1> QED
  BY <1>3, <1>6

LEMMA CueLibrary ==
  ASSUME CueInv, GoInv, LibraryTurn PROVE CueInv' /\ GoInv' /\ (GoPending => GoPending')
<1>1. ReconcileTurn /\ UNCHANGED <<cueIds, saved, inbox>>
  BY DEF LibraryTurn
<1>2. \/ UNCHANGED go
      \/ GoPending /\ go' = [go EXCEPT !.at = "failed", !.list = None]
  BY DEF LibraryTurn, CancelGo, GoPending
<1>3. GoPending => GoPending'
  BY <1>2 DEF GoInv, GoPending
<1> QED
  BY <1>1, <1>2, <1>3, CueReconcile

LEMMA CueReplace ==
  ASSUME CueInv, GoInv, ReplaceSession PROVE CueInv' /\ GoInv'
<1>1. /\ current' = NoId /\ go' = Idle /\ inbox' = Surviving(inbox) /\ UNCHANGED <<cueIds, saved>>
      /\ cues' = Reconcile(saved.cues, ToSet(IdsOf(configs')))
  BY DEF ReplaceSession
<1>2. GoInv'
  BY <1>1 DEF GoInv, GoPending, Idle
<1>3. CommandsOK(inbox')
  BY <1>1, SurvivingListed DEF CueInv, CommandsOK
<1>4. DocOK(cues', cueIds) /\ Confined(cues')
  BY <1>1, ReconcileOK DEF CueInv
<1> QED
  BY <1>1, <1>2, <1>3, <1>4 DEF CueInv, CurrentOK

LEMMA CueStep ==
  ASSUME CueInv, GoInv, [Next]_vars PROVE CueInv' /\ GoInv'
<1>1. CASE ConsoleTurn
  BY <1>1, CueKept, GoKept DEF ConsoleTurn, cueVars
<1>2. CASE SendCommand \/ SendGo
  BY <1>2, CueSends
<1>3. CASE OpenEditor
  BY <1>3, CueKept, GoKept DEF OpenEditor
<1>4. CASE SaveSession
  <2>1. saved'.cues = cues /\ UNCHANGED <<cues, cueIds, current, inbox, go>>
    BY <1>4 DEF SaveSession
  <2> QED
    BY <2>1, GoKept DEF CueInv, CurrentOK
<1>5. CASE UNCHANGED vars
  BY <1>5, CueKept, GoKept DEF vars, cueVars
<1> QED
  BY <1>1, <1>2, <1>3, <1>4, <1>5, CueLibrary, CueTake, CueRecall, CueComplete, CueReplace DEF Next

LEMMA CueInitially == CueInit => CueInv /\ GoInv /\ session \in Nat
<1> SUFFICES ASSUME CueInit PROVE CueInv /\ GoInv /\ session \in Nat
  OBVIOUS
<1> DEFINE es == [i \in DOMAIN configs |-> [id |-> 1 + i, scene |-> configs[i].id]]
           n == 1 + Len(configs)
           l == [id |-> 1, entries |-> es]
<1>1. PICK s \in Scenarios : desk = s.desk /\ configs = [i \in DOMAIN desk |-> Default(i, desk, i)]
  BY DEF CueInit, LibraryInit
<1>2. Len(desk) \in Nat \ {0} /\ DOMAIN desk = 1 .. Len(desk)
  BY <1>1, LibraryAssumption
<1>3. PICK m \in Nat \ {0} : m = Len(desk)
  BY <1>2
<1>4. DOMAIN configs = 1 .. m /\ Len(configs) = m
  BY <1>1, <1>2, <1>3
<1>5. /\ cues = [lists |-> <<l>>, active |-> 1, cued |-> 2] /\ cueIds = n /\ current = NoId
      /\ go = Idle /\ inbox = <<>> /\ session = 0 /\ saved.cues = cues
  BY DEF CueInit
<1>6. EntriesOK(es, n)
  <2>1. es \in Seq(ToSet(es))
    BY <1>4 DEF ToSet
  <2>2. ASSUME NEW e \in ToSet(es) PROVE e = [id |-> e.id, scene |-> e.scene] /\ e.id \in 1 .. n
    <3>1. PICK i \in 1 .. m : e = [id |-> 1 + i, scene |-> configs[i].id]
      BY <1>4 DEF ToSet
    <3>2. 1 + i \in 1 .. 1 + m
      BY <1>3
    <3> QED
      BY <1>4, <3>1, <3>2
  <2> QED
    BY <2>1, <2>2 DEF EntriesOK, Listed
<1>7. es[1].id = 2 /\ 1 \in DOMAIN es
  <2>1. 1 \in 1 .. m
    BY <1>3
  <2> QED
    BY <1>4, <2>1
<1>8. n \in Nat /\ 1 \in 1 .. n
  BY <1>3, <1>4
<1> HIDE DEF es, n
<1>9. ListOK(l, n)
  BY <1>6, <1>8 DEF ListOK
<1>10. /\ cues.lists = <<l>> /\ cues.active = 1 /\ cues.cued = 2 /\ l.id = 1 /\ l.entries = es
       /\ DOMAIN cues.lists = {1} /\ cues.lists[1] = l
  BY <1>5
<1> HIDE DEF l
<1>11. DocOK(cues, n)
  <2>1. Listed(cues.lists) /\ ToSet(cues.lists) = {l}
    BY <1>10 DEF Listed, ToSet
  <2>2. cues = [lists |-> cues.lists, active |-> cues.active, cued |-> cues.cued]
    BY <1>5
  <2>3. Unique(cues.lists)
    BY <1>10 DEF Unique
  <2> QED
    BY <1>9, <2>1, <2>2, <2>3 DEF DocOK
<1>12. HasActive(cues) /\ ActiveEntries(cues) = es
  BY <1>10, <1>11, ActiveIs
<1>13. Confined(cues)
  BY <1>7, <1>10, <1>12 DEF Confined, IsOneOf
<1>14. CommandsOK(inbox)
  <2>1. Listed(<<>>) /\ ToSet(<<>>) = {}
    BY EmptySeq DEF Listed, ToSet
  <2> QED
    BY <1>5, <2>1 DEF CommandsOK
<1>15. GoInv
  BY <1>5 DEF GoInv, GoPending, Idle
<1> QED
  BY <1>5, <1>8, <1>11, <1>13, <1>14, <1>15 DEF CueInv, CurrentOK

LEMMA SessionCounts == ASSUME session \in Nat, [Next]_vars PROVE session' \in Nat
BY DEF Next, ConsoleTurn, LibraryTurn, SendCommand, OpenEditor, SendGo, TakeCue, RecallGo,
       CompleteGo, SaveSession, ReplaceSession, vars, cueVars

\* Whatever is edited, deleted, reconciled, saved or replaced, in any order and with
\* commands queued across a replacement, the active list exists, and the cued and
\* the current entry are entries of it.
THEOREM ConfinedCorrect == Spec => []CueConfined
<1>1. Spec => [](CueInv /\ GoInv)
  BY CueInitially, CueStep, PTL DEF Spec
<1> QED
  BY <1>1, CueConfinedFollows, PTL

\* A GO ends in the step that answers it, and nothing else ends one within a session.
LEMMA GoEnds ==
  ASSUME CueInv, GoInv, session \in Nat, [Next]_vars,
         go.at # "idle", go'.at = "idle", session' = session
  PROVE  CompleteGo
<1>1. CASE TakeCue
  BY <1>1 DEF TakeCue, GoPending
<1>2. CASE RecallGo
  BY <1>2, CueRecall DEF GoPending
<1>3. CASE LibraryTurn
  BY <1>3, CueLibrary DEF GoPending
<1>4. CASE ReplaceSession
  BY <1>4 DEF ReplaceSession
<1>5. CASE ConsoleTurn \/ SendCommand \/ OpenEditor \/ SendGo \/ SaveSession \/ UNCHANGED vars
  BY <1>5 DEF ConsoleTurn, SendCommand, OpenEditor, SendGo, SaveSession, vars, cueVars
<1> QED
  BY <1>1, <1>2, <1>3, <1>4, <1>5 DEF Next

\* A GO is answered with success only if the entry it recalled is still cued and
\* still stands for the scene LV1 was made to recall; any other answer leaves the
\* cue and the current entry alone.  Only a session replacement may end it otherwise.
THEOREM GoCorrect == Spec => GoTruth
<1> DEFINE GoStep ==
             go.at # "idle" /\ go'.at = "idle" /\ session' = session =>
                IF answer' = "ok"
                THEN \E k \in DOMAIN ActiveEntries(cues) :
                        /\ ActiveEntries(cues)[k] = [id |-> go.entry, scene |-> go.scene]
                        /\ cues.cued = go.entry /\ current' = go.entry
                ELSE UNCHANGED <<cues, current>>
<1>1. ASSUME CueInv, GoInv, session \in Nat, [Next]_vars PROVE GoStep
  <2> SUFFICES ASSUME go.at # "idle", go'.at = "idle", session' = session PROVE GoStep
    OBVIOUS
  <2>1. CompleteGo
    BY <1>1, GoEnds
  <2>2. CASE go.at = "accepted" /\ cues.cued = go.entry
    <3>1. PICK e \in ToSet(ActiveEntries(cues)) : e = [id |-> go.entry, scene |-> go.scene]
      BY <1>1, <2>2 DEF GoInv, GoPending
    <3>2. PICK k \in DOMAIN ActiveEntries(cues) :
             ActiveEntries(cues)[k] = [id |-> go.entry, scene |-> go.scene]
      BY <3>1 DEF ToSet
    <3>3. answer' = "ok" /\ current' = go.entry
      BY <2>1, <2>2 DEF CompleteGo
    <3> QED
      BY <2>2, <3>2, <3>3
  <2>3. CASE ~(go.at = "accepted" /\ cues.cued = go.entry)
    BY <2>1, <2>3 DEF CompleteGo
  <2> QED
    BY <2>2, <2>3
<1>2. CueInit => CueInv /\ GoInv /\ session \in Nat
  BY CueInitially
<1>3. (CueInv /\ GoInv /\ session \in Nat) /\ [Next]_vars => (CueInv /\ GoInv /\ session \in Nat)'
  BY CueStep, SessionCounts
<1>4. (CueInv /\ GoInv /\ session \in Nat) /\ [Next]_vars => [GoStep]_vars
  BY <1>1
<1> QED
  BY <1>2, <1>3, <1>4, PTL DEF Spec, GoTruth

-----------------------------------------------------------------------------
(* From one list of the desk to the next                                   *)

Entries == [scene : Nat, name : Names]
Lists == Seq(Entries)

\* For every scene of the new list the position it had in the old one, 0 if none.
Origin(g, old, new) ==
    /\ g \in [DOMAIN new -> {0} \cup DOMAIN old]
    /\ \A i, j \in DOMAIN new : g[i] = g[j] /\ g[i] # 0 => i = j
    /\ \A i \in DOMAIN new : g[i] # 0 => new[i].scene = old[g[i]].scene
\* Scenes were moved, inserted or removed and took their names along.
Carried(g, old, new) ==
    /\ \A i \in DOMAIN new : g[i] # 0 => new[i].name = old[g[i]].name
    /\ (\E i \in DOMAIN new : g[i] = 0) =>
          Len(new) # Len(old) /\ \A p \in DOMAIN old : \E i \in DOMAIN new : g[i] = p
\* One scene has another name.
Renamed(g, old, new) ==
    /\ Len(new) = Len(old) /\ \A i \in DOMAIN new : g[i] = i
    /\ \E j \in DOMAIN new : /\ new[j].name # old[j].name
                             /\ \A i \in DOMAIN new : i # j => new[i].name = old[i].name
Follows(old, new) == \E g : Origin(g, old, new) /\ (Carried(g, old, new) \/ Renamed(g, old, new))

LEMMA FollowsSelf == ASSUME NEW list \in Lists PROVE Follows(list, list)
<1> DEFINE g == [i \in DOMAIN list |-> i]
<1>1. DOMAIN list = 1 .. Len(list) /\ Len(list) \in Nat
  BY LenProperties DEF Lists
<1>2. Origin(g, list, list)
  BY DEF Origin
<1>3. \A i \in DOMAIN list : i # 0
  BY <1>1
<1>4. Carried(g, list, list)
  BY <1>3 DEF Carried
<1> QED
  BY <1>2, <1>4 DEF Follows

LEMMA InsertFollows ==
  ASSUME NEW s \in Lists, NEW e \in Entries, NEW i \in 1 .. Len(s) + 1
  PROVE  InsertAt(s, i, e) \in Lists /\ Follows(s, InsertAt(s, i, e))
<1> DEFINE r == InsertAt(s, i, e)
           n == Len(s)
           g == [k \in 1 .. n + 1 |-> IF k < i THEN k ELSE IF k = i THEN 0 ELSE k - 1]
<1>1. /\ r \in Lists /\ Len(r) = n + 1 /\ n \in Nat
      /\ \A k \in 1 .. n + 1 : r[k] = IF k < i THEN s[k] ELSE IF k = i THEN e ELSE s[k - 1]
  <2>1. s \in Seq(Entries)
    BY DEF Lists
  <2>2. Len(s) \in Nat
    BY <2>1, LenProperties
  <2>3. /\ r \in Seq(Entries) /\ Len(r) = n + 1
        /\ \A k \in 1 .. n + 1 : r[k] = IF k < i THEN s[k] ELSE IF k = i THEN e ELSE s[k - 1]
    BY <2>1, InsertedElements
  <2> QED
    BY <2>2, <2>3 DEF Lists
<1>2. DOMAIN s = 1 .. n /\ DOMAIN r = 1 .. n + 1
  BY <1>1, LenProperties DEF Lists
<1>3. i \in 1 .. n + 1
  OBVIOUS
<1> HIDE DEF r, n
<1>4. \A k \in 1 .. n + 1 : /\ k < i => g[k] = k /\ r[k] = s[k] /\ k \in 1 .. n
                            /\ k = i => g[k] = 0
                            /\ k > i => g[k] = k - 1 /\ r[k] = s[k - 1] /\ k - 1 \in 1 .. n
  BY <1>1, <1>3
<1>5. \A k \in 1 .. n + 1 : k < i \/ k = i \/ k > i
  BY <1>1, <1>3
<1> HIDE DEF g
<1>6. \A k \in 1 .. n + 1 : /\ g[k] \in {0} \cup 1 .. n /\ (g[k] = 0 <=> k = i)
                            /\ g[k] # 0 => r[k] = s[g[k]]
  BY <1>1, <1>3, <1>4, <1>5
<1>7. \A j, k \in 1 .. n + 1 : g[j] = g[k] /\ g[j] # 0 => j = k
  <2>1. ASSUME NEW j \in 1 .. n + 1, NEW k \in 1 .. n + 1, j < k, g[j] = g[k] PROVE g[j] = 0
    <3>1. j \in Nat /\ k \in Nat /\ i \in Nat
      BY <1>1, <1>3
    <3>2. k < i \/ k = i \/ (j < i /\ k > i) \/ j = i \/ j > i
      BY <3>1
    <3>3. (j < i => g[j] = j) /\ (j > i => g[j] = j - 1) /\ (j = i => g[j] = 0)
      BY <1>4
    <3>4. (k < i => g[k] = k) /\ (k > i => g[k] = k - 1) /\ (k = i => g[k] = 0)
      BY <1>4
    <3> QED
      BY <2>1, <3>1, <3>2, <3>3, <3>4
  <2> QED
    BY <1>1, <2>1
<1>8. g \in [1 .. n + 1 -> {0} \cup 1 .. n]
  BY <1>6 DEF g
<1>9. Origin(g, s, r)
  BY <1>2, <1>6, <1>7, <1>8 DEF Origin
<1>10. ASSUME NEW p \in 1 .. n PROVE \E k \in 1 .. n + 1 : g[k] = p
  <2>1. CASE p < i
    <3>1. p \in 1 .. n + 1
      BY <1>1
    <3> QED
      BY <1>4, <2>1, <3>1
  <2>2. CASE p >= i
    <3>1. p + 1 \in 1 .. n + 1 /\ p + 1 > i /\ p + 1 - 1 = p
      BY <1>1, <1>3, <2>2
    <3> QED
      BY <1>4, <3>1
  <2> QED
    BY <1>1, <1>3, <2>1, <2>2
<1>11. Len(r) # Len(s)
  BY <1>1 DEF n
<1>12. Carried(g, s, r)
  BY <1>2, <1>6, <1>10, <1>11 DEF Carried
<1> QED
  BY <1>1, <1>9, <1>12 DEF Follows, r

LEMMA RemoveFollows ==
  ASSUME NEW s \in Lists, NEW i \in DOMAIN s
  PROVE  RemoveAt(s, i) \in Lists /\ Follows(s, RemoveAt(s, i))
<1> DEFINE r == RemoveAt(s, i)
           n == Len(s)
           g == [k \in 1 .. n - 1 |-> IF k < i THEN k ELSE k + 1]
<1>1. DOMAIN s = 1 .. n /\ n \in Nat /\ i \in 1 .. n
  BY LenProperties DEF Lists
<1>2. /\ r \in Lists /\ Len(r) = n - 1
      /\ \A k \in 1 .. n - 1 : r[k] = IF k < i THEN s[k] ELSE s[k + 1]
  BY <1>1, RemovedElements DEF Lists
<1>3. DOMAIN r = 1 .. n - 1
  BY <1>2, LenProperties DEF Lists
<1> HIDE DEF r, n
<1>4. \A k \in 1 .. n - 1 : /\ g[k] = IF k < i THEN k ELSE k + 1
                            /\ g[k] \in 1 .. n /\ g[k] # 0 /\ r[k] = s[g[k]]
  BY <1>1, <1>2
<1>5. g \in [1 .. n - 1 -> {0} \cup 1 .. n]
  BY <1>4
<1> HIDE DEF g
<1>6. \A j, k \in 1 .. n - 1 : g[j] = g[k] => j = k
  BY <1>1, <1>4
<1>7. Origin(g, s, r)
  BY <1>1, <1>3, <1>4, <1>5, <1>6 DEF Origin
<1>8. Carried(g, s, r)
  BY <1>1, <1>3, <1>4 DEF Carried
<1> QED
  BY <1>2, <1>7, <1>8 DEF Follows, r

LEMMA ListInsert ==
  ASSUME NEW q \in Lists, NEW e \in Entries, NEW j \in 1 .. Len(q) + 1
  PROVE  /\ InsertAt(q, j, e) \in Lists /\ Len(InsertAt(q, j, e)) = Len(q) + 1
         /\ \A k \in 1 .. Len(q) + 1 :
               InsertAt(q, j, e)[k] = IF k < j THEN q[k] ELSE IF k = j THEN e ELSE q[k - 1]
BY InsertedElements DEF Lists

LEMMA MoveFollows ==
  ASSUME NEW s \in Lists, NEW i \in 1 .. Len(s), NEW j \in 1 .. Len(s)
  PROVE  /\ InsertAt(RemoveAt(s, i), j, s[i]) \in Lists
         /\ Follows(s, InsertAt(RemoveAt(s, i), j, s[i]))
<1> DEFINE r == RemoveAt(s, i)
           t == InsertAt(r, j, s[i])
           n == Len(s)
           g == [k \in 1 .. n |-> IF k = j THEN i ELSE IF k < j THEN (IF k < i THEN k ELSE k + 1)
                                  ELSE (IF k - 1 < i THEN k - 1 ELSE k)]
<1>1. DOMAIN s = 1 .. n /\ n \in Nat /\ i \in 1 .. n /\ j \in 1 .. n
      /\ s[i] \in Entries
  BY LenProperties, ElementOfSeq DEF Lists
<1>2. /\ r \in Lists /\ Len(r) = n - 1
      /\ \A k \in 1 .. n - 1 : r[k] = IF k < i THEN s[k] ELSE s[k + 1]
  BY <1>1, RemovedElements DEF Lists
<1> HIDE DEF r, n
<1>3. j \in 1 .. Len(r) + 1 /\ Len(r) + 1 = n
  BY <1>1, <1>2
<1>4. /\ t \in Lists /\ Len(t) = n
      /\ \A k \in 1 .. n : t[k] = IF k < j THEN r[k] ELSE IF k = j THEN s[i] ELSE r[k - 1]
  <2>1. PICK q \in Lists, e \in Entries, m \in 1 .. Len(r) + 1 : q = r /\ e = s[i] /\ m = j
    BY <1>1, <1>2, <1>3
  <2>2. /\ InsertAt(q, m, e) \in Lists /\ Len(InsertAt(q, m, e)) = Len(q) + 1
        /\ \A k \in 1 .. Len(q) + 1 :
              InsertAt(q, m, e)[k] = IF k < m THEN q[k] ELSE IF k = m THEN e ELSE q[k - 1]
    <3>1. m \in 1 .. Len(q) + 1
      BY <2>1
    <3> QED
      BY <3>1, ListInsert
  <2> QED
    BY <1>3, <2>1, <2>2
<1>5. DOMAIN t = 1 .. n
  BY <1>4, LenProperties DEF Lists
<1> HIDE DEF t
<1>6. ASSUME NEW k \in 1 .. n
      PROVE  g[k] \in 1 .. n /\ g[k] # 0 /\ t[k] = s[g[k]]
  <2>1. CASE k = j
    <3>1. ~(k < j)
      BY <1>1, <2>1
    <3> QED
      BY <1>1, <1>4, <2>1, <3>1
  <2>2. CASE k < j
    <3>1. k \in 1 .. n - 1 /\ k # j
      BY <1>1, <2>2
    <3>2. t[k] = IF k < i THEN s[k] ELSE s[k + 1]
      BY <1>2, <1>4, <2>2, <3>1
    <3>3. g[k] = IF k < i THEN k ELSE k + 1
      BY <2>2, <3>1
    <3> HIDE DEF g
    <3> QED
      BY <1>1, <3>1, <3>2, <3>3
  <2>3. CASE k > j
    <3>1. k - 1 \in 1 .. n - 1 /\ k # j /\ ~(k < j) /\ k - 1 + 1 = k
      BY <1>1, <2>3
    <3>2. t[k] = IF k - 1 < i THEN s[k - 1] ELSE s[k]
      BY <1>2, <1>4, <3>1
    <3>3. g[k] = IF k - 1 < i THEN k - 1 ELSE k
      BY <3>1
    <3> HIDE DEF g
    <3> QED
      BY <1>1, <3>1, <3>2, <3>3
  <2> QED
    BY <1>1, <2>1, <2>2, <2>3
<1>7. ASSUME NEW k \in 1 .. n, NEW l \in 1 .. n, k < l PROVE g[k] # g[l]
  BY <1>1, <1>7
<1>8. g \in [1 .. n -> {0} \cup 1 .. n]
  BY <1>6
<1> HIDE DEF g
<1>9. \A k, l \in 1 .. n : g[k] = g[l] => k = l
  BY <1>1, <1>7
<1>10. Origin(g, s, t)
  BY <1>1, <1>5, <1>6, <1>8, <1>9 DEF Origin
<1>11. Carried(g, s, t)
  BY <1>1, <1>5, <1>6 DEF Carried
<1> QED
  BY <1>4, <1>10, <1>11 DEF Follows, t, r

LEMMA RenameFollows ==
  ASSUME NEW s \in Lists, NEW i \in DOMAIN s, NEW m \in Names, s[i].name # m
  PROVE  [s EXCEPT ![i].name = m] \in Lists /\ Follows(s, [s EXCEPT ![i].name = m])
<1> DEFINE r == [s EXCEPT ![i].name = m]
           g == [k \in DOMAIN s |-> k]
<1>1. DOMAIN s = 1 .. Len(s) /\ Len(s) \in Nat /\ \A k \in DOMAIN s : s[k] \in Entries
  BY LenProperties, ElementOfSeq DEF Lists
<1>2. [s[i] EXCEPT !.name = m] \in Entries
  BY <1>1 DEF Entries
<1>3. r = [s EXCEPT ![i] = [s[i] EXCEPT !.name = m]]
  OBVIOUS
<1>4. r \in Lists /\ Len(r) = Len(s)
  BY <1>1, <1>2, <1>3, ExceptSeq DEF Lists
<1>5. DOMAIN r = DOMAIN s /\ \A k \in DOMAIN s : k # i => r[k] = s[k]
  OBVIOUS
<1>6. r[i].scene = s[i].scene /\ r[i].name = m
  BY <1>1 DEF Entries
<1> HIDE DEF r
<1>7. Origin(g, s, r)
  BY <1>5, <1>6 DEF Origin
<1>8. Renamed(g, s, r)
  BY <1>4, <1>5, <1>6 DEF Renamed
<1> QED
  BY <1>4, <1>7, <1>8 DEF Follows, r

LEMMA DeskFollows ==
  ASSUME desk \in Lists, edition' \in Nat, InsertScene \/ RemoveScene \/ MoveScene \/ RenameScene
  PROVE  desk' \in Lists /\ Follows(desk, desk')
<1>1. DOMAIN desk = 1 .. Len(desk)
  BY LenProperties DEF Lists
<1>2. CASE InsertScene
  <2>1. PICK i \in 1 .. Len(desk) + 1, n \in Names :
          desk' = InsertAt(desk, i, [scene |-> edition' + MaxScenes, name |-> n])
    BY <1>2 DEF InsertScene
  <2>2. edition' + MaxScenes \in Nat
    <3>1. PICK a \in Nat, b \in Nat : a = edition' /\ b = MaxScenes
      BY LibraryAssumption
    <3>2. a + b \in Nat
      OBVIOUS
    <3> QED
      BY <3>1, <3>2
  <2>3. PICK e \in Entries : e = [scene |-> edition' + MaxScenes, name |-> n]
    BY <2>2 DEF Entries
  <2> QED
    BY <2>1, <2>3, InsertFollows
<1>3. CASE RemoveScene
  BY <1>3, RemoveFollows DEF RemoveScene
<1>4. CASE MoveScene
  <2>1. PICK i \in 1 .. Len(desk), j \in 1 .. Len(desk) : desk' = InsertAt(RemoveAt(desk, i), j, desk[i])
    BY <1>1, <1>4 DEF MoveScene
  <2> QED
    BY <2>1, MoveFollows
<1>5. CASE RenameScene
  <2>1. PICK i \in DOMAIN desk, n \in Names : desk[i].name # n /\ desk' = [desk EXCEPT ![i].name = n]
    BY <1>5 DEF RenameScene
  <2> QED
    BY <2>1, RenameFollows
<1> QED
  BY <1>2, <1>3, <1>4, <1>5

-----------------------------------------------------------------------------
(* Which configuration a scene takes over                                  *)

Config(c, n) ==
    c = [id |-> c.id, index |-> c.index, name |-> c.name, of |-> c.of] /\ c.id \in 1 .. n
\* Every scene of the list has one configuration, the one made for it.
Represents(C, list) ==
    /\ \A c \in C : /\ c.index \in DOMAIN list
                    /\ c.name = list[c.index].name /\ c.of = list[c.index].scene
    /\ \A i \in DOMAIN list : \E c \in C : c.index = i
    /\ \A c, d \in C : c.index = d.index => c = d

Aligning(linked, old, new, g) ==
    /\ old \in Lists /\ new \in Lists /\ UniqueNames(old) /\ UniqueNames(new)
    /\ Origin(g, old, new) /\ (Carried(g, old, new) \/ Renamed(g, old, new))
    /\ Listed(linked) /\ Unique(linked) /\ Represents(ToSet(linked), old)

LEMMA ListDomain == ASSUME NEW list \in Lists PROVE DOMAIN list = 1 .. Len(list) /\ Len(list) \in Nat
BY LenProperties DEF Lists

\* Configurations of one name, or of one index, are one.
LEMMA OnePosition ==
  ASSUME NEW linked, NEW old, NEW new, NEW g, Aligning(linked, old, new, g),
         NEW rest, Unique(rest), ToSet(rest) \subseteq ToSet(linked)
  PROVE  /\ \A k \in DOMAIN rest : /\ rest[k].index \in DOMAIN old
                                   /\ rest[k].name = old[rest[k].index].name
         /\ \A k, l \in DOMAIN rest : rest[k].index = rest[l].index => k = l
         /\ \A k, l \in DOMAIN rest : rest[k].name = rest[l].name => k = l
<1>1. \A k \in DOMAIN rest : rest[k] \in ToSet(linked)
  BY DEF ToSet
<1>2. \A k \in DOMAIN rest : rest[k].index \in DOMAIN old /\ rest[k].name = old[rest[k].index].name
  BY <1>1 DEF Aligning, Represents
<1>3. \A k, l \in DOMAIN rest : rest[k].index = rest[l].index => k = l
  BY <1>1 DEF Aligning, Represents, Unique
<1>4. \A k, l \in DOMAIN rest : rest[k].name = rest[l].name => k = l
  BY <1>2, <1>3 DEF Aligning, UniqueNames
<1> QED
  BY <1>2, <1>3, <1>4

LEMMA LinkedLength ==
  ASSUME NEW linked, NEW old, NEW new, NEW g, Aligning(linked, old, new, g)
  PROVE  Len(linked) = Len(old) /\ Len(linked) \in Nat /\ DOMAIN linked = 1 .. Len(linked)
<1>1. /\ Len(linked) \in Nat /\ DOMAIN linked = 1 .. Len(linked)
      /\ Len(old) \in Nat /\ DOMAIN old = 1 .. Len(old)
  BY ListedOf, ListDomain DEF Aligning, Listed
<1> DEFINE h == [k \in 1 .. Len(linked) |-> linked[k].index]
<1>2. \A k \in 1 .. Len(linked) : h[k] \in 1 .. Len(old)
  BY <1>1, OnePosition DEF Aligning
<1>3. \A k, l \in 1 .. Len(linked) : h[k] = h[l] => k = l
  BY <1>1, OnePosition DEF Aligning
<1>4. ASSUME NEW i \in 1 .. Len(old) PROVE \E k \in 1 .. Len(linked) : h[k] = i
  <2>1. PICK c \in ToSet(linked) : c.index = i
    BY <1>1 DEF Aligning, Represents
  <2> QED
    BY <1>1, <2>1 DEF ToSet
<1>5. h \in Bijection(1 .. Len(linked), 1 .. Len(old))
  BY <1>2, <1>3, <1>4 DEF Bijection, Injection, Surjection, IsInjective
<1>6. ASSUME NEW m \in Nat PROVE IsFiniteSet(1 .. m) /\ Cardinality(1 .. m) = m
  <2>1. 1 \in Int /\ m \in Int /\ (1 > m => m = 0)
    OBVIOUS
  <2>2. IsFiniteSet(1 .. m) /\ Cardinality(1 .. m) = IF 1 > m THEN 0 ELSE m - 1 + 1
    BY <2>1, FS_Interval
  <2> QED
    BY <2>1, <2>2
<1>7. Cardinality(1 .. Len(linked)) = Cardinality(1 .. Len(old))
  BY <1>5, <1>6, FS_Bijection DEF ExistsBijection
<1> QED
  BY <1>1, <1>6, <1>7

\* What is left when the scenes before the i-th have taken theirs.
Left(linked, rest, new, g, i) ==
    /\ Listed(rest) /\ Unique(rest)
    /\ \A c : c \in ToSet(rest) <=>
          c \in ToSet(linked) /\ \A j \in DOMAIN new : j < i => g[j] # c.index

LEMMA OneNamed ==
  ASSUME NEW s, NEW name, NEW k \in DOMAIN s, s[k].name = name,
         \A i, j \in DOMAIN s : s[i].name = s[j].name => i = j
  PROVE  Named(s, name) = {k} /\ Cardinality(Named(s, name)) = 1
<1>1. Named(s, name) = {k}
  BY DEF Named
<1> QED
  BY <1>1, FS_Singleton

\* The one configuration whose scene has another name betrays the renaming.
LEMMA SoleRenameIs ==
  ASSUME NEW linked, NEW old, NEW new, NEW g, Aligning(linked, old, new, g), Renamed(g, old, new)
  PROVE  \E j \in DOMAIN new : /\ new[j].name # old[j].name /\ SoleRename(linked, new) = j
                               /\ \A i \in DOMAIN new : i # j => new[i].name = old[i].name
<1>1. PICK j \in DOMAIN new : /\ new[j].name # old[j].name
                              /\ \A i \in DOMAIN new : i # j => new[i].name = old[i].name
  BY DEF Renamed
<1>2. /\ Len(linked) = Len(new) /\ DOMAIN new = DOMAIN old
  BY LinkedLength, ListDomain DEF Aligning, Renamed
<1>3. /\ \A k \in DOMAIN linked : /\ linked[k].index \in DOMAIN old
                                  /\ linked[k].name = old[linked[k].index].name
      /\ \A k, l \in DOMAIN linked : linked[k].index = linked[l].index => k = l
  BY OnePosition DEF Aligning
<1>4. PICK k \in DOMAIN linked : linked[k].index = j
  <2>1. PICK c \in ToSet(linked) : c.index = j
    BY <1>1, <1>2 DEF Aligning, Represents
  <2> QED
    BY <2>1 DEF ToSet
<1> DEFINE differing == {l \in DOMAIN linked : linked[l].name # new[linked[l].index].name}
<1>5. differing = {k}
  BY <1>1, <1>2, <1>3, <1>4
<1>6. Cardinality({k}) = 1
  BY FS_Singleton
<1>7. (CHOOSE l \in {k} : TRUE) = k
  OBVIOUS
<1>8. \A l \in DOMAIN linked : linked[l].index \in DOMAIN new
  BY <1>2, <1>3
<1>9. SoleRename(linked, new) = j
  BY <1>2, <1>4, <1>5, <1>6, <1>7, <1>8 DEF SoleRename
<1> QED
  BY <1>1, <1>9

\* A scene that was on the list takes over the configuration it had there.
LEMMA MatchesHad ==
  ASSUME NEW linked, NEW old, NEW new, NEW g, Aligning(linked, old, new, g),
         NEW i \in DOMAIN new, g[i] # 0, NEW rest, Left(linked, rest, new, g, i)
  PROVE  \E k \in DOMAIN rest : rest[k].index = g[i] /\ Matches(rest, linked, new, i) = {k}
<1> DEFINE p == g[i]
           name == new[i].name
           exact == {k \in Named(rest, name) : rest[k].index = i}
           named == IF UniquelyNamed(linked, new, name) THEN Named(rest, name) ELSE {}
           renamed == {k \in DOMAIN rest : rest[k].index = i /\ SoleRename(linked, new) = i}
<1>0. Matches(rest, linked, new, i) = IF exact # {} THEN exact ELSE IF named # {} THEN named ELSE renamed
  BY DEF Matches
<1>1. p \in DOMAIN old /\ \A j \in DOMAIN new : j < i => g[j] # p
  <2>1. DOMAIN new = 1 .. Len(new) /\ Len(new) \in Nat
    BY ListDomain DEF Aligning
  <2>2. \A j \in DOMAIN new : j < i => j # i
    BY <2>1
  <2> QED
    BY <2>2 DEF Aligning, Origin
<1>2. PICK k \in DOMAIN rest : rest[k].index = p
  <2>1. PICK c \in ToSet(linked) : c.index = p
    BY <1>1 DEF Aligning, Represents
  <2>2. c \in ToSet(rest)
    BY <1>1, <2>1 DEF Left
  <2> QED
    BY <2>1, <2>2 DEF ToSet
<1>3. /\ \A l \in DOMAIN rest : rest[l].index \in DOMAIN old /\ rest[l].name = old[rest[l].index].name
      /\ \A l, m \in DOMAIN rest : rest[l].index = rest[m].index => l = m
      /\ \A l, m \in DOMAIN rest : rest[l].name = rest[m].name => l = m
  BY OnePosition DEF Left
<1>4. /\ \A l \in DOMAIN linked : /\ linked[l].index \in DOMAIN old
                                  /\ linked[l].name = old[linked[l].index].name
      /\ \A l, m \in DOMAIN linked : linked[l].name = linked[m].name => l = m
  BY OnePosition DEF Aligning
<1>5. PICK q \in DOMAIN linked : linked[q] = rest[k]
  BY <1>2 DEF Left, ToSet
<1>6. CASE old[p].name = name
  <2>1. rest[k].name = name /\ Named(rest, name) = {k}
    <3>1. rest[k].name = name
      BY <1>2, <1>3, <1>6
    <3> HIDE DEF name
    <3> QED
      BY <1>3, <3>1, OneNamed
  <2>2. CASE p = i
    BY <1>0, <1>2, <2>1, <2>2
  <2>3. CASE p # i
    <3>1. exact = {}
      BY <1>2, <2>1, <2>3
    <3>2. Cardinality(Named(linked, name)) = 1
      BY <1>4, <1>5, <2>1, OneNamed
    <3>3. Cardinality(Named(new, name)) = 1
      BY OneNamed DEF Aligning, UniqueNames
    <3>4. named = {k}
      BY <2>1, <3>2, <3>3 DEF UniquelyNamed
    <3> QED
      BY <1>0, <1>2, <3>1, <3>4
  <2> QED
    BY <2>2, <2>3
<1>7. CASE old[p].name # name
  <2>1. Renamed(g, old, new) /\ p = i
    BY <1>1, <1>7 DEF Aligning, Carried, Renamed
  <2>2. PICK j \in DOMAIN new : /\ new[j].name # old[j].name /\ SoleRename(linked, new) = j
                                /\ \A l \in DOMAIN new : l # j => new[l].name = old[l].name
    BY <2>1, SoleRenameIs
  <2>3. j = i /\ DOMAIN old = DOMAIN new
    BY <1>7, <2>1, <2>2, ListDomain DEF Aligning, Renamed
  <2>4. \A l \in DOMAIN old : old[l].name # name
    BY <1>7, <2>1, <2>2, <2>3 DEF Aligning, UniqueNames
  <2>5. exact = {}
    BY <1>3, <2>4 DEF Named
  <2>6. Named(linked, name) = {}
    BY <1>4, <2>4 DEF Named
  <2>7. named = {}
    BY <2>6, FS_EmptySet DEF UniquelyNamed
  <2>8. renamed = {k}
    BY <1>2, <1>3, <2>1, <2>2, <2>3
  <2> QED
    BY <1>0, <1>2, <2>5, <2>7, <2>8
<1> QED
  BY <1>6, <1>7

\* A scene that is new on the list takes over none.
LEMMA MatchesNew ==
  ASSUME NEW linked, NEW old, NEW new, NEW g, Aligning(linked, old, new, g),
         NEW i \in DOMAIN new, g[i] = 0, NEW rest, Left(linked, rest, new, g, i)
  PROVE  Matches(rest, linked, new, i) = {}
<1> DEFINE name == new[i].name
           exact == {k \in Named(rest, name) : rest[k].index = i}
           named == IF UniquelyNamed(linked, new, name) THEN Named(rest, name) ELSE {}
           renamed == {k \in DOMAIN rest : rest[k].index = i /\ SoleRename(linked, new) = i}
<1>0. Matches(rest, linked, new, i) = IF exact # {} THEN exact ELSE IF named # {} THEN named ELSE renamed
  BY DEF Matches
<1>1. DOMAIN new = 1 .. Len(new) /\ Len(new) \in Nat /\ i # 0
      /\ DOMAIN old = 1 .. Len(old) /\ Len(old) \in Nat
  BY ListDomain DEF Aligning
<1>2. Carried(g, old, new) /\ Len(new) # Len(old)
      /\ \A p \in DOMAIN old : \E j \in DOMAIN new : g[j] = p
  BY <1>1 DEF Aligning, Carried, Renamed
<1>3. ASSUME NEW p \in DOMAIN old PROVE old[p].name # name
  <2>1. PICK j \in DOMAIN new : g[j] = p
    BY <1>2
  <2>2. p # 0
    BY <1>1
  <2>3. new[j].name = old[p].name /\ j # i
    BY <1>2, <2>1, <2>2 DEF Carried
  <2> QED
    BY <2>3 DEF Aligning, UniqueNames
<1>4. \A l \in DOMAIN rest : rest[l].name # name
  BY <1>3, OnePosition DEF Left
<1>5. Len(linked) # Len(new)
  BY <1>2, LinkedLength
<1>6. SoleRename(linked, new) = Unlinked /\ Unlinked # i
  BY <1>1, <1>5 DEF SoleRename, Unlinked
<1>7. exact = {} /\ named = {} /\ renamed = {}
  BY <1>4, <1>6 DEF Named
<1> QED
  BY <1>0, <1>7

-----------------------------------------------------------------------------
(* One scene of the list after the other                                   *)

\* The first i scenes have their configurations; n UUIDs were handed out before.
Taken(linked, new, g, n, acc, i) ==
    /\ acc = [next |-> acc.next, rest |-> acc.rest, ids |-> acc.ids]
    /\ acc.ids \in Nat /\ n <= acc.ids
    /\ Left(linked, acc.rest, new, g, i + 1)
    /\ Listed(acc.next) /\ Unique(acc.next) /\ Len(acc.next) = i
    /\ \A j \in 1 .. i : acc.next[j] = [id |-> acc.next[j].id, index |-> j,
                                        name |-> new[j].name, of |-> new[j].scene]
    /\ \A c \in ToSet(acc.next) :
          /\ c.id \in 1 .. acc.ids
          /\ c.id > n \/ \E d \in ToSet(linked) \ ToSet(acc.rest) : d.id = c.id

\* A configuration is given to the next scene.
LEMMA TakenAppend ==
  ASSUME NEW linked, NEW new, NEW g, NEW n \in Nat, NEW i \in Nat,
         NEW acc, Taken(linked, new, g, n, acc, i),
         NEW c, c = [id |-> c.id, index |-> i + 1, name |-> new[i + 1].name, of |-> new[i + 1].scene],
         NEW rest, Left(linked, rest, new, g, i + 1 + 1), ToSet(rest) \subseteq ToSet(acc.rest),
         NEW m \in Nat, acc.ids <= m, c.id \in 1 .. m, \A d \in ToSet(acc.next) : d.id # c.id,
         c.id > n \/ \E d \in ToSet(linked) \ ToSet(rest) : d.id = c.id
  PROVE  Taken(linked, new, g, n, [next |-> Append(acc.next, c), rest |-> rest, ids |-> m], i + 1)
<1> DEFINE next == Append(acc.next, c)
           r == [next |-> next, rest |-> rest, ids |-> m]
<1>1. r = [next |-> r.next, rest |-> r.rest, ids |-> r.ids] /\ r.next = next /\ r.rest = rest /\ r.ids = m
  OBVIOUS
<1>2. /\ Listed(next) /\ ToSet(next) = ToSet(acc.next) \cup {c} /\ Len(next) = i + 1
      /\ \A k \in 1 .. i : next[k] = acc.next[k]
      /\ next[i + 1] = c
  BY ListedAppend DEF Taken
<1>3. Unique(next)
  BY UniqueAppend DEF Taken
<1> HIDE DEF next
<1>4. ASSUME NEW j \in 1 .. i + 1
      PROVE  next[j] = [id |-> next[j].id, index |-> j, name |-> new[j].name, of |-> new[j].scene]
  <2>1. CASE j \in 1 .. i
    BY <1>2, <2>1 DEF Taken
  <2>2. CASE j = i + 1
    BY <1>2, <2>2
  <2> QED
    BY <2>1, <2>2
<1>5. 1 .. acc.ids \subseteq 1 .. m /\ n <= m
  BY DEF Taken
<1>6. ASSUME NEW d \in ToSet(next)
      PROVE  d.id \in 1 .. m /\ (d.id > n \/ \E e \in ToSet(linked) \ ToSet(rest) : e.id = d.id)
  BY <1>2, <1>5 DEF Taken
<1> HIDE DEF r
<1>7. Taken(linked, new, g, n, r, i + 1)
  <2>1. \A j \in 1 .. i + 1 : r.next[j] = [id |-> r.next[j].id, index |-> j,
                                         name |-> new[j].name, of |-> new[j].scene]
    BY <1>1, <1>4
  <2>2. Listed(r.next) /\ Unique(r.next) /\ Len(r.next) = i + 1 /\ Left(linked, r.rest, new, g, i + 1 + 1)
    BY <1>1, <1>2, <1>3
  <2> QED
    BY <1>1, <1>5, <1>6, <2>1, <2>2 DEF Taken
<1> QED
  BY <1>7 DEF r, next

LEMMA MinOfOne == ASSUME NEW k \in Nat PROVE Min({k}) = k
BY DEF Min

LEMMA SameId ==
  ASSUME NEW s, Unique(s), NEW c \in ToSet(s), NEW d \in ToSet(s), c.id = d.id PROVE c = d
BY DEF Unique, ToSet

LEMMA UniqueRemove ==
  ASSUME NEW s, Listed(s), Unique(s), NEW k \in DOMAIN s
  PROVE  /\ Listed(RemoveAt(s, k)) /\ Unique(RemoveAt(s, k))
         /\ ToSet(RemoveAt(s, k)) = ToSet(s) \ {s[k]}
<1> DEFINE r == RemoveAt(s, k)
<1>1. /\ Listed(r) /\ ToSet(r) = {s[l] : l \in DOMAIN s \ {k}}
      /\ \A l \in DOMAIN r : \E m \in DOMAIN s : m = (IF l < k THEN l ELSE l + 1) /\ r[l] = s[m]
  BY ListedRemove
<1>2. ToSet(r) = ToSet(s) \ {s[k]}
  <2>1. ToSet(s) = {s[l] : l \in DOMAIN s}
    BY DEF ToSet
  <2>2. \A l \in DOMAIN s \ {k} : s[l] # s[k]
    BY DEF Unique
  <2> HIDE DEF r
  <2> QED
    BY <1>1, <2>1, <2>2
<1>3. DOMAIN s = 1 .. Len(s) /\ Len(s) \in Nat /\ DOMAIN r = 1 .. Len(r) /\ Len(r) \in Nat
  BY <1>1, ListedOf DEF Listed
<1> HIDE DEF r
<1>4. ASSUME NEW l \in DOMAIN r, NEW m \in DOMAIN r, r[l].id = r[m].id PROVE l = m
  <2>1. PICK a \in DOMAIN s : a = (IF l < k THEN l ELSE l + 1) /\ r[l] = s[a]
    BY <1>1
  <2>2. PICK b \in DOMAIN s : b = (IF m < k THEN m ELSE m + 1) /\ r[m] = s[b]
    BY <1>1
  <2>3. a = b
    BY <1>4, <2>1, <2>2 DEF Unique
  <2>4. l \in Nat /\ m \in Nat /\ k \in Nat
    BY <1>3
  <2> QED
    BY <2>1, <2>2, <2>3, <2>4
<1>5. Unique(r)
  BY <1>4 DEF Unique
<1> QED
  BY <1>1, <1>2, <1>5 DEF r

LEMMA AlignStep ==
  ASSUME NEW linked, NEW old, NEW new, NEW g, Aligning(linked, old, new, g),
         NEW n \in Nat, \A c \in ToSet(linked) : Config(c, n),
         NEW i \in Nat, i < Len(new), NEW acc, Taken(linked, new, g, n, acc, i)
  PROVE  Taken(linked, new, g, n, AlignScene(linked, new, acc, i + 1), i + 1)
<1> DEFINE x == i + 1
           found == Matches(acc.rest, linked, new, x)
<1>1. /\ x \in DOMAIN new /\ DOMAIN new = 1 .. Len(new) /\ Len(new) \in Nat
      /\ DOMAIN old = 1 .. Len(old) /\ Len(old) \in Nat
  BY ListDomain DEF Aligning
<1>2. Left(linked, acc.rest, new, g, x)
  BY DEF Taken
<1>3. \A j \in DOMAIN new : j < x + 1 <=> j < x \/ j = x
  BY <1>1
<1>4. AlignScene(linked, new, acc, x) =
         IF found = {}
         THEN [acc EXCEPT !.next = Append(@, Default(acc.ids + 1, new, x)), !.ids = @ + 1]
         ELSE [acc EXCEPT !.next = Append(@, Locate(acc.rest[Min(found)], new, x)),
                          !.rest = RemoveAt(@, Min(found))]
  BY DEF AlignScene
<1>5. acc = [next |-> acc.next, rest |-> acc.rest, ids |-> acc.ids] /\ acc.ids \in Nat /\ n <= acc.ids
      /\ \A c \in ToSet(acc.next) :
            /\ c.id \in 1 .. acc.ids
            /\ c.id > n \/ \E d \in ToSet(linked) \ ToSet(acc.rest) : d.id = c.id
  BY DEF Taken
<1> HIDE DEF found
<1>6. CASE g[x] = 0
  <2> DEFINE m == acc.ids + 1
             c == Default(m, new, x)
  <2>1. found = {}
    BY <1>1, <1>2, <1>6, MatchesNew DEF found
  <2>2. AlignScene(linked, new, acc, x) = [next |-> Append(acc.next, c), rest |-> acc.rest, ids |-> m]
    BY <1>4, <1>5, <2>1
  <2>3. /\ c = [id |-> c.id, index |-> x, name |-> new[x].name, of |-> new[x].scene] /\ c.id = m
        /\ m \in Nat /\ acc.ids <= m /\ c.id \in 1 .. m /\ c.id > n
    BY <1>5 DEF Default
  <2>4. \A d \in ToSet(acc.next) : d.id # c.id
    BY <1>5, <2>3
  <2>5. Left(linked, acc.rest, new, g, x + 1)
    <3>1. \A d \in ToSet(linked) : d.index # 0
      BY <1>1 DEF Aligning, Represents
    <3> QED
      BY <1>2, <1>3, <1>6, <3>1 DEF Left
  <2> HIDE DEF c, m
  <2> QED
    BY <2>2, <2>3, <2>4, <2>5, TakenAppend
<1>7. CASE g[x] # 0
  <2>1. PICK k \in DOMAIN acc.rest : acc.rest[k].index = g[x] /\ found = {k}
    BY <1>1, <1>2, <1>7, MatchesHad DEF found
  <2> DEFINE d == acc.rest[k]
             c == Locate(d, new, x)
             rest == RemoveAt(acc.rest, k)
  <2>2. k \in Nat /\ Listed(acc.rest) /\ Unique(acc.rest)
    BY <1>2, ListedOf DEF Left, Listed
  <2>3. found # {} /\ Min(found) = k
    BY <2>1, <2>2, MinOfOne
  <2>4. AlignScene(linked, new, acc, x) = [next |-> Append(acc.next, c), rest |-> rest, ids |-> acc.ids]
    BY <1>4, <1>5, <2>3
  <2>5. d \in ToSet(acc.rest) /\ d \in ToSet(linked)
    BY <1>2 DEF Left, ToSet
  <2>6. Config(d, n) /\ d.index = g[x] /\ g[x] \in DOMAIN old /\ d.of = old[g[x]].scene
    BY <1>1, <1>7, <2>1, <2>5 DEF Aligning, Origin, Represents
  <2>7. d.of = new[x].scene
    BY <1>1, <1>7, <2>6 DEF Aligning, Origin
  <2>8. c = [id |-> d.id, index |-> x, name |-> new[x].name, of |-> new[x].scene] /\ c.id = d.id
    <3> HIDE DEF d, found
    <3>1. d = [id |-> d.id, index |-> d.index, name |-> d.name, of |-> d.of]
      BY <2>6 DEF Config
    <3>2. c = [d EXCEPT !.index = x, !.name = new[x].name]
      BY DEF Locate
    <3> HIDE DEF c, x
    <3> QED
      BY <2>7, <3>1, <3>2
  <2>9. Listed(rest) /\ Unique(rest) /\ ToSet(rest) = ToSet(acc.rest) \ {d}
    BY <2>2, UniqueRemove
  <2> HIDE DEF c, d, rest
  <2>10. \A e \in ToSet(linked) : e.index = g[x] => e = d
    BY <2>5, <2>6 DEF Aligning, Represents
  <2>11. Left(linked, rest, new, g, x + 1)
    <3>1. ASSUME NEW e PROVE e \in ToSet(rest) <=>
             e \in ToSet(linked) /\ \A j \in DOMAIN new : j < x + 1 => g[j] # e.index
      BY <1>1, <1>2, <1>3, <2>6, <2>9, <2>10 DEF Left
    <3> QED
      BY <2>9, <3>1 DEF Left
  <2>12. \A e \in ToSet(acc.next) : e.id # c.id
    <3>1. d.id \in 1 .. n
      BY <2>6 DEF Config
    <3>2. ASSUME NEW e \in ToSet(linked), e.id = d.id PROVE e \in ToSet(acc.rest)
      BY <2>5, <3>2, SameId DEF Aligning
    <3> QED
      BY <1>5, <2>8, <3>1, <3>2
  <2>13. c.id \in 1 .. acc.ids /\ \E e \in ToSet(linked) \ ToSet(rest) : e.id = c.id
    BY <1>5, <2>5, <2>6, <2>8, <2>9 DEF Config
  <2>14. Taken(linked, new, g, n, [next |-> Append(acc.next, c), rest |-> rest, ids |-> acc.ids], i + 1)
    <3>1. acc.ids \in Nat /\ acc.ids <= acc.ids
      BY <1>5
    <3>2. ToSet(rest) \subseteq ToSet(acc.rest)
      BY <2>9
    <3>3. c = [id |-> c.id, index |-> x, name |-> new[x].name, of |-> new[x].scene]
      BY <2>8
    <3> QED
      BY <2>11, <2>12, <2>13, <3>1, <3>2, <3>3, TakenAppend
  <2> QED
    BY <2>4, <2>14
<1> QED
  BY <1>6, <1>7

Configs == [id : Nat, index : Nat, name : Names, of : Nat]
Accs == [next : Seq(Configs), rest : Seq(Configs), ids : Nat]

LEMMA ListedIn == ASSUME NEW S, NEW s, Listed(s), ToSet(s) \subseteq S PROVE s \in Seq(S)
BY SeqMonotonic DEF Listed

LEMMA TakenTyped ==
  ASSUME NEW linked, NEW old, NEW new, NEW g, Aligning(linked, old, new, g),
         NEW n \in Nat, \A c \in ToSet(linked) : Config(c, n),
         NEW i \in 0 .. Len(new), NEW acc, Taken(linked, new, g, n, acc, i)
  PROVE  acc \in Accs
<1>1. /\ DOMAIN new = 1 .. Len(new) /\ Len(new) \in Nat /\ \A j \in DOMAIN new : new[j] \in Entries
      /\ DOMAIN old = 1 .. Len(old) /\ Len(old) \in Nat /\ \A j \in DOMAIN old : old[j] \in Entries
  BY ListDomain, ElementOfSeq DEF Aligning, Lists
<1>2. ASSUME NEW c \in ToSet(linked) PROVE c \in Configs
  <2>1. /\ c = [id |-> c.id, index |-> c.index, name |-> c.name, of |-> c.of] /\ c.id \in Nat
    BY DEF Config
  <2>2. c.index \in DOMAIN old /\ c.name = old[c.index].name /\ c.of = old[c.index].scene
    BY DEF Aligning, Represents
  <2>3. c.index \in Nat /\ c.name \in Names /\ c.of \in Nat
    BY <1>1, <2>2 DEF Entries
  <2> QED
    BY <2>1, <2>3 DEF Configs
<1>3. acc.rest \in Seq(Configs)
  BY <1>2, ListedIn DEF Taken, Left
<1>4. ASSUME NEW c \in ToSet(acc.next) PROVE c \in Configs
  <2>1. Len(acc.next) = i /\ DOMAIN acc.next = 1 .. Len(acc.next)
    BY ListedOf DEF Taken, Listed
  <2>2. PICK j \in 1 .. i : c = acc.next[j]
    BY <2>1 DEF ToSet
  <2>3. c = [id |-> c.id, index |-> j, name |-> new[j].name, of |-> new[j].scene] /\ c.id \in Nat
    BY <2>2 DEF Taken
  <2>4. j \in DOMAIN new /\ j \in Nat
    BY <1>1
  <2>5. new[j].name \in Names /\ new[j].scene \in Nat
    BY <1>1, <2>4 DEF Entries
  <2> QED
    BY <2>3, <2>4, <2>5 DEF Configs
<1>5. acc.next \in Seq(Configs)
  BY <1>4, ListedIn DEF Taken
<1> QED
  BY <1>3, <1>5 DEF Taken, Accs

LEMMA AlignedIs ==
  ASSUME NEW linked, NEW old, NEW new, NEW g, Aligning(linked, old, new, g),
         ids \in Nat, \A c \in ToSet(linked) : Config(c, ids)
  PROVE  Taken(linked, new, g, ids, Aligned(linked, new), Len(new))
<1> DEFINE m == Len(new)
           start == [next |-> <<>>, rest |-> linked, ids |-> ids]
           Ok(x, i) == Taken(linked, new, g, ids, x, i)
           F == [z \in Accs \X (1 .. m) |->
                    IF Ok(z[1], z[2] - 1) THEN AlignScene(linked, new, z[1], z[2]) ELSE z[1]]
<1>1. m \in Nat /\ DOMAIN new = 1 .. m
  BY ListDomain DEF Aligning
<1>2. PICK n \in Nat : n = ids
  OBVIOUS
<1>3. Ok(start, 0)
  <2>1. Listed(<<>>) /\ Unique(<<>>) /\ ToSet(<<>>) = {} /\ Len(<<>>) = 0
    BY EmptySeq DEF Listed, Unique, ToSet
  <2>2. Left(linked, linked, new, g, 1)
    <3>1. \A j \in DOMAIN new : ~(j < 1)
      BY <1>1
    <3> QED
      BY <3>1 DEF Left, Aligning
  <2>3. start.next = <<>> /\ start.rest = linked /\ start.ids = n /\ start.ids \in Nat /\ ids <= n /\ 0 + 1 = 1
    BY <1>2
  <2>4. start = [next |-> start.next, rest |-> start.rest, ids |-> start.ids]
    OBVIOUS
  <2> HIDE DEF start
  <2> QED
    BY <1>2, <2>1, <2>2, <2>3, <2>4 DEF Taken
<1>4. ASSUME NEW i \in 1 .. m, NEW x, Ok(x, i - 1)
      PROVE Ok(AlignScene(linked, new, x, i), i) /\ AlignScene(linked, new, x, i) \in Accs
  <2>1. PICK j \in Nat : j = i - 1 /\ j + 1 = i /\ j < m
    BY <1>1
  <2>2. Taken(linked, new, g, n, x, j)
    BY <1>2, <1>4, <2>1
  <2>3. Taken(linked, new, g, n, AlignScene(linked, new, x, j + 1), j + 1)
    BY <1>2, <2>1, <2>2, AlignStep
  <2>4. Ok(AlignScene(linked, new, x, i), i)
    BY <1>2, <2>1, <2>3
  <2>5. i \in 0 .. m
    BY <1>1
  <2> QED
    BY <1>2, <2>4, <2>5, TakenTyped
<1>5. start \in Accs
  <2>1. 0 \in 0 .. m
    BY <1>1
  <2> HIDE DEF start
  <2> QED
    BY <1>2, <1>3, <2>1, TakenTyped
<1>6. F \in [Accs \X (1 .. m) -> Accs]
  <2>1. ASSUME NEW z \in Accs \X (1 .. m)
        PROVE (IF Ok(z[1], z[2] - 1) THEN AlignScene(linked, new, z[1], z[2]) ELSE z[1]) \in Accs
    <3>1. z[1] \in Accs /\ z[2] \in 1 .. m
      OBVIOUS
    <3> HIDE DEF Ok
    <3> QED
      BY <1>4, <3>1
  <2> HIDE DEF Ok
  <2> QED
    BY <2>1
<1>7. \A x \in Accs, i \in 1 .. m :
         F[<<x, i>>] = IF Ok(x, i - 1) THEN AlignScene(linked, new, x, i) ELSE x
  <2> HIDE DEF Ok
  <2> QED
    OBVIOUS
<1> HIDE DEF F, Ok, start, m
<1>8. PICK f \in [0 .. m -> Accs] : f[0] = start /\ \A i \in 1 .. m : f[i] = F[<<f[i - 1], i>>]
  <2>1. \E f \in [0 .. m -> Accs] : Unfolds(f, start, F, m)
    BY <1>1, <1>5, <1>6, Recursion, Zenon
  <2> QED
    BY <2>1 DEF Unfolds
<1> DEFINE Steps(h) == \A i \in 0 .. m :
              h[i] = IF i = 0 THEN start ELSE AlignScene(linked, new, h[i - 1], i)
           All(h) == \A i \in 0 .. m : Ok(h[i], i)
<1>9. All(f)
  <2> DEFINE T == {i \in Nat : i <= m => Ok(f[i], i)}
  <2>1. 0 \in T
    BY <1>3, <1>8
  <2>2. ASSUME NEW i \in Nat, i \in T PROVE i + 1 \in T
    <3> SUFFICES ASSUME i + 1 <= m PROVE Ok(f[i + 1], i + 1)
      OBVIOUS
    <3>1. Ok(f[i], i) /\ i + 1 \in 1 .. m /\ i + 1 - 1 = i /\ f[i] \in Accs
      BY <1>1, <1>8, <2>2
    <3>2. PICK j \in 1 .. m, x \in Accs : j = i + 1 /\ x = f[i] /\ j - 1 = i
      BY <3>1
    <3>3. f[j] = F[<<x, j>>] /\ Ok(x, j - 1)
      BY <1>8, <3>1, <3>2
    <3>4. f[i + 1] = AlignScene(linked, new, f[i], i + 1)
      BY <1>7, <3>2, <3>3
    <3> QED
      BY <1>4, <3>1, <3>4
  <2>3. Nat \subseteq T
    <3> HIDE DEF T
    <3> QED
      BY <2>1, <2>2, SetInduction
  <2> QED
    BY <1>1, <2>3
<1>10. f = [i \in 0 .. m |-> IF i = 0 THEN start ELSE AlignScene(linked, new, f[i - 1], i)]
  <2>1. ASSUME NEW i \in 0 .. m
        PROVE f[i] = IF i = 0 THEN start ELSE AlignScene(linked, new, f[i - 1], i)
    <3>1. CASE i = 0
      BY <1>8, <3>1
    <3>2. CASE i # 0
      <4>1. i \in 1 .. m /\ i - 1 \in 0 .. m
        BY <1>1, <3>2
      <4>2. f[i - 1] \in Accs /\ Ok(f[i - 1], i - 1)
        BY <1>8, <1>9, <4>1
      <4> QED
        BY <1>7, <1>8, <3>2, <4>1, <4>2
    <3> QED
      BY <3>1, <3>2
  <2>2. f = [i \in 0 .. m |-> f[i]]
    OBVIOUS
  <2> QED
    BY <2>1, <2>2
<1> DEFINE aligned == CHOOSE h : h = [i \in 0 .. m |->
                         IF i = 0 THEN start ELSE AlignScene(linked, new, h[i - 1], i)]
<1>11. aligned = [i \in 0 .. m |-> IF i = 0 THEN start ELSE AlignScene(linked, new, aligned[i - 1], i)]
  BY <1>10
<1>12. Aligned(linked, new) = aligned[m]
  BY DEF Aligned, m, start
<1> HIDE DEF aligned
<1>13. \A i \in 0 .. m : aligned[i] = IF i = 0 THEN start ELSE AlignScene(linked, new, aligned[i - 1], i)
  BY <1>11
<1>14. All(aligned)
  <2> DEFINE T == {i \in Nat : i <= m => Ok(aligned[i], i)}
  <2>1. 0 \in T
    <3>1. 0 \in 0 .. m
      BY <1>1
    <3> QED
      BY <1>3, <1>13, <3>1
  <2>2. ASSUME NEW i \in Nat, i \in T PROVE i + 1 \in T
    <3> SUFFICES ASSUME i + 1 <= m PROVE Ok(aligned[i + 1], i + 1)
      OBVIOUS
    <3>1. Ok(aligned[i], i) /\ i + 1 \in 1 .. m /\ i + 1 \in 0 .. m /\ i + 1 # 0 /\ i + 1 - 1 = i
      BY <1>1, <2>2
    <3>2. aligned[i + 1] = AlignScene(linked, new, aligned[i], i + 1)
      BY <1>13, <3>1
    <3> QED
      BY <1>4, <3>1, <3>2
  <2>3. Nat \subseteq T
    <3> HIDE DEF T
    <3> QED
      BY <2>1, <2>2, SetInduction
  <2> QED
    BY <1>1, <2>3
<1>15. Ok(aligned[m], m)
  BY <1>1, <1>14
<1> QED
  BY <1>12, <1>15 DEF Ok, m

-----------------------------------------------------------------------------
(* A whole alignment                                                       *)

\* The sequence of two without a UUID in common.
LEMMA UniqueConcat ==
  ASSUME NEW s, Listed(s), Unique(s), NEW t, Listed(t), Unique(t),
         \A c \in ToSet(s), d \in ToSet(t) : c.id # d.id
  PROVE  Listed(s \o t) /\ Unique(s \o t) /\ ToSet(s \o t) = ToSet(s) \cup ToSet(t)
<1> DEFINE S == ToSet(s) \cup ToSet(t)
           r == s \o t
<1>1. s \in Seq(S) /\ t \in Seq(S)
  <2>1. ToSet(s) \subseteq S /\ ToSet(t) \subseteq S
    OBVIOUS
  <2> HIDE DEF S
  <2> QED
    BY <2>1, ListedIn
<1>2. /\ Len(s) \in Nat /\ DOMAIN s = 1 .. Len(s) /\ Len(t) \in Nat /\ DOMAIN t = 1 .. Len(t)
  BY ListedOf DEF Listed
<1>3. /\ r \in Seq(S) /\ Len(r) = Len(s) + Len(t)
      /\ \A k \in 1 .. Len(s) + Len(t) : r[k] = IF k <= Len(s) THEN s[k] ELSE t[k - Len(s)]
  <2> HIDE DEF S
  <2> QED
    BY <1>1, ConcatProperties
<1>4. Listed(r) /\ ToSet(r) \subseteq S /\ DOMAIN r = 1 .. Len(s) + Len(t)
  <2> HIDE DEF S, r
  <2> QED
    BY <1>3, ListedOf
<1> HIDE DEF r
<1>5. ASSUME NEW k \in DOMAIN r
      PROVE  \/ k \in DOMAIN s /\ r[k] = s[k]
             \/ k \notin DOMAIN s /\ k - Len(s) \in DOMAIN t /\ r[k] = t[k - Len(s)]
  BY <1>2, <1>3, <1>4
<1>6. ASSUME NEW k \in DOMAIN s PROVE k \in DOMAIN r /\ r[k] = s[k]
  BY <1>2, <1>3, <1>4
<1>7. ASSUME NEW k \in DOMAIN t PROVE k + Len(s) \in DOMAIN r /\ r[k + Len(s)] = t[k]
  <2>1. k + Len(s) \in 1 .. Len(s) + Len(t) /\ ~(k + Len(s) <= Len(s)) /\ k + Len(s) - Len(s) = k
    BY <1>2
  <2> QED
    BY <1>3, <1>4, <2>1
<1>8. ToSet(r) = S
  <2>1. ToSet(s) \subseteq ToSet(r)
    BY <1>6 DEF ToSet
  <2>2. ToSet(t) \subseteq ToSet(r)
    BY <1>7 DEF ToSet
  <2> QED
    BY <1>4, <2>1, <2>2
<1>9. ASSUME NEW k \in DOMAIN r, NEW l \in DOMAIN r, r[k].id = r[l].id PROVE k = l
  <2>1. CASE k \in DOMAIN s /\ l \in DOMAIN s
    BY <1>5, <1>9, <2>1 DEF Unique
  <2>2. CASE k \notin DOMAIN s /\ l \notin DOMAIN s
    <3>1. k - Len(s) = l - Len(s)
      BY <1>5, <1>9, <2>2 DEF Unique
    <3>2. k \in Int /\ l \in Int
      BY <1>2, <1>4
    <3> QED
      BY <1>2, <3>1, <3>2
  <2>3. ASSUME NEW a \in DOMAIN s, NEW b \in DOMAIN t PROVE s[a].id # t[b].id
    BY DEF ToSet
  <2>4. CASE k \in DOMAIN s /\ l \notin DOMAIN s
    BY <1>5, <1>9, <2>3, <2>4
  <2>5. CASE k \notin DOMAIN s /\ l \in DOMAIN s
    BY <1>5, <1>9, <2>3, <2>5
  <2> QED
    BY <2>1, <2>2, <2>4, <2>5
<1>10. Unique(r)
  BY <1>9 DEF Unique
<1> QED
  BY <1>4, <1>8, <1>10 DEF r

LEMMA UnlinkIs ==
  ASSUME NEW s, Listed(s), NEW n, \A c \in ToSet(s) : Config(c, n)
  PROVE  /\ Listed(Unlink(s)) /\ (Unique(s) => Unique(Unlink(s)))
         /\ \A c \in ToSet(Unlink(s)) : /\ Config(c, n) /\ c.index = Unlinked
                                        /\ \E d \in ToSet(s) : d.id = c.id
<1> DEFINE r == Unlink(s)
<1>1. Len(s) \in Nat /\ DOMAIN s = 1 .. Len(s) /\ DOMAIN r = DOMAIN s
      /\ \A k \in DOMAIN s : r[k] = [s[k] EXCEPT !.index = Unlinked] /\ s[k] \in ToSet(s)
  BY ListedOf DEF Unlink, Listed, ToSet
<1>2. r \in [1 .. Len(s) -> ToSet(r)]
  BY <1>1 DEF Unlink, ToSet
<1> HIDE DEF r
<1>3. Listed(r)
  BY <1>1, <1>2, SeqDef DEF Listed
<1>4. ASSUME NEW k \in DOMAIN s
      PROVE  Config(r[k], n) /\ r[k].index = Unlinked /\ r[k].id = s[k].id
  <2>1. PICK d \in ToSet(s) : d = s[k] /\ r[k] = [d EXCEPT !.index = Unlinked]
    BY <1>1
  <2>2. d = [id |-> d.id, index |-> d.index, name |-> d.name, of |-> d.of] /\ d.id \in 1 .. n
    BY DEF Config
  <2>3. r[k] = [id |-> d.id, index |-> Unlinked, name |-> d.name, of |-> d.of]
    BY <2>1, <2>2
  <2> QED
    BY <2>1, <2>2, <2>3 DEF Config
<1>5. Unique(s) => Unique(r)
  BY <1>1, <1>4 DEF Unique
<1>6. \A c \in ToSet(r) : Config(c, n) /\ c.index = Unlinked /\ \E d \in ToSet(s) : d.id = c.id
  BY <1>1, <1>4 DEF ToSet
<1> QED
  BY <1>3, <1>5, <1>6 DEF r

\* Every scene of the list has one configuration, the one made for it; n UUIDs
\* were handed out.
Perfect(cs, list, n) ==
    /\ Listed(cs) /\ Unique(cs) /\ \A c \in ToSet(cs) : Config(c, n)
    /\ Represents({c \in ToSet(cs) : c.index # Unlinked}, list)

\* Alignment with the next list keeps every configuration with its scene.
LEMMA AlignPerfect ==
  ASSUME NEW cs, NEW old, NEW new, ids \in Nat, Perfect(cs, old, ids), Follows(old, new),
         old \in Lists, new \in Lists, UniqueNames(old), UniqueNames(new)
  PROVE  Align(cs, new).ids \in Nat /\ Perfect(Align(cs, new).configs, new, Align(cs, new).ids)
<1> DEFINE linked == Linked(cs)
           acc == Aligned(linked, new)
           n == acc.ids
           others == Kept(cs, DOMAIN cs \ LinkedAt(cs))
           away == Unlink(acc.rest)
<1>1. PICK g : Origin(g, old, new) /\ (Carried(g, old, new) \/ Renamed(g, old, new))
  BY DEF Follows
<1>2. Listed(cs) /\ Unique(cs) /\ \A c \in ToSet(cs) : Config(c, ids)
  BY DEF Perfect
<1>3. /\ Listed(linked) /\ Unique(linked)
      /\ ToSet(linked) = {c \in ToSet(cs) : c.index # Unlinked}
  <2>1. ToSet(linked) = {cs[k] : k \in LinkedAt(cs) \cap DOMAIN cs} /\ Listed(linked) /\ Unique(linked)
    BY <1>2, KeptIs DEF Linked
  <2> HIDE DEF linked
  <2> QED
    BY <2>1 DEF LinkedAt, ToSet
<1>4. /\ Listed(others) /\ Unique(others)
      /\ ToSet(others) = {c \in ToSet(cs) : c.index = Unlinked}
  <2>1. /\ ToSet(others) = {cs[k] : k \in (DOMAIN cs \ LinkedAt(cs)) \cap DOMAIN cs}
        /\ Listed(others) /\ Unique(others)
    BY <1>2, KeptIs
  <2> HIDE DEF others
  <2> QED
    BY <2>1 DEF LinkedAt, ToSet
<1>5. Align(cs, new) = [configs |-> (acc.next \o away) \o others, ids |-> n]
  BY DEF Align
<1> HIDE DEF linked, others
<1>6. Aligning(linked, old, new, g)
  BY <1>1, <1>3 DEF Aligning, Perfect
<1>7. Taken(linked, new, g, ids, acc, Len(new))
  <2> HIDE DEF acc
  <2>1. \A c \in ToSet(linked) : Config(c, ids)
    BY <1>2, <1>3
  <2> QED
    BY <1>6, <2>1, AlignedIs DEF acc
<1> HIDE DEF acc
<1>8. /\ n \in Nat /\ ids <= n /\ Listed(acc.rest) /\ Unique(acc.rest)
      /\ ToSet(acc.rest) \subseteq ToSet(linked)
      /\ Listed(acc.next) /\ Unique(acc.next) /\ Len(acc.next) = Len(new)
      /\ \A c \in ToSet(acc.next) :
            /\ c.id \in 1 .. n
            /\ c.id > ids \/ \E d \in ToSet(linked) \ ToSet(acc.rest) : d.id = c.id
      /\ \A j \in 1 .. Len(new) : acc.next[j] = [id |-> acc.next[j].id, index |-> j,
                                                 name |-> new[j].name, of |-> new[j].scene]
  BY <1>7 DEF Taken, Left
<1>9. DOMAIN new = 1 .. Len(new) /\ DOMAIN acc.next = 1 .. Len(new) /\ Len(new) \in Nat
  <2>1. DOMAIN acc.next = 1 .. Len(acc.next)
    BY <1>8, ListedOf DEF Listed
  <2> QED
    BY <1>8, <2>1, ListDomain
<1> HIDE DEF n
<1>10. ASSUME NEW c, Config(c, ids) PROVE Config(c, n) /\ c.id <= ids /\ c.id \in Nat
  <2>1. 1 .. ids \subseteq 1 .. n
    BY <1>8
  <2> QED
    BY <1>10, <2>1 DEF Config
<1>11. /\ Listed(away) /\ Unique(away)
       /\ \A c \in ToSet(away) : /\ Config(c, ids) /\ c.index = Unlinked
                                 /\ \E d \in ToSet(acc.rest) : d.id = c.id
  <2>1. PICK rest, k : rest = acc.rest /\ k = ids
    OBVIOUS
  <2>2. Listed(rest) /\ Unique(rest) /\ \A c \in ToSet(rest) : Config(c, k)
    BY <1>2, <1>3, <1>8, <2>1
  <2>3. /\ Listed(Unlink(rest)) /\ Unique(Unlink(rest))
        /\ \A c \in ToSet(Unlink(rest)) : /\ Config(c, k) /\ c.index = Unlinked
                                          /\ \E d \in ToSet(rest) : d.id = c.id
    BY <2>2, UnlinkIs
  <2> QED
    BY <2>1, <2>3
<1> HIDE DEF away
<1>12. ASSUME NEW c \in ToSet(acc.next), NEW d \in ToSet(away) PROVE c.id # d.id
  <2>1. PICK e \in ToSet(acc.rest) : e.id = d.id
    BY <1>11
  <2>2. e \in ToSet(linked) /\ e.id <= ids /\ e.id \in Nat
    BY <1>2, <1>3, <1>8, <1>10, <2>1
  <2>3. CASE c.id > ids
    BY <2>1, <2>2, <2>3
  <2>4. CASE \E f \in ToSet(linked) \ ToSet(acc.rest) : f.id = c.id
    BY <1>3, <2>1, <2>2, <2>4, SameId
  <2> QED
    BY <1>8, <2>3, <2>4
<1> DEFINE front == acc.next \o away
           all == front \o others
<1>13. Listed(front) /\ Unique(front) /\ ToSet(front) = ToSet(acc.next) \cup ToSet(away)
  BY <1>8, <1>11, <1>12, UniqueConcat
<1>14. ASSUME NEW c \in ToSet(front), NEW d \in ToSet(others) PROVE c.id # d.id
  <2>1. d \in ToSet(cs) /\ d \notin ToSet(linked) /\ d.id <= ids /\ d.id \in Nat
    BY <1>2, <1>3, <1>4, <1>10
  <2>2. \A e \in ToSet(linked) : e.id # d.id
    BY <1>2, <1>3, <2>1, SameId
  <2> HIDE DEF front
  <2>3. c.id > ids \/ \E e \in ToSet(linked) : e.id = c.id
    BY <1>8, <1>11, <1>13
  <2> QED
    BY <2>1, <2>2, <2>3
<1> HIDE DEF front
<1>15. Listed(all) /\ Unique(all) /\ ToSet(all) = ToSet(acc.next) \cup ToSet(away) \cup ToSet(others)
  BY <1>4, <1>13, <1>14, UniqueConcat
<1> HIDE DEF all
<1>16. ASSUME NEW j \in DOMAIN new
       PROVE  /\ acc.next[j] \in ToSet(acc.next) /\ acc.next[j].index = j
              /\ acc.next[j].name = new[j].name /\ acc.next[j].of = new[j].scene
              /\ Config(acc.next[j], n)
  <2>1. acc.next[j] \in ToSet(acc.next)
    BY <1>9 DEF ToSet
  <2>2. PICK c : c = acc.next[j]
    OBVIOUS
  <2>3. c = [id |-> c.id, index |-> j, name |-> new[j].name, of |-> new[j].scene] /\ c.id \in 1 .. n
    BY <1>8, <1>9, <2>1, <2>2
  <2> QED
    BY <2>1, <2>2, <2>3 DEF Config
<1>17. ASSUME NEW c \in ToSet(all) PROVE Config(c, n)
  <2>1. CASE c \in ToSet(acc.next)
    <3>1. PICK j \in DOMAIN new : c = acc.next[j]
      BY <1>9, <2>1 DEF ToSet
    <3> QED
      BY <1>16, <3>1
  <2>2. CASE c \in ToSet(away) \cup ToSet(others)
    <3>1. Config(c, ids)
      BY <1>2, <1>4, <1>11, <2>2
    <3> QED
      BY <1>10, <3>1
  <2> QED
    BY <1>15, <2>1, <2>2
<1>18. {c \in ToSet(all) : c.index # Unlinked} = ToSet(acc.next)
  <2>1. \A c \in ToSet(acc.next) : c.index # Unlinked
    BY <1>9, <1>16 DEF ToSet, Unlinked
  <2> QED
    BY <1>4, <1>11, <1>15, <2>1
<1>19. Represents(ToSet(acc.next), new)
  <2>1. \A c \in ToSet(acc.next) : \E j \in DOMAIN new : c = acc.next[j]
    BY <1>9 DEF ToSet
  <2> QED
    BY <1>16, <2>1 DEF Represents
<1>20. Perfect(all, new, n)
  BY <1>15, <1>17, <1>18, <1>19 DEF Perfect
<1> QED
  BY <1>5, <1>8, <1>20 DEF all, front

Owners(cs, i) == {j \in DOMAIN cs : cs[j].index = i}
Links(linked, cs, k, list, i) ==
    linked = [cs EXCEPT ![k] = [Locate(@, list, i) EXCEPT !.of = list[i].scene]]

\* Linking a configuration by hand hands the scene over.
LEMMA LinkPerfect ==
  ASSUME NEW cs, NEW list \in Lists, NEW n, Perfect(cs, list, n),
         NEW k \in DOMAIN cs, NEW i \in DOMAIN list, cs[k].index = Unlinked,
         NEW linked, Links(linked, cs, k, list, i)
  PROVE  Owners(cs, i) # {} /\ Perfect(RemoveAt(linked, Min(Owners(cs, i))), list, n)
<1> DEFINE owners == Owners(cs, i)
<1>1. /\ Listed(cs) /\ Unique(cs) /\ \A c \in ToSet(cs) : Config(c, n)
      /\ \A m \in DOMAIN cs : cs[m] \in ToSet(cs)
      /\ DOMAIN cs = 1 .. Len(cs) /\ DOMAIN list = 1 .. Len(list)
      /\ Represents({c \in ToSet(cs) : c.index # Unlinked}, list)
  BY ListedOf, ListDomain DEF Perfect, Listed, ToSet
<1>2. i # Unlinked /\ i \in Nat /\ \A m \in DOMAIN list : m # Unlinked
  BY <1>1 DEF Unlinked
<1>3. PICK j \in DOMAIN cs : cs[j].index = i
  <2>1. PICK c \in ToSet(cs) : c.index = i
    BY <1>1 DEF Represents
  <2> QED
    BY <2>1 DEF ToSet
<1>4. ASSUME NEW m \in DOMAIN cs, cs[m].index = i PROVE m = j
  <2>1. cs[m] = cs[j]
    BY <1>1, <1>2, <1>3, <1>4 DEF Represents
  <2> QED
    BY <1>1, <2>1 DEF Unique
<1>5. owners = {j} /\ j \in Nat
  BY <1>1, <1>3, <1>4 DEF Owners
<1>6. Min(owners) = j /\ owners # {}
  BY <1>5, MinOfOne
<1> HIDE DEF owners
<1> DEFINE e == [id |-> cs[k].id, index |-> i, name |-> list[i].name, of |-> list[i].scene]
<1>7. linked = [cs EXCEPT ![k] = e]
  <2>1. PICK c : c = cs[k] /\ c = [id |-> c.id, index |-> c.index, name |-> c.name, of |-> c.of]
    BY <1>1 DEF Config
  <2>2. PICK x, y : x = list[i].name /\ y = list[i].scene
    OBVIOUS
  <2>3. [c EXCEPT !.index = i, !.name = x] = [id |-> c.id, index |-> i, name |-> x, of |-> c.of]
    <3>1. PICK q : q = [c EXCEPT !.index = i, !.name = x]
      OBVIOUS
    <3>2. q = [id |-> c.id, index |-> i, name |-> x, of |-> c.of]
      BY <2>1, <3>1
    <3> QED
      BY <3>1, <3>2
  <2>4. [[id |-> c.id, index |-> i, name |-> x, of |-> c.of] EXCEPT !.of = y] = e
    BY <2>1, <2>2
  <2>5. [Locate(c, list, i) EXCEPT !.of = list[i].scene] = e
    BY <2>2, <2>3, <2>4 DEF Locate
  <2> QED
    BY <2>1, <2>5 DEF Links
<1>8. e.id = cs[k].id /\ e.index = i /\ e.name = list[i].name /\ e.of = list[i].scene /\ Config(e, n)
  BY <1>1 DEF Config
<1> HIDE DEF e
<1>9. Listed(linked) /\ DOMAIN linked = DOMAIN cs
  BY <1>1, <1>7, ListedExcept
<1>10. linked[k] = e /\ \A m \in DOMAIN cs : m # k => linked[m] = cs[m]
  BY <1>7
<1>11. Unique(linked)
  <2>1. \A m \in DOMAIN cs : linked[m].id = cs[m].id
    BY <1>8, <1>10
  <2> QED
    BY <1>1, <1>9, <2>1 DEF Unique
<1>12. j # k /\ linked[j] = cs[j]
  BY <1>2, <1>3, <1>10
<1> DEFINE r == RemoveAt(linked, j)
<1>13. Listed(r) /\ Unique(r) /\ ToSet(r) = ToSet(linked) \ {cs[j]}
  BY <1>9, <1>11, <1>12, UniqueRemove
<1> HIDE DEF r
<1>14. ASSUME NEW m \in DOMAIN cs, m # j PROVE linked[m] \in ToSet(r)
  <2>1. linked[m].id # linked[j].id
    BY <1>9, <1>11, <1>14 DEF Unique
  <2> QED
    BY <1>9, <1>12, <1>13, <2>1 DEF ToSet
<1>15. ASSUME NEW c \in ToSet(r) PROVE c = e \/ (c \in ToSet(cs) /\ c # cs[j])
  <2>1. PICK m \in DOMAIN cs : c = linked[m]
    BY <1>9, <1>13 DEF ToSet
  <2>2. c # cs[j]
    BY <1>13
  <2> QED
    BY <1>1, <1>10, <2>1, <2>2
<1>16. ASSUME NEW c \in ToSet(r), c # e, c.index = i PROVE FALSE
  BY <1>1, <1>2, <1>3, <1>15, <1>16 DEF Represents
<1>17. Represents({c \in ToSet(r) : c.index # Unlinked}, list)
  <2>1. ASSUME NEW c \in ToSet(r), c.index # Unlinked
        PROVE  c.index \in DOMAIN list /\ c.name = list[c.index].name /\ c.of = list[c.index].scene
    BY <1>1, <1>8, <1>15, <2>1 DEF Represents
  <2>2. ASSUME NEW p \in DOMAIN list PROVE \E c \in ToSet(r) : c.index # Unlinked /\ c.index = p
    <3>1. CASE p = i
      <4>1. e \in ToSet(r)
        BY <1>10, <1>12, <1>14
      <4> QED
        BY <1>2, <1>8, <3>1, <4>1
    <3>2. CASE p # i
      <4>1. PICK c \in ToSet(cs) : c.index # Unlinked /\ c.index = p
        BY <1>1 DEF Represents
      <4>2. PICK m \in DOMAIN cs : c = cs[m]
        BY <4>1 DEF ToSet
      <4>3. m # j /\ m # k
        BY <1>3, <3>2, <4>1, <4>2
      <4>4. c \in ToSet(r)
        BY <1>10, <1>14, <4>2, <4>3
      <4> QED
        BY <4>1, <4>4
    <3> QED
      BY <3>1, <3>2
  <2>3. ASSUME NEW c \in ToSet(r), NEW d \in ToSet(r), c.index # Unlinked, c.index = d.index PROVE c = d
    <3>1. CASE c = e \/ d = e
      BY <1>8, <1>16, <2>3, <3>1
    <3>2. CASE c # e /\ d # e
      BY <1>1, <1>15, <2>3, <3>2 DEF Represents
    <3> QED
      BY <3>1, <3>2
  <2> QED
    BY <2>1, <2>2, <2>3 DEF Represents
<1>18. Perfect(r, list, n)
  BY <1>1, <1>8, <1>13, <1>15, <1>17 DEF Perfect
<1> QED
  BY <1>6, <1>18 DEF owners, r

\* Deleting a configuration that no scene has.
LEMMA DeletePerfect ==
  ASSUME NEW cs, NEW list, NEW n, Perfect(cs, list, n), NEW k \in DOMAIN cs, cs[k].index = Unlinked
  PROVE  Perfect(RemoveAt(cs, k), list, n)
<1> DEFINE r == RemoveAt(cs, k)
<1>1. Listed(r) /\ Unique(r) /\ ToSet(r) = ToSet(cs) \ {cs[k]}
  BY UniqueRemove DEF Perfect
<1> HIDE DEF r
<1>2. {c \in ToSet(r) : c.index # Unlinked} = {c \in ToSet(cs) : c.index # Unlinked}
  BY <1>1
<1>3. Perfect(r, list, n)
  BY <1>1, <1>2 DEF Perfect
<1> QED
  BY <1>3 DEF r

\* One configuration for every scene, the one made for it.
LEMMA PerfectOwners ==
  ASSUME NEW cs, NEW list \in Lists, NEW n, Perfect(cs, list, n), NEW i \in DOMAIN list
  PROVE  LET owners == {k \in DOMAIN cs : cs[k].index = i}
         IN Cardinality(owners) = 1
            /\ \A k \in owners : cs[k].of = list[i].scene /\ cs[k].name = list[i].name
<1> DEFINE C == {c \in ToSet(cs) : c.index # Unlinked}
           owners == {k \in DOMAIN cs : cs[k].index = i}
<1>1. Unique(cs) /\ Represents(C, list) /\ \A k \in DOMAIN cs : cs[k] \in ToSet(cs)
  BY DEF Perfect, ToSet
<1>2. i # Unlinked
  BY ListDomain DEF Unlinked
<1>3. \A k \in owners : cs[k] \in C
  BY <1>1, <1>2
<1>4. PICK c \in C : c.index = i
  BY <1>1 DEF Represents
<1>5. PICK k \in DOMAIN cs : cs[k] = c
  BY <1>4 DEF ToSet
<1>6. ASSUME NEW l \in owners PROVE l = k
  <2>1. cs[l] = cs[k]
    BY <1>1, <1>3, <1>4, <1>5, <1>6 DEF Represents
  <2> QED
    BY <1>1, <1>5, <2>1 DEF Unique
<1>7. owners = {k}
  BY <1>4, <1>5, <1>6
<1>8. Cardinality(owners) = 1
  BY <1>7, FS_Singleton
<1>9. \A l \in owners : cs[l].of = list[i].scene /\ cs[l].name = list[i].name
  BY <1>1, <1>3 DEF Represents
<1> QED
  BY <1>8, <1>9

-----------------------------------------------------------------------------
(* What the desk was, edition by edition                                   *)

\* H is the desk's past.
Past(H) ==
    /\ H \in [0 .. edition -> Lists] /\ H[edition] = desk
    /\ \A e \in 0 .. edition : e # 0 => Follows(H[e - 1], H[e])
Told(H) ==
    \A f \in ToSet(facts) : f.kind = "list" => f.edition \in 0 .. edition /\ f.list = H[f.edition]
Answered(H) ==
    recovery # None =>
        /\ recovery = [revision |-> recovery.revision, answered |-> recovery.answered,
                       list |-> recovery.list, edition |-> recovery.edition]
        /\ recovery.list # None =>
              recovery.edition \in 0 .. edition /\ recovery.list = H[recovery.edition]
Shown(H) == status = "ready" => followed \in 0 .. edition /\ seen = H[followed]
Matched(H) ==
    clear => /\ followed \in 0 .. edition /\ UniqueNames(H[followed])
             /\ ids \in Nat /\ Perfect(configs, H[followed], ids)
FollowInv ==
    /\ edition \in Nat /\ Listed(facts)
    /\ \E H : Past(H) /\ Told(H) /\ Answered(H) /\ Shown(H) /\ Matched(H)

LEMMA ScenesFollow == FollowInv => ConfigFollowsScene
<1> SUFFICES ASSUME FollowInv, clear, status = "ready" PROVE ConfigFollowsScene
  BY DEF ConfigFollowsScene
<1>1. PICK H : Past(H) /\ Shown(H) /\ Matched(H)
  BY DEF FollowInv
<1>2. seen \in Lists /\ Perfect(configs, seen, ids)
  BY <1>1 DEF Past, Shown, Matched
<1>3. \A i \in DOMAIN seen :
         LET owners == {k \in DOMAIN configs : configs[k].index = i}
         IN Cardinality(owners) = 1
            /\ \A k \in owners : configs[k].of = seen[i].scene /\ configs[k].name = seen[i].name
  BY <1>2, PerfectOwners
<1> QED
  BY <1>3 DEF ConfigFollowsScene

\* The library applies a list of the desk's past.
LEMMA FollowApply ==
  ASSUME edition \in Nat, NEW H, Past(H), Matched(H), NEW e \in 0 .. edition, Apply(H[e], e),
         UNCHANGED edition
  PROVE  Shown(H)' /\ Matched(H)'
<1>1. /\ seen' = H[e] /\ followed' = e /\ edition' = edition
      /\ configs' = Align(configs, H[e]).configs /\ ids' = Align(configs, H[e]).ids
      /\ clear' = (clear /\ e \in followed .. followed + 1 /\ UniqueNames(H[e]))
  BY DEF Apply
<1>2. Shown(H)'
  BY <1>1 DEF Shown
<1>3. Matched(H)'
  <2> SUFFICES ASSUME clear' PROVE /\ followed' \in 0 .. edition' /\ UniqueNames(H[followed'])
                                   /\ ids' \in Nat /\ Perfect(configs', H[followed'], ids')
    BY DEF Matched
  <2>1. clear /\ e \in followed .. followed + 1 /\ UniqueNames(H[e])
    BY <1>1
  <2>2. followed \in 0 .. edition /\ UniqueNames(H[followed]) /\ ids \in Nat /\ Perfect(configs, H[followed], ids)
    BY <2>1 DEF Matched
  <2>3. H[e] \in Lists /\ H[followed] \in Lists
    BY <2>2 DEF Past
  <2>4. Follows(H[followed], H[e])
    <3>1. CASE e = followed
      BY <2>3, <3>1, FollowsSelf
    <3>2. CASE e # followed
      <4>1. e - 1 = followed /\ e # 0
        BY <2>1, <2>2, <3>2
      <4> QED
        BY <4>1 DEF Past
    <3> QED
      BY <3>1, <3>2
  <2>5. PICK old, new : old = H[followed] /\ new = H[e]
    OBVIOUS
  <2>6. Align(configs, new).ids \in Nat /\ Perfect(Align(configs, new).configs, new, Align(configs, new).ids)
    BY <2>1, <2>2, <2>3, <2>4, <2>5, AlignPerfect
  <2> QED
    BY <1>1, <2>1, <2>5, <2>6
<1> QED
  BY <1>2, <1>3

\* The desk changes, and a connected console may announce it.
LEMMA FollowEdit ==
  ASSUME FollowInv, DeskEdit PROVE FollowInv'
<1>1. PICK H : Past(H) /\ Told(H) /\ Answered(H) /\ Shown(H) /\ Matched(H)
  BY DEF FollowInv
<1>2. PICK n \in Nat : n = edition /\ edition' = n + 1
  BY DEF FollowInv, DeskEdit
<1>0. PICK G : G = [e \in 0 .. n + 1 |-> IF e = n + 1 THEN desk' ELSE H[e]]
  OBVIOUS
<1>3. desk \in Lists /\ H \in [0 .. n -> Lists]
  BY <1>1, <1>2 DEF Past
<1>4. desk' \in Lists /\ Follows(desk, desk')
  <2>1. InsertScene \/ RemoveScene \/ MoveScene \/ RenameScene
    BY DEF DeskEdit
  <2>2. edition' \in Nat
    BY <1>2
  <2> QED
    BY <1>3, <2>1, <2>2, DeskFollows
<1>5. \A e \in 0 .. n : e # n + 1 /\ e \in 0 .. n + 1 /\ G[e] = H[e]
  BY <1>0
<1>6. n + 1 \in 0 .. n + 1 /\ G[n + 1] = desk' /\ n + 1 - 1 = n /\ n \in 0 .. n
  BY <1>0
<1>7. G \in [0 .. n + 1 -> Lists]
  <2>1. \A e \in 0 .. n + 1 : e # n + 1 => e \in 0 .. n
    OBVIOUS
  <2> QED
    BY <1>0, <1>3, <1>4, <2>1
<1>8. Past(G)'
  <2>1. ASSUME NEW e \in 0 .. n + 1, e # 0 PROVE Follows(G[e - 1], G[e])
    <3>1. CASE e = n + 1
      BY <1>1, <1>2, <1>4, <1>5, <1>6, <3>1 DEF Past
    <3>2. CASE e # n + 1
      <4>1. e \in 0 .. n /\ e - 1 \in 0 .. n
        BY <2>1, <3>2
      <4> QED
        BY <1>1, <1>2, <1>5, <2>1, <4>1 DEF Past
    <3> QED
      BY <3>1, <3>2
  <2> QED
    BY <1>2, <1>6, <1>7, <2>1 DEF Past
<1>9. UNCHANGED <<recovery, status, seen, followed, clear, ids, configs>>
  BY DEF DeskEdit, trackVars, documentVars
<1>10. 0 .. edition = 0 .. n /\ 0 .. edition' = 0 .. n + 1
  BY <1>2
<1>11. Listed(facts)' /\ Told(G)'
  <2>1. \A f \in ToSet(facts) : f.kind = "list" => f.edition \in 0 .. n + 1 /\ f.list = G[f.edition]
    BY <1>1, <1>5, <1>10 DEF Told
  <2>2. CASE known
    <3>1. PICK fact : fact = [kind |-> "list", list |-> desk', edition |-> edition']
      OBVIOUS
    <3>2. facts' = Append(facts, fact)
      BY <2>2, <3>1 DEF DeskEdit, Publish, ListFact
    <3>3. Listed(facts') /\ ToSet(facts') = ToSet(facts) \cup {fact}
      BY <3>2, ListedAppend DEF FollowInv
    <3>4. fact.edition = n + 1 /\ fact.list = desk'
      BY <1>2, <3>1
    <3> QED
      BY <1>6, <1>10, <2>1, <3>3, <3>4 DEF Told, Listed, ToSet
  <2>3. CASE ~known
    <3>1. facts' = facts
      BY <2>3 DEF DeskEdit
    <3> QED
      BY <1>10, <2>1, <3>1 DEF Told, FollowInv, Listed, ToSet
  <2> QED
    BY <2>2, <2>3
<1>12. Answered(G)'
  BY <1>1, <1>5, <1>9, <1>10 DEF Answered
<1>13. Shown(G)' /\ Matched(G)'
  BY <1>1, <1>5, <1>9, <1>10 DEF Shown, Matched
<1> QED
  BY <1>2, <1>8, <1>11, <1>12, <1>13 DEF FollowInv

LEMMA FollowKept ==
  ASSUME FollowInv, UNCHANGED <<desk, edition, facts, recovery, status, seen, followed>>,
         clear' => clear /\ UNCHANGED <<configs, ids>>
  PROVE  FollowInv'
<1>1. PICK H : Past(H) /\ Told(H) /\ Answered(H) /\ Shown(H) /\ Matched(H)
  BY DEF FollowInv
<1>2. Past(H)' /\ Told(H)' /\ Answered(H)' /\ Shown(H)' /\ Matched(H)'
  BY <1>1 DEF Past, Told, Answered, Shown, Matched, ToSet
<1> QED
  BY <1>2 DEF FollowInv, Listed, ToSet

\* A fact is queued, or the oldest is taken.
LEMMA FollowFacts ==
  ASSUME FollowInv, UNCHANGED <<desk, edition, recovery, status, seen, documentVars>>,
         \/ \E fact : /\ facts' = Append(facts, fact)
                      /\ fact.kind = "list" => fact.edition = edition /\ fact.list = desk
         \/ facts # <<>> /\ facts' = Tail(facts)
  PROVE  FollowInv'
<1>1. PICK H : Past(H) /\ Told(H) /\ Answered(H) /\ Shown(H) /\ Matched(H)
  BY DEF FollowInv
<1>2. PICK q : q = facts'
  OBVIOUS
<1>3. edition \in 0 .. edition /\ H[edition] = desk
  BY <1>1 DEF FollowInv, Past
<1>4. Listed(q) /\ \A f \in ToSet(q) : f.kind = "list" => f.edition \in 0 .. edition /\ f.list = H[f.edition]
  <2>1. CASE \E fact : /\ facts' = Append(facts, fact)
                       /\ fact.kind = "list" => fact.edition = edition /\ fact.list = desk
    <3>1. PICK fact : /\ facts' = Append(facts, fact)
                      /\ fact.kind = "list" => fact.edition = edition /\ fact.list = desk
      BY <2>1
    <3>2. Listed(q) /\ ToSet(q) = ToSet(facts) \cup {fact}
      BY <1>2, <3>1, ListedAppend DEF FollowInv
    <3> QED
      BY <1>1, <1>3, <3>1, <3>2 DEF Told
  <2>2. CASE facts # <<>> /\ facts' = Tail(facts)
    <3>1. Listed(q) /\ ToSet(q) \subseteq ToSet(facts)
      BY <1>2, <2>2, ListedTail DEF FollowInv
    <3> QED
      BY <1>1, <3>1 DEF Told
  <2> QED
    BY <2>1, <2>2
<1>5. Listed(facts)' /\ Told(H)'
  BY <1>2, <1>4 DEF Told, Listed, ToSet
<1>6. Past(H)' /\ Answered(H)' /\ Shown(H)' /\ Matched(H)'
  BY <1>1 DEF Past, Answered, Shown, Matched, documentVars
<1> QED
  BY <1>5, <1>6 DEF FollowInv

LEMMA FollowConsole ==
  ASSUME FollowInv, Console PROVE FollowInv'
<1>1. CASE DeskEdit
  BY <1>1, FollowEdit
<1>2. CASE Lose
  <2>1. UNCHANGED <<desk, edition, recovery, status, seen, documentVars>>
    BY <1>2 DEF Lose, trackVars
  <2>2. facts' = Append(facts, [kind |-> "gone"]) /\ [kind |-> "gone"].kind # "list"
    BY <1>2 DEF Lose, Publish
  <2> QED
    BY <2>1, <2>2, FollowFacts
<1>3. CASE Reconnect
  <2>1. UNCHANGED <<desk, edition, facts, recovery, status, seen, documentVars>>
    BY <1>3 DEF Reconnect, trackVars
  <2> QED
    BY <2>1, FollowKept DEF documentVars
<1>4. CASE Announce
  <2>1. UNCHANGED <<desk, edition, recovery, status, seen, documentVars>>
    BY <1>4 DEF Announce, trackVars
  <2>2. PICK fact : fact = [kind |-> "list", list |-> desk', edition |-> edition']
    OBVIOUS
  <2>3. facts' = Append(facts, fact) /\ fact.edition = edition /\ fact.list = desk
    BY <1>4, <2>1, <2>2 DEF Announce, Publish, ListFact
  <2> QED
    BY <2>1, <2>3, FollowFacts
<1>5. CASE AnswerRecovery
  <2>1. /\ UNCHANGED <<desk, edition, facts, status, seen, documentVars>> /\ recovery # None
        /\ recovery' = [recovery EXCEPT !.answered = TRUE, !.edition = edition,
                                        !.list = IF known THEN desk ELSE None]
    BY <1>5 DEF AnswerRecovery, lv1Vars
  <2>2. PICK H : Past(H) /\ Told(H) /\ Answered(H) /\ Shown(H) /\ Matched(H)
    BY DEF FollowInv
  <2>3. recovery' = [revision |-> recovery.revision, answered |-> TRUE,
                     list |-> IF known THEN desk ELSE None, edition |-> edition]
    <3>1. PICK r, n : r = recovery /\ n = r.revision
      OBVIOUS
    <3>2. r = [revision |-> r.revision, answered |-> r.answered, list |-> r.list, edition |-> r.edition]
      BY <2>1, <2>2, <3>1 DEF Answered
    <3>3. PICK l, q : /\ l = (IF known THEN desk ELSE None)
                      /\ q = [r EXCEPT !.answered = TRUE, !.edition = edition, !.list = l]
      OBVIOUS
    <3>4. q = [revision |-> r.revision, answered |-> TRUE, list |-> l, edition |-> edition]
      BY <3>2, <3>3
    <3> QED
      BY <2>1, <3>1, <3>3, <3>4
  <2>4. Answered(H)'
    <3>1. edition \in 0 .. edition /\ H[edition] = desk
      BY <2>2 DEF FollowInv, Past
    <3>2. PICK r, l : r = recovery' /\ l = (IF known THEN desk ELSE None)
      OBVIOUS
    <3>3. /\ r = [revision |-> r.revision, answered |-> r.answered, list |-> r.list, edition |-> r.edition]
          /\ r.edition = edition /\ r.list = l
      BY <2>3, <3>2
    <3> QED
      BY <2>1, <3>1, <3>2, <3>3 DEF Answered
  <2>5. Past(H)' /\ Told(H)' /\ Shown(H)' /\ Matched(H)' /\ Listed(facts)' /\ edition' \in Nat
    BY <2>1, <2>2 DEF FollowInv, Past, Told, Shown, Matched, documentVars, Listed, ToSet
  <2> QED
    BY <2>4, <2>5 DEF FollowInv
<1>6. CASE BusLag
  <2>1. /\ UNCHANGED <<desk, edition, recovery, status, seen, documentVars>>
        /\ facts # <<>> /\ facts' = Tail(facts)
    BY <1>6 DEF BusLag, lv1Vars, trackVars
  <2> QED
    BY <2>1, FollowFacts
<1> QED
  BY <1>1, <1>2, <1>3, <1>4, <1>5, <1>6 DEF Console

LEMMA FollowScenes ==
  ASSUME FollowInv, ReceiveList \/ FinishRecovery \/ ReceiveDisconnected \/ ReceiveLag
  PROVE  FollowInv'
<1>1. PICK H : Past(H) /\ Told(H) /\ Answered(H) /\ Shown(H) /\ Matched(H)
  BY DEF FollowInv
<1>2. edition \in Nat /\ Listed(facts)
  BY DEF FollowInv
<1>3. CASE ReceiveList
  <2>1. /\ facts # <<>> /\ facts' = Tail(facts) /\ Head(facts).kind = "list"
        /\ Apply(Head(facts).list, Head(facts).edition) /\ UNCHANGED <<desk, edition, recovery>>
    BY <1>3 DEF ReceiveList, Receives, lv1Vars
  <2>2. PICK q : q = facts'
    OBVIOUS
  <2>3. Listed(q) /\ ToSet(q) \subseteq ToSet(facts) /\ Head(facts) \in ToSet(facts)
    BY <1>2, <2>1, <2>2, ListedTail
  <2>4. PICK e \in 0 .. edition : e = Head(facts).edition /\ Head(facts).list = H[e]
    BY <1>1, <2>1, <2>3 DEF Told
  <2>5. Shown(H)' /\ Matched(H)'
    <3>1. Apply(H[e], e)
      BY <2>1, <2>4
    <3> QED
      BY <1>1, <1>2, <2>1, <3>1, FollowApply
  <2>6. Told(H)' /\ Listed(facts)'
    BY <1>1, <2>1, <2>2, <2>3 DEF Told, Listed, ToSet
  <2>7. Past(H)' /\ Answered(H)'
    BY <1>1, <2>1 DEF Past, Answered
  <2> QED
    BY <1>2, <2>1, <2>5, <2>6, <2>7 DEF FollowInv
<1>4. CASE FinishRecovery
  <2>1. recovery # None /\ recovery' = None /\ UNCHANGED <<desk, edition, facts>>
    BY <1>4 DEF FinishRecovery, lv1Vars
  <2>2. Past(H)' /\ Told(H)' /\ Listed(facts)' /\ Answered(H)'
    BY <1>1, <1>2, <2>1 DEF Past, Told, Listed, ToSet, Answered
  <2>3. CASE recovery.revision = revision /\ recovery.list # None
    <3>1. Apply(recovery.list, recovery.edition)
      BY <1>4, <2>3 DEF FinishRecovery
    <3>2. PICK e \in 0 .. edition : e = recovery.edition /\ recovery.list = H[e]
      BY <1>1, <2>1, <2>3 DEF Answered
    <3>3. Apply(H[e], e)
      BY <3>1, <3>2
    <3>4. Shown(H)' /\ Matched(H)'
      BY <1>1, <1>2, <2>1, <3>3, FollowApply
    <3> QED
      BY <1>2, <2>1, <2>2, <3>4 DEF FollowInv
  <2>4. CASE ~(recovery.revision = revision /\ recovery.list # None)
    <3>1. UNCHANGED <<documentVars, status, seen>>
      BY <1>4, <2>4 DEF FinishRecovery
    <3>2. Shown(H)' /\ Matched(H)'
      BY <1>1, <2>1, <3>1 DEF Shown, Matched, documentVars
    <3> QED
      BY <1>2, <2>1, <2>2, <3>2 DEF FollowInv
  <2> QED
    BY <2>3, <2>4
<1>5. CASE ReceiveDisconnected
  <2>1. /\ facts # <<>> /\ facts' = Tail(facts) /\ recovery' = None /\ status' = "awaiting"
        /\ UNCHANGED <<desk, edition, documentVars>>
    BY <1>5 DEF ReceiveDisconnected, Receives, lv1Vars
  <2>2. PICK q : q = facts'
    OBVIOUS
  <2>3. Listed(q) /\ ToSet(q) \subseteq ToSet(facts)
    BY <1>2, <2>1, <2>2, ListedTail
  <2>4. Told(H)' /\ Listed(facts)'
    BY <1>1, <2>1, <2>2, <2>3 DEF Told, Listed, ToSet
  <2>5. Past(H)' /\ Answered(H)' /\ Shown(H)' /\ Matched(H)'
    BY <1>1, <2>1 DEF Past, Answered, Shown, Matched, documentVars
  <2> QED
    BY <1>2, <2>1, <2>4, <2>5 DEF FollowInv
<1>6. CASE ReceiveLag
  <2>1. /\ facts' = <<>> /\ status' = "awaiting" /\ UNCHANGED <<desk, edition, documentVars>>
        /\ recovery' = [revision |-> revision, answered |-> FALSE, list |-> None, edition |-> 0]
    BY <1>6 DEF ReceiveLag, lv1Vars
  <2>2. Told(H)' /\ Listed(facts)'
    BY <2>1, NoEntries DEF Told, EntriesOK, Listed, ToSet
  <2>3. Answered(H)'
    BY <2>1 DEF Answered
  <2>4. Past(H)' /\ Shown(H)' /\ Matched(H)'
    BY <1>1, <2>1 DEF Past, Shown, Matched, documentVars
  <2> QED
    BY <1>2, <2>1, <2>2, <2>3, <2>4 DEF FollowInv
<1> QED
  BY <1>3, <1>4, <1>5, <1>6

\* The operator links or deletes a configuration.
LEMMA FollowDocument ==
  ASSUME FollowInv, LinkConfig \/ DeleteConfig PROVE FollowInv'
<1>1. PICK H : Past(H) /\ Told(H) /\ Answered(H) /\ Shown(H) /\ Matched(H)
  BY DEF FollowInv
<1>2. UNCHANGED <<desk, edition, facts, recovery, status, seen, followed, ids>>
  BY DEF LinkConfig, DeleteConfig, lv1Vars, trackVars
<1>3. Past(H)' /\ Told(H)' /\ Answered(H)' /\ Shown(H)' /\ Listed(facts)' /\ edition' \in Nat
  BY <1>1, <1>2 DEF FollowInv, Past, Told, Answered, Shown, Listed, ToSet
<1>4. SUFFICES ASSUME clear', clear PROVE Perfect(configs', H[followed], ids)
  <2>1. clear' => clear
    BY DEF LinkConfig, DeleteConfig
  <2>2. Matched(H)'
    BY <1>1, <1>2, <1>4, <2>1 DEF Matched
  <2> QED
    BY <1>3, <2>2 DEF FollowInv
<1>5. /\ followed \in 0 .. edition /\ Perfect(configs, H[followed], ids) /\ H[followed] \in Lists
  BY <1>1, <1>4 DEF Past, Matched
<1>6. PICK list, cs, n : list \in Lists /\ list = H[followed] /\ cs = configs /\ n = ids
  BY <1>5
<1>7. CASE LinkConfig
  <2>1. seen = H[followed] /\ seen \in Lists /\ Perfect(configs, seen, ids)
    BY <1>1, <1>5, <1>7 DEF LinkConfig, Shown
  <2>2. PICK k \in DOMAIN configs, i \in DOMAIN seen, overwrite \in BOOLEAN :
          LET owners == {j \in DOMAIN configs : configs[j].index = i}
              linked == [configs EXCEPT ![k] = [Locate(@, seen, i) EXCEPT !.of = seen[i].scene]]
          IN /\ configs[k].index = Unlinked
             /\ owners = {} \/ overwrite
             /\ configs' = IF owners = {} THEN linked ELSE RemoveAt(linked, Min(owners))
    BY <1>7 DEF LinkConfig
  <2>3. PICK linked, owners : Links(linked, configs, k, seen, i) /\ owners = Owners(configs, i)
    BY DEF Links
  <2>4. /\ configs[k].index = Unlinked
        /\ configs' = IF owners = {} THEN linked ELSE RemoveAt(linked, Min(owners))
    BY <2>2, <2>3 DEF Links, Owners
  <2>5. owners # {} /\ Perfect(RemoveAt(linked, Min(owners)), seen, ids)
    BY <2>1, <2>3, <2>4, LinkPerfect
  <2> QED
    BY <2>1, <2>4, <2>5
<1>8. CASE DeleteConfig
  <2>1. PICK k \in DOMAIN cs : /\ configs' = RemoveAt(cs, k)
                               /\ clear' = (clear /\ cs[k].index = Unlinked)
    BY <1>6, <1>8 DEF DeleteConfig
  <2> QED
    BY <1>4, <1>5, <1>6, <2>1, DeletePerfect
<1> QED
  BY <1>7, <1>8

LEMMA FollowStep ==
  ASSUME FollowInv, [Next]_vars PROVE FollowInv'
<1>1. CASE ConsoleTurn
  BY <1>1, FollowConsole DEF ConsoleTurn
<1>2. CASE LibraryTurn
  BY <1>2, FollowScenes, FollowDocument DEF LibraryTurn
<1>3. CASE ReplaceSession
  <2>1. UNCHANGED <<desk, edition, facts, recovery, status, seen, followed>> /\ clear' = FALSE
    BY <1>3 DEF ReplaceSession, lv1Vars, trackVars
  <2> QED
    BY <2>1, FollowKept
<1>4. CASE SendCommand \/ OpenEditor \/ SendGo \/ TakeCue \/ RecallGo \/ CompleteGo
           \/ SaveSession \/ UNCHANGED vars
  <2>1. UNCHANGED <<desk, edition, facts, recovery, status, seen, documentVars>>
    BY <1>4 DEF SendCommand, OpenEditor, SendGo, TakeCue, RecallGo, CompleteGo, SaveSession,
                vars, libraryVars, lv1Vars, trackVars
  <2> QED
    BY <2>1, FollowKept DEF documentVars
<1> QED
  BY <1>1, <1>2, <1>3, <1>4 DEF Next

LEMMA FollowInitially == CueInit => FollowInv
<1> SUFFICES ASSUME CueInit PROVE FollowInv
  OBVIOUS
<1>1. /\ edition = 0 /\ facts = <<>> /\ recovery = None /\ seen = desk /\ followed = 0
      /\ configs = [i \in DOMAIN desk |-> Default(i, desk, i)] /\ ids = Len(desk)
      /\ clear = UniqueNames(desk) /\ desk \in Lists
  BY LibraryAssumption DEF CueInit, LibraryInit, Lists, Entries
<1>2. PICK H : H = [e \in 0 .. 0 |-> desk]
  OBVIOUS
<1>3. H \in [0 .. 0 -> Lists] /\ H[0] = desk /\ 0 \in 0 .. 0 /\ \A e \in 0 .. 0 : e = 0
  BY <1>1, <1>2
<1>4. Listed(facts) /\ ToSet(facts) = {}
  BY <1>1, NoEntries DEF EntriesOK, ToSet
<1>5. Past(H) /\ Told(H) /\ Answered(H) /\ Shown(H)
  BY <1>1, <1>3, <1>4 DEF Past, Told, Answered, Shown
<1>6. Len(desk) \in Nat /\ DOMAIN desk = 1 .. Len(desk)
  BY <1>1, ListDomain
<1>7. PICK n, list, cs : n \in Nat /\ list \in Lists /\ n = ids /\ list = desk /\ cs = configs /\ DOMAIN list = 1 .. n
  BY <1>1, <1>6
<1>8. /\ cs \in [1 .. n -> ToSet(cs)]
      /\ \A i \in 1 .. n : cs[i] = [id |-> i, index |-> i, name |-> list[i].name, of |-> list[i].scene]
  BY <1>1, <1>7 DEF Default, ToSet
<1>9. Listed(cs) /\ DOMAIN cs = 1 .. n
  BY <1>7, <1>8, SeqDef DEF Listed
<1>10. ASSUME NEW c \in ToSet(cs)
       PROVE  \E i \in 1 .. n : c = [id |-> i, index |-> i, name |-> list[i].name, of |-> list[i].scene]
  BY <1>8, <1>9 DEF ToSet
<1>11. Unique(cs)
  BY <1>8, <1>9 DEF Unique
<1>12. \A c \in ToSet(cs) : Config(c, n) /\ c.index # Unlinked
  BY <1>10 DEF Config, Unlinked
<1>13. Represents(ToSet(cs), list)
  <2>1. \A i \in 1 .. n : cs[i] \in ToSet(cs) /\ cs[i].index = i
    BY <1>8, <1>9 DEF ToSet
  <2> QED
    BY <1>7, <1>10, <2>1 DEF Represents
<1>14. {c \in ToSet(cs) : c.index # Unlinked} = ToSet(cs)
  BY <1>12
<1>15. Perfect(cs, list, n)
  BY <1>9, <1>11, <1>12, <1>13, <1>14 DEF Perfect
<1>16. Matched(H)
  BY <1>1, <1>3, <1>7, <1>15 DEF Matched
<1> QED
  BY <1>1, <1>4, <1>5, <1>16 DEF FollowInv

\* As long as every change of the desk was seen, one at a time and under unique names,
\* each scene of the list shown has exactly one configuration, the one made for it:
\* however scenes are moved, inserted, removed and renamed, announcements are lost
\* and made up for, and configurations are linked, alignment gives none to another
\* scene and loses none.
THEOREM FollowsCorrect == Spec => []ConfigFollowsScene
BY FollowInitially, FollowStep, ScenesFollow, PTL DEF Spec

=============================================================================
