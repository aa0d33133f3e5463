----------------------------- MODULE ScriptProofs -----------------------------
(***************************************************************************)
(* What C++ keeps for scripts: their functions, statements, boss bars, the *)
(* parameters of their commands and their modules, for every number of     *)
(* each.                                                                   *)
(***************************************************************************)
EXTENDS Handles, Statements, BossBars, CommandParameters, ScriptModules,
        SequenceTheorems, FiniteSetTheorems, WellFoundedInduction, TLAPS

\* The least counterexample: what proofs by induction over numbers rest on.
LEMMA LeastNumber ==
  ASSUME NEW T, T \subseteq Nat, T # {}
  PROVE  \E m \in T : \A k \in T : m <= k
<1>1. PICK m \in T : \A k \in T : ~(<<k, m>> \in OpToRel(<, Nat))
  BY WFMin, NatLessThanWellFounded, Zenon
<1>2. \A k \in T : ~(k < m)
  BY <1>1 DEF OpToRel
<1>3. \A k \in T : k \in Int
  OBVIOUS
<1> QED  BY <1>2, <1>3

\* All but the last, and the last, of a sequence.
LEMMA LastFrontFacts ==
  ASSUME NEW S, NEW s \in Seq(S), s # <<>>
  PROVE  /\ Len(s) \in Nat \ {0}
         /\ Last(s) = s[Len(s)] /\ Last(s) \in S
         /\ Front(s) \in Seq(S) /\ Len(Front(s)) = Len(s) - 1
         /\ \A i \in 1..(Len(s) - 1) : Front(s)[i] = s[i]
<1>1. Len(s) \in Nat \ {0}  BY EmptySeq
<1>2. \A i \in 1..Len(s) : s[i] \in S  BY ElementOfSeq
<1>3. Last(s) = s[Len(s)] /\ Last(s) \in S  BY <1>1, <1>2 DEF Last
<1>4. Front(s) = SubSeq(s, 1, Len(s) - 1)  BY DEF Front
<1>5. 1 \in Int /\ Len(s) - 1 \in Int /\ \A i \in 1..(Len(s) - 1) : s[i] \in S
  BY <1>1, <1>2
<1>6. /\ Front(s) \in Seq(S)
      /\ Len(Front(s)) = IF 1 <= Len(s) - 1 THEN (Len(s) - 1) - 1 + 1 ELSE 0
      /\ \A i \in 1..((Len(s) - 1) - 1 + 1) : Front(s)[i] = s[1 + i - 1]
  BY <1>4, <1>5, SubSeqProperties
<1>7. /\ (Len(s) - 1) - 1 + 1 = Len(s) - 1 /\ (1 <= Len(s) - 1 \/ Len(s) - 1 = 0)
      /\ \A i \in 1..(Len(s) - 1) : 1 + i - 1 = i
  <2>1. \A k \in Nat \ {0} : /\ (k - 1) - 1 + 1 = k - 1 /\ (1 <= k - 1 \/ k - 1 = 0)
                              /\ \A i \in 1..(k - 1) : 1 + i - 1 = i
    OBVIOUS
  <2> QED  BY <1>1, <2>1
<1>8. \A i \in 1..(Len(s) - 1) : Front(s)[i] = s[i]
  BY <1>6, <1>7
<1>9. Len(Front(s)) = Len(s) - 1
  BY <1>6, <1>7
<1>10. QED  BY <1>1, <1>3, <1>6, <1>8, <1>9

\* The last is another.
WithLast(s, x) == Front(s) \o <<x>>

LEMMA LastReplaced ==
  ASSUME NEW S, NEW s \in Seq(S), s # <<>>, NEW x \in S
  PROVE  WithLast(s, x) = [s EXCEPT ![Len(s)] = x]
<1> DEFINE t == WithLast(s, x)
           u == Front(s)
           v == <<x>>
<1>1. /\ Len(s) \in Nat \ {0} /\ u \in Seq(S) /\ Len(u) = Len(s) - 1
      /\ \A i \in 1..(Len(s) - 1) : u[i] = s[i]
  BY LastFrontFacts
<1>2. v \in Seq(S) /\ Len(v) = 1 /\ v[1] = x
  OBVIOUS
<1>3. t = u \o v
  BY DEF WithLast
<1> HIDE DEF t, u, v
<1>4. /\ t \in Seq(S) /\ Len(t) = Len(u) + Len(v)
      /\ \A i \in 1..(Len(u) + Len(v)) : t[i] = IF i <= Len(u) THEN u[i] ELSE v[i - Len(u)]
  BY <1>1, <1>2, <1>3, ConcatProperties
<1>5. Len(t) = Len(s) /\ t[Len(s)] = x /\ \A i \in 1..(Len(s) - 1) : t[i] = s[i]
  BY <1>1, <1>2, <1>4
<1>6. \A i \in 1..Len(s) : t[i] = [s EXCEPT ![Len(s)] = x][i]
  BY <1>1, <1>5
<1>7. t = [s EXCEPT ![Len(s)] = x]
  BY <1>1, <1>4, <1>5, <1>6, SMTT(20)
<1> QED  BY <1>7 DEF t

----------------------------------------------------------------------------

\* Functions that C++ holds.

Held(h, v) == {s \in Slots : h[s] = v}
One(P) == IF P THEN 1 ELSE 0

LEMMA HeldCounts ==
  ASSUME NEW h, NEW v
  PROVE  /\ IsFiniteSet(Held(h, v)) /\ Cardinality(Held(h, v)) \in Nat
         /\ \A s \in Slots : h[s] = v => Cardinality(Held(h, v)) > 0
<1>1. IsFiniteSet(Held(h, v)) /\ Cardinality(Held(h, v)) \in Nat
  <2>1. Held(h, v) \subseteq Slots  BY DEF Held
  <2>2. QED  BY <2>1, FS_Subset, FS_CardinalityType, HandlesAssumption
<1>2. ASSUME NEW s \in Slots, h[s] = v
      PROVE  Cardinality(Held(h, v)) > 0
  <2>1. Held(h, v) # {}  BY <1>2 DEF Held
  <2>2. QED  BY <1>1, <2>1, FS_EmptySet
<1>3. QED  BY <1>1, <1>2

LEMMA OneHolderChanges ==
  ASSUME NEW h, NEW s \in Slots, NEW w, NEW v, h = [t \in Slots |-> h[t]]
  PROVE  Cardinality(Held([h EXCEPT ![s] = w], v)) =
            Cardinality(Held(h, v)) - One(h[s] = v) + One(w = v)
<1> DEFINE A == Held(h, v)
           B == Held([h EXCEPT ![s] = w], v)
<1>1. IsFiniteSet(A) /\ Cardinality(A) \in Nat
  BY HeldCounts
<1>2. CASE h[s] = v /\ w # v
  <2>1. B = A \ {s} /\ s \in A  BY <1>2 DEF Held
  <2>2. Cardinality(B) = Cardinality(A) - 1  BY <1>1, <2>1, FS_RemoveElement
  <2>3. QED  BY <1>1, <1>2, <2>2 DEF One
<1>3. CASE h[s] # v /\ w = v
  <2>1. B = A \cup {s} /\ s \notin A  BY <1>3 DEF Held
  <2>2. QED  BY <1>1, <1>3, <2>1, FS_AddElement DEF One
<1>4. CASE h[s] = v <=> w = v
  <2>1. B = A  BY <1>4 DEF Held
  <2>2. QED  BY <1>1, <1>4, <2>1 DEF One
<1>5. QED  BY <1>2, <1>3, <1>4

\* A move: what was in t is no longer held.
LEMMA HolderMoves ==
  ASSUME NEW h, NEW s \in Slots, NEW t \in Slots, NEW v \in Callees, h = [r \in Slots |-> h[r]]
  PROVE  Cardinality(Held([h EXCEPT ![t] = h[s], ![s] = Null], v)) =
            Cardinality(Held(h, v)) - One(h[t] = v)
<1> DEFINE g == [h EXCEPT ![t] = h[s]]
<1>1. g = [r \in Slots |-> g[r]] /\ g[s] = h[s]
  OBVIOUS
<1>2. Cardinality(Held(g, v)) = Cardinality(Held(h, v)) - One(h[t] = v) + One(h[s] = v)
  BY OneHolderChanges
<1>3. Cardinality(Held([g EXCEPT ![s] = Null], v)) = Cardinality(Held(g, v)) - One(h[s] = v) + One(Null = v)
  <2> HIDE DEF g
  <2>1. QED  BY <1>1, OneHolderChanges
<1>4. [g EXCEPT ![s] = Null] = [h EXCEPT ![t] = h[s], ![s] = Null]
  OBVIOUS
<1>5. Cardinality(Held(h, v)) \in Nat  BY HeldCounts
<1> HIDE DEF g
<1>6. QED  BY <1>2, <1>3, <1>4, <1>5, HandlesAssumption DEF One

LEMMA Counted ==
  ASSUME NEW c \in [Callees -> Nat], NEW v \in Callees \cup {Null}
  PROVE  /\ AddRef(c, v) \in [Callees -> Nat]
         /\ Release(c, v) \in [Callees -> Nat]
         /\ \A u \in Callees :
               /\ AddRef(c, v)[u] = c[u] + One(u = v)
               /\ Release(c, v)[u] = IF u = v /\ c[u] > 0 THEN c[u] - 1 ELSE c[u]
BY HandlesAssumption DEF AddRef, Release, One

LEMMA Recounted ==
  ASSUME NEW c \in [Callees -> Nat], NEW v \in Callees \cup {Null}, NEW w \in Callees \cup {Null}
  PROVE  /\ AddRef(Release(c, v), w) \in [Callees -> Nat]
         /\ \A u \in Callees : AddRef(Release(c, v), w)[u] =
               (IF u = v /\ c[u] > 0 THEN c[u] - 1 ELSE c[u]) + One(u = w)
<1>1. Release(c, v) \in [Callees -> Nat]  BY Counted
<1>2. QED  BY <1>1, Counted

HandlesTypeOK ==
    /\ count \in [Callees -> Nat] /\ lost \in [Callees -> Nat]
    /\ holder \in [Slots -> Callees \cup {Null, NoHolder}]
    /\ reached \subseteq Callees
    /\ handler \in Callees \cup {Null}
    /\ robbed \subseteq Callees

\* HeldIsAlive, value by value.
Kept ==
    \A u \in Callees \ robbed : \A r \in Slots : holder[r] = u => u \notin collected
Balanced ==
    \A u \in Callees \ robbed : count[u] = Cardinality(Held(holder, u)) + lost[u]

\* A value that scripts reach or a holder holds is there.
HandlesInv == HandlesTypeOK /\ reached \cap collected = {} /\ Kept /\ Balanced

LEMMA HandlesInvStep ==
  ASSUME HandlesInv, [HandlesNext]_handlesVars
  PROVE  HandlesInv'
<1>0. /\ HandlesTypeOK /\ reached \cap collected = {} /\ Kept /\ Balanced
      /\ holder = [t \in Slots |-> holder[t]]
  BY DEF HandlesInv, HandlesTypeOK
<1>p. SUFFICES HandlesTypeOK' /\ (reached \cap collected = {})' /\ Kept' /\ Balanced'
  BY DEF HandlesInv
<1>b. ASSUME NEW u \in Callees \ robbed
      PROVE  /\ count[u] = Cardinality(Held(holder, u)) + lost[u]
             /\ count[u] \in Nat /\ lost[u] \in Nat /\ Cardinality(Held(holder, u)) \in Nat
             /\ \A r \in Slots : holder[r] = u => count[u] > 0
  <2>1. Cardinality(Held(holder, u)) \in Nat /\ \A r \in Slots : holder[r] = u => Cardinality(Held(holder, u)) > 0
    BY HeldCounts
  <2>2. QED  BY <1>0, <2>1 DEF Balanced, HandlesTypeOK
<1>1. ASSUME NEW s \in Slots, NEW v \in Callees, Construct(s, v)
      PROVE  HandlesTypeOK' /\ (reached \cap collected = {})' /\ Kept' /\ Balanced'
  <2> USE <1>1 DEF Construct, Put, There
  <2>1. /\ AddRef(count, v) \in [Callees -> Nat]
        /\ \A u \in Callees \ robbed :
              AddRef(count, v)[u] = count[u] + One(u = v)
    BY <1>0, Counted DEF HandlesTypeOK
  <2>2. HandlesTypeOK' /\ (reached \cap collected = {})'
    BY <2>1, <1>0, HandlesAssumption DEF HandlesTypeOK
  <2>3. Kept'
    BY <1>0, HandlesAssumption DEF HandlesTypeOK, Kept
  <2>4. ASSUME NEW u \in Callees \ robbed'
        PROVE  count'[u] = Cardinality(Held(holder', u)) + lost'[u]
    <3>1. Cardinality(Held(holder', u)) = Cardinality(Held(holder, u)) - One(holder[s] = u) + One(v = u)
      BY <1>0, OneHolderChanges
    <3>2. QED  BY <2>1, <3>1, <1>0, <1>b, HandlesAssumption DEF One
  <2>5. QED  BY <2>2, <2>3, <2>4 DEF Balanced
<1>2. ASSUME NEW s \in Slots, NEW v \in Callees, AssignValue(s, v)
      PROVE  HandlesTypeOK' /\ (reached \cap collected = {})' /\ Kept' /\ Balanced'
  <2> USE <1>2 DEF AssignValue, Assign, Put, There
  <2>1. /\ AddRef(Release(count, holder[s]), v) \in [Callees -> Nat]
        /\ \A u \in Callees \ robbed :
              AddRef(Release(count, holder[s]), v)[u] = count[u] - One(holder[s] = u) + One(u = v)
    <3>1. count \in [Callees -> Nat] /\ holder[s] \in Callees \cup {Null}
      BY <1>0, HandlesAssumption DEF HandlesTypeOK
    <3>2. /\ AddRef(Release(count, holder[s]), v) \in [Callees -> Nat]
          /\ \A u \in Callees : AddRef(Release(count, holder[s]), v)[u] = (IF u = holder[s] /\ count[u] > 0 THEN count[u] - 1 ELSE count[u]) + One(u = v)
      BY <3>1, Recounted
    <3>3. ASSUME NEW u \in Callees \ robbed
          PROVE  AddRef(Release(count, holder[s]), v)[u] = count[u] - One(holder[s] = u) + One(u = v)
      <4>1. count[u] \in Nat /\ (holder[s] = u => count[u] > 0)
        BY <1>b
      <4>2. QED  BY <3>2, <4>1 DEF One
    <3>4. QED  BY <3>2, <3>3
  <2>2. HandlesTypeOK' /\ (reached \cap collected = {})'
    BY <2>1, <1>0, HandlesAssumption DEF HandlesTypeOK
  <2>3. Kept'
    BY <1>0, HandlesAssumption DEF HandlesTypeOK, Kept
  <2>4. ASSUME NEW u \in Callees \ robbed'
        PROVE  count'[u] = Cardinality(Held(holder', u)) + lost'[u]
    <3>1. Cardinality(Held(holder', u)) = Cardinality(Held(holder, u)) - One(holder[s] = u) + One(v = u)
      BY <1>0, OneHolderChanges
    <3>2. QED  BY <2>1, <3>1, <1>0, <1>b, HandlesAssumption DEF One
  <2>5. QED  BY <2>2, <2>3, <2>4 DEF Balanced
<1>3. ASSUME NEW s \in Slots, NEW t \in Slots, Copy(s, t)
      PROVE  HandlesTypeOK' /\ (reached \cap collected = {})' /\ Kept' /\ Balanced'
  <2> USE <1>3 DEF Copy, Put, There
  <2>1. /\ AddRef(count, holder[s]) \in [Callees -> Nat]
        /\ \A u \in Callees \ robbed :
              AddRef(count, holder[s])[u] = count[u] + One(u = holder[s])
    <3>1. count \in [Callees -> Nat] /\ holder[s] \in Callees \cup {Null}
      BY <1>0, HandlesAssumption DEF HandlesTypeOK
    <3>2. /\ AddRef(count, holder[s]) \in [Callees -> Nat]
          /\ \A u \in Callees : AddRef(count, holder[s])[u] = count[u] + One(u = holder[s])
      BY <3>1, Counted
    <3>3. ASSUME NEW u \in Callees \ robbed
          PROVE  AddRef(count, holder[s])[u] = count[u] + One(u = holder[s])
      <4>1. count[u] \in Nat
        BY <1>b
      <4>2. QED  BY <3>2, <4>1 DEF One
    <3>4. QED  BY <3>2, <3>3
  <2>2. HandlesTypeOK' /\ (reached \cap collected = {})'
    BY <2>1, <1>0, HandlesAssumption DEF HandlesTypeOK
  <2>3. Kept'
    BY <1>0, HandlesAssumption DEF HandlesTypeOK, Kept
  <2>4. ASSUME NEW u \in Callees \ robbed'
        PROVE  count'[u] = Cardinality(Held(holder', u)) + lost'[u]
    <3>1. Cardinality(Held(holder', u)) = Cardinality(Held(holder, u)) - One(holder[t] = u) + One(holder[s] = u)
      BY <1>0, OneHolderChanges
    <3>2. QED  BY <2>1, <3>1, <1>0, <1>b, HandlesAssumption DEF One
  <2>5. QED  BY <2>2, <2>3, <2>4 DEF Balanced
<1>4. ASSUME NEW s \in Slots, NEW t \in Slots, Move(s, t)
      PROVE  HandlesTypeOK' /\ (reached \cap collected = {})' /\ Kept' /\ Balanced'
  <2> USE <1>4 DEF Move, Put, There
  <2>2. HandlesTypeOK' /\ (reached \cap collected = {})'
    BY <1>0, HandlesAssumption DEF HandlesTypeOK
  <2>3. Kept'
    BY <1>0, HandlesAssumption DEF HandlesTypeOK, Kept
  <2>4. ASSUME NEW u \in Callees \ robbed'
        PROVE  count'[u] = Cardinality(Held(holder', u)) + lost'[u]
    <3>1. Cardinality(Held(holder', u)) = Cardinality(Held(holder, u)) - One(holder[t] = u)
      BY <1>0, HolderMoves
    <3>2. QED  BY <3>1, <1>0, <1>b, HandlesAssumption DEF One
  <2>5. QED  BY <2>2, <2>3, <2>4 DEF Balanced
<1>5. ASSUME NEW s \in Slots, NEW t \in Slots, AssignCopy(s, t)
      PROVE  HandlesTypeOK' /\ (reached \cap collected = {})' /\ Kept' /\ Balanced'
  <2> USE <1>5 DEF AssignCopy, Assign, Put, There
  <2>1. /\ AddRef(Release(count, holder[t]), holder[s]) \in [Callees -> Nat]
        /\ \A u \in Callees \ robbed :
              AddRef(Release(count, holder[t]), holder[s])[u] = count[u] - One(holder[t] = u) + One(u = holder[s])
    <3>1. count \in [Callees -> Nat] /\ holder[s] \in Callees \cup {Null} /\ holder[t] \in Callees \cup {Null}
      BY <1>0, HandlesAssumption DEF HandlesTypeOK
    <3>2. /\ AddRef(Release(count, holder[t]), holder[s]) \in [Callees -> Nat]
          /\ \A u \in Callees : AddRef(Release(count, holder[t]), holder[s])[u] = (IF u = holder[t] /\ count[u] > 0 THEN count[u] - 1 ELSE count[u]) + One(u = holder[s])
      BY <3>1, Recounted
    <3>3. ASSUME NEW u \in Callees \ robbed
          PROVE  AddRef(Release(count, holder[t]), holder[s])[u] = count[u] - One(holder[t] = u) + One(u = holder[s])
      <4>1. count[u] \in Nat /\ (holder[t] = u => count[u] > 0)
        BY <1>b
      <4>2. QED  BY <3>2, <4>1 DEF One
    <3>4. QED  BY <3>2, <3>3
  <2>2. HandlesTypeOK' /\ (reached \cap collected = {})'
    BY <2>1, <1>0, HandlesAssumption DEF HandlesTypeOK
  <2>3. Kept'
    BY <1>0, HandlesAssumption DEF HandlesTypeOK, Kept
  <2>4. ASSUME NEW u \in Callees \ robbed'
        PROVE  count'[u] = Cardinality(Held(holder', u)) + lost'[u]
    <3>1. Cardinality(Held(holder', u)) = Cardinality(Held(holder, u)) - One(holder[t] = u) + One(holder[s] = u)
      BY <1>0, OneHolderChanges
    <3>2. QED  BY <2>1, <3>1, <1>0, <1>b, HandlesAssumption DEF One
  <2>5. QED  BY <2>2, <2>3, <2>4 DEF Balanced
<1>6. ASSUME NEW s \in Slots, NEW t \in Slots, AssignMove(s, t)
      PROVE  HandlesTypeOK' /\ (reached \cap collected = {})' /\ Kept' /\ Balanced'
  <2> USE <1>6 DEF AssignMove, Put, There
  <2>1. /\ AddRef(Release(count, holder[t]), holder[s]) \in [Callees -> Nat]
        /\ \A u \in Callees \ robbed :
              AddRef(Release(count, holder[t]), holder[s])[u] = count[u] - One(holder[t] = u) + One(u = holder[s])
    <3>1. count \in [Callees -> Nat] /\ holder[s] \in Callees \cup {Null} /\ holder[t] \in Callees \cup {Null}
      BY <1>0, HandlesAssumption DEF HandlesTypeOK
    <3>2. /\ AddRef(Release(count, holder[t]), holder[s]) \in [Callees -> Nat]
          /\ \A u \in Callees : AddRef(Release(count, holder[t]), holder[s])[u] = (IF u = holder[t] /\ count[u] > 0 THEN count[u] - 1 ELSE count[u]) + One(u = holder[s])
      BY <3>1, Recounted
    <3>3. ASSUME NEW u \in Callees \ robbed
          PROVE  AddRef(Release(count, holder[t]), holder[s])[u] = count[u] - One(holder[t] = u) + One(u = holder[s])
      <4>1. count[u] \in Nat /\ (holder[t] = u => count[u] > 0)
        BY <1>b
      <4>2. QED  BY <3>2, <4>1 DEF One
    <3>4. QED  BY <3>2, <3>3
  <2>l. /\ AddRef(lost, holder[s]) \in [Callees -> Nat]
        /\ \A u \in Callees : AddRef(lost, holder[s])[u] = lost[u] + One(u = holder[s])
    <3>1. lost \in [Callees -> Nat] /\ holder[s] \in Callees \cup {Null}
      BY <1>0 DEF HandlesTypeOK
    <3>2. QED  BY <3>1, Counted
  <2>2. HandlesTypeOK' /\ (reached \cap collected = {})'
    BY <2>1, <1>0, <2>l, HandlesAssumption DEF HandlesTypeOK
  <2>3. Kept'
    BY <1>0, HandlesAssumption DEF HandlesTypeOK, Kept
  <2>4. ASSUME NEW u \in Callees \ robbed'
        PROVE  count'[u] = Cardinality(Held(holder', u)) + lost'[u]
    <3>1. Cardinality(Held(holder', u)) = Cardinality(Held(holder, u)) - One(holder[t] = u)
      BY <1>0, HolderMoves
    <3>2. QED  BY <2>1, <3>1, <1>0, <1>b, <2>l, HandlesAssumption DEF One
  <2>5. QED  BY <2>2, <2>3, <2>4 DEF Balanced
<1>7. ASSUME NEW s \in Slots, Destruct(s)
      PROVE  HandlesTypeOK' /\ (reached \cap collected = {})' /\ Kept' /\ Balanced'
  <2> USE <1>7 DEF Destruct, Put, There
  <2>1. /\ Release(count, holder[s]) \in [Callees -> Nat]
        /\ \A u \in Callees \ robbed :
              Release(count, holder[s])[u] = count[u] - One(holder[s] = u)
    <3>1. count \in [Callees -> Nat] /\ holder[s] \in Callees \cup {Null}
      BY <1>0, HandlesAssumption DEF HandlesTypeOK
    <3>2. /\ Release(count, holder[s]) \in [Callees -> Nat]
          /\ \A u \in Callees : Release(count, holder[s])[u] = (IF u = holder[s] /\ count[u] > 0 THEN count[u] - 1 ELSE count[u])
      BY <3>1, Counted
    <3>3. ASSUME NEW u \in Callees \ robbed
          PROVE  Release(count, holder[s])[u] = count[u] - One(holder[s] = u)
      <4>1. count[u] \in Nat /\ (holder[s] = u => count[u] > 0)
        BY <1>b
      <4>2. QED  BY <3>2, <4>1 DEF One
    <3>4. QED  BY <3>2, <3>3
  <2>2. HandlesTypeOK' /\ (reached \cap collected = {})'
    BY <2>1, <1>0, HandlesAssumption DEF HandlesTypeOK
  <2>3. Kept'
    BY <1>0, HandlesAssumption DEF HandlesTypeOK, Kept
  <2>4. ASSUME NEW u \in Callees \ robbed'
        PROVE  count'[u] = Cardinality(Held(holder', u)) + lost'[u]
    <3>1. Cardinality(Held(holder', u)) = Cardinality(Held(holder, u)) - One(holder[s] = u) + One(NoHolder = u)
      BY <1>0, OneHolderChanges
    <3>2. QED  BY <2>1, <3>1, <1>0, <1>b, HandlesAssumption DEF One
  <2>5. QED  BY <2>2, <2>3, <2>4 DEF Balanced
<1>8. ASSUME NEW s \in Slots, Call(s)
      PROVE  HandlesTypeOK' /\ (reached \cap collected = {})' /\ Kept' /\ Balanced'
  <2>1. HandlesTypeOK' /\ (reached \cap collected = {})' /\ Balanced'
    BY <1>8, <1>0 DEF HandlesTypeOK, Balanced, Call
  <2>2. Kept'
    BY <1>8, <1>0 DEF HandlesTypeOK, Kept, Call
  <2>3. QED  BY <2>1, <2>2
<1>9. ASSUME NEW v \in Callees, SetHandler(v)
      PROVE  HandlesTypeOK' /\ (reached \cap collected = {})' /\ Kept' /\ Balanced'
  <2> USE <1>9 DEF SetHandler
  <2>1. /\ Release(count, handler) \in [Callees -> Nat]
        /\ \A u \in Callees \ robbed' :
              Release(count, handler)[u] = count[u]
    <3>1. count \in [Callees -> Nat] /\ handler \in Callees \cup {Null}
      BY <1>0, HandlesAssumption DEF HandlesTypeOK
    <3>2. /\ Release(count, handler) \in [Callees -> Nat]
          /\ \A u \in Callees : Release(count, handler)[u] = (IF u = handler /\ count[u] > 0 THEN count[u] - 1 ELSE count[u])
      BY <3>1, Counted
    <3>3. ASSUME NEW u \in Callees \ robbed'
          PROVE  Release(count, handler)[u] = count[u]
      <4>1. u # handler /\ u \in Callees \ robbed
        BY <3>3, HandlesAssumption
      <4>2. QED  BY <3>2, <4>1
    <3>4. QED  BY <3>2, <3>3
  <2>2. HandlesTypeOK' /\ (reached \cap collected = {})'
    BY <2>1, <1>0, HandlesAssumption DEF HandlesTypeOK
  <2>3. Kept'
    BY <1>0, HandlesAssumption DEF HandlesTypeOK, Kept
  <2>4. ASSUME NEW u \in Callees \ robbed'
        PROVE  count'[u] = Cardinality(Held(holder', u)) + lost'[u]
    <3>1. u \in Callees \ robbed
      BY <2>4
    <3>2. QED  BY <2>1, <3>1, <1>b
  <2>5. QED  BY <2>2, <2>3, <2>4 DEF Balanced
<1>10. ASSUME NEW v \in Callees, Forget(v)
      PROVE  HandlesTypeOK' /\ (reached \cap collected = {})' /\ Kept' /\ Balanced'
  <2>1. HandlesTypeOK' /\ (reached \cap collected = {})' /\ Balanced'
    BY <1>10, <1>0 DEF HandlesTypeOK, Balanced, Forget
  <2>2. Kept'
    BY <1>10, <1>0 DEF HandlesTypeOK, Kept, Forget
  <2>3. QED  BY <2>1, <2>2
<1>11. ASSUME Collect
      PROVE  HandlesTypeOK' /\ (reached \cap collected = {})' /\ Kept' /\ Balanced'
  <2>1. HandlesTypeOK' /\ (reached \cap collected = {})' /\ Balanced'
    BY <1>11, <1>0 DEF HandlesTypeOK, Balanced, Collect
  <2>2. Kept'
    BY <1>11, <1>0, <1>b DEF HandlesTypeOK, Kept, Collect
  <2>3. QED  BY <2>1, <2>2
<1>12. ASSUME UNCHANGED handlesVars
      PROVE  HandlesTypeOK' /\ (reached \cap collected = {})' /\ Kept' /\ Balanced'
  <2>1. HandlesTypeOK' /\ (reached \cap collected = {})' /\ Balanced'
    BY <1>12, <1>0 DEF HandlesTypeOK, Balanced, handlesVars
  <2>2. Kept'
    BY <1>12, <1>0 DEF HandlesTypeOK, Kept, handlesVars
  <2>3. QED  BY <2>1, <2>2
<1>13. ASSUME NEW s \in Slots, NEW v \in Callees, NEW unset \in Callees \cup {Null}, ConstructUnset(s, unset, v)
      PROVE  HandlesTypeOK' /\ (reached \cap collected = {})' /\ Kept' /\ Balanced'
  <2> USE <1>13 DEF ConstructUnset, Put, There
  <2>1. /\ AddRef(Release(count, unset), v) \in [Callees -> Nat]
        /\ \A u \in Callees \ robbed' :
              AddRef(Release(count, unset), v)[u] = count[u] + One(u = v)
    <3>1. count \in [Callees -> Nat]
      BY <1>0 DEF HandlesTypeOK
    <3>2. /\ AddRef(Release(count, unset), v) \in [Callees -> Nat]
          /\ \A u \in Callees : AddRef(Release(count, unset), v)[u] = (IF u = unset /\ count[u] > 0 THEN count[u] - 1 ELSE count[u]) + One(u = v)
      BY <3>1, Recounted
    <3>3. \A u \in Callees \ robbed' : u # unset
      BY HandlesAssumption
    <3>4. QED  BY <3>2, <3>3
  <2>2. HandlesTypeOK' /\ (reached \cap collected = {})'
    BY <2>1, <1>0, HandlesAssumption DEF HandlesTypeOK
  <2>3. Kept'
    BY <1>0, HandlesAssumption DEF HandlesTypeOK, Kept
  <2>4. ASSUME NEW u \in Callees \ robbed'
        PROVE  count'[u] = Cardinality(Held(holder', u)) + lost'[u]
    <3>1. Cardinality(Held(holder', u)) = Cardinality(Held(holder, u)) - One(holder[s] = u) + One(v = u)
      BY <1>0, OneHolderChanges
    <3>2. u \in Callees \ robbed
      BY <2>4
    <3>3. QED  BY <2>1, <3>1, <3>2, <1>0, <1>b, HandlesAssumption DEF One
  <2>5. QED  BY <2>2, <2>3, <2>4 DEF Balanced
<1>q. QED  BY <1>1, <1>2, <1>3, <1>4, <1>5, <1>6, <1>7, <1>8, <1>9, <1>10, <1>11, <1>12, <1>13 DEF HandlesNext

LEMMA HandlesInvHolds == HandlesSpec => []HandlesInv
<1>1. HandlesInit => HandlesInv
  <2> SUFFICES ASSUME HandlesInit PROVE HandlesInv  OBVIOUS
  <2>1. HandlesTypeOK /\ reached \cap collected = {}
    BY DEF HandlesInit, HandlesTypeOK
  <2>2. \A v \in Callees : Held(holder, v) = {}
    BY HandlesAssumption DEF HandlesInit, Held
  <2>3. Kept  BY DEF HandlesInit, Kept
  <2>4. Balanced  BY <2>2, FS_EmptySet DEF Balanced, HandlesInit
  <2>5. QED  BY <2>1, <2>3, <2>4 DEF HandlesInv
<1>2. HandlesInv /\ [HandlesNext /\ HandlesBound]_handlesVars => HandlesInv'
  BY HandlesInvStep
<1>3. QED  BY <1>1, <1>2, PTL DEF HandlesSpec

(***************************************************************************)
(* ValueHolder (chakra_helper.h) keeps what it holds, for any number of    *)
(* holders and functions, and gives every reference back but those a move  *)
(* assignment has lost.                                                    *)
(***************************************************************************)
THEOREM HeldFunctionsLive == HandlesSpec => []HeldIsAlive
<1>1. HandlesInv => HeldIsAlive
  <2>1. \A v : Holding(v) = Held(holder, v)  BY DEF Holding, Held
  <2>2. \A v : Holding(v) # {} => \E r \in Slots : holder[r] = v  BY DEF Holding
  <2>3. QED  BY <2>1, <2>2 DEF HandlesInv, HeldIsAlive, Kept, Balanced
<1>2. QED  BY <1>1, HandlesInvHolds, PTL

----------------------------------------------------------------------------
\* Prepared statements.

GivenTypes == UNION {[K -> BindTypes] : K \in SUBSET Keys}
LoopTypes == [given : GivenTypes, with : BOOLEAN, called : BOOLEAN]

\* A run with values u is as a call that was given ps means it: all of them, or the
\* ones it was given.
AsGiven(u, ps) == \A k \in DOMAIN ps : ps[k] # Text => u[k] = ps[k]
NothingElse(u, ps) == \A k \in Keys \ DOMAIN ps : u[k] = SqlNull

\* A script that keeps to execWith and forEachWith has at most one forEachWith in progress.
\* Its values are bound; and the run, if there is one, was begun with them.
StatementsInv ==
    /\ loops \in Seq(LoopTypes)
    /\ own =>
          /\ DOMAIN asked \subseteq Keys /\ AsGiven(used, asked)
          /\ thrown = "no" =>
                /\ NothingElse(used, asked)
                /\ loops = <<>> => Clean
          /\ loops # <<>> =>
                /\ Len(loops) = 1 /\ loops[1].with
                /\ \A k \in DOMAIN loops[1].given : bound[k] = loops[1].given[k]
                /\ stmt = "row" => AsGiven(used, loops[1].given)
                /\ thrown = "no" =>
                      /\ NothingElse(bound, loops[1].given)
                      /\ stmt = "row" => NothingElse(used, loops[1].given)

\* A run that begins with the values a call was given runs with those.
LEMMA RunsWithThose ==
  ASSUME NEW ps \in GivenTypes, NEW b, NEW result, own', RunStep(ps, b, result),
         stmt = "row" => AsGiven(used, ps),
         \A k \in DOMAIN ps : b[k] = ps[k]
  PROVE  /\ asked' = ps /\ DOMAIN asked' \subseteq Keys /\ AsGiven(used', asked')
         /\ (NothingElse(b, ps) /\ (stmt = "row" => NothingElse(used, ps)))
               => NothingElse(used', asked')
<1>1. DOMAIN ps \subseteq Keys  BY DEF GivenTypes
<1>2. asked' = ps /\ used' = IF stmt = "row" THEN used
                             ELSE [k \in Keys |-> IF b[k] = Text THEN Illegal ELSE b[k]]
  BY DEF RunStep, Remember
<1>3. SqlNull # Text  BY StatementsAssumption
<1>4. QED  BY <1>1, <1>2, <1>3 DEF AsGiven, NothingElse

\* A call that is not refused binds all it was given, and for that the statement is ready.
LEMMA BindsAll ==
  ASSUME NEW ps \in ValueMaps, CanBind(ps)
  PROVE  /\ ps \in GivenTypes
         /\ \A k \in DOMAIN ps : Bound(ps)[k] = ps[k]
         /\ stmt = "row" => DOMAIN ps = {}
         /\ bound = Unbound => NothingElse(Bound(ps), ps)
<1>1. DOMAIN ps \subseteq Keys /\ (stmt = "row" => DOMAIN ps = {})
  BY DEF CanBind, Fits
<1>2. ps \in GivenTypes
  <2>1. CASE ps \in Arrays
    <3>1. PICK n \in 0..(Parameters + 1) : ps \in [1..n -> BindTypes]
      BY <2>1 DEF Arrays
    <3>2. ps \in [DOMAIN ps -> BindTypes]  BY <3>1
    <3>3. QED  BY <1>1, <3>2 DEF GivenTypes
  <2>2. CASE ps \in Listed
    <3>1. PICK K \in SUBSET Keys : ps \in [K -> {SqlNull}]
      BY <2>2 DEF Listed
    <3>2. ps \in [K -> BindTypes]  BY <3>1 DEF BindTypes, Stored
    <3>3. QED  BY <3>2 DEF GivenTypes
  <2>3. QED  BY <2>1, <2>2 DEF ValueMaps
<1>3. Taken(ps) = DOMAIN ps
  BY DEF CanBind, Taken
<1>4. QED  BY <1>1, <1>2, <1>3 DEF Bound, NothingElse, Unbound

LEMMA LoopFacts ==
  ASSUME NEW s \in Seq(LoopTypes), s # <<>>
  PROVE  /\ Len(s) \in Nat \ {0} /\ Last(s) \in LoopTypes /\ Last(s) = s[Len(s)]
         /\ Front(s) \in Seq(LoopTypes)
         /\ Len(s) = 1 => Front(s) = <<>> /\ Last(s) = s[1]
         /\ \A x \in LoopTypes :
               /\ Front(s) \o <<x>> \in Seq(LoopTypes) /\ Len(Front(s) \o <<x>>) = Len(s)
               /\ Front(s) \o <<x>> # <<>>
               /\ Len(s) = 1 => (Front(s) \o <<x>>)[1] = x
<1>1. Len(s) \in Nat \ {0}  BY LastFrontFacts
<1>2. /\ Front(s) \in Seq(LoopTypes) /\ Len(Front(s)) = Len(s) - 1  BY LastFrontFacts
<1>3. Last(s) \in LoopTypes /\ Last(s) = s[Len(s)]  BY LastFrontFacts
<1>4. Len(s) = 1 => Front(s) = <<>>  BY <1>2, EmptySeq
<1> HIDE DEF Front, Last
<1>5. ASSUME NEW x \in LoopTypes
      PROVE  /\ Front(s) \o <<x>> \in Seq(LoopTypes) /\ Len(Front(s) \o <<x>>) = Len(s)
             /\ Front(s) \o <<x>> # <<>>
             /\ Len(s) = 1 => (Front(s) \o <<x>>)[1] = x
  <2>1. /\ Front(s) \o <<x>> \in Seq(LoopTypes) /\ Len(Front(s) \o <<x>>) = Len(s)
        /\ (Front(s) \o <<x>>)[Len(s)] = x
    BY <1>1, <1>2
  <2>2. QED  BY <1>1, <2>1
<1>6. QED  BY <1>1, <1>2, <1>3, <1>4, <1>5

LEMMA CleanedKeeps ==
  ASSUME StatementsInv, Cleaned, UNCHANGED loops,
         (stmt' = "ready" /\ UNCHANGED bound) \/ (bound' = Unbound /\ UNCHANGED stmt)
  PROVE  StatementsInv'
<1>1. CASE loops = <<>> /\ stmt' = "ready" /\ bound' = Unbound
  BY <1>1, EmptySeq DEF Cleaned, StatementsInv, Clean, AsGiven, NothingElse, Unbound
<1>2. CASE ~(loops = <<>> /\ stmt' = "ready" /\ bound' = Unbound)
  <2>1. (own' => own /\ loops = <<>>) /\ thrown' = thrown /\ Remember(used, asked)
    BY <1>2 DEF Cleaned, StillOwn
  <2>2. CASE ~own'  BY <2>2 DEF StatementsInv
  <2>3. CASE own'
    <3>1. own /\ loops = <<>> /\ UNCHANGED <<used, asked, thrown>>
      BY <2>1, <2>3 DEF Remember
    <3>2. QED  BY <1>2, <2>3, <3>1 DEF StatementsInv, Clean
  <2>4. QED  BY <2>2, <2>3
<1>3. QED  BY <1>1, <1>2

LEMMA StatementsInvStep ==
  ASSUME StatementsInv, [StatementsNext]_statementsVars
  PROVE  StatementsInv'
<1>0. loops \in Seq(LoopTypes)  BY DEF StatementsInv
<1>1. ASSUME Reset PROVE StatementsInv'
  BY <1>1, CleanedKeeps DEF Reset
<1>2. ASSUME ClearBindings PROVE StatementsInv'
  BY <1>2, CleanedKeeps DEF ClearBindings
<1>3. ASSUME NEW ps, BindAll(ps) PROVE StatementsInv'
  BY <1>3 DEF BindAll, StatementsInv
<1>4. ASSUME NEW result, Exec(result) PROVE StatementsInv'
  BY <1>4 DEF Exec, StatementsInv
<1>5. ASSUME NEW ps \in ValueMaps, BindThrows(ps) \/ ObjectThrows(ps) PROVE StatementsInv'
  BY <1>5 DEF BindThrows, ObjectThrows, StillOwn, Remember, StatementsInv
<1>o. ASSUME NEW object, ObjectThrows(object) PROVE StatementsInv'
  BY <1>o DEF ObjectThrows, StillOwn, Remember, StatementsInv
<1>6. ASSUME NEW ps \in ValueMaps, NEW result,
             ExecWith(ps) \/ ExecWithThrows(ps, result) PROVE StatementsInv'
  <2>1. /\ loops' = loops /\ (own' => own /\ loops = <<>>) /\ CanBind(ps)
        /\ \/ RunStep(ps, Bound(ps), "ready") /\ bound' = Unbound /\ UNCHANGED thrown
           \/ RunStep(ps, Bound(ps), result) /\ thrown' = "other"
    BY <1>6 DEF ExecWith, ExecWithThrows, StillOwn
  <2>2. CASE own'
    <3>1. own /\ loops = <<>>  BY <2>1, <2>2
    <3>2. /\ ps \in GivenTypes /\ \A k \in DOMAIN ps : Bound(ps)[k] = ps[k]
          /\ stmt = "row" => DOMAIN ps = {}
          /\ bound = Unbound => NothingElse(Bound(ps), ps)
      BY <2>1, BindsAll
    <3>3. stmt = "row" => AsGiven(used, ps)  BY <3>2 DEF AsGiven
    <3>4. PICK r : RunStep(ps, Bound(ps), r)  BY <2>1
    <3>5. /\ DOMAIN asked' \subseteq Keys /\ AsGiven(used', asked')
          /\ (NothingElse(Bound(ps), ps) /\ (stmt = "row" => NothingElse(used, ps)))
                => NothingElse(used', asked')
      BY <2>2, <3>2, <3>3, <3>4, RunsWithThose
    <3>6. CASE thrown' = "no"
      <4>1. thrown = "no" /\ RunStep(ps, Bound(ps), "ready") /\ bound' = Unbound
        BY <2>1, <3>6
      <4>2. Clean  BY <3>1, <4>1 DEF StatementsInv
      <4>3. NothingElse(used', asked')  BY <3>2, <3>5, <4>2 DEF Clean
      <4>4. Clean'  BY <4>1 DEF Clean, RunStep, Unbound
      <4>5. QED  BY <2>1, <2>2, <3>1, <3>5, <4>3, <4>4 DEF StatementsInv
    <3>7. CASE thrown' # "no"
      BY <2>1, <2>2, <3>1, <3>5, <3>7 DEF StatementsInv
    <3>8. QED  BY <3>6, <3>7
  <2>3. CASE ~own'  BY <2>1, <2>3 DEF StatementsInv
  <2>4. QED  BY <2>2, <2>3
<1>7. ASSUME NEW ps \in ValueMaps, NEW with \in BOOLEAN, ForEach(ps, with) PROVE StatementsInv'
  <2> DEFINE args == IF own' THEN ps ELSE <<>>
             x == [given |-> args, with |-> with, called |-> FALSE]
  <2>1. /\ ps \in GivenTypes /\ \A k \in DOMAIN ps : Bound(ps)[k] = ps[k]
        /\ stmt = "row" => DOMAIN ps = {}
        /\ bound = Unbound => NothingElse(Bound(ps), ps)
    BY <1>7, BindsAll DEF ForEach
  <2>2. <<>> \in GivenTypes
    <3>1. <<>> \in [{} -> BindTypes]  OBVIOUS
    <3>2. QED  BY <3>1 DEF GivenTypes
  <2>3. x \in LoopTypes  BY <2>1, <2>2 DEF LoopTypes
  <2>4. loops' = Append(loops, x) /\ loops' \in Seq(LoopTypes)
    BY <1>0, <1>7, <2>3 DEF ForEach
  <2>5. CASE own'
    <3>1. own /\ with /\ loops = <<>> /\ UNCHANGED <<stmt, used, asked, thrown>> /\ bound' = Bound(ps)
      BY <1>7, <2>5 DEF ForEach, Remember
    <3>2. loops' # <<>> /\ Len(loops') = 1 /\ loops'[1] = x /\ x.given = ps /\ x.with
      BY <2>4, <2>5, <3>1
    <3>3. stmt = "row" => AsGiven(used, ps)  BY <2>1 DEF AsGiven
    <3>4. thrown = "no" => NothingElse(Bound(ps), ps) /\ stmt # "row"
      BY <2>1, <3>1 DEF StatementsInv, Clean
    <3> HIDE DEF x
    <3>5. QED  BY <2>1, <2>4, <2>5, <3>1, <3>2, <3>3, <3>4 DEF StatementsInv
  <2>6. CASE ~own'  BY <2>4, <2>6 DEF StatementsInv
  <2>7. QED  BY <2>5, <2>6
<1>8. ASSUME NextRow PROVE StatementsInv'
  <2> DEFINE x == [Last(loops) EXCEPT !.called = TRUE]
  <2>1. loops # <<>> /\ Last(loops) \in LoopTypes
    BY <1>0, <1>8, LoopFacts DEF NextRow, Stepping
  <2>2. x \in LoopTypes /\ x.given = Last(loops).given /\ x.with = Last(loops).with
    BY <2>1 DEF LoopTypes
  <2>3. loops' = Front(loops) \o <<x>> /\ loops' \in Seq(LoopTypes)
    BY <1>0, <1>8, <2>1, <2>2, LoopFacts DEF NextRow, Called
  <2> HIDE DEF x
  <2>4. CASE own'
    <3>1. /\ own /\ Len(loops) = 1 /\ Last(loops) = loops[1] /\ loops[1].given \in GivenTypes
      BY <1>0, <1>8, <2>1, <2>4, LoopFacts DEF NextRow, StatementsInv, LoopTypes
    <3>2. loops' # <<>> /\ Len(loops') = 1 /\ loops'[1] = x
      BY <1>0, <2>1, <2>2, <2>3, <3>1, LoopFacts
    <3>3. RunStep(loops[1].given, bound, "row") /\ UNCHANGED <<bound, own, thrown>>
      BY <1>8, <3>1 DEF NextRow
    <3>4. /\ asked' = loops[1].given /\ DOMAIN asked' \subseteq Keys /\ AsGiven(used', asked')
          /\ (NothingElse(bound, loops[1].given) /\ (stmt = "row" => NothingElse(used, loops[1].given)))
                => NothingElse(used', asked')
      BY <2>1, <2>4, <3>1, <3>3, RunsWithThose DEF StatementsInv
    <3>5. QED  BY <2>1, <2>2, <2>3, <2>4, <3>1, <3>2, <3>3, <3>4 DEF StatementsInv
  <2>5. CASE ~own'  BY <2>3, <2>5 DEF StatementsInv
  <2>6. QED  BY <2>4, <2>5
<1>9. ASSUME LastRow \/ StepFails PROVE StatementsInv'
  <2>1. loops # <<>> /\ loops' = Front(loops) /\ loops' \in Seq(LoopTypes)
    BY <1>0, <1>9, LoopFacts DEF LastRow, StepFails, Stepping
  <2>2. CASE own'
    <3>1. /\ own /\ Len(loops) = 1 /\ Last(loops) = loops[1] /\ loops[1].with /\ loops[1].given \in GivenTypes
      BY <1>0, <1>9, <2>1, <2>2, LoopFacts DEF LastRow, StepFails, StatementsInv, LoopTypes
    <3>2. loops' = <<>>  BY <1>0, <2>1, <3>1, LoopFacts
    <3>3. \/ RunStep(loops[1].given, bound, "ready") /\ bound' = Unbound /\ UNCHANGED thrown
          \/ RunStep(loops[1].given, bound, "halted") /\ thrown' = "other"
      BY <1>9, <3>1 DEF LastRow, StepFails
    <3>4. PICK r : RunStep(loops[1].given, bound, r)  BY <3>3
    <3>5. /\ asked' = loops[1].given /\ DOMAIN asked' \subseteq Keys /\ AsGiven(used', asked')
          /\ (NothingElse(bound, loops[1].given) /\ (stmt = "row" => NothingElse(used, loops[1].given)))
                => NothingElse(used', asked')
      BY <2>1, <2>2, <3>1, <3>4, RunsWithThose DEF StatementsInv
    <3>6. thrown' = "no" => NothingElse(used', asked') /\ Clean'
      <4>1. thrown' = "no" => /\ RunStep(loops[1].given, bound, "ready") /\ bound' = Unbound /\ thrown = "no"
        BY <3>3
      <4>2. QED  BY <2>1, <3>1, <3>5, <4>1 DEF StatementsInv, RunStep, Clean, Unbound
    <3>7. QED  BY <2>1, <2>2, <3>2, <3>5, <3>6 DEF StatementsInv
  <2>3. CASE ~own'  BY <2>1, <2>3 DEF StatementsInv
  <2>4. QED  BY <2>2, <2>3
<1>11. ASSUME CallbackReturns PROVE StatementsInv'
  <2> DEFINE x == [Last(loops) EXCEPT !.called = FALSE]
  <2>1. loops # <<>> /\ Last(loops) \in LoopTypes
    BY <1>0, <1>11, LoopFacts DEF CallbackReturns
  <2>2. x \in LoopTypes /\ x.given = Last(loops).given /\ x.with = Last(loops).with
    BY <2>1 DEF LoopTypes
  <2>3. loops' = Front(loops) \o <<x>> /\ loops' \in Seq(LoopTypes)
    BY <1>0, <1>11, <2>1, <2>2, LoopFacts DEF CallbackReturns, Called
  <2> HIDE DEF x
  <2>4. UNCHANGED <<stmt, bound, used, asked, own, thrown>>
    BY <1>11 DEF CallbackReturns
  <2>5. CASE own
    <3>1. Len(loops) = 1 /\ Last(loops) = loops[1]
      BY <1>0, <2>1, <2>5, LoopFacts DEF StatementsInv
    <3>2. loops' # <<>> /\ Len(loops') = 1 /\ loops'[1] = x
      BY <1>0, <2>1, <2>2, <2>3, <3>1, LoopFacts
    <3>3. QED  BY <2>1, <2>2, <2>3, <2>4, <2>5, <3>1, <3>2 DEF StatementsInv
  <2>6. CASE ~own  BY <2>3, <2>4, <2>6 DEF StatementsInv
  <2>7. QED  BY <2>5, <2>6
<1>12. ASSUME CallbackStops PROVE StatementsInv'
  <2>1. /\ loops # <<>> /\ loops' = Front(loops) /\ loops' \in Seq(LoopTypes)
        /\ thrown' = "other" /\ UNCHANGED <<stmt, bound, used, asked, own>>
    BY <1>0, <1>12, LoopFacts DEF CallbackStops
  <2>2. own => loops' = <<>>
    BY <1>0, <2>1, LoopFacts DEF StatementsInv
  <2>3. QED  BY <2>1, <2>2 DEF StatementsInv
<1>13. ASSUME UNCHANGED statementsVars PROVE StatementsInv'
  BY <1>13 DEF statementsVars, StatementsInv, Clean
<1>q. QED
  BY <1>1, <1>2, <1>3, <1>4, <1>5, <1>o, <1>6, <1>7, <1>8, <1>9, <1>11, <1>12, <1>13
  DEF StatementsNext

(***************************************************************************)
(* execWith and forEachWith (sqlite3.cpp) run a statement with the values  *)
(* of their own call, for any parameters and any values, as often and in   *)
(* whatever order a script uses them and whatever of that has thrown.      *)
(***************************************************************************)
THEOREM StatementsRunWithOwn == StatementsSpec => []OwnParameters
<1>1. StatementsInit => StatementsInv
  <2> SUFFICES ASSUME StatementsInit PROVE StatementsInv  OBVIOUS
  <2>1. loops \in Seq(LoopTypes) /\ DOMAIN asked = {} /\ Clean
    BY EmptySeq DEF StatementsInit, Clean
  <2>2. QED  BY <2>1 DEF StatementsInit, StatementsInv, AsGiven, NothingElse, Unbound
<1>2. StatementsInv => OwnParameters
  BY DEF StatementsInv, OwnParameters, AsGiven, NothingElse
<1>3. QED  BY <1>1, <1>2, StatementsInvStep, PTL DEF StatementsSpec

----------------------------------------------------------------------------
\* Boss bars.

\* Nobody who has left owns a bar, and every bar that was taken away has an owner.
BarsOwned ==
    /\ \A p \in Players : ~Online(p) => sets[p] = {}
    /\ \A b \in away \cup refused : \E p \in Players : b \in sets[p]

BarsInv == BarsTypeOK /\ BarsOnScreen /\ BarsOwned

LEMMA RoomForOne ==
  ASSUME NEW n \in Nat, NEW m \in Nat, n <= 2 * m, n % 2 = 1
  PROVE  n + 1 \in Nat /\ n + 1 <= 2 * m
OBVIOUS

LEMMA BarsInvStep ==
  ASSUME BarsInv, [BarsNext]_barsVars
  PROVE  BarsInv'
<1> USE BarsAssumption DEF BarsInv, BarsOwned, BarsTypeOK, BarsOnScreen, Sessions, Online, Owner, Made, Valid, LiveBars, Take
<1>1. ASSUME NEW b \in Bars, NEW p \in Players, Create(b, p) PROVE BarsInv'
  <2>1. BarsTypeOK'  BY <1>1 DEF Create
  <2>2. /\ b \notin away \cup refused
        /\ \A q \in Players : b \notin sets[q]
    <3>1. \A q \in Players : b \notin sets[q]
      <4>1. entry[b] = <<>>  BY <1>1 DEF Create
      <4>2. \A q \in Players : <<q, session[q]>> # <<>>  OBVIOUS
      <4>3. \A q \in Players : b \in sets[q] => entry[b] = <<q, session[q]>>
        OBVIOUS
      <4>4. QED  BY ONLY <4>1, <4>2, <4>3
    <3>2. QED  BY <3>1
  <2>3. \A q \in Players : shown'[q] \subseteq actors'[q] /\ actors'[q] \subseteq sets'[q] \ (away' \cup refused')
    BY <1>1, <2>2 DEF Create
  <2>4. ASSUME NEW q \in Players, NEW c \in sets'[q]
        PROVE  /\ entry'[c] = <<q, session'[q]>>
               /\ \/ c \in away' \cup refused'
                  \/ \E n \in 1..RebuildTicks : <<c, n>> \in timers'
                  \/ c \in actors'[q] /\ (state'[c] => c \in shown'[q])
    <3>1. CASE c = b  BY <1>1, <2>2, <2>4, <3>1 DEF Create
    <3>2. CASE c # b  BY <1>1, <2>4, <3>2 DEF Create
    <3>3. QED  BY <3>1, <3>2
  <2>5. BarsOwned'  BY <1>1 DEF Create
  <2>6. BarsOnScreen'  BY <2>3, <2>4
  <2>7. QED  BY <2>1, <2>5, <2>6
<1>2. ASSUME NEW b \in Bars, Show(b) PROVE BarsInv'
  <2> DEFINE p == entry[b][1]
  <2>1. p \in Players /\ b \in sets[p] /\ Owner(b) = p
    BY <1>2 DEF Show
  <2>2. BarsTypeOK'  BY <1>2, <2>1 DEF Show
  <2>3. \A q \in Players : shown'[q] \subseteq actors'[q] /\ actors'[q] \subseteq sets'[q] \ (away' \cup refused')
    BY <1>2, <2>1 DEF Show
  <2>4. /\ UNCHANGED <<session, sets, entry, timers, actors, away, refused>>
        /\ state' = [state EXCEPT ![b] = TRUE]
        /\ \A q \in Players : shown[q] \subseteq shown'[q]
        /\ b \in actors[p] => b \in shown'[p]
    BY <1>2, <2>1 DEF Show
  <2>5. ASSUME NEW q \in Players, NEW c \in sets[q]
        PROVE  \/ c \in away \cup refused
               \/ \E n \in 1..RebuildTicks : <<c, n>> \in timers
               \/ c \in actors[q] /\ (state'[c] => c \in shown'[q])
    <3>1. CASE c = b
      <4>1. q = p  BY <2>5, <3>1
      <4>2. QED  BY <2>4, <2>5, <3>1, <4>1
    <3>2. CASE c # b
      <4>1. state'[c] = state[c]  BY <2>4, <3>2
      <4>2. QED  BY <2>4, <2>5, <4>1
    <3>3. QED  BY <3>1, <3>2
  <2>6. BarsOnScreen'  BY <2>3, <2>4, <2>5
  <2>7. QED  BY <2>2, <2>4, <2>6
<1>3. ASSUME NEW b \in Bars, Hide(b) PROVE BarsInv'
  <2>1. BarsTypeOK'  BY <1>3 DEF Hide
  <2>2. PICK p \in Players : b \in sets[p] /\ Owner(b) = p  BY <1>3 DEF Hide
  <2>3. /\ UNCHANGED <<session, sets, entry, timers, actors, away, refused>>
        /\ state' = [state EXCEPT ![b] = FALSE]
        /\ shown' = [shown EXCEPT ![p] = @ \ {b}]
    BY <1>3, <2>2 DEF Hide
  <2>4. \A q \in Players : shown'[q] \subseteq actors'[q] /\ actors'[q] \subseteq sets'[q] \ (away' \cup refused')
    BY <2>3
  <2>5. ASSUME NEW q \in Players, NEW c \in sets[q]
        PROVE  \/ c \in away \cup refused
               \/ \E n \in 1..RebuildTicks : <<c, n>> \in timers
               \/ c \in actors[q] /\ (state'[c] => c \in shown'[q])
    <3>1. CASE c = b
      <4>1. ~state'[c]  BY <2>3, <3>1
      <4>2. QED  BY <2>5, <4>1
    <3>2. CASE c # b
      <4>1. state'[c] = state[c] /\ (c \in shown[q] => c \in shown'[q])  BY <2>3, <3>2
      <4>2. QED  BY <2>5, <4>1
    <3>3. QED  BY <3>1, <3>2
  <2>6. BarsOnScreen'  BY <2>3, <2>4, <2>5
  <2>7. QED  BY <2>1, <2>3, <2>6
<1>4. ASSUME NEW b \in Bars, Destory(b) PROVE BarsInv'
  <2>1. BarsTypeOK'  BY <1>4 DEF Destory
  <2>2. PICK p \in Players : b \in sets[p] /\ Owner(b) = p  BY <1>4 DEF Destory
  <2>3. /\ UNCHANGED <<session, entry, state, timers>>
        /\ sets' = [sets EXCEPT ![p] = @ \ {b}]
        /\ actors' = [actors EXCEPT ![p] = @ \ {b}]
        /\ shown' = [shown EXCEPT ![p] = @ \ {b}]
        /\ away' = away \ {b} /\ refused' = refused \ {b}
    BY <1>4, <2>2 DEF Destory
  <2>4. \A q \in Players : shown'[q] \subseteq actors'[q] /\ actors'[q] \subseteq sets'[q] \ (away' \cup refused')
    BY <2>2, <2>3
  <2>5. ASSUME NEW q \in Players, NEW c \in sets'[q]
        PROVE  \/ c \in away' \cup refused'
               \/ \E n \in 1..RebuildTicks : <<c, n>> \in timers
               \/ c \in actors'[q] /\ (state[c] => c \in shown'[q])
    <3>1. c \in sets[q] /\ c # b  BY <2>2, <2>3, <2>5
    <3>2. /\ c \in actors[q] => c \in actors'[q]
          /\ c \in shown[q] => c \in shown'[q]
      BY <2>3, <3>1
    <3>3. QED  BY <2>3, <3>1, <3>2
  <2>6. \A q \in Players : sets'[q] \subseteq sets[q]  BY <2>3
  <2>7. BarsOnScreen'  BY <2>3, <2>4, <2>5, <2>6
  <2>8. BarsOwned'  BY <2>3, <2>6
  <2>9. QED  BY <2>1, <2>7, <2>8
<1>5. ASSUME NEW p \in Players, LeaveDimension(p) PROVE BarsInv'
  BY <1>5 DEF LeaveDimension
<1>6. ASSUME NEW p \in Players, EnterDimension(p) PROVE BarsInv'
  BY <1>6 DEF EnterDimension
<1>7. ASSUME NEW p \in Players, Join(p) PROVE BarsInv'
  BY <1>7 DEF Join
<1>8. ASSUME NEW p \in Players, Left(p) PROVE BarsInv'
  <2>1. session[p] + 1 \in Sessions
    <3>1. session[p] \in Nat /\ session[p] <= 2 * MaxSession /\ session[p] % 2 = 1
      BY <1>8 DEF Left
    <3>2. session[p] + 1 \in Nat /\ session[p] + 1 <= 2 * MaxSession
      BY <3>1, RoomForOne
    <3>3. QED  BY <3>2
  <2>2. BarsTypeOK'  BY <1>8, <2>1 DEF Left
  <2>3. BarsOnScreen'  BY <1>8, <2>1 DEF Left
  <2>4. BarsOwned'
    BY <1>8, <2>1 DEF Left
  <2>5. QED  BY <2>2, <2>3, <2>4
<1>9. ASSUME BarsTick PROVE BarsInv'
  <2>1. BarsTypeOK'
    <3>1. timers' \subseteq Bars \X (1..RebuildTicks)
      BY <1>9 DEF BarsTick
    <3>2. freed' \in BOOLEAN  BY <1>9 DEF BarsTick
    <3>3. QED  BY <1>9, <3>1, <3>2 DEF BarsTick
  <2>a. away' = away \ Due /\ refused' = refused \ Due  BY <1>9 DEF BarsTick
  <2>2. ASSUME NEW p \in Players, NEW b \in sets[p], NEW n \in 1..RebuildTicks, <<b, n>> \in timers
        PROVE  \/ \E k \in 1..RebuildTicks : <<b, k>> \in timers'
               \/ b \in actors'[p] /\ b \in shown'[p]
    <3>1. CASE n = 1
      <4>1. b \in Due
        <5> DEFINE t == <<b, n>>
        <5>1. t \in timers /\ t[1] = b /\ t[2] = 1  BY ONLY <2>2, <3>1
        <5>2. QED  BY ONLY <5>1 DEF Due
      <4>2. QED  BY <1>9, <4>1 DEF BarsTick
    <3>2. CASE n # 1
      <4>1. n > 1 /\ n - 1 \in 1..RebuildTicks  BY <3>2
      <4>2. <<b, n - 1>> \in timers'
        <5> DEFINE t == <<b, n>>
        <5>1. t \in timers /\ t[1] = b /\ t[2] = n /\ t[2] > 1  BY ONLY <2>2, <4>1
        <5>2. timers' = {<<u[1], u[2] - 1>> : u \in {v \in timers : v[2] > 1}}
          BY ONLY <1>9 DEF BarsTick
        <5>3. QED  BY ONLY <5>1, <5>2
      <4>3. QED  BY <4>1, <4>2
    <3>3. QED  BY <3>1, <3>2
  <2>3. \A p \in Players : shown'[p] \subseteq actors'[p] /\ actors'[p] \subseteq sets'[p] \ (away' \cup refused')
    BY <1>9, <2>a DEF BarsTick
  <2>4. \A p \in Players : /\ actors[p] \subseteq actors'[p] /\ shown[p] \subseteq shown'[p]
    BY <1>9 DEF BarsTick
  <2>5. UNCHANGED <<session, sets, entry, state>>  BY <1>9 DEF BarsTick
  <2>6. ASSUME NEW p \in Players, NEW b \in sets[p]
        PROVE  \/ b \in away' \cup refused'
               \/ \E n \in 1..RebuildTicks : <<b, n>> \in timers'
               \/ b \in actors'[p] /\ (state'[b] => b \in shown'[p])
    <3>1. CASE b \in Due  BY <1>9, <3>1 DEF BarsTick
    <3>2. CASE b \notin Due  BY <2>2, <2>4, <2>5, <2>a, <3>2
    <3>3. QED  BY <3>1, <3>2
  <2>7. BarsOwned'  BY <2>a, <2>5
  <2>8. BarsOnScreen'  BY <2>3, <2>5, <2>6
  <2>9. QED  BY <2>1, <2>7, <2>8
<1>10. ASSUME UNCHANGED barsVars PROVE BarsInv'
  BY <1>10 DEF barsVars
<1>q. QED
  BY <1>1, <1>2, <1>3, <1>4, <1>5, <1>6, <1>7, <1>8, <1>9, <1>10 DEF BarsNext

(***************************************************************************)
(* Boss bars (bossbar.cpp), for any number of players and bars, and any    *)
(* time a rebuild takes.                                                   *)
(***************************************************************************)
THEOREM BarsAreOnScreen == BarsSpec => []BarsOnScreen
<1>1. BarsInit => BarsInv
  <2> SUFFICES ASSUME BarsInit PROVE BarsInv  OBVIOUS
  <2>1. 0 \in Sessions  BY BarsAssumption DEF Sessions
  <2>2. BarsTypeOK  BY <2>1 DEF BarsInit, BarsTypeOK
  <2>3. \A p \in Players : sets[p] = {} /\ shown[p] = {} /\ actors[p] = {}  BY DEF BarsInit
  <2>4. QED  BY <2>2, <2>3 DEF BarsInit, BarsInv, BarsOwned, BarsOnScreen
<1>2. BarsInv => BarsOnScreen  BY DEF BarsInv
<1>3. QED  BY <1>1, <1>2, BarsInvStep, PTL DEF BarsSpec

----------------------------------------------------------------------------
\* The parameters of commands.

\* The sums of the first elements of a sequence, as a function that is defined by itself.
LEMMA SumsExist ==
  ASSUME NEW n \in Nat, NEW a \in [1..n -> Nat]
  PROVE  \E f : f = [j \in 1..(n + 1) |-> IF j = 1 THEN 0 ELSE f[j - 1] + a[j - 1]]
<1> DEFINE Sums(m, f) == \A j \in 1..(m + 1) : f[j] = IF j = 1 THEN 0 ELSE f[j - 1] + a[j - 1]
           T == {m \in 0..n : ~ \E f \in [1..(m + 1) -> Nat] : Sums(m, f)}
<1>1. T = {}
  <2>1. SUFFICES ASSUME T # {} PROVE FALSE
    OBVIOUS
  <2>2. PICK m \in T : \A k \in T : m <= k
    <3>1. T \subseteq Nat
      OBVIOUS
    <3> HIDE DEF T
    <3> QED  BY <2>1, <3>1, LeastNumber
  <2>3. m # 0
    <3>1. /\ [i \in 1..(0 + 1) |-> 0] \in [1..(0 + 1) -> Nat]
          /\ Sums(0, [i \in 1..(0 + 1) |-> 0])
      OBVIOUS
    <3> QED  BY <3>1
  <2>4. m \in 1..n /\ m - 1 \in 0..n /\ ~(m <= m - 1) /\ (m - 1) + 1 = m
    BY <2>3
  <2>5. m - 1 \notin T
    BY <2>2, <2>4
  <2>6. PICK f \in [1..((m - 1) + 1) -> Nat] : Sums(m - 1, f)
    BY <2>4, <2>5
  <2>7. f \in [1..m -> Nat] /\ \A j \in 1..m : f[j] = IF j = 1 THEN 0 ELSE f[j - 1] + a[j - 1]
    BY <2>4, <2>6
  <2> DEFINE g == [i \in 1..(m + 1) |-> IF i = m + 1 THEN f[m] + a[m] ELSE f[i]]
  <2>8. m \in 1..m /\ f[m] \in Nat /\ a[m] \in Nat
    BY <2>4, <2>7
  <2>9. g \in [1..(m + 1) -> Nat]
    <3>1. \A i \in 1..(m + 1) : i = m + 1 \/ i \in 1..m
      BY <2>4
    <3> QED  BY <2>7, <2>8, <3>1
  <2>10. Sums(m, g)
    <3> SUFFICES ASSUME NEW j \in 1..(m + 1)
                 PROVE  g[j] = IF j = 1 THEN 0 ELSE g[j - 1] + a[j - 1]
      OBVIOUS
    <3>1. CASE j = m + 1
      <4>1. g[j] = f[m] + a[m] /\ g[j - 1] = f[m] /\ j - 1 = m /\ j # 1
        BY <2>4, <3>1
      <4> QED  BY <4>1
    <3>2. CASE j \in 1..m
      <4>1. g[j] = f[j]
        BY <2>4, <3>2
      <4>2. j # 1 => j - 1 \in 1..(m + 1) /\ j - 1 # m + 1
        BY <2>4, <3>2
      <4>3. j # 1 => g[j - 1] = f[j - 1]
        BY <4>2
      <4> HIDE DEF g
      <4> QED  BY <2>7, <3>2, <4>1, <4>3
    <3>3. j = m + 1 \/ j \in 1..m
      BY <2>4
    <3> QED  BY <3>1, <3>2, <3>3
  <2> HIDE DEF g, Sums
  <2> QED  BY <2>9, <2>10
<1>2. PICK f \in [1..(n + 1) -> Nat] : Sums(n, f)
  <2> HIDE DEF Sums
  <2>1. n \in 0..n
    OBVIOUS
  <2>2. n \in T \/ \E f \in [1..(n + 1) -> Nat] : Sums(n, f)
    BY <2>1
  <2> HIDE DEF T
  <2> QED  BY <1>1, <2>2
<1>3. f = [j \in 1..(n + 1) |-> IF j = 1 THEN 0 ELSE f[j - 1] + a[j - 1]]
  BY <1>2
<1> QED  BY <1>3

ParamSeqs == UNION {[1..n -> Params] : n \in Nat}

LEMMA ParamSizes ==
  ASSUME NEW d \in Params
  PROVE  /\ SizeOf[d.type] \in Nat \ {0} /\ ParamSize(d) \in Nat
         /\ ParamSize(d) = IF d.optional THEN SizeOf[d.type] + 1 ELSE SizeOf[d.type]
<1>1. SizeOf[d.type] \in Nat \ {0}
  BY ParametersAssumption DEF Params
<1> QED  BY <1>1 DEF ParamSize

LEMMA OffsetRecursion ==
  ASSUME NEW n \in Nat, NEW defs \in [1..n -> Params]
  PROVE  /\ Offset(defs, 1) = 0
         /\ \A j \in 2..(n + 1) : Offset(defs, j) = Offset(defs, j - 1) + ParamSize(defs[j - 1])
         /\ \A j \in 1..(n + 1) : Offset(defs, j) \in Nat
<1> DEFINE a == [i \in 1..n |-> ParamSize(defs[i])]
           P(f) == f = [j \in 1..(Len(defs) + 1) |->
                           IF j = 1 THEN 0 ELSE f[j - 1] + ParamSize(defs[j - 1])]
           b == CHOOSE f : P(f)
<1>1. Len(defs) = n
  OBVIOUS
<1>2. \A i \in 1..n : ParamSize(defs[i]) \in Nat
  BY ParamSizes
<1>3. \E f : P(f)
  <2>1. a \in [1..n -> Nat]
    BY <1>2
  <2>2. PICK f : f = [j \in 1..(n + 1) |-> IF j = 1 THEN 0 ELSE f[j - 1] + a[j - 1]]
    <3> HIDE DEF a
    <3> QED  BY <2>1, SumsExist
  <2>3. \A j \in 1..(n + 1) : j # 1 => a[j - 1] = ParamSize(defs[j - 1])
    OBVIOUS
  <2>4. f = [j \in 1..(n + 1) |-> IF j = 1 THEN 0 ELSE f[j - 1] + ParamSize(defs[j - 1])]
    BY <2>2, <2>3
  <2> QED  BY <1>1, <2>4
<1>4. P(b)
  BY <1>3
<1>5. \A i : Offset(defs, i) = b[i]
  BY DEF Offset
<1> HIDE DEF b
<1>6. \A j \in 1..(n + 1) : b[j] = IF j = 1 THEN 0 ELSE b[j - 1] + ParamSize(defs[j - 1])
  BY <1>1, <1>4
<1>7. \A j \in 1..(n + 1) : b[j] \in Nat
  <2> DEFINE T == {j \in 1..(n + 1) : b[j] \notin Nat}
  <2>1. SUFFICES ASSUME T # {} PROVE FALSE
    OBVIOUS
  <2>2. PICK m \in T : \A k \in T : m <= k
    <3>1. T \subseteq Nat
      OBVIOUS
    <3> HIDE DEF T
    <3> QED  BY <2>1, <3>1, LeastNumber
  <2>3. m # 1
    BY <1>6
  <2>4. m - 1 \in 1..(n + 1) /\ ~(m <= m - 1) /\ m - 1 \in 1..n
    BY <2>3
  <2>5. b[m - 1] \in Nat
    BY <2>2, <2>4
  <2> QED  BY <1>2, <1>6, <2>3, <2>4, <2>5
<1>8. 1 \in 1..(n + 1) /\ \A j \in 2..(n + 1) : j \in 1..(n + 1) /\ j # 1
  OBVIOUS
<1> QED  BY <1>5, <1>6, <1>7, <1>8

\* A parameter and its flag end where or before any later one begins.
LEMMA OffsetsGrow ==
  ASSUME NEW n \in Nat, NEW defs \in [1..n -> Params], NEW i \in 1..n, NEW j \in (i + 1)..(n + 1)
  PROVE  Offset(defs, i) + ParamSize(defs[i]) <= Offset(defs, j)
<1> DEFINE o(k) == Offset(defs, k)
           s(k) == ParamSize(defs[k])
           T == {k \in (i + 1)..(n + 1) : ~(o(i) + s(i) <= o(k))}
<1>1. /\ \A k \in 2..(n + 1) : o(k) = o(k - 1) + s(k - 1)
      /\ \A k \in 1..(n + 1) : o(k) \in Nat
      /\ \A k \in 1..n : s(k) \in Nat
  BY OffsetRecursion, ParamSizes
<1> HIDE DEF o, s
<1>2. SUFFICES ASSUME T # {} PROVE FALSE
  BY DEF o, s
<1>3. PICK m \in T : \A k \in T : m <= k
  <2>1. T \subseteq Nat
    OBVIOUS
  <2> HIDE DEF T
  <2> QED  BY <1>2, <2>1, LeastNumber
<1>4. m # i + 1
  <2>1. i + 1 \in 2..(n + 1) /\ (i + 1) - 1 = i /\ i \in 1..(n + 1)
    OBVIOUS
  <2>2. o(i + 1) = o(i) + s(i)
    BY <1>1, <2>1
  <2> QED  BY <1>1, <2>1, <2>2
<1>5. /\ m - 1 \in (i + 1)..(n + 1) /\ ~(m <= m - 1) /\ m \in 2..(n + 1)
      /\ m - 1 \in 1..n /\ m - 1 \in 1..(n + 1) /\ i \in 1..(n + 1) /\ m \in 1..(n + 1)
  BY <1>4
<1>6. o(i) + s(i) <= o(m - 1) /\ ~(o(i) + s(i) <= o(m))
  BY <1>3, <1>5
<1> HIDE DEF T
<1> QED  BY <1>1, <1>5, <1>6

----------------------------------------------------------------------------

\* What a command with these parameters holds, once the parser is through with some of them.
Holds(defs) ==
    /\ DOMAIN memory = 0..(Offset(defs, Len(defs) + 1) - 1)
    /\ \A i \in parsed :
          /\ i \in given => \A n \in 0..(SizeOf[defs[i].type] - 1) :
                               memory[Offset(defs, i) + n] = <<i, n>>
          /\ defs[i].optional =>
                memory[FetchedFlag(defs, i)] = IF i \in given THEN "set" ELSE "unset"

Straight(defs) == \A i \in 1..Len(defs) : ~Misplaced(defs[i])

ParametersInv ==
    /\ overloads \in Seq(ParamSeqs)
    /\ command \in 0..Len(overloads)
    /\ command = 0 => arguments = <<>> /\ ~outside
    /\ command # 0 =>
          LET defs == overloads[command] IN
          /\ parsed \subseteq 1..Len(defs)
          /\ \A i \in 1..Len(defs) : ~defs[i].optional => i \in given
          /\ Straight(defs) =>
                /\ ~outside /\ Holds(defs)
                /\ \A i \in 1..Len(arguments) :
                      arguments[i] = IF i \in given THEN "value" ELSE "undefined"

LEMMA OverloadTypes ==
  ASSUME ParametersInv, NEW o \in 1..Len(overloads)
  PROVE  LET defs == overloads[o] IN
         /\ Len(defs) \in Nat /\ defs \in [1..Len(defs) -> Params]
<1>1. overloads[o] \in ParamSeqs
  BY ElementOfSeq DEF ParametersInv
<1>2. PICK n \in Nat : overloads[o] \in [1..n -> Params]
  BY <1>1 DEF ParamSeqs
<1>3. Len(overloads[o]) = n
  BY <1>2
<1> QED  BY <1>2, <1>3

\* The bytes of parameter i and of its flag, and those of another, are apart and inside.
LEMMA Apart ==
  ASSUME NEW n \in Nat, NEW defs \in [1..n -> Params], NEW i \in 1..n
  PROVE  /\ Offset(defs, i) \in Nat /\ SizeOf[defs[i].type] \in Nat \ {0}
         /\ \A k \in 0..(SizeOf[defs[i].type] - 1) : Offset(defs, i) + k \in 0..(Offset(defs, n + 1) - 1)
         /\ defs[i].optional => FetchedFlag(defs, i) \in 0..(Offset(defs, n + 1) - 1)
         /\ \A j \in 1..n : j # i =>
               \A k \in 0..(SizeOf[defs[i].type] - 1) :
                  /\ Offset(defs, i) + k \notin Bytes(defs, j)
                  /\ defs[j].optional => Offset(defs, i) + k # FetchedFlag(defs, j)
         /\ \A j \in 1..n : j # i /\ defs[i].optional =>
                  /\ FetchedFlag(defs, i) \notin Bytes(defs, j)
                  /\ defs[j].optional => FetchedFlag(defs, i) # FetchedFlag(defs, j)
<1> DEFINE o(k) == Offset(defs, k)
           z(k) == SizeOf[defs[k].type]
           s(k) == ParamSize(defs[k])
           opt(k) == defs[k].optional
<1>1. \A k \in 1..n : /\ o(k) \in Nat /\ z(k) \in Nat \ {0} /\ s(k) \in Nat
                      /\ z(k) <= s(k) /\ (opt(k) => s(k) = z(k) + 1)
  <2> SUFFICES ASSUME NEW k \in 1..n
      PROVE  /\ o(k) \in Nat /\ z(k) \in Nat \ {0} /\ s(k) \in Nat
             /\ z(k) <= s(k) /\ (opt(k) => s(k) = z(k) + 1)
    OBVIOUS
  <2>1. k \in 1..(n + 1) /\ defs[k] \in Params
    OBVIOUS
  <2>2. o(k) \in Nat
    BY <2>1, OffsetRecursion
  <2> QED  BY <2>1, <2>2, ParamSizes
<1>2. o(n + 1) \in Nat
  BY OffsetRecursion
<1>3. \A k \in 1..n : \A m \in (k + 1)..(n + 1) : o(k) + s(k) <= o(m)
  BY OffsetsGrow
<1>4. \A k \in 1..n : /\ Bytes(defs, k) = o(k)..(o(k) + z(k) - 1)
                      /\ FetchedFlag(defs, k) = o(k) + z(k)
  BY DEF Bytes, FetchedFlag
<1> HIDE DEF o, z, s, opt
<1>5. o(i) + s(i) <= o(n + 1)
  <2>1. n + 1 \in (i + 1)..(n + 1)
    OBVIOUS
  <2> QED  BY <1>3, <2>1
<1>6. \A j \in 1..n : j # i => o(i) + s(i) <= o(j) \/ o(j) + s(j) <= o(i)
  <2> SUFFICES ASSUME NEW j \in 1..n, j # i PROVE o(i) + s(i) <= o(j) \/ o(j) + s(j) <= o(i)
    OBVIOUS
  <2>1. j \in (i + 1)..(n + 1) \/ i \in (j + 1)..(n + 1)
    OBVIOUS
  <2> QED  BY <1>3, <2>1
<1>7. /\ o(i) \in Nat /\ z(i) \in Nat \ {0} /\ s(i) \in Nat
       /\ z(i) <= s(i) /\ (opt(i) => s(i) = z(i) + 1)
  BY <1>1
<1>8. \A k \in 0..(z(i) - 1) : o(i) + k \in 0..(o(n + 1) - 1)
  BY <1>2, <1>5, <1>7
<1>9. opt(i) => o(i) + z(i) \in 0..(o(n + 1) - 1)
  BY <1>2, <1>5, <1>7
<1>10. ASSUME NEW j \in 1..n, j # i
      PROVE  /\ \A k \in 0..(z(i) - 1) : /\ o(i) + k \notin o(j)..(o(j) + z(j) - 1)
                                         /\ opt(j) => o(i) + k # o(j) + z(j)
             /\ opt(i) => /\ o(i) + z(i) \notin o(j)..(o(j) + z(j) - 1)
                          /\ opt(j) => o(i) + z(i) # o(j) + z(j)
  <2>2. /\ o(i) \in Nat /\ o(j) \in Nat /\ s(i) \in Nat /\ s(j) \in Nat
        /\ z(i) \in Nat /\ z(j) \in Nat /\ z(i) # 0 /\ z(j) # 0
        /\ z(i) <= s(i) /\ z(j) <= s(j) /\ (o(i) + s(i) <= o(j) \/ o(j) + s(j) <= o(i))
    BY <1>1, <1>6, <1>10
  <2>3. (opt(i) => s(i) = z(i) + 1) /\ (opt(j) => s(j) = z(j) + 1)
    BY <1>1
  <2>4. ASSUME NEW k \in 0..(z(i) - 1)
        PROVE  o(i) + k \notin o(j)..(o(j) + z(j) - 1) /\ (opt(j) => o(i) + k # o(j) + z(j))
    <3>1. o(i) + k \notin o(j)..(o(j) + z(j) - 1)
      BY <2>2, SMTT(20)
    <3>2. s(j) = z(j) + 1 => o(i) + k # o(j) + z(j)
      BY <2>2
    <3> QED  BY <2>3, <3>1, <3>2
  <2>5. ASSUME opt(i)
        PROVE  /\ o(i) + z(i) \notin o(j)..(o(j) + z(j) - 1)
               /\ opt(j) => o(i) + z(i) # o(j) + z(j)
    <3>1. s(i) = z(i) + 1
      BY <2>3, <2>5
    <3>2. o(i) + z(i) \notin o(j)..(o(j) + z(j) - 1)
      BY <2>2, <3>1
    <3>3. s(j) = z(j) + 1 => o(i) + z(i) # o(j) + z(j)
      BY <2>2, <3>1
    <3> QED  BY <2>3, <3>2, <3>3
  <2> QED  BY <2>4, <2>5
<1>11. ASSUME NEW j \in 1..n, j # i
       PROVE  /\ \A k \in 0..(z(i) - 1) : /\ o(i) + k \notin Bytes(defs, j)
                                          /\ opt(j) => o(i) + k # FetchedFlag(defs, j)
              /\ opt(i) => /\ o(i) + z(i) \notin Bytes(defs, j)
                           /\ opt(j) => o(i) + z(i) # FetchedFlag(defs, j)
  <2>1. Bytes(defs, j) = o(j)..(o(j) + z(j) - 1) /\ FetchedFlag(defs, j) = o(j) + z(j)
    BY <1>4
  <2> QED  BY <1>10, <1>11, <2>1, Zenon
<1>12. FetchedFlag(defs, i) = o(i) + z(i)
  BY <1>4
<1> QED  BY <1>8, <1>9, <1>11, <1>12, <1>7 DEF o, z, opt

LEMMA MakeKeeps ==
  ASSUME ParametersInv, NEW o \in 1..Len(overloads), NEW line \in SUBSET (1..Len(overloads[o])),
         Make(o, line)
  PROVE  ParametersInv'
<1> DEFINE defs == overloads[o]
<1>1. /\ command' = o /\ given' = line /\ parsed' = {} /\ arguments' = <<>>
      /\ command = 0 /\ \A i \in 1..Len(defs) : ~defs[i].optional => i \in line
      /\ DOMAIN memory' = 0..(Offset(defs, Len(defs) + 1) - 1)
      /\ UNCHANGED <<enumerations, overloads, outside>>
  BY DEF Make
<1>2. overloads \in Seq(ParamSeqs) /\ Len(overloads) \in Nat /\ ~outside
  BY <1>1 DEF ParametersInv
<1>3. command' # 0 /\ command' \in 0..Len(overloads)
  BY <1>1, <1>2
<1>4. Holds(defs)'
  BY <1>1 DEF Holds
<1>5. Len(arguments') = 0
  BY <1>1
<1> QED  BY <1>1, <1>2, <1>3, <1>4, <1>5 DEF ParametersInv

LEMMA ParseKeeps ==
  ASSUME ParametersInv, ~outside, command # 0, NEW i \in 1..Len(overloads[command]), Parse(i)
  PROVE  ParametersInv'
<1> DEFINE defs == overloads[command]
           N == Len(defs)
           flags == IF defs[i].optional THEN {FlagOffset(defs, i)} ELSE {}
           value == IF i \in given THEN Bytes(defs, i) ELSE {}
<1>1. /\ parsed' = parsed \cup {i} /\ i \notin parsed
      /\ outside' = ~(flags \cup value \subseteq DOMAIN memory)
      /\ memory' = [n \in DOMAIN memory |->
                      IF n \in flags THEN (IF i \in given THEN "set" ELSE "unset")
                      ELSE IF n \in value THEN <<i, n - Offset(defs, i)>> ELSE memory[n]]
      /\ UNCHANGED <<enumerations, overloads, command, given, arguments>>
  BY DEF Parse
<1>2. overloads \in Seq(ParamSeqs) /\ command \in 1..Len(overloads) /\ Len(overloads) \in Nat
  BY DEF ParametersInv
<1>3. N \in Nat /\ defs \in [1..N -> Params]
  BY <1>2, OverloadTypes
<1>4. parsed \subseteq 1..N /\ \A j \in 1..N : ~defs[j].optional => j \in given
  BY DEF ParametersInv
<1>5. ASSUME Straight(defs)
      PROVE  ~outside' /\ Holds(defs)'
  <2>1. Holds(defs)
    BY <1>5 DEF ParametersInv
  <2>2. DOMAIN memory = 0..(Offset(defs, N + 1) - 1) /\ DOMAIN memory' = DOMAIN memory
    BY <1>1, <2>1 DEF Holds
  <2>3. defs[i].optional => FlagOffset(defs, i) = FetchedFlag(defs, i)
    BY <1>5 DEF Straight, Misplaced, FlagOffset, FetchedFlag
  <2>4. /\ Offset(defs, i) \in Nat /\ SizeOf[defs[i].type] \in Nat \ {0}
        /\ \A k \in 0..(SizeOf[defs[i].type] - 1) : Offset(defs, i) + k \in DOMAIN memory
        /\ defs[i].optional => FetchedFlag(defs, i) \in DOMAIN memory
    BY <1>3, <2>2, Apart
  <2>5. \A n \in Bytes(defs, i) : /\ n - Offset(defs, i) \in 0..(SizeOf[defs[i].type] - 1)
                                  /\ n = Offset(defs, i) + (n - Offset(defs, i))
    BY <2>4, SMTT(20) DEF Bytes
  <2>6. ~outside'
    <3>1. Bytes(defs, i) \subseteq DOMAIN memory
      BY <2>4, <2>5
    <3> QED  BY <1>1, <2>3, <2>4, <3>1
  <2>7. ASSUME NEW j \in parsed, j \in given, NEW k \in 0..(SizeOf[defs[j].type] - 1)
        PROVE  memory'[Offset(defs, j) + k] = <<j, k>>
    <3>1. j \in 1..N /\ j # i
      BY <1>1, <1>4
    <3>2. /\ Offset(defs, j) + k \in DOMAIN memory /\ Offset(defs, j) + k \notin Bytes(defs, i)
          /\ defs[i].optional => Offset(defs, j) + k # FetchedFlag(defs, i)
      BY <1>3, <2>2, <3>1, Apart
    <3>3. memory[Offset(defs, j) + k] = <<j, k>>
      BY <2>1, <2>7 DEF Holds
    <3>4. Offset(defs, j) + k \notin flags /\ Offset(defs, j) + k \notin value
      BY <2>3, <3>2
    <3> HIDE DEF flags, value
    <3> QED  BY <1>1, <3>2, <3>3, <3>4
  <2>8. ASSUME NEW j \in parsed, defs[j].optional
        PROVE  memory'[FetchedFlag(defs, j)] = IF j \in given THEN "set" ELSE "unset"
    <3>1. j \in 1..N /\ j # i
      BY <1>1, <1>4
    <3>2. /\ FetchedFlag(defs, j) \in DOMAIN memory /\ FetchedFlag(defs, j) \notin Bytes(defs, i)
          /\ defs[i].optional => FetchedFlag(defs, j) # FetchedFlag(defs, i)
      BY <1>3, <2>2, <2>8, <3>1, Apart
    <3>3. memory[FetchedFlag(defs, j)] = IF j \in given THEN "set" ELSE "unset"
      BY <2>1, <2>8 DEF Holds
    <3>4. FetchedFlag(defs, j) \notin flags /\ FetchedFlag(defs, j) \notin value
      BY <2>3, <3>2
    <3> HIDE DEF flags, value
    <3> QED  BY <1>1, <3>2, <3>3, <3>4
  <2>9. ASSUME i \in given, NEW k \in 0..(SizeOf[defs[i].type] - 1)
        PROVE  memory'[Offset(defs, i) + k] = <<i, k>>
    <3>1. /\ Offset(defs, i) + k \in Bytes(defs, i) /\ Offset(defs, i) + k \in DOMAIN memory
          /\ (Offset(defs, i) + k) - Offset(defs, i) = k
          /\ Offset(defs, i) + k # FetchedFlag(defs, i)
      BY <2>4 DEF Bytes, FetchedFlag
    <3>2. Offset(defs, i) + k \notin flags /\ Offset(defs, i) + k \in value
      BY <2>3, <2>9, <3>1
    <3> HIDE DEF flags, value
    <3> QED  BY <1>1, <3>1, <3>2
  <2>10. ASSUME defs[i].optional
         PROVE  memory'[FetchedFlag(defs, i)] = IF i \in given THEN "set" ELSE "unset"
    BY <1>1, <2>3, <2>4, <2>10
  <2>11. /\ DOMAIN memory' = 0..(Offset(defs, Len(defs) + 1) - 1)
         /\ \A j \in parsed \cup {i} :
              /\ j \in given => \A n \in 0..(SizeOf[defs[j].type] - 1) :
                                   memory'[Offset(defs, j) + n] = <<j, n>>
              /\ defs[j].optional =>
                    memory'[FetchedFlag(defs, j)] = IF j \in given THEN "set" ELSE "unset"
    BY <2>2, <2>7, <2>8, <2>9, <2>10
  <2>12. Holds(defs)'
    BY <1>1, <2>11 DEF Holds
  <2> QED  BY <2>6, <2>12
<1>6. /\ parsed' \subseteq 1..N
      /\ Straight(defs) => \A j \in 1..Len(arguments) :
                              arguments[j] = IF j \in given THEN "value" ELSE "undefined"
  BY <1>1, <1>4 DEF ParametersInv
<1> HIDE DEF flags, value
<1>7. defs' = defs /\ N' = N
  BY <1>1
<1> QED  BY <1>1, <1>2, <1>4, <1>5, <1>6 DEF ParametersInv, Straight, Misplaced

LEMMA ExecuteKeeps ==
  ASSUME ParametersInv, Execute
  PROVE  ParametersInv'
<1> DEFINE defs == overloads[command]
           N == Len(defs)
<1>1. /\ command # 0 /\ parsed = 1..N
      /\ arguments' = [i \in 1..N |-> Fetched(defs, i)]
      /\ UNCHANGED <<enumerations, overloads, command, given, parsed, memory, outside>>
  BY DEF Execute
<1>2. command \in 1..Len(overloads) /\ overloads \in Seq(ParamSeqs) /\ Len(overloads) \in Nat
  BY <1>1 DEF ParametersInv
<1>3. N \in Nat /\ defs \in [1..N -> Params]
  BY <1>2, OverloadTypes
<1>4. Len(arguments') = N
  BY <1>1, <1>3
<1>5. ASSUME Straight(defs), NEW i \in 1..N
      PROVE  Fetched(defs, i) = IF i \in given THEN "value" ELSE "undefined"
  <2>1. Holds(defs) /\ (~defs[i].optional => i \in given)
    BY <1>1, <1>5 DEF ParametersInv
  <2>2. /\ i \in given => \A n \in 0..(SizeOf[defs[i].type] - 1) :
                             memory[Offset(defs, i) + n] = <<i, n>>
        /\ defs[i].optional =>
              memory[FetchedFlag(defs, i)] = IF i \in given THEN "set" ELSE "unset"
    BY <1>1, <2>1 DEF Holds
  <2> DEFINE bytes == [n \in 0..(SizeOf[defs[i].type] - 1) |-> memory[Offset(defs, i) + n]]
  <2>3. i \in given => \A n \in DOMAIN bytes : bytes[n] = <<i, n>>
    BY <2>2
  <2>4. CASE i \in given
    BY <2>2, <2>3, <2>4 DEF Fetched
  <2>5. CASE i \notin given
    BY <2>1, <2>2, <2>5 DEF Fetched
  <2> QED  BY <2>4, <2>5
<1>6. Holds(defs)' = Holds(defs) /\ Straight(defs)' = Straight(defs)
  BY <1>1 DEF Holds, Straight, Misplaced
<1>7. Straight(defs) => \A i \in 1..N :
         arguments'[i] = IF i \in given THEN "value" ELSE "undefined"
  BY <1>1, <1>5
<1> QED  BY <1>1, <1>2, <1>4, <1>6, <1>7 DEF ParametersInv

LEMMA ParametersStep ==
  ASSUME ParametersInv, [ParametersNext]_parametersVars
  PROVE  ParametersInv'
<1>1. CASE UNCHANGED parametersVars
  BY <1>1 DEF parametersVars, ParametersInv, Holds, Straight, Misplaced
<1>2. ASSUME NEW e \in Enums, AddEnum(e) PROVE ParametersInv'
  BY <1>2 DEF AddEnum, ParametersInv, Holds, Straight, Misplaced
<1>3. ASSUME NEW n \in 0..MaxParams, NEW defs \in [1..n -> Params], RegisterOverride(defs)
      PROVE  ParametersInv'
  <2>1. /\ overloads' = Append(overloads, defs)
        /\ UNCHANGED <<enumerations, command, given, parsed, memory, arguments, outside>>
    BY <1>3 DEF RegisterOverride
  <2>2. overloads \in Seq(ParamSeqs) /\ defs \in ParamSeqs
    <3>1. n \in Nat
      BY ParametersAssumption
    <3> QED  BY <3>1, Zenon DEF ParametersInv, ParamSeqs
  <2>3. /\ overloads' \in Seq(ParamSeqs) /\ Len(overloads') = Len(overloads) + 1
        /\ Len(overloads) \in Nat
        /\ \A o \in 1..Len(overloads) : overloads'[o] = overloads[o]
    BY <2>1, <2>2
  <2>4. command # 0 => command \in 1..Len(overloads) /\ overloads'[command] = overloads[command]
    BY <2>3 DEF ParametersInv
  <2>5. command' \in 0..Len(overloads')
    BY <2>1, <2>3 DEF ParametersInv
  <2> QED  BY <2>1, <2>3, <2>4, <2>5 DEF ParametersInv, Holds, Straight, Misplaced
<1>4. ASSUME NEW o \in 1..Len(overloads), NEW line \in SUBSET (1..Len(overloads[o])), Make(o, line)
      PROVE  ParametersInv'
  BY <1>4, MakeKeeps
<1>5. ASSUME ~outside, command # 0, NEW i \in 1..Len(overloads[command]), Parse(i)
      PROVE  ParametersInv'
  BY <1>5, ParseKeeps
<1>6. ASSUME Execute PROVE ParametersInv'
  BY <1>6, ExecuteKeeps
<1>7. ASSUME Destroy, ~outside PROVE ParametersInv'
  <2>1. /\ command' = 0 /\ arguments' = <<>> /\ UNCHANGED <<overloads, outside>>
    BY <1>7 DEF Destroy
  <2>2. overloads \in Seq(ParamSeqs) /\ Len(overloads) \in Nat
    BY DEF ParametersInv
  <2> QED  BY <1>7, <2>1, <2>2 DEF ParametersInv
<1> QED  BY <1>1, <1>2, <1>3, <1>4, <1>5, <1>6, <1>7 DEF ParametersNext

\* Whatever parameters a command has, in whatever order and of whatever sizes, the parser, the
\* constructor and the call of the script's function mean the same bytes by each.
THEOREM ArgumentsAreAsGiven == ParametersSpec => []ArgumentsAsGiven
<1>1. ParametersInit => ParametersInv
  BY DEF ParametersInit, ParametersInv
<1>2. ParametersInv => ArgumentsAsGiven
  BY DEF ParametersInv, ArgumentsAsGiven, Straight
<1>3. ParametersInv /\ [ParametersNext]_parametersVars => ParametersInv'
  BY ParametersStep
<1> QED  BY <1>1, <1>2, <1>3, PTL DEF ParametersSpec

----------------------------------------------------------------------------

\* Modules of scripts.

\* Every import of a file before the given rest of them has been answered.
AnsweredBefore(r, rest) ==
    LET all == imports[records[r]] IN
    /\ Len(rest) <= Len(all) /\ \A i \in 1..Len(rest) : rest[i] = all[Len(all) - Len(rest) + i]
    /\ r \notin broken =>
          \A i \in 1..(Len(all) - Len(rest)) : \E l \in links : l.from = r /\ l.by = all[i]

\* A record that is whole: parsed, registered by a mod, and neither the root nor without a source.
Whole(r) ==
    /\ r \in 2..Len(records) /\ records[r] \notin absent
    /\ \A i \in 2..Len(parsing) : parsing[i].rec # r

Calls == [rec : Nat, todo : Seq(Specs), dynamic : BOOLEAN]

ModulesTypeOK ==
    /\ imports \in [Files -> Seq(Specs)] /\ absent \subseteq Files
    /\ records \in Seq(Files \cup Builtins) /\ (records # <<>> => records[1] = Root)
    /\ parsing \in Seq(Calls) /\ links \subseteq [from : Nat, by : Specs, to : Nat]

\* What is in the cache is whole, and what is whole is in the cache, in this or a newer record.
CacheInv ==
    /\ \A p \in DOMAIN modcache : Whole(modcache[p]) /\ records[modcache[p]] = p /\ p \notin Lazy
    /\ \A r \in 2..Len(records) : Whole(r) => records[r] \in DOMAIN modcache
    /\ \A r \in 1..Len(records) : records[r] \in Builtins =>
          records[r] \in DOMAIN modcache /\ modcache[records[r]] = r

\* Each call in progress but the outermost is for a file that the one around it is fetching.
StackInv ==
    /\ \A i \in 1..Len(parsing) :
          /\ parsing[i].rec \in 1..Len(records) /\ records[parsing[i].rec] \in Files
          /\ parsing[i].dynamic <=> i = 1
    /\ \A i \in 2..Len(parsing) :
          LET c == parsing[i]   o == parsing[i - 1] IN
          /\ c.rec \in 2..Len(records) /\ records[c.rec] \notin absent
          /\ AnsweredBefore(c.rec, c.todo)
          /\ o.todo # <<>> /\ Raw[Head(o.todo)] \notin Builtins
          /\ records[c.rec] = Resolve[records[o.rec]][Head(o.todo)]
    /\ \A i, j \in 2..Len(parsing) : i < j => parsing[i].rec < parsing[j].rec

LinksInv ==
    /\ \A l \in links :
          /\ l.from \in 1..Len(records) /\ Whole(l.to) /\ l.to \notin broken
          /\ ~Ambiguous(l) => records[l.to] = Meant(l)
    /\ \A r \in 2..Len(records) : Whole(r) /\ records[r] \in Files => AnsweredBefore(r, <<>>)

\* Of two records of a file, the older has an import that it got in a newer record than itself,
\* and the newer one got in another, even newer or of another module.
Outlived(a, b) ==
    \E k, l \in links :
       /\ k.from = a /\ l.from = b /\ k.by = l.by /\ k.to > a /\ k.to # l.to
       /\ records[k.to] = records[l.to] => l.to > k.to

\* Two records of one file without errors, the first of them given.
Twins(a, b) == Whole(b) /\ b \notin broken /\ a \notin broken /\ records[a] = records[b]

TwinsInv ==
    /\ \A i \in 2..Len(parsing) : \A b \in 2..Len(records) :
          Whole(b) /\ records[b] = records[parsing[i].rec] => b > parsing[i].rec
    /\ \A i \in 2..Len(parsing) : i = Len(parsing) =>
          \A b \in 2..Len(records) : Twins(parsing[i].rec, b) => Outlived(parsing[i].rec, b)
    /\ \A a, b \in 2..Len(records) : Whole(a) /\ Twins(a, b) /\ a < b => Outlived(a, b)

ModulesInv == ModulesTypeOK /\ CacheInv /\ StackInv /\ LinksInv /\ TwinsInv

----------------------------------------------------------------------------

\* Nothing but what is new changes.
Grows ==
    /\ UNCHANGED <<imports, absent>> /\ links \subseteq links' /\ broken \subseteq broken'
    /\ Len(records) <= Len(records') /\ \A r \in 1..Len(records) : records'[r] = records[r]

LEMMA GrownKeeps ==
  ASSUME ModulesInv, Grows, Len(records') \in Nat
  PROVE  /\ \A r \in 1..Len(records) : \A rest : AnsweredBefore(r, rest) => AnsweredBefore(r, rest)'
         /\ \A a, b : Outlived(a, b) => Outlived(a, b)'
         /\ \A a, b \in 1..Len(records) : Whole(b) /\ Twins(a, b)' => Twins(a, b)
<1>1. Len(records) \in Nat /\ \A r \in 1..Len(records) : r \in 1..Len(records') /\ records'[r] = records[r]
  BY DEF ModulesInv, ModulesTypeOK, Grows
<1>2. ASSUME NEW r \in 1..Len(records), NEW rest, AnsweredBefore(r, rest)
      PROVE  AnsweredBefore(r, rest)'
  <2>1. imports'[records'[r]] = imports[records[r]]
    BY <1>1 DEF Grows
  <2>2. r \notin broken' => r \notin broken
    BY DEF Grows
  <2>3. \A l : l \in links => l \in links'
    BY DEF Grows
  <2> QED  BY <1>2, <2>1, <2>2, <2>3 DEF AnsweredBefore
<1>3. ASSUME NEW a, NEW b, Outlived(a, b)
      PROVE  Outlived(a, b)'
  <2>1. PICK k \in links, l \in links :
           /\ k.from = a /\ l.from = b /\ k.by = l.by /\ k.to > a /\ k.to # l.to
           /\ records[k.to] = records[l.to] => l.to > k.to
    BY <1>3 DEF Outlived
  <2>2. k.to \in 1..Len(records) /\ l.to \in 1..Len(records)
    BY <1>1 DEF ModulesInv, LinksInv, Whole
  <2>3. records'[k.to] = records[k.to] /\ records'[l.to] = records[l.to]
    BY <1>1, <2>2
  <2>4. k \in links' /\ l \in links'
    BY DEF Grows
  <2> QED  BY <2>1, <2>3, <2>4 DEF Outlived
<1>4. ASSUME NEW a \in 1..Len(records), NEW b \in 1..Len(records), Whole(b), Twins(a, b)'
      PROVE  Twins(a, b)
  BY <1>1, <1>4 DEF Twins, Grows
<1> QED  BY <1>2, <1>3, <1>4

\* The calls that remain are old ones, or new ones of new records.
LEMMA WholeStays ==
  ASSUME ModulesInv, Grows, Len(records') \in Nat, Len(parsing') \in Nat,
         \A i \in 2..Len(parsing') : \/ i <= Len(parsing) /\ parsing'[i].rec = parsing[i].rec
                                     \/ parsing'[i].rec > Len(records)
  PROVE  \A r \in 1..Len(records) : Whole(r) => Whole(r)'
<1>1. Len(records) \in Nat /\ Len(parsing) \in Nat
  BY DEF ModulesInv, ModulesTypeOK
<1> SUFFICES ASSUME NEW r \in 1..Len(records), Whole(r) PROVE Whole(r)'
  OBVIOUS
<1>2. r \in 2..Len(records') /\ records'[r] = records[r] /\ absent' = absent
  BY <1>1 DEF Grows, Whole
<1>3. ASSUME NEW i \in 2..Len(parsing') PROVE parsing'[i].rec # r
  <2>1. CASE i <= Len(parsing) /\ parsing'[i].rec = parsing[i].rec
    <3>1. i \in 2..Len(parsing)
      BY <1>1, <2>1
    <3> QED  BY <2>1, <3>1 DEF Whole
  <2>2. CASE parsing'[i].rec > Len(records)
    BY <1>1, <2>2
  <2> QED  BY <2>1, <2>2
<1> QED  BY <1>2, <1>3 DEF Whole

\* One import more of a record is answered, or an error of one ends them.
LEMMA NextAnswered ==
  ASSUME ModulesInv, Grows, NEW r \in 1..Len(records), records[r] \in Files,
         NEW rest \in Seq(Specs), rest # <<>>, AnsweredBefore(r, rest),
         r \in broken' \/ \E l \in links' : l.from = r /\ l.by = Head(rest)
  PROVE  AnsweredBefore(r, Tail(rest))'
<1> DEFINE all == imports[records[r]]
           t == Tail(rest)
<1>1. /\ Len(all) \in Nat /\ Len(rest) \in Nat \ {0} /\ Head(rest) = rest[1]
      /\ t \in Seq(Specs) /\ Len(t) = Len(rest) - 1
      /\ \A i \in 1..(Len(rest) - 1) : t[i] = rest[i + 1]
  <2>1. all \in Seq(Specs)
    BY DEF ModulesInv, ModulesTypeOK
  <2> QED  BY <2>1, EmptySeq
<1>2. /\ Len(rest) <= Len(all)
      /\ \A i \in 1..Len(rest) : rest[i] = all[Len(all) - Len(rest) + i]
      /\ r \notin broken =>
            \A i \in 1..(Len(all) - Len(rest)) : \E l \in links : l.from = r /\ l.by = all[i]
  BY DEF AnsweredBefore
<1>0. imports'[records'[r]] = all
  BY DEF Grows
<1> HIDE DEF all, t
<1>3. \A m, n \in Nat : m # 0 /\ m <= n =>
         /\ \A i \in 1..(m - 1) : i + 1 \in 1..m /\ n - m + (i + 1) = n - (m - 1) + i
         /\ 1 \in 1..m /\ m - 1 <= n
         /\ \A i \in 1..(n - (m - 1)) : i = n - m + 1 \/ i \in 1..(n - m)
  OBVIOUS
<1>4. Len(t) <= Len(all) /\ \A i \in 1..Len(t) : t[i] = all[Len(all) - Len(t) + i]
  <2>1. Len(t) <= Len(all)
    BY <1>1, <1>2, <1>3
  <2>2. ASSUME NEW i \in 1..Len(t)
        PROVE  t[i] = all[Len(all) - Len(t) + i]
    <3>1. /\ i \in 1..(Len(rest) - 1) /\ i + 1 \in 1..Len(rest)
          /\ Len(all) - Len(rest) + (i + 1) = Len(all) - Len(t) + i
      BY <1>1
    <3>2. t[i] = rest[i + 1] /\ rest[i + 1] = all[Len(all) - Len(rest) + (i + 1)]
      BY <1>1, <1>2, <3>1, Zenon
    <3> QED  BY <3>1, <3>2, Zenon
  <2> QED  BY <2>1, <2>2
<1>5. ASSUME r \notin broken', NEW i \in 1..(Len(all) - Len(t))
      PROVE  \E l \in links' : l.from = r /\ l.by = all[i]
  <2>1. i = Len(all) - Len(rest) + 1 \/ i \in 1..(Len(all) - Len(rest))
    BY <1>1, <1>2, <1>3
  <2>2. Head(rest) = all[Len(all) - Len(rest) + 1]
    BY <1>1, <1>2, <1>3
  <2>3. r \notin broken /\ \A l : l \in links => l \in links'
    BY <1>5 DEF Grows
  <2> QED  BY <1>2, <1>5, <2>1, <2>2, <2>3
<1>6. AnsweredBefore(r, t)'
  BY <1>0, <1>4, <1>5 DEF AnsweredBefore
<1> QED  BY <1>6 DEF t

LEMMA BrokenAnswered ==
  ASSUME ModulesInv, Grows, NEW r \in 1..Len(records), records[r] \in Files, r \in broken'
  PROVE  AnsweredBefore(r, <<>>)'
<1>1. /\ imports'[records'[r]] \in Seq(Specs) /\ Len(<<>>) = 0 /\ \A i \in 1..0 : FALSE
  BY DEF Grows, ModulesInv, ModulesTypeOK
<1> QED  BY <1>1 DEF AnsweredBefore

\* The imports of the innermost call change.
LEMMA TopReplaced ==
  ASSUME NEW outer \in Seq(Calls), outer # <<>>,
         NEW x \in Calls, x.rec = Last(outer).rec, x.dynamic = Last(outer).dynamic,
         NEW t, t = WithLast(outer, x)
  PROVE  /\ t \in Seq(Calls) /\ Len(t) = Len(outer) /\ t[Len(outer)] = x
         /\ \A i \in 1..Len(outer) : t[i].rec = outer[i].rec /\ t[i].dynamic = outer[i].dynamic
         /\ \A i \in 1..Len(outer) : i # Len(outer) => t[i] = outer[i]
<1>1. Len(outer) \in Nat \ {0} /\ Last(outer) = outer[Len(outer)]
  BY LastFrontFacts
<1>2. t = [outer EXCEPT ![Len(outer)] = x]
  BY LastReplaced
<1>3. t \in Seq(Calls) /\ Len(t) = Len(outer) /\ t[Len(outer)] = x
      /\ \A i \in 1..Len(outer) : i # Len(outer) => t[i] = outer[i]
  BY <1>1, <1>2
<1>4. \A i \in 1..Len(outer) : t[i].rec = outer[i].rec /\ t[i].dynamic = outer[i].dynamic
  BY <1>1, <1>3, Zenon
<1> QED  BY <1>3, <1>4, Zenon

LEMMA Calling ==
  ASSUME ModulesInv, parsing # <<>>
  PROVE  /\ Len(parsing) \in Nat \ {0} /\ Len(records) \in Nat \ {0}
         /\ Innermost = parsing[Len(parsing)] /\ Innermost \in Calls
         /\ Innermost.rec \in 1..Len(records) /\ Importer \in Files
         /\ Innermost.dynamic <=> Len(parsing) = 1
<1>1. parsing \in Seq(Calls) /\ Len(records) \in Nat
  BY DEF ModulesInv, ModulesTypeOK
<1>2. /\ Len(parsing) \in Nat \ {0}
      /\ Last(parsing) = parsing[Len(parsing)] /\ Last(parsing) \in Calls
  BY <1>1, LastFrontFacts
<1>3. Len(parsing) \in 1..Len(parsing)
  BY <1>2
<1>4. LET c == parsing[Len(parsing)] IN
      c.rec \in 1..Len(records) /\ records[c.rec] \in Files /\ (c.dynamic <=> Len(parsing) = 1)
  BY <1>3, Zenon DEF ModulesInv, StackInv
<1>5. Len(records) \in Nat \ {0}
  BY <1>1, <1>4
<1> QED  BY <1>2, <1>4, <1>5, Zenon DEF Innermost, Importer

\* A new record, or none.
LEMMA RecordsGrow ==
  ASSUME ModulesInv, NEW p \in Files \cup Builtins,
         records' = records \/ records' = Append(records, p)
  PROVE  /\ records' \in Seq(Files \cup Builtins) /\ Len(records) \in Nat /\ Len(records') \in Nat
         /\ \A r \in 1..Len(records) : r \in 1..Len(records') /\ records'[r] = records[r]
         /\ (Len(records') # Len(records) => Len(records') = Len(records) + 1 /\ records'[Len(records) + 1] = p)
         /\ records # <<>> => records' # <<>> /\ records'[1] = records[1]
<1>1. records \in Seq(Files \cup Builtins)
  BY DEF ModulesInv, ModulesTypeOK
<1>2. records # <<>> => Len(records) \in Nat \ {0}
  BY <1>1, EmptySeq
<1>3. CASE records' = records
  <2>1. Len(records) \in Nat /\ Len(records') \in Nat /\ Len(records') = Len(records)
    BY <1>1, <1>3
  <2>2. \A r \in 1..Len(records) : r \in 1..Len(records') /\ records'[r] = records[r]
    BY <1>3, <2>1, Zenon
  <2>3. records' \in Seq(Files \cup Builtins) /\ (records # <<>> => records' # <<>> /\ records'[1] = records[1])
    BY <1>1, <1>3, Zenon
  <2> QED  BY <2>1, <2>2, <2>3
<1>4. CASE records' = Append(records, p)
  <2>1. /\ records' \in Seq(Files \cup Builtins) /\ Len(records') = Len(records) + 1
        /\ records'[Len(records) + 1] = p /\ Len(records) \in Nat
        /\ \A r \in 1..Len(records) : records'[r] = records[r]
    BY <1>1, <1>4, AppendProperties
  <2>2. \A n \in Nat : n + 1 \in Nat /\ n + 1 # 0 /\ \A r \in 1..n : r \in 1..(n + 1)
    OBVIOUS
  <2>3. records' # <<>>
    BY <2>1, <2>2, EmptySeq
  <2>4. records # <<>> => 1 \in 1..Len(records)
    BY <1>2
  <2> QED  BY <2>1, <2>2, <2>3, <2>4
<1> QED  BY <1>3, <1>4

\* What an answer makes of the calls, links and errors.
LEMMA AnswerShape ==
  ASSUME NEW outer \in Seq(Calls), outer # <<>>, Last(outer).todo # <<>>,
         NEW r, Refuse(outer) \/ Answer(outer, r)
  PROVE  /\ parsing' \in Seq(Calls) /\ Len(parsing') = Len(outer) /\ Len(outer) \in Nat \ {0}
         /\ \A i \in 1..Len(outer) :
               parsing'[i].rec = outer[i].rec /\ parsing'[i].dynamic = outer[i].dynamic
         /\ \A i \in 1..Len(outer) : i # Len(outer) => parsing'[i] = outer[i]
         /\ \/ /\ parsing'[Len(outer)].todo = <<>> /\ links' = links
               /\ broken' = broken \cup
                     (IF outer[Len(outer)].dynamic THEN {} ELSE {outer[Len(outer)].rec})
            \/ /\ parsing'[Len(outer)].todo = Tail(outer[Len(outer)].todo)
               /\ broken' = broken /\ r \notin broken
               /\ links' = links \cup {[from |-> outer[Len(outer)].rec,
                                         by |-> Head(outer[Len(outer)].todo), to |-> r]}
         /\ links \subseteq links' /\ broken \subseteq broken'
<1>1. /\ Len(outer) \in Nat \ {0} /\ Last(outer) = outer[Len(outer)] /\ Last(outer) \in Calls
  BY LastFrontFacts
<1>2. CASE Refuse(outer)
  <2> DEFINE x == [Last(outer) EXCEPT !.todo = <<>>]
             t == parsing'
  <2>1. t = WithLast(outer, x)
    BY <1>2, Zenon DEF Refuse, WithLast
  <2>2. x \in Calls /\ x.rec = Last(outer).rec /\ x.dynamic = Last(outer).dynamic /\ x.todo = <<>>
    <3>1. <<>> \in Seq(Specs)
      <4>1. Last(outer).todo \in Seq(Specs)
        BY <1>1 DEF Calls
      <4> QED  BY <4>1
    <3> DEFINE c == Last(outer)
               rest == <<>>
    <3>2. x = [c EXCEPT !.todo = rest] /\ c \in Calls /\ rest \in Seq(Specs)
      BY <1>1, <3>1 DEF Calls
    <3> HIDE DEF x, c, rest
    <3>3. x \in Calls /\ x.rec = c.rec /\ x.dynamic = c.dynamic /\ x.todo = rest
      BY <3>2 DEF Calls
    <3> QED  BY <3>3 DEF c, rest
  <2> HIDE DEF x, t
  <2>3. /\ t \in Seq(Calls) /\ Len(t) = Len(outer) /\ t[Len(outer)] = x
        /\ \A i \in 1..Len(outer) : t[i].rec = outer[i].rec /\ t[i].dynamic = outer[i].dynamic
        /\ \A i \in 1..Len(outer) : i # Len(outer) => t[i] = outer[i]
    BY <2>1, <2>2, TopReplaced
  <2>4. /\ links' = links
        /\ broken' = broken \cup (IF outer[Len(outer)].dynamic THEN {} ELSE {outer[Len(outer)].rec})
    BY <1>1, <1>2 DEF Refuse
  <2> QED  BY <1>1, <2>2, <2>3, <2>4 DEF t
<1>3. CASE Answer(outer, r) /\ ~Refuse(outer)
  <2> DEFINE x == [Last(outer) EXCEPT !.todo = Tail(@)]
             t == parsing'
  <2>1. /\ r \notin broken /\ broken' = broken
        /\ links' = links \cup {[from |-> Last(outer).rec, by |-> Head(Last(outer).todo), to |-> r]}
        /\ t = WithLast(outer, x)
    BY <1>3, Zenon DEF Answer, WithLast
  <2>2. /\ x \in Calls /\ x.rec = Last(outer).rec /\ x.dynamic = Last(outer).dynamic
        /\ x.todo = Tail(Last(outer).todo)
    <3>1. Tail(Last(outer).todo) \in Seq(Specs)
      <4>1. Last(outer).todo \in Seq(Specs)
        BY <1>1 DEF Calls
      <4> QED  BY <4>1
    <3> DEFINE c == Last(outer)
               rest == Tail(Last(outer).todo)
    <3>2. x = [c EXCEPT !.todo = rest] /\ c \in Calls /\ rest \in Seq(Specs)
      BY <1>1, <3>1 DEF Calls
    <3> HIDE DEF x, c, rest
    <3>3. x \in Calls /\ x.rec = c.rec /\ x.dynamic = c.dynamic /\ x.todo = rest
      BY <3>2 DEF Calls
    <3> QED  BY <3>3 DEF c, rest
  <2> HIDE DEF x, t
  <2>3. /\ t \in Seq(Calls) /\ Len(t) = Len(outer) /\ t[Len(outer)] = x
        /\ \A i \in 1..Len(outer) : t[i].rec = outer[i].rec /\ t[i].dynamic = outer[i].dynamic
        /\ \A i \in 1..Len(outer) : i # Len(outer) => t[i] = outer[i]
    BY <2>1, <2>2, TopReplaced
  <2> QED  BY <1>1, <2>1, <2>2, <2>3 DEF t
<1> QED  BY <1>2, <1>3

\* An answer to the innermost of the given calls, which are all or all but the innermost.
AnswerStep(outer, r) ==
    /\ outer \in Seq(Calls) /\ outer # <<>> /\ Len(outer) <= Len(parsing)
    /\ \A i \in 1..Len(outer) : outer[i] = parsing[i]
    /\ Last(outer).todo # <<>> /\ (Refuse(outer) \/ Answer(outer, r))

LEMMA AnswerGrows ==
  ASSUME ModulesInv, UNCHANGED <<imports, absent>>, NEW outer, NEW r, AnswerStep(outer, r),
         NEW p \in Files \cup Builtins, records' = records \/ records' = Append(records, p)
  PROVE  /\ Grows /\ Len(records') \in Nat
         /\ parsing' \in Seq(Calls) /\ Len(parsing') = Len(outer) /\ Len(parsing') \in Nat
         /\ \A i \in 1..Len(outer) : parsing'[i].rec = parsing[i].rec
         /\ \A a \in 1..Len(records) : Whole(a) => Whole(a)'
<1>1. /\ parsing' \in Seq(Calls) /\ Len(parsing') = Len(outer) /\ Len(outer) \in Nat \ {0}
      /\ \A i \in 1..Len(outer) : parsing'[i].rec = outer[i].rec
      /\ links \subseteq links' /\ broken \subseteq broken'
  BY AnswerShape DEF AnswerStep
<1>2. /\ Len(records) \in Nat /\ Len(records') \in Nat
      /\ \A a \in 1..Len(records) : records'[a] = records[a]
      /\ Len(records') # Len(records) => Len(records') = Len(records) + 1
  BY RecordsGrow
<1>3. Grows
  BY <1>1, <1>2 DEF Grows
<1>4. \A i \in 2..Len(parsing') : i <= Len(parsing) /\ parsing'[i].rec = parsing[i].rec
  <2>1. Len(parsing) \in Nat
    BY DEF ModulesInv, ModulesTypeOK
  <2> QED  BY <1>1, <2>1 DEF AnswerStep
<1>5. \A a \in 1..Len(records) : Whole(a) => Whole(a)'
  BY <1>1, <1>2, <1>3, <1>4, WholeStays
<1>6. \A i \in 1..Len(outer) : parsing'[i].rec = parsing[i].rec
  BY <1>1 DEF AnswerStep
<1> QED  BY <1>1, <1>2, <1>3, <1>5, <1>6

LEMMA AnswerKeepsStack ==
  ASSUME ModulesInv, UNCHANGED <<imports, absent>>, NEW outer, NEW r, AnswerStep(outer, r),
         NEW p \in Files \cup Builtins, records' = records \/ records' = Append(records, p)
  PROVE  StackInv'
<1> DEFINE m == Len(outer)
           c == outer[Len(outer)]
<1>1. /\ parsing' \in Seq(Calls) /\ Len(parsing') = m /\ m \in Nat \ {0}
      /\ \A i \in 1..m : parsing'[i].rec = outer[i].rec /\ parsing'[i].dynamic = outer[i].dynamic
      /\ \A i \in 1..m : i # m => parsing'[i] = outer[i]
      /\ \/ /\ parsing'[m].todo = <<>> /\ links' = links
            /\ broken' = broken \cup (IF c.dynamic THEN {} ELSE {c.rec})
         \/ /\ parsing'[m].todo = Tail(c.todo) /\ broken' = broken /\ r \notin broken
            /\ links' = links \cup {[from |-> c.rec, by |-> Head(c.todo), to |-> r]}
  BY AnswerShape, Zenon DEF AnswerStep
<1>2. /\ Len(records) \in Nat /\ Len(records') \in Nat
      /\ \A a \in 1..Len(records) : a \in 1..Len(records') /\ records'[a] = records[a]
  BY RecordsGrow
<1>3. Grows
  BY AnswerGrows
<1>4. /\ Len(parsing) \in Nat /\ m <= Len(parsing)
      /\ \A i \in 1..m : i \in 1..Len(parsing) /\ outer[i] = parsing[i]
      /\ m \in 1..m /\ c = parsing[m] /\ c \in Calls /\ c.todo # <<>> /\ c = Last(outer)
  <2>1. Len(parsing) \in Nat /\ m <= Len(parsing) /\ \A i \in 1..m : outer[i] = parsing[i]
    BY DEF ModulesInv, ModulesTypeOK, AnswerStep
  <2>2. Last(outer) = c /\ c \in Calls
    BY LastFrontFacts DEF AnswerStep
  <2> QED  BY <1>1, <2>1, <2>2 DEF AnswerStep
<1> HIDE DEF m, c
<1>5. \A i \in 1..m :
         /\ parsing'[i].rec \in 1..Len(records') /\ records'[parsing'[i].rec] \in Files
         /\ parsing'[i].dynamic <=> i = 1
  <2> TAKE i \in 1..m
  <2>1. parsing'[i].rec = parsing[i].rec /\ parsing'[i].dynamic = parsing[i].dynamic /\ i \in 1..Len(parsing)
    BY <1>1, <1>4
  <2>2. /\ parsing[i].rec \in 1..Len(records) /\ records[parsing[i].rec] \in Files
        /\ parsing[i].dynamic <=> i = 1
    BY <2>1, Zenon DEF ModulesInv, StackInv
  <2> QED  BY <1>2, <2>1, <2>2
<1>6. ASSUME NEW i \in 2..m
      PROVE  /\ parsing'[i].rec \in 2..Len(records') /\ records'[parsing'[i].rec] \notin absent'
             /\ \A a, t : a = parsing'[i].rec /\ t = parsing'[i].todo => AnsweredBefore(a, t)'
             /\ parsing'[i - 1].todo # <<>> /\ Raw[Head(parsing'[i - 1].todo)] \notin Builtins
             /\ records'[parsing'[i].rec] = Resolve[records'[parsing'[i - 1].rec]][Head(parsing'[i - 1].todo)]
  <2>1. /\ i \in 2..Len(parsing) /\ i \in 1..m /\ i - 1 \in 1..m /\ i - 1 # m
    BY <1>1, <1>4
  <2>2. /\ parsing[i].rec \in 2..Len(records) /\ records[parsing[i].rec] \notin absent
        /\ AnsweredBefore(parsing[i].rec, parsing[i].todo)
        /\ parsing[i - 1].todo # <<>> /\ Raw[Head(parsing[i - 1].todo)] \notin Builtins
        /\ records[parsing[i].rec] = Resolve[records[parsing[i - 1].rec]][Head(parsing[i - 1].todo)]
    BY <2>1, Zenon DEF ModulesInv, StackInv
  <2>3. /\ parsing'[i].rec = parsing[i].rec /\ parsing'[i - 1] = parsing[i - 1]
        /\ records'[parsing[i].rec] = records[parsing[i].rec]
        /\ records'[parsing[i - 1].rec] = records[parsing[i - 1].rec]
        /\ parsing[i].rec \in 1..Len(records)
    <3>1. parsing[i - 1].rec \in 1..Len(records) /\ parsing[i].rec \in 1..Len(records)
      BY <1>4, <2>1, Zenon DEF ModulesInv, StackInv
    <3> QED  BY <1>1, <1>2, <1>4, <2>1, <3>1
  <2>4. ASSUME NEW a, a = parsing'[i].rec, NEW t, t = parsing'[i].todo
        PROVE  AnsweredBefore(a, t)'
    <3>1. PICK rest : rest = parsing[i].todo
      OBVIOUS
    <3>2. a \in 1..Len(records) /\ AnsweredBefore(a, rest)
      BY <2>2, <2>3, <2>4, <3>1
    <3>3. CASE i # m
      <4>1. \A b \in 1..Len(records) : \A u : AnsweredBefore(b, u) => AnsweredBefore(b, u)'
        BY <1>2, <1>3, GrownKeeps
      <4>2. t = rest
        BY <1>1, <1>4, <2>1, <2>4, <3>1, <3>3
      <4> QED  BY <3>2, <4>1, <4>2, Zenon
    <3>4. CASE i = m
      <4>1. a = c.rec /\ rest = c.todo
        BY <1>4, <2>3, <2>4, <3>1, <3>4, Zenon
      <4>2. rest # <<>> /\ rest \in Seq(Specs) /\ records[a] \in Files /\ ~c.dynamic
        <5>1. records[parsing[i].rec] \in Files /\ (parsing[i].dynamic <=> i = 1)
          BY <1>4, <2>1, Zenon DEF ModulesInv, StackInv
        <5>2. i # 1
          OBVIOUS
        <5>3. c.todo \in Seq(Specs)
          BY <1>4 DEF Calls
        <5> QED  BY <1>4, <3>4, <4>1, <5>1, <5>2, <5>3, Zenon
      <4>3. CASE parsing'[m].todo = <<>> /\ broken' = broken \cup (IF c.dynamic THEN {} ELSE {c.rec})
        <5>1. a \in broken'
          BY <4>1, <4>2, <4>3
        <5>2. AnsweredBefore(a, <<>>)'
          BY <1>3, <3>2, <4>2, <5>1, BrokenAnswered
        <5>3. t = <<>>
          BY <2>4, <3>4, <4>3, Zenon
        <5> QED  BY <5>2, <5>3
      <4>4. CASE /\ parsing'[m].todo = Tail(c.todo)
                 /\ links' = links \cup {[from |-> c.rec, by |-> Head(c.todo), to |-> r]}
        <5>1. \E l \in links' : l.from = a /\ l.by = Head(rest)
          <6>1. PICK l : l = [from |-> c.rec, by |-> Head(c.todo), to |-> r]
            OBVIOUS
          <6>2. l.from = c.rec /\ l.by = Head(c.todo)
            BY <6>1
          <6>3. l \in links'
            BY <4>4, <6>1, Zenon
          <6> QED  BY <4>1, <6>2, <6>3, Zenon
        <5>2. AnsweredBefore(a, Tail(rest))'
          BY <1>3, <3>2, <4>2, <5>1, NextAnswered
        <5>3. t = Tail(rest)
          BY <2>4, <3>4, <4>1, <4>4, Zenon
        <5> QED  BY <5>2, <5>3
      <4> QED  BY <1>1, <4>3, <4>4
    <3> QED  BY <3>3, <3>4
  <2>5. parsing'[i].rec \in 2..Len(records') /\ records'[parsing'[i].rec] \notin absent'
    <3>1. Len(records) \in Nat /\ Len(records') \in Nat /\ Len(records) <= Len(records')
      BY <1>2
    <3>2. 2..Len(records) \subseteq 2..Len(records')
      BY <3>1
    <3>3. absent' = absent
      BY <1>2, Zenon
    <3> QED
      BY <2>2, <2>3, <3>2, <3>3, Zenon
  <2> QED  BY <2>2, <2>3, <2>4, <2>5
<1>7. \A i, j \in 2..m : i < j => parsing'[i].rec < parsing'[j].rec
  <2>1. \A i \in 2..m : i \in 2..Len(parsing) /\ parsing'[i].rec = parsing[i].rec
    BY <1>1, <1>4
  <2>2. \A i, j \in 2..Len(parsing) : i < j => parsing[i].rec < parsing[j].rec
    BY Zenon DEF ModulesInv, StackInv
  <2> QED  BY <2>1, <2>2, Zenon
<1> QED  BY <1>1, <1>5, <1>6, <1>7 DEF StackInv

LEMMA AnswerKeepsLinks ==
  ASSUME ModulesInv, UNCHANGED <<imports, absent>>, NEW outer, NEW r, AnswerStep(outer, r),
         NEW p \in Files \cup Builtins, records' = records \/ records' = Append(records, p),
         NEW s, s = Head(Last(outer).todo), NEW f, f = records[Last(outer).rec],
         ~Refuse(outer) => /\ Whole(r)' /\ r \in Nat
                           /\ Raw[s] \in Builtins => records'[r] = Raw[s]
                           /\ Raw[s] \notin Builtins => records'[r] = Raw[s] \/ records'[r] = Resolve[f][s]
                           /\ Raw[s] \notin Builtins /\ Raw[s] \notin Files => records'[r] = Resolve[f][s]
  PROVE  /\ links' \subseteq [from : Nat, by : Specs, to : Nat]
         /\ \A l \in links' :
              /\ l.from \in 1..Len(records') /\ Whole(l.to)' /\ l.to \notin broken'
              /\ ~Ambiguous(l)' => records'[l.to] = Meant(l)'
<1> DEFINE c == outer[Len(outer)]
<1>1. \/ /\ links' = links
         /\ broken' = broken \cup (IF c.dynamic THEN {} ELSE {c.rec})
      \/ /\ broken' = broken /\ r \notin broken /\ ~Refuse(outer)
         /\ links' = links \cup {[from |-> c.rec, by |-> Head(c.todo), to |-> r]}
  <2>1. CASE Refuse(outer)
    <3>1. Last(outer) = c
      BY LastFrontFacts DEF AnswerStep
    <3> HIDE DEF c
    <3> QED  BY <2>1, <3>1 DEF Refuse
  <2>2. CASE ~Refuse(outer)
    <3>1. Last(outer) = c
      BY LastFrontFacts DEF AnswerStep
    <3> HIDE DEF c
    <3> QED  BY <2>2, <3>1 DEF AnswerStep, Answer
  <2> QED  BY <2>1, <2>2
<1>2. /\ Len(records) \in Nat /\ Len(records') \in Nat
      /\ \A a \in 1..Len(records) : a \in 1..Len(records') /\ records'[a] = records[a]
  BY RecordsGrow
<1>3. \A a \in 1..Len(records) : Whole(a) => Whole(a)'
  BY AnswerGrows
<1>4. /\ Last(outer) = c /\ c \in Calls /\ c.rec \in 1..Len(records)
      /\ c.todo \in Seq(Specs) /\ c.todo # <<>>
      /\ ~c.dynamic => \A a : Whole(a) => a # c.rec
  <2>1. Len(outer) \in Nat \ {0} /\ Last(outer) = c /\ c \in Calls
    BY LastFrontFacts DEF AnswerStep
  <2>2. Len(outer) \in 1..Len(parsing) /\ c = parsing[Len(outer)] /\ c.todo # <<>>
    <3>1. Len(parsing) \in Nat
      BY DEF ModulesInv, ModulesTypeOK
    <3> QED  BY <2>1, <3>1 DEF AnswerStep
  <2> HIDE DEF c
  <2>3. c.rec \in 1..Len(records) /\ (c.dynamic <=> Len(outer) = 1)
    <3>1. \A i \in 1..Len(parsing) : parsing[i].rec \in 1..Len(records) /\ (parsing[i].dynamic <=> i = 1)
      BY Zenon DEF ModulesInv, StackInv
    <3> QED  BY <2>2, <3>1, Zenon
  <2>4. ~c.dynamic => Len(outer) \in 2..Len(parsing)
    <3>1. \A n \in Nat : \A k \in 1..n : k # 1 => k \in 2..n
      OBVIOUS
    <3>2. Len(parsing) \in Nat
      BY DEF ModulesInv, ModulesTypeOK
    <3> QED  BY <2>2, <2>3, <3>1, <3>2, Zenon
  <2>5. ~c.dynamic => \A a : Whole(a) => a # c.rec
    BY <2>2, <2>4, Zenon DEF Whole
  <2> QED  BY <2>1, <2>2, <2>3, <2>5 DEF Calls
<1> HIDE DEF c
<1>5. Head(c.todo) = s /\ s \in Specs /\ f = records[c.rec]
  BY <1>4
<1>6. \A l \in links : l \in [from : Nat, by : Specs, to : Nat]
  BY DEF ModulesInv, ModulesTypeOK
<1>7. ASSUME NEW l \in links
      PROVE  /\ l.from \in 1..Len(records') /\ Whole(l.to)' /\ l.to \notin broken'
             /\ ~Ambiguous(l)' => records'[l.to] = Meant(l)'
  <2>1. /\ l.from \in 1..Len(records) /\ Whole(l.to) /\ l.to \notin broken
        /\ ~Ambiguous(l) => records[l.to] = Meant(l)
    BY Zenon DEF ModulesInv, LinksInv
  <2>2. l.to \in 1..Len(records)
    BY <2>1 DEF Whole
  <2>3. Meant(l)' = Meant(l) /\ (Ambiguous(l)' <=> Ambiguous(l)) /\ records'[l.to] = records[l.to]
    BY <1>2, <2>1, <2>2, Zenon DEF Meant, Ambiguous
  <2>4. l.to \notin broken'
    BY <1>1, <1>4, <2>1
  <2>5. Whole(l.to)'
    <3> DEFINE a == l.to
    <3> HIDE DEF a
    <3>1. Whole(a)'
      BY <1>3, <2>1, <2>2 DEF a
    <3> QED  BY <3>1 DEF a
  <2> QED  BY <1>2, <2>1, <2>3, <2>4, <2>5
<1>8. ASSUME ~Refuse(outer), r \notin broken', NEW l, l = [from |-> c.rec, by |-> s, to |-> r]
      PROVE  /\ l \in [from : Nat, by : Specs, to : Nat]
             /\ l.from \in 1..Len(records') /\ Whole(l.to)' /\ l.to \notin broken'
             /\ ~Ambiguous(l)' => records'[l.to] = Meant(l)'
  <2>1. l.from = c.rec /\ l.by = s /\ l.to = r /\ c.rec \in Nat /\ records'[c.rec] = f
    BY <1>2, <1>4, <1>5, <1>8
  <2>2. l \in [from : Nat, by : Specs, to : Nat]
    BY <1>5, <1>8, <2>1
  <2>3. Whole(l.to)' /\ l.to \notin broken' /\ l.from \in 1..Len(records')
    BY <1>2, <1>4, <1>8, <2>1
  <2>4. ASSUME ~Ambiguous(l)' PROVE records'[l.to] = Meant(l)'
    <3>1. Meant(l)' = IF Raw[s] \in Builtins THEN Raw[s] ELSE Resolve[f][s]
      BY <2>1, Zenon DEF Meant
    <3>2. Raw[s] \in Files => Raw[s] = Meant(l)'
      BY <2>1, <2>4, Zenon DEF Ambiguous
    <3> QED  BY <1>8, <2>1, <3>1, <3>2
  <2> QED  BY <2>2, <2>3, <2>4
<1> QED  BY <1>1, <1>5, <1>6, <1>7, <1>8

\* An import is answered or refused: what was whole stays so, and nothing else becomes whole but
\* a module of a mod.
LEMMA FetchKeeps ==
  ASSUME ModulesInv, UNCHANGED <<imports, absent>>, Fetching,
         NEW r, Refuse(parsing) \/ Answer(parsing, r),
         NEW p \in Files \cup Builtins,
         \/ modcache' = modcache /\ (records' # records => p \in absent)
         \/ /\ p \in Builtins \ Lazy /\ p \notin DOMAIN modcache
            /\ Cached(p, Len(records) + 1) /\ records' # records,
         records' = records \/ records' = Append(records, p),
         NEW s, s = Specifier,
         ~Refuse(parsing) => /\ (r \in 1..Len(records) /\ Whole(r)) \/ (r = Len(records) + 1 /\ p \in Builtins)
                             /\ r \in 1..Len(records')
                             /\ Raw[s] \in Builtins => records'[r] = Raw[s]
                             /\ Raw[s] \notin Builtins => records'[r] = Raw[s] \/ records'[r] = Wanted
                             /\ Raw[s] \notin Builtins /\ Raw[s] \notin Files => records'[r] = Wanted
  PROVE  ModulesInv'
<1>1. /\ records' \in Seq(Files \cup Builtins) /\ Len(records) \in Nat /\ Len(records') \in Nat
      /\ \A a \in 1..Len(records) : a \in 1..Len(records') /\ records'[a] = records[a]
      /\ Len(records') # Len(records) => Len(records') = Len(records) + 1 /\ records'[Len(records) + 1] = p
      /\ records # <<>> => records' # <<>> /\ records'[1] = records[1]
  BY RecordsGrow
<1>2. AnswerStep(parsing, r)
  BY DEF AnswerStep, ModulesInv, ModulesTypeOK, Fetching, Innermost
<1>3. /\ Grows /\ parsing' \in Seq(Calls) /\ Len(parsing') = Len(parsing) /\ Len(parsing) \in Nat
      /\ \A i \in 1..Len(parsing) : parsing'[i].rec = parsing[i].rec
  BY <1>2, AnswerGrows
<1>4. \A a \in 1..Len(records) : Whole(a)' <=> Whole(a)
  <2>1. \A i \in 2..Len(parsing) : parsing'[i].rec = parsing[i].rec
    BY <1>3
  <2>2. \A a \in 1..Len(records) : a \in 2..Len(records') <=> a \in 2..Len(records)
    BY <1>1
  <2> QED  BY <1>1, <1>3, <2>1, <2>2, Zenon DEF Whole
<1>5. records' # records =>
         Len(records) + 1 \in 2..Len(records') /\ records'[Len(records) + 1] = p /\ records # <<>>
  <2>1. Len(records) \in Nat \ {0} /\ records \in Seq(Files \cup Builtins)
    BY Calling DEF Fetching, ModulesInv, ModulesTypeOK
  <2>2. records' = Append(records, p) => Len(records') = Len(records) + 1 /\ records'[Len(records) + 1] = p
    BY <2>1
  <2>3. records # <<>>
    BY <2>1
  <2> QED  BY <2>1, <2>2, <2>3
<1>6. \A a : Whole(a)' =>
         /\ a \in 2..Len(records')
         /\ a \notin 1..Len(records) => a = Len(records) + 1 /\ p \notin absent
  <2>1. \A a \in 2..Len(records') : a \notin 1..Len(records) => a = Len(records) + 1 /\ records'[a] = p
    BY <1>1
  <2> QED  BY <2>1, Zenon DEF Whole
<1>7. PICK n : n = Len(records) + 1
  OBVIOUS
<1>8. ASSUME p \in Builtins, records' # records
      PROVE  Whole(n)' /\ records'[n] = p
  <2>1. n \in 2..Len(records') /\ records'[n] = p
    BY <1>5, <1>7, <1>8
  <2>2. p \notin absent' /\ absent' = absent
    BY <1>3, <1>8, ModulesAssumption DEF ModulesInv, ModulesTypeOK, Grows
  <2>3. \A i \in 2..Len(parsing') : parsing'[i].rec # n
    <3>1. \A i \in 2..Len(parsing) : parsing'[i].rec = parsing[i].rec /\ parsing[i].rec \in 1..Len(records)
      BY <1>3 DEF ModulesInv, StackInv
    <3> QED  BY <1>1, <1>3, <1>7, <3>1
  <2> QED  BY <2>1, <2>2, <2>3, Zenon DEF Whole
<1>9. CacheInv'
  <2>1. /\ \A q \in DOMAIN modcache : Whole(modcache[q]) /\ records[modcache[q]] = q /\ q \notin Lazy
        /\ \A a \in 2..Len(records) : Whole(a) => records[a] \in DOMAIN modcache
        /\ \A a \in 1..Len(records) : records[a] \in Builtins =>
              records[a] \in DOMAIN modcache /\ modcache[records[a]] = a
    BY DEF ModulesInv, CacheInv
  <2>2. \A q \in DOMAIN modcache : modcache[q] \in 1..Len(records) /\ modcache[q] \in 2..Len(records)
    BY <1>1, <2>1 DEF Whole
  <2>3. CASE modcache' = modcache /\ (records' # records => p \in absent)
    <3>1. \A q \in DOMAIN modcache' : \A a : a = modcache'[q] => Whole(a)' /\ records'[a] = q /\ q \notin Lazy
      <4> TAKE q \in DOMAIN modcache'
      <4>1. q \in DOMAIN modcache /\ modcache'[q] = modcache[q]
        BY <2>3
      <4> TAKE a
      <4> HAVE a = modcache'[q]
      <4>2. a \in 1..Len(records) /\ Whole(a) /\ records[a] = q /\ q \notin Lazy
        BY <2>1, <2>2, <4>1, Zenon
      <4> QED  BY <1>1, <1>4, <4>2, Zenon
    <3>2. \A a \in 2..Len(records') : Whole(a)' => records'[a] \in DOMAIN modcache'
      <4> TAKE a \in 2..Len(records')
      <4> HAVE Whole(a)'
      <4>1. a \in 1..Len(records)
        <5>1. CASE records' = records
          BY <1>1, <5>1
        <5>2. CASE records' # records
          BY <1>6, <2>3, <5>2
        <5> QED  BY <5>1, <5>2
      <4>2. a \in 2..Len(records)
        BY <4>1
      <4> QED  BY <1>1, <1>4, <2>1, <2>3, <4>1, <4>2, Zenon
    <3>3. \A a \in 1..Len(records') : records'[a] \in Builtins =>
             records'[a] \in DOMAIN modcache' /\ modcache'[records'[a]] = a
      <4> TAKE a \in 1..Len(records')
      <4> HAVE records'[a] \in Builtins
      <4>1. a \in 1..Len(records)
        <5>1. CASE records' = records
          BY <5>1
        <5>2. CASE records' # records
          <6>1. p \notin Builtins
            BY <2>3, <5>2, ModulesAssumption DEF ModulesInv, ModulesTypeOK
          <6>2. a \notin 1..Len(records) => a = Len(records) + 1
            BY <1>1
          <6> QED  BY <1>5, <5>2, <6>1, <6>2
        <5> QED  BY <5>1, <5>2
      <4> QED  BY <1>1, <2>1, <2>3, <4>1, Zenon
    <3> QED  BY <3>1, <3>2, <3>3 DEF CacheInv
  <2>4. CASE p \in Builtins \ Lazy /\ p \notin DOMAIN modcache /\ Cached(p, Len(records) + 1) /\ records' # records
    <3>1. /\ DOMAIN modcache' = DOMAIN modcache \cup {p} /\ modcache'[p] = n
          /\ \A q \in DOMAIN modcache : modcache'[q] = modcache[q]
      BY <1>7, <2>4 DEF Cached
    <3>2. Whole(n)' /\ records'[n] = p /\ p \notin Lazy
      BY <1>8, <2>4
    <3>3. \A a \in 1..Len(records') : a \in 1..Len(records) \/ a = n
      BY <1>1, <1>7
    <3>4. \A q \in DOMAIN modcache' : \A a : a = modcache'[q] => Whole(a)' /\ records'[a] = q /\ q \notin Lazy
      <4> TAKE q \in DOMAIN modcache'
      <4> TAKE a
      <4> HAVE a = modcache'[q]
      <4>1. CASE q \in DOMAIN modcache
        <5>1. a \in 1..Len(records) /\ Whole(a) /\ records[a] = q /\ q \notin Lazy
          BY <2>1, <2>2, <3>1, <4>1, Zenon
        <5> QED  BY <1>1, <1>4, <5>1, Zenon
      <4>2. CASE q = p
        BY <3>1, <3>2, <4>2, Zenon
      <4> QED  BY <3>1, <4>1, <4>2
    <3>5. \A a \in 2..Len(records') : Whole(a)' => records'[a] \in DOMAIN modcache'
      <4> TAKE a \in 2..Len(records')
      <4> HAVE Whole(a)'
      <4>1. (a \in 1..Len(records) /\ a \in 2..Len(records)) \/ a = n
        BY <1>1, <1>7
      <4> QED  BY <1>1, <1>4, <2>1, <3>1, <3>2, <4>1, Zenon
    <3>6. \A a \in 1..Len(records') : records'[a] \in Builtins =>
             records'[a] \in DOMAIN modcache' /\ modcache'[records'[a]] = a
      <4> TAKE a \in 1..Len(records')
      <4> HAVE records'[a] \in Builtins
      <4> QED  BY <1>1, <2>1, <3>1, <3>2, <3>3, ZenonT(40)
    <3> QED  BY <3>4, <3>5, <3>6 DEF CacheInv
  <2> QED  BY <2>3, <2>4
<1>10. \A a \in 2..Len(records') : Whole(a)' /\ records'[a] \in Files =>
          a \in 2..Len(records) /\ a \in 1..Len(records) /\ Whole(a) /\ records'[a] = records[a]
  <2> TAKE a \in 2..Len(records')
  <2> HAVE Whole(a)' /\ records'[a] \in Files
  <2>1. a \in 1..Len(records)
    <3>1. CASE a = Len(records) + 1 /\ a \notin 1..Len(records)
      <4>1. Len(records') # Len(records) /\ records'[a] = p
        BY <1>1, <3>1
      <4>2. p \notin absent /\ p \in Files
        BY <1>6, <3>1, <4>1
      <4>3. records' # records
        BY <4>1
      <4> QED  BY <4>2, <4>3, ModulesAssumption
    <3> QED  BY <1>6, <3>1
  <2>2. a \in 2..Len(records)
    BY <2>1
  <2> QED  BY <1>1, <1>4, <2>1, <2>2, Zenon
<1>11. LinksInv' /\ links' \subseteq [from : Nat, by : Specs, to : Nat]
  <2>1. PICK f : f = records[Last(parsing).rec]
    OBVIOUS
  <2>2. s = Head(Last(parsing).todo) /\ Wanted = Resolve[f][s]
    BY <2>1 DEF Specifier, Wanted, Importer, Innermost
  <2>3. ~Refuse(parsing) => Whole(r)'
    <3>1. r = Len(records) + 1 /\ p \in Builtins /\ r \in 1..Len(records') => r = n /\ records' # records
      BY <1>1, <1>7
    <3> QED  BY <1>4, <1>8, <3>1
  <2>4. ~Refuse(parsing) =>
           /\ Whole(r)' /\ r \in Nat
           /\ Raw[s] \in Builtins => records'[r] = Raw[s]
           /\ Raw[s] \notin Builtins => records'[r] = Raw[s] \/ records'[r] = Resolve[f][s]
           /\ Raw[s] \notin Builtins /\ Raw[s] \notin Files => records'[r] = Resolve[f][s]
    <3>1. r \in 1..Len(records') => r \in Nat
      BY <1>1
    <3> QED  BY <2>2, <2>3, <3>1, Zenon
  <2>5. /\ links' \subseteq [from : Nat, by : Specs, to : Nat]
        /\ \A l \in links' :
             /\ l.from \in 1..Len(records') /\ Whole(l.to)' /\ l.to \notin broken'
             /\ ~Ambiguous(l)' => records'[l.to] = Meant(l)'
    BY <1>2, <2>1, <2>2, <2>4, AnswerKeepsLinks
  <2>6. \A a \in 2..Len(records') : Whole(a)' /\ records'[a] \in Files => AnsweredBefore(a, <<>>)'
    <3>1. \A a \in 2..Len(records) : Whole(a) /\ records[a] \in Files => AnsweredBefore(a, <<>>)
      BY DEF ModulesInv, LinksInv
    <3>2. \A a \in 1..Len(records) : \A rest : AnsweredBefore(a, rest) => AnsweredBefore(a, rest)'
      BY <1>1, <1>3, GrownKeeps
    <3> QED  BY <1>10, <3>1, <3>2, Zenon
  <2> QED  BY <2>5, <2>6 DEF LinksInv
<1>12. TwinsInv'
  <2>1. /\ \A a, b : Outlived(a, b) => Outlived(a, b)'
        /\ \A a, b \in 1..Len(records) : Whole(b) /\ Twins(a, b)' => Twins(a, b)
    BY <1>1, <1>3, GrownKeeps
  <2>2. \A i \in 2..Len(parsing) :
           /\ parsing'[i].rec = parsing[i].rec /\ parsing[i].rec \in 1..Len(records)
           /\ records'[parsing[i].rec] = records[parsing[i].rec] /\ records[parsing[i].rec] \in Files
    BY <1>1, <1>3 DEF ModulesInv, StackInv
  <2>3. ASSUME NEW i \in 2..Len(parsing'), NEW b \in 2..Len(records'), NEW a, a = parsing'[i].rec,
               Whole(b)', records'[b] = records'[a]
        PROVE  /\ b > a /\ a \in 1..Len(records)
               /\ b \in 1..Len(records) /\ b \in 2..Len(records) /\ Whole(b)
               /\ i \in 2..Len(parsing) /\ a = parsing[i].rec
    <3>1. i \in 2..Len(parsing) /\ a = parsing[i].rec /\ a \in 1..Len(records)
          /\ records'[a] = records[a] /\ records[a] \in Files
      BY <1>3, <2>2, <2>3
    <3>2. b \in 2..Len(records) /\ b \in 1..Len(records) /\ Whole(b) /\ records[b] = records[a]
      BY <1>10, <2>3, <3>1
    <3>3. b > a
      BY <3>1, <3>2, Zenon DEF ModulesInv, TwinsInv
    <3> QED  BY <3>1, <3>2, <3>3, Zenon
  <2>4. ASSUME NEW i \in 2..Len(parsing'), i = Len(parsing'), NEW a, a = parsing'[i].rec,
               NEW b \in 2..Len(records'), Twins(a, b)'
        PROVE  Outlived(a, b)'
    <3>1. Whole(b)' /\ records'[b] = records'[a]
      BY <2>4 DEF Twins
    <3>2. /\ a \in 1..Len(records) /\ b \in 1..Len(records) /\ b \in 2..Len(records) /\ Whole(b)
          /\ i \in 2..Len(parsing) /\ a = parsing[i].rec
      BY <2>3, <2>4, <3>1, Zenon
    <3>3. i = Len(parsing) /\ Twins(a, b)
      BY <1>3, <2>1, <2>4, <3>2
    <3>4. Outlived(a, b)
      BY <3>2, <3>3, Zenon DEF ModulesInv, TwinsInv
    <3> QED  BY <2>1, <3>4
  <2>5. ASSUME NEW a \in 2..Len(records'), NEW b \in 2..Len(records'), Whole(a)', Twins(a, b)', a < b
        PROVE  Outlived(a, b)'
    <3>1. Whole(b)' /\ records'[a] = records'[b]
      BY <2>5 DEF Twins
    <3>2. CASE records'[a] \in Files
      <4>1. /\ a \in 2..Len(records) /\ a \in 1..Len(records) /\ Whole(a)
            /\ b \in 2..Len(records) /\ b \in 1..Len(records) /\ Whole(b)
        BY <1>10, <2>5, <3>1, <3>2
      <4>2. Twins(a, b)
        BY <2>1, <2>5, <4>1
      <4>3. Outlived(a, b)
        BY <2>5, <4>1, <4>2, Zenon DEF ModulesInv, TwinsInv
      <4> QED  BY <2>1, <4>3
    <3>3. CASE records'[a] \in Builtins
      <4>1. a \in 1..Len(records') /\ b \in 1..Len(records') /\ ~(a = b)
        BY <2>5
      <4>2. modcache'[records'[a]] = a /\ modcache'[records'[b]] = b
        BY <1>9, <3>1, <3>3, <4>1, Zenon DEF CacheInv
      <4> QED  BY <3>1, <4>1, <4>2, Zenon
    <3>4. records'[a] \in Files \cup Builtins
      <4>1. a \in 1..Len(records')
        OBVIOUS
      <4> QED  BY <1>1, <4>1, ElementOfSeq
    <3> QED  BY <3>2, <3>3, <3>4
  <2>6. \A i \in 2..Len(parsing') : \A b \in 2..Len(records') : \A a : a = parsing'[i].rec =>
           (Whole(b)' /\ records'[b] = records'[a] => b > a)
    BY <2>3, Zenon
  <2> QED  BY <2>4, <2>5, <2>6, Zenon DEF TwinsInv
<1>13. StackInv'
  BY <1>2, AnswerKeepsStack
<1>14. ModulesTypeOK'
  <2>1. records' # <<>> => records'[1] = Root
    <3>1. records # <<>>
      BY <1>5, Calling DEF Fetching, ModulesInv, ModulesTypeOK
    <3> QED  BY <1>1, <3>1 DEF ModulesInv, ModulesTypeOK
  <2> QED  BY <1>1, <1>3, <1>11, <2>1 DEF ModulesInv, ModulesTypeOK
<1> QED  BY <1>9, <1>11, <1>12, <1>13, <1>14 DEF ModulesInv

LEMMA NothingChanges ==
  ASSUME ModulesInv, UNCHANGED <<imports, absent, modcache, records, parsing, broken, links>>
  PROVE  ModulesInv'
<1>1. ModulesTypeOK'
  BY DEF ModulesInv, ModulesTypeOK
<1>2. CacheInv'
  BY DEF ModulesInv, CacheInv, Whole
<1>3. StackInv'
  <2>1. \A a, t : AnsweredBefore(a, t)' <=> AnsweredBefore(a, t)
    BY DEF AnsweredBefore
  <2> QED  BY <2>1 DEF ModulesInv, StackInv
<1>4. LinksInv'
  BY DEF ModulesInv, LinksInv, AnsweredBefore, Whole, Ambiguous, Meant
<1>5. TwinsInv'
  BY DEF ModulesInv, TwinsInv, Twins, Outlived, Whole
<1> QED  BY <1>1, <1>2, <1>3, <1>4, <1>5 DEF ModulesInv

\* The innermost call becomes that for a file which is not in the cache.
LEMMA FetchFileKeeps ==
  ASSUME ModulesInv, FetchFile
  PROVE  ModulesInv'
<1>1. CASE Len(parsing) = MaxStack
  <2>1. UNCHANGED <<imports, absent, modcache, records, parsing, broken, links>>
    BY <1>1 DEF FetchFile
  <2> QED  BY <2>1, NothingChanges
<1>2. CASE Len(parsing) # MaxStack
  <2>0. PICK p, n, c : /\ p = Wanted /\ n = Len(records) + 1
                       /\ c = [rec |-> n, todo |-> imports[p], dynamic |-> FALSE]
    OBVIOUS
  <2>1. /\ UNCHANGED <<imports, absent, modcache, broken, links>>
        /\ records' = Append(records, p) /\ parsing' = Append(parsing, c)
        /\ p \notin DOMAIN modcache /\ p \notin absent
        /\ Raw[Specifier] \notin Builtins /\ parsing # <<>> /\ Innermost.todo # <<>>
    BY <1>2, <2>0, Zenon DEF FetchFile, ByPath, Fetching
  <2>2. /\ Len(parsing) \in Nat \ {0} /\ Len(records) \in Nat \ {0}
        /\ Innermost = parsing[Len(parsing)] /\ Innermost \in Calls
        /\ Innermost.rec \in 1..Len(records) /\ Importer \in Files
    BY <2>1, Calling
  <2>3. p \in Files /\ p \notin Builtins
    <3>1. Specifier \in Specs
      BY <2>1, <2>2 DEF Calls, Specifier
    <3> QED  BY <2>0, <2>2, <3>1, ModulesAssumption DEF Wanted
  <2>4. /\ records' \in Seq(Files \cup Builtins) /\ Len(records') = n
        /\ n \in Nat /\ n > Len(records) /\ n \in 2..n
        /\ records'[n] = p /\ records' # <<>>
        /\ \A a \in 1..Len(records) : a \in 1..n /\ records'[a] = records[a]
        /\ \A a \in 1..n : a \in 1..Len(records) \/ a = n
        /\ \A a \in 2..n : (a \in 1..Len(records) /\ a \in 2..Len(records)) \/ a = n
    <3>1. records \in Seq(Files \cup Builtins)
      BY DEF ModulesInv, ModulesTypeOK
    <3>2. /\ records' \in Seq(Files \cup Builtins) /\ Len(records') = n /\ records'[n] = p
          /\ \A a \in 1..Len(records) : records'[a] = records[a]
      BY <2>0, <2>1, <2>3, <3>1, AppendProperties
    <3>3. \A k \in Nat \ {0} : /\ k + 1 \in Nat /\ k + 1 > k /\ k + 1 \in 2..(k + 1) /\ k + 1 # 0
                               /\ \A a \in 1..k : a \in 1..(k + 1)
                               /\ \A a \in 1..(k + 1) : a \in 1..k \/ a = k + 1
                               /\ \A a \in 2..(k + 1) : (a \in 1..k /\ a \in 2..k) \/ a = k + 1
      OBVIOUS
    <3>4. records' # <<>>
      BY <2>0, <2>2, <3>2, <3>3
    <3> QED  BY <2>0, <2>2, <3>2, <3>3, <3>4
  <2>5. /\ c \in Calls /\ c.rec = n /\ c.todo = imports[p] /\ ~c.dynamic /\ imports[p] \in Seq(Specs)
    <3>1. imports[p] \in Seq(Specs)
      BY <2>3 DEF ModulesInv, ModulesTypeOK
    <3> QED  BY <2>0, <2>4, <3>1 DEF Calls
  <2>6. PICK m : m = Len(parsing)
    OBVIOUS
  <2>7. /\ m \in Nat \ {0} /\ parsing' \in Seq(Calls) /\ Len(parsing') = m + 1
        /\ parsing'[m + 1] = c /\ \A i \in 1..m : parsing'[i] = parsing[i]
        /\ m + 1 # 1 /\ m + 1 - 1 = m /\ m \in 1..m
        /\ \A i \in 1..(m + 1) : i \in 1..m \/ i = m + 1
        /\ \A i \in 2..(m + 1) : (i \in 2..m /\ i \in 1..m /\ i - 1 \in 1..m) \/ i = m + 1
    <3>1. parsing \in Seq(Calls)
      BY DEF ModulesInv, ModulesTypeOK
    <3>2. /\ parsing' \in Seq(Calls) /\ Len(parsing') = m + 1
          /\ parsing'[m + 1] = c /\ \A i \in 1..m : parsing'[i] = parsing[i]
      BY <2>1, <2>5, <2>6, <3>1, AppendProperties
    <3> QED  BY <2>2, <2>6, <3>2
  <2>8. Grows
    BY <2>1, <2>2, <2>4 DEF Grows
  <2>9. \A a \in 1..Len(records) : Whole(a)' <=> Whole(a)
    <3>1. \A a \in 1..Len(records) : Whole(a) => Whole(a)'
      <4>1. \A i \in 2..Len(parsing') : \/ i <= Len(parsing) /\ parsing'[i].rec = parsing[i].rec
                                        \/ parsing'[i].rec > Len(records)
        BY <2>4, <2>5, <2>6, <2>7
      <4>2. Len(records') \in Nat /\ Len(parsing') \in Nat
        BY <2>4, <2>7
      <4> QED  BY <2>8, <4>1, <4>2, WholeStays
    <3>2. \A a \in 1..Len(records) : Whole(a)' => Whole(a)
      <4>1. \A i \in 2..Len(parsing) : i \in 2..Len(parsing') /\ parsing'[i] = parsing[i]
        BY <2>6, <2>7
      <4>2. \A a \in 1..Len(records) : a \in 2..Len(records') => a \in 2..Len(records)
        BY <2>2
      <4> QED  BY <2>1, <2>4, <4>1, <4>2, Zenon DEF Whole
    <3> QED  BY <3>1, <3>2
  <2>10. \A a : Whole(a)' => a \in 1..Len(records) /\ a \in 2..Len(records) /\ Whole(a)
    <3>1. ~Whole(n)'
      <4>1. m + 1 \in 2..Len(parsing')
        BY <2>7
      <4> QED  BY <2>5, <2>7, <4>1, Zenon DEF Whole
    <3>2. \A a : Whole(a)' => a \in 2..n
      BY <2>4, Zenon DEF Whole
    <3> QED  BY <2>4, <2>9, <3>1, <3>2, Zenon
  <2>11. CacheInv'
    <3>1. /\ \A q \in DOMAIN modcache : Whole(modcache[q]) /\ records[modcache[q]] = q /\ q \notin Lazy
          /\ \A a \in 2..Len(records) : Whole(a) => records[a] \in DOMAIN modcache
          /\ \A a \in 1..Len(records) : records[a] \in Builtins =>
                records[a] \in DOMAIN modcache /\ modcache[records[a]] = a
      BY DEF ModulesInv, CacheInv
    <3>2. \A q \in DOMAIN modcache : modcache[q] \in 1..Len(records)
      BY <2>2, <3>1 DEF Whole
    <3>3. \A q \in DOMAIN modcache' : \A a : a = modcache'[q] => Whole(a)' /\ records'[a] = q /\ q \notin Lazy
      <4> TAKE q \in DOMAIN modcache'
      <4> TAKE a
      <4> HAVE a = modcache'[q]
      <4>1. a \in 1..Len(records) /\ Whole(a) /\ records[a] = q /\ q \notin Lazy
        BY <2>1, <3>1, <3>2, Zenon
      <4> QED  BY <2>4, <2>9, <4>1, Zenon
    <3>4. \A a \in 2..Len(records') : Whole(a)' => records'[a] \in DOMAIN modcache'
      BY <2>1, <2>4, <2>10, <3>1, Zenon
    <3>5. \A a \in 1..Len(records') : records'[a] \in Builtins =>
             records'[a] \in DOMAIN modcache' /\ modcache'[records'[a]] = a
      <4> TAKE a \in 1..Len(records')
      <4> HAVE records'[a] \in Builtins
      <4>1. a \in 1..Len(records)
        BY <2>3, <2>4, Zenon
      <4> QED  BY <2>1, <2>4, <3>1, <4>1, Zenon
    <3> QED  BY <3>3, <3>4, <3>5 DEF CacheInv
  <2>12. \A a \in 1..Len(records) : \A rest : AnsweredBefore(a, rest) => AnsweredBefore(a, rest)'
    BY <2>4, <2>8, GrownKeeps
  <2>13. StackInv'
    <3>1. \A i \in 1..m :
             /\ parsing[i].rec \in 1..Len(records) /\ records[parsing[i].rec] \in Files
             /\ parsing[i].dynamic <=> i = 1
      BY <2>6, Zenon DEF ModulesInv, StackInv
    <3>2. \A i \in 1..(m + 1) :
             /\ parsing'[i].rec \in 1..n /\ records'[parsing'[i].rec] \in Files
             /\ parsing'[i].dynamic <=> i = 1
      <4> TAKE i \in 1..(m + 1)
      <4>1. CASE i \in 1..m
        <5>1. parsing'[i] = parsing[i] /\ parsing[i].rec \in 1..Len(records)
              /\ records[parsing[i].rec] \in Files /\ (parsing[i].dynamic <=> i = 1)
          BY <2>7, <3>1, <4>1, Zenon
        <5> QED  BY <2>4, <5>1, Zenon
      <4>2. CASE i = m + 1
        <5>1. n \in 1..n
          BY <2>4
        <5> QED  BY <2>3, <2>4, <2>5, <2>7, <4>2, <5>1, Zenon
      <4> QED  BY <2>7, <4>1, <4>2
    <3>3. ASSUME NEW i \in 2..(m + 1), NEW a, a = parsing'[i].rec, NEW t, t = parsing'[i].todo
          PROVE  /\ a \in 2..n /\ records'[a] \notin absent /\ AnsweredBefore(a, t)'
                 /\ parsing'[i - 1].todo # <<>> /\ Raw[Head(parsing'[i - 1].todo)] \notin Builtins
                 /\ records'[a] = Resolve[records'[parsing'[i - 1].rec]][Head(parsing'[i - 1].todo)]
      <4>1. CASE i \in 2..m /\ i \in 1..m /\ i - 1 \in 1..m
        <5>1. parsing'[i] = parsing[i] /\ parsing'[i - 1] = parsing[i - 1]
          BY <2>7, <4>1
        <5>2. /\ parsing[i].rec \in 2..Len(records) /\ records[parsing[i].rec] \notin absent
              /\ AnsweredBefore(parsing[i].rec, parsing[i].todo)
              /\ parsing[i - 1].todo # <<>> /\ Raw[Head(parsing[i - 1].todo)] \notin Builtins
              /\ records[parsing[i].rec] = Resolve[records[parsing[i - 1].rec]][Head(parsing[i - 1].todo)]
          BY <2>6, <4>1, Zenon DEF ModulesInv, StackInv
        <5>3. a \in 1..Len(records) /\ a \in 2..n /\ AnsweredBefore(a, t) /\ parsing[i - 1].rec \in 1..Len(records)
          BY <2>4, <3>1, <3>3, <4>1, <5>1, <5>2, SMTT(30)
        <5>4. AnsweredBefore(a, t)'
          BY <2>12, <5>3, Zenon
        <5>5. records'[a] = records[parsing[i].rec] /\ records'[parsing[i - 1].rec] = records[parsing[i - 1].rec]
          BY <2>4, <3>3, <5>1, <5>3, Zenon
        <5> QED  BY <5>1, <5>2, <5>3, <5>4, <5>5, Zenon
      <4>2. CASE i = m + 1
        <5>1. a = n /\ t = imports[p] /\ parsing'[i - 1] = parsing[m]
          <6>1. parsing'[i] = c /\ i - 1 = m
            BY <2>7, <4>2
          <6> QED  BY <2>5, <2>7, <3>3, <6>1, Zenon
        <5>2. AnsweredBefore(n, imports[p])'
          <6>1. imports'[records'[n]] = imports[p]
            BY <2>1, <2>4
          <6>2. Len(imports[p]) \in Nat
            BY <2>5
          <6>3. \A k \in Nat : k <= k /\ \A j \in 1..k : k - k + j = j
            OBVIOUS
          <6>4. \A k \in Nat : \A j \in 1..(k - k) : FALSE
            OBVIOUS
          <6>5. ASSUME NEW u, u = imports[p] PROVE AnsweredBefore(n, u)'
            <7>1. /\ Len(u) <= Len(u) /\ \A j \in 1..Len(u) : u[j] = u[Len(u) - Len(u) + j]
                  /\ \A j \in 1..(Len(u) - Len(u)) : FALSE
              BY <6>2, <6>3, <6>4, <6>5
            <7> QED  BY <6>1, <6>5, <7>1, Zenon DEF AnsweredBefore
          <6> QED  BY <2>1, <6>5
        <5>3. /\ parsing[m].todo # <<>> /\ Raw[Head(parsing[m].todo)] \notin Builtins
              /\ p = Resolve[records[parsing[m].rec]][Head(parsing[m].todo)]
          BY <2>0, <2>1, <2>2, <2>6, Zenon DEF Wanted, Importer, Specifier
        <5>4. records'[parsing[m].rec] = records[parsing[m].rec]
          BY <2>4, <2>7, <3>1
        <5> QED  BY <2>1, <2>4, <5>1, <5>2, <5>3, <5>4
      <4> QED  BY <2>7, <4>1, <4>2
    <3>4. \A i, j \in 2..(m + 1) : i < j => parsing'[i].rec < parsing'[j].rec
      <4> TAKE i, j \in 2..(m + 1)
      <4> HAVE i < j
      <4>1. i \in 2..m /\ i \in 1..m
        BY <2>7
      <4>2. CASE j \in 2..m /\ j \in 1..m
        BY <2>6, <2>7, <4>1, <4>2, Zenon DEF ModulesInv, StackInv
      <4>3. CASE j = m + 1
        <5>0. \A k \in 1..Len(records) : k < n
          BY <2>0, <2>2
        <5>1. parsing'[i].rec \in 1..Len(records)
          BY <2>7, <3>1, <4>1, Zenon
        <5>2. parsing'[j].rec = n
          BY <2>5, <2>7, <4>3, Zenon
        <5> QED  BY <5>0, <5>1, <5>2, Zenon
      <4> QED  BY <2>7, <4>2, <4>3
    <3>5. \A i \in 1..Len(parsing') :
             /\ parsing'[i].rec \in 1..Len(records') /\ records'[parsing'[i].rec] \in Files
             /\ parsing'[i].dynamic <=> i = 1
      BY <2>4, <2>7, <3>2
    <3>6. \A i \in 2..Len(parsing') :
             /\ parsing'[i].rec \in 2..Len(records') /\ records'[parsing'[i].rec] \notin absent'
             /\ \A a, t : a = parsing'[i].rec /\ t = parsing'[i].todo => AnsweredBefore(a, t)'
             /\ parsing'[i - 1].todo # <<>> /\ Raw[Head(parsing'[i - 1].todo)] \notin Builtins
             /\ records'[parsing'[i].rec] = Resolve[records'[parsing'[i - 1].rec]][Head(parsing'[i - 1].todo)]
      <4> TAKE i \in 2..Len(parsing')
      <4>1. i \in 2..(m + 1)
        BY <2>7
      <4> QED  BY <2>1, <2>4, <3>3, <4>1, Zenon
    <3>7. \A i, j \in 2..Len(parsing') : i < j => parsing'[i].rec < parsing'[j].rec
      BY <2>7, <3>4
    <3> QED  BY <3>5, <3>6, <3>7 DEF StackInv
  <2>14. LinksInv'
    <3>1. \A l \in links' :
             /\ l.from \in 1..Len(records') /\ Whole(l.to)' /\ l.to \notin broken'
             /\ ~Ambiguous(l)' => records'[l.to] = Meant(l)'
      <4> TAKE l \in links'
      <4>1. /\ l.from \in 1..Len(records) /\ Whole(l.to) /\ l.to \notin broken
            /\ ~Ambiguous(l) => records[l.to] = Meant(l)
        BY <2>1, Zenon DEF ModulesInv, LinksInv
      <4>2. l.to \in 1..Len(records)
        BY <2>2, <4>1 DEF Whole
      <4>3. Meant(l)' = Meant(l) /\ (Ambiguous(l)' <=> Ambiguous(l)) /\ records'[l.to] = records[l.to]
        BY <2>4, <4>1, <4>2, Zenon DEF Meant, Ambiguous
      <4>4. Whole(l.to)'
        BY <2>9, <4>1, <4>2, Zenon
      <4> QED  BY <2>1, <2>4, <4>1, <4>3, <4>4, Zenon
    <3>2. \A a \in 2..Len(records') : Whole(a)' /\ records'[a] \in Files => AnsweredBefore(a, <<>>)'
      <4>1. \A a \in 2..Len(records) : Whole(a) /\ records[a] \in Files => AnsweredBefore(a, <<>>)
        BY DEF ModulesInv, LinksInv
      <4> QED  BY <2>4, <2>10, <2>12, <4>1, Zenon
    <3> QED  BY <3>1, <3>2 DEF LinksInv
  <2>15. TwinsInv'
    <3>1. /\ \A a, b : Outlived(a, b) => Outlived(a, b)'
          /\ \A a, b \in 1..Len(records) : Whole(b) /\ Twins(a, b)' => Twins(a, b)
      BY <2>4, <2>8, GrownKeeps
    <3>2. \A b : Whole(b)' => records'[b] # p
      <4> TAKE b
      <4> HAVE Whole(b)'
      <4>1. b \in 1..Len(records) /\ b \in 2..Len(records) /\ Whole(b)
        BY <2>10, Zenon
      <4>2. records[b] \in DOMAIN modcache
        BY <4>1, Zenon DEF ModulesInv, CacheInv
      <4> QED  BY <2>1, <2>4, <4>1, <4>2, Zenon
    <3>3. ASSUME NEW i \in 2..Len(parsing'), NEW b \in 2..Len(records'), NEW a, a = parsing'[i].rec,
                 Whole(b)', records'[b] = records'[a]
          PROVE  b > a /\ i # m + 1
      <4>1. i # m + 1
        BY <2>4, <2>5, <2>7, <3>2, <3>3, Zenon
      <4>2. i \in 2..Len(parsing) /\ i \in 1..m /\ a = parsing[i].rec
        BY <2>6, <2>7, <3>3, <4>1
      <4>3. a \in 1..Len(records) /\ records'[a] = records[a]
        BY <2>4, <4>2 DEF ModulesInv, StackInv
      <4>4. b \in 2..Len(records) /\ b \in 1..Len(records) /\ Whole(b) /\ records[b] = records[a]
        BY <2>4, <2>10, <3>3, <4>3, Zenon
      <4> QED  BY <4>1, <4>2, <4>4, Zenon DEF ModulesInv, TwinsInv
    <3>4. ASSUME NEW a \in 2..Len(records'), NEW b \in 2..Len(records'), Whole(a)', Twins(a, b)', a < b
          PROVE  Outlived(a, b)'
      <4>1. Whole(b)'
        BY <3>4 DEF Twins
      <4>2. /\ a \in 2..Len(records) /\ a \in 1..Len(records) /\ Whole(a)
            /\ b \in 2..Len(records) /\ b \in 1..Len(records) /\ Whole(b)
        BY <2>10, <3>4, <4>1, Zenon
      <4>3. Twins(a, b)
        BY <3>1, <3>4, <4>2, Zenon
      <4>4. Outlived(a, b)
        BY <3>4, <4>2, <4>3, Zenon DEF ModulesInv, TwinsInv
      <4> QED  BY <3>1, <4>4
    <3>5. \A i \in 2..Len(parsing') : \A b \in 2..Len(records') : \A a : a = parsing'[i].rec =>
             (Whole(b)' /\ records'[b] = records'[a] => b > a)
      BY <3>3, Zenon
    <3>6. \A i \in 2..Len(parsing') : i = Len(parsing') =>
             \A b \in 2..Len(records') : \A a : a = parsing'[i].rec => (Twins(a, b)' => Outlived(a, b)')
      BY <2>7, <3>3, Zenon DEF Twins
    <3> QED  BY <3>4, <3>5, <3>6, Zenon DEF TwinsInv
  <2>16. ModulesTypeOK'
    <3>1. records'[1] = Root
      <4>1. records # <<>> /\ 1 \in 1..Len(records)
        BY <2>2
      <4> QED  BY <2>4, <4>1 DEF ModulesInv, ModulesTypeOK
    <3> QED  BY <2>1, <2>4, <2>7, <3>1 DEF ModulesInv, ModulesTypeOK
  <2> QED  BY <2>11, <2>13, <2>14, <2>15, <2>16 DEF ModulesInv
<1> QED  BY <1>1, <1>2

\* The innermost call returns to the one around it.
LEMMA ParsedKeeps ==
  ASSUME ModulesInv, Parsed
  PROVE  ModulesInv'
<1>1. PICK m, p, f, c, outer :
         m = Len(parsing) /\ p = Innermost.rec /\ f = Importer /\ c = Innermost /\ outer = Front(parsing)
  OBVIOUS
<1>2. /\ UNCHANGED <<imports, absent, records>> /\ Answer(outer, p)
      /\ parsing # <<>> /\ c.todo = <<>> /\ ~c.dynamic /\ Cached(f, p)
  BY <1>1, Zenon DEF Parsed, Returning
<1>3. /\ m \in Nat \ {0} /\ Len(records) \in Nat \ {0}
      /\ c = parsing[m] /\ c.rec = p /\ p \in 1..Len(records) /\ f = records[p] /\ f \in Files /\ m # 1
  BY <1>1, <1>2, Calling DEF Importer
<1>4. /\ m \in 2..m /\ m \in 1..m /\ m - 1 \in 1..m /\ m - 1 \in Nat \ {0} /\ m - 1 < m
      /\ \A i \in 1..(m - 1) : i \in 1..m /\ i < m
      /\ \A i \in 2..(m - 1) : i \in 2..m /\ i < m
      /\ \A i \in 2..m : i \in 2..(m - 1) \/ i = m
  BY <1>3
<1>5. PICK o : o = parsing[m - 1]
  OBVIOUS
<1>6. /\ p \in 2..Len(records) /\ f \notin absent /\ AnsweredBefore(p, <<>>)
      /\ o.todo # <<>> /\ Raw[Head(o.todo)] \notin Builtins
      /\ f = Resolve[records[o.rec]][Head(o.todo)]
  BY <1>1, <1>2, <1>3, <1>4, <1>5, ZenonT(40) DEF ModulesInv, StackInv
<1>7. /\ outer \in Seq(Calls) /\ outer # <<>> /\ Len(outer) = m - 1
      /\ \A i \in 1..(m - 1) : outer[i] = parsing[i]
      /\ Last(outer) = o
  <2>1. parsing \in Seq(Calls)
    BY DEF ModulesInv, ModulesTypeOK
  <2>2. outer \in Seq(Calls) /\ Len(outer) = m - 1 /\ \A i \in 1..(m - 1) : outer[i] = parsing[i]
    BY <1>1, <1>2, <2>1, LastFrontFacts
  <2>3. outer # <<>>
    BY <1>4, <2>2
  <2>4. Last(outer) = outer[m - 1]
    BY <2>2, <2>3, LastFrontFacts
  <2> QED  BY <1>4, <1>5, <2>2, <2>3, <2>4
<1>8. AnswerStep(outer, p)
  BY <1>1, <1>2, <1>3, <1>4, <1>6, <1>7 DEF AnswerStep
<1>9. /\ Grows /\ parsing' \in Seq(Calls) /\ Len(parsing') = m - 1
      /\ \A i \in 1..(m - 1) : parsing'[i].rec = parsing[i].rec
      /\ \A a \in 1..Len(records) : Whole(a) => Whole(a)'
  <2>1. records' = records \/ records' = Append(records, f)
    BY <1>2
  <2> QED  BY <1>2, <1>3, <1>7, <1>8, <2>1, AnswerGrows
<1>10. \A i \in 2..m : /\ parsing[i].rec \in 1..Len(records) /\ records[parsing[i].rec] \in Files
                       /\ parsing[i].rec \in 2..Len(records)
                       /\ i # m => parsing[i].rec < p
  <2> TAKE i \in 2..m
  <2>1. i \in 1..m /\ m \in 2..m /\ (i # m => i < m)
    BY <1>3, <1>4
  <2>2. parsing[i].rec \in 1..Len(records) /\ records[parsing[i].rec] \in Files
    BY <1>1, <2>1, Zenon DEF ModulesInv, StackInv
  <2>3. parsing[i].rec \in 2..Len(records)
    BY <1>1, Zenon DEF ModulesInv, StackInv
  <2>4. i # m => parsing[i].rec < parsing[m].rec
    BY <1>1, <2>1, Zenon DEF ModulesInv, StackInv
  <2> QED  BY <1>3, <2>2, <2>3, <2>4
<1>11. Whole(p)' /\ ~Whole(p)
  <2>1. p \in 2..Len(records') /\ records'[p] \notin absent'
    BY <1>2, <1>3, <1>6
  <2>2. \A i \in 2..Len(parsing') : parsing'[i].rec # p
    <3>1. \A i \in 2..(m - 1) : parsing'[i].rec = parsing[i].rec /\ parsing[i].rec < p
      BY <1>4, <1>9, <1>10
    <3>2. \A i \in 2..(m - 1) : parsing[i].rec \in Nat /\ p \in Nat
      BY <1>3, <1>4, <1>10
    <3> QED  BY <1>9, <3>1, <3>2
  <2>3. parsing[m].rec = p /\ m \in 2..Len(parsing)
    BY <1>1, <1>3, <1>4
  <2> QED  BY <2>1, <2>2, <2>3, Zenon DEF Whole
<1>12. \A a : Whole(a)' => a \in 2..Len(records) /\ a \in 1..Len(records) /\ (a # p => Whole(a))
  <2>1. \A a : Whole(a)' => a \in 2..Len(records) /\ a \in 1..Len(records) /\ records[a] \notin absent
    BY <1>2 DEF Whole
  <2>2. ASSUME NEW a, Whole(a)', a # p PROVE \A i \in 2..m : parsing[i].rec # a
    <3>1. \A i \in 2..Len(parsing') : parsing'[i].rec # a
      BY <2>2, Zenon DEF Whole
    <3>2. \A i \in 2..(m - 1) : parsing[i].rec # a
      BY <1>4, <1>9, <3>1
    <3> QED  BY <1>3, <1>4, <2>2, <3>2, Zenon
  <2> QED  BY <1>1, <2>1, <2>2, Zenon DEF Whole
<1>13. /\ DOMAIN modcache' = DOMAIN modcache \cup {f} /\ modcache'[f] = p
       /\ \A q \in DOMAIN modcache : q # f => modcache'[q] = modcache[q]
  BY <1>2 DEF Cached
<1>14. CacheInv'
  <2>1. /\ \A q \in DOMAIN modcache : Whole(modcache[q]) /\ records[modcache[q]] = q /\ q \notin Lazy
        /\ \A a \in 2..Len(records) : Whole(a) => records[a] \in DOMAIN modcache
        /\ \A a \in 1..Len(records) : records[a] \in Builtins =>
              records[a] \in DOMAIN modcache /\ modcache[records[a]] = a
    BY DEF ModulesInv, CacheInv
  <2>2. \A q \in DOMAIN modcache : modcache[q] \in 1..Len(records)
    BY <1>3, <2>1 DEF Whole
  <2>3. f \notin Lazy /\ f \notin Builtins
    BY <1>3, ModulesAssumption
  <2>4. \A q \in DOMAIN modcache' : \A a : a = modcache'[q] => Whole(a)' /\ records'[a] = q /\ q \notin Lazy
    <3> TAKE q \in DOMAIN modcache'
    <3> TAKE a
    <3> HAVE a = modcache'[q]
    <3>1. CASE q = f
      BY <1>2, <1>3, <1>11, <1>13, <2>3, <3>1, Zenon
    <3>2. CASE q # f
      <4>1. q \in DOMAIN modcache /\ a = modcache[q]
        BY <1>13, <3>2
      <4> QED  BY <1>2, <1>9, <2>1, <2>2, <4>1, Zenon
    <3> QED  BY <3>1, <3>2
  <2>5. \A a \in 2..Len(records') : Whole(a)' => records'[a] \in DOMAIN modcache'
    <3> TAKE a \in 2..Len(records')
    <3> HAVE Whole(a)'
    <3>1. CASE a = p
      BY <1>2, <1>3, <1>13, <3>1
    <3>2. CASE a # p
      <4>1. a \in 2..Len(records) /\ Whole(a)
        BY <1>12, <3>2, Zenon
      <4> QED  BY <1>2, <1>13, <2>1, <4>1
    <3> QED  BY <3>1, <3>2
  <2>6. \A a \in 1..Len(records') : records'[a] \in Builtins =>
           records'[a] \in DOMAIN modcache' /\ modcache'[records'[a]] = a
    <3> TAKE a \in 1..Len(records')
    <3> HAVE records'[a] \in Builtins
    <3>1. records'[a] = records[a] /\ a \in 1..Len(records) /\ records[a] # f
      BY <1>2, <2>3
    <3> QED  BY <1>13, <2>1, <3>1
  <2> QED  BY <2>4, <2>5, <2>6 DEF CacheInv
<1>15. PICK s, g : s = Head(Last(outer).todo) /\ g = records[Last(outer).rec]
  OBVIOUS
<1>16. LinksInv' /\ links' \subseteq [from : Nat, by : Specs, to : Nat]
  <2>1. /\ Whole(p)' /\ p \in Nat /\ Raw[s] \notin Builtins /\ records'[p] = Resolve[g][s]
    BY <1>2, <1>3, <1>6, <1>7, <1>11, <1>15
  <2>2. /\ links' \subseteq [from : Nat, by : Specs, to : Nat]
        /\ \A l \in links' :
             /\ l.from \in 1..Len(records') /\ Whole(l.to)' /\ l.to \notin broken'
             /\ ~Ambiguous(l)' => records'[l.to] = Meant(l)'
    <3>1. records' = records \/ records' = Append(records, f)
      BY <1>2
    <3> QED  BY <1>2, <1>3, <1>8, <1>15, <2>1, <3>1, AnswerKeepsLinks
  <2>3. \A a \in 2..Len(records') : Whole(a)' /\ records'[a] \in Files => AnsweredBefore(a, <<>>)'
    <3>1. \A a \in 2..Len(records) : Whole(a) /\ records[a] \in Files => AnsweredBefore(a, <<>>)
      BY DEF ModulesInv, LinksInv
    <3>2. \A a \in 1..Len(records) : \A rest : AnsweredBefore(a, rest) => AnsweredBefore(a, rest)'
      BY <1>2, <1>3, <1>9, GrownKeeps
    <3> QED  BY <1>2, <1>3, <1>6, <1>12, <3>1, <3>2, Zenon
  <2> QED  BY <2>2, <2>3 DEF LinksInv
<1>17. StackInv'
  <2>1. records' = records \/ records' = Append(records, f)
    BY <1>2
  <2> QED  BY <1>2, <1>3, <1>8, <2>1, AnswerKeepsStack
<1>18. ModulesTypeOK'
  BY <1>2, <1>9, <1>16 DEF ModulesInv, ModulesTypeOK
\* What TwinsInv says of the calls and of the new whole record.
<1>19. ASSUME NEW i \in 2..(m - 1), NEW a, a = parsing[i].rec, NEW b, Whole(b)', records[b] = records[a]
       PROVE  b > a
  <2>1. CASE b = p
    BY <1>3, <1>4, <1>10, <1>19, <2>1
  <2>2. CASE b # p
    <3>1. b \in 2..Len(records) /\ Whole(b) /\ i \in 2..Len(parsing)
      BY <1>1, <1>4, <1>12, <1>19, <2>2, Zenon
    <3> QED  BY <1>19, <3>1, Zenon DEF ModulesInv, TwinsInv
  <2> QED  BY <2>1, <2>2
<1>20. \A b : Whole(b) /\ records[b] = f => b > p
  <2>1. \A b : Whole(b) => b \in 2..Len(records)
    BY DEF Whole
  <2> QED  BY <1>1, <1>3, <1>4, <2>1, Zenon DEF ModulesInv, TwinsInv
\* The import of the module that goes on, and how an older record of it got the same.
<1>21. ASSUME m - 1 \in 2..(m - 1), NEW a, a = o.rec, NEW b, Twins(a, b)'
       PROVE  Outlived(a, b)'
  <2>1. /\ Whole(b)' /\ b \notin broken' /\ a \notin broken' /\ records[a] = records[b]
        /\ a \in 1..Len(records) /\ records[a] \in Files /\ a < p /\ a \in Nat
    BY <1>2, <1>3, <1>4, <1>5, <1>10, <1>21 DEF Twins
  <2>2. b > a /\ b \in 2..Len(records) /\ b \in 1..Len(records) /\ b \in Nat
    BY <1>3, <1>5, <1>12, <1>19, <1>21, <2>1
  <2>3. PICK k : k = [from |-> a, by |-> Head(o.todo), to |-> p]
    OBVIOUS
  <2>4. k \in links' /\ p \notin broken /\ links' = links \cup {k}
    <3>1. ~o.dynamic
      <4>1. m - 1 \in 1..Len(parsing) /\ m - 1 # 1
        BY <1>1, <1>4, <1>21
      <4> QED  BY <1>5, <4>1, Zenon DEF ModulesInv, StackInv
    <3>2. ~Refuse(outer)
      BY <1>7, <1>21, <2>1, <3>1 DEF Refuse
    <3>3. p \notin broken /\ links' = links \cup {k}
      BY <1>2, <1>7, <1>21, <2>3, <3>2 DEF Answer
    <3> QED  BY <3>3
  <2>5. AnsweredBefore(b, <<>>)'
    BY <1>2, <1>16, <2>1, <2>2, Zenon DEF LinksInv
  <2>6. PICK n \in 1..Len(imports[records[b]]) : Head(o.todo) = imports[records[b]][n]
    <3>1. AnsweredBefore(a, o.todo)
      BY <1>1, <1>4, <1>5, <1>21, Zenon DEF ModulesInv, StackInv
    <3>2. PICK all, rest : all = imports[records[a]] /\ rest = o.todo
      OBVIOUS
    <3>3. Len(rest) <= Len(all) /\ \A i \in 1..Len(rest) : rest[i] = all[Len(all) - Len(rest) + i]
      BY <3>1, <3>2 DEF AnsweredBefore
    <3>4. all \in Seq(Specs) /\ rest \in Seq(Specs) /\ rest # <<>> /\ Head(o.todo) = rest[1]
      <4>1. o \in Calls
        <5>1. parsing \in Seq(Calls)
          BY DEF ModulesInv, ModulesTypeOK
        <5> QED  BY <1>1, <1>4, <1>5, <5>1, ElementOfSeq
      <4>2. o.todo \in Seq(Specs)
        BY <4>1 DEF Calls
      <4> QED  BY <1>6, <2>1, <3>2, <4>2 DEF ModulesInv, ModulesTypeOK
    <3>5. Len(all) \in Nat /\ Len(rest) \in Nat \ {0}
      BY <3>4, EmptySeq
    <3>6. \A x, y \in Nat : y # 0 /\ y <= x => 1 \in 1..y /\ x - y + 1 \in 1..x
      OBVIOUS
    <3>7. Head(o.todo) = all[Len(all) - Len(rest) + 1] /\ Len(all) - Len(rest) + 1 \in 1..Len(all)
      BY <3>3, <3>4, <3>5, <3>6
    <3> QED  BY <2>1, <3>2, <3>7
  <2>7. PICK l \in links' : l.from = b /\ l.by = Head(o.todo)
    <3>1. Len(<<>>) = 0 /\ Len(imports[records[b]]) \in Nat
      BY <2>1 DEF ModulesInv, ModulesTypeOK
    <3>2. n \in 1..(Len(imports[records[b]]) - Len(<<>>))
      BY <3>1
    <3> QED  BY <1>2, <2>1, <2>5, <2>6, <3>2, Zenon DEF AnsweredBefore
  <2>8. k.from = a /\ k.by = Head(o.todo) /\ k.to = p
    BY <2>3
  <2>9. l \in links
    <3>1. l # k
      BY <2>1, <2>2, <2>7, <2>8
    <3> QED  BY <2>4, <3>1
  <2>10. Whole(l.to)
    BY <2>9 DEF ModulesInv, LinksInv
  <2>11. p # l.to /\ (f = records[l.to] => l.to > p)
    BY <1>11, <1>20, <2>10, Zenon
  <2>12. p > a
    BY <1>3, <2>1
  <2>13. /\ k \in links' /\ l \in links' /\ k.from = a /\ l.from = b /\ k.by = l.by
         /\ k.to > a /\ k.to # l.to
    BY <2>4, <2>7, <2>8, <2>11, <2>12
  <2>14. records'[k.to] = records'[l.to] => l.to > k.to
    BY <1>2, <1>3, <2>8, <2>11
  <2> QED  BY <2>13, <2>14, Zenon DEF Outlived
<1>22. TwinsInv'
  <2>1. /\ \A a, b : Outlived(a, b) => Outlived(a, b)'
        /\ \A a, b \in 1..Len(records) : Whole(b) /\ Twins(a, b)' => Twins(a, b)
    BY <1>2, <1>3, <1>9, GrownKeeps
  <2>2. \A i \in 2..Len(parsing') : \A b \in 2..Len(records') : \A a : a = parsing'[i].rec =>
           (Whole(b)' /\ records'[b] = records'[a] => b > a)
    <3> TAKE i \in 2..Len(parsing')
    <3>1. i \in 2..(m - 1) /\ parsing'[i].rec = parsing[i].rec
      BY <1>4, <1>9
    <3> QED  BY <1>2, <1>19, <3>1, Zenon
  <2>3. \A i \in 2..Len(parsing') : i = Len(parsing') =>
           \A b \in 2..Len(records') : \A a : a = parsing'[i].rec => (Twins(a, b)' => Outlived(a, b)')
    <3> TAKE i \in 2..Len(parsing')
    <3> HAVE i = Len(parsing')
    <3>1. i = m - 1 /\ m - 1 \in 2..(m - 1) /\ parsing'[i].rec = o.rec
      BY <1>4, <1>5, <1>9
    <3> QED  BY <1>21, <3>1, Zenon
  <2>4. ASSUME NEW a \in 2..Len(records'), NEW b \in 2..Len(records'), Whole(a)', Twins(a, b)', a < b
        PROVE  Outlived(a, b)'
    <3>1. /\ Whole(b)' /\ records[a] = records[b] /\ a # b
          /\ a \in 1..Len(records) /\ b \in 1..Len(records) /\ a \in 2..Len(records) /\ b \in 2..Len(records)
      BY <1>2, <1>12, <2>4 DEF Twins
    <3>2. CASE a # p /\ b # p
      <4>1. Whole(a) /\ Whole(b)
        BY <1>12, <2>4, <3>1, <3>2, Zenon
      <4>2. Outlived(a, b)
        BY <2>1, <2>4, <3>1, <4>1, Zenon DEF ModulesInv, TwinsInv
      <4> QED  BY <2>1, <4>2
    <3>3. CASE a = p
      <4>1. Whole(b)
        BY <1>12, <3>1, <3>3, Zenon
      <4>2. Twins(p, b)
        BY <2>1, <2>4, <3>1, <3>3, <4>1, Zenon
      <4>3. Outlived(p, b)
        BY <1>1, <1>3, <1>4, <3>1, <4>2, Zenon DEF ModulesInv, TwinsInv
      <4> QED  BY <2>1, <3>3, <4>3
    <3>4. CASE b = p
      <4>1. Whole(a) /\ records[a] = f
        BY <1>3, <1>12, <2>4, <3>1, <3>4, Zenon
      <4>2. a > p
        BY <1>20, <4>1, Zenon
      <4> QED  BY <1>3, <2>4, <3>1, <3>4, <4>2
    <3> QED  BY <3>2, <3>3, <3>4
  <2> QED  BY <2>2, <2>3, <2>4 DEF TwinsInv
<1> QED  BY <1>14, <1>16, <1>17, <1>18, <1>22 DEF ModulesInv

\* A call that nothing is around begins or ends.
LEMMA OutermostKeeps ==
  ASSUME ModulesInv, UNCHANGED <<imports, absent, modcache, records, broken, links>>,
         Len(parsing) \in {0, 1}, Len(parsing') \in {0, 1}, parsing' \in Seq(Calls),
         \A i \in 1..Len(parsing') :
            parsing'[i].rec \in 1..Len(records) /\ records[parsing'[i].rec] \in Files /\ parsing'[i].dynamic = TRUE
  PROVE  ModulesInv'
<1>1. /\ \A i : i \notin 2..Len(parsing) /\ i \notin 2..Len(parsing')
      /\ \A i \in 1..Len(parsing') : i = 1
  <2>1. \A n \in {0, 1} : (\A i : i \notin 2..n) /\ \A i \in 1..n : i = 1
    OBVIOUS
  <2> QED  BY <2>1, Zenon
<1>2. \A a : Whole(a)' <=> Whole(a)
  BY <1>1 DEF Whole
<1>3. ModulesTypeOK'
  BY DEF ModulesInv, ModulesTypeOK
<1>4. CacheInv'
  BY <1>2 DEF ModulesInv, CacheInv
<1>5. StackInv'
  BY <1>1 DEF StackInv
<1>6. LinksInv'
  BY <1>2 DEF ModulesInv, LinksInv, AnsweredBefore, Ambiguous, Meant
<1>7. TwinsInv'
  BY <1>1, <1>2 DEF ModulesInv, TwinsInv, Twins, Outlived
<1> QED  BY <1>3, <1>4, <1>5, <1>6, <1>7 DEF ModulesInv

LEMMA LoadRootKeeps ==
  ASSUME ModulesInv, LoadRoot
  PROVE  ModulesInv'
<1>1. /\ UNCHANGED <<imports, absent, modcache, broken, links>> /\ records = <<>> /\ Len(records) = 0
      /\ records' = <<Root>> /\ parsing' = <<[rec |-> 1, todo |-> imports[Root], dynamic |-> TRUE]>>
  BY DEF LoadRoot
<1>2. Root \in Files /\ Root \notin Builtins /\ imports[Root] \in Seq(Specs)
  BY ModulesAssumption DEF ModulesInv, ModulesTypeOK
<1>3. PICK c : c = [rec |-> 1, todo |-> imports[Root], dynamic |-> TRUE]
  OBVIOUS
<1>4. c \in Calls /\ c.rec = 1 /\ c.dynamic = TRUE
  BY <1>2, <1>3 DEF Calls
<1>5. /\ parsing' = <<c>> /\ parsing' \in Seq(Calls) /\ Len(parsing') = 1 /\ parsing'[1] = c
      /\ records' \in Seq(Files \cup Builtins) /\ Len(records') = 1 /\ records'[1] = Root
  BY <1>1, <1>2, <1>3, <1>4
<1>6. (\A a : ~Whole(a)) /\ \A a : ~Whole(a)'
  BY <1>1, <1>5 DEF Whole
<1>7. DOMAIN modcache = {} /\ links = {}
  <2>1. \A l \in links : l.from \in 1..0
    BY <1>1 DEF ModulesInv, LinksInv
  <2>2. \A q \in DOMAIN modcache : Whole(modcache[q])
    BY DEF ModulesInv, CacheInv
  <2>3. \A i : i \notin 1..0
    OBVIOUS
  <2> QED  BY <1>6, <2>1, <2>2, <2>3, Zenon
<1>8. \A i \in 1..1 : i = 1
  OBVIOUS
<1>9. \A i : i \notin 2..1
  OBVIOUS
<1>10. ModulesTypeOK'
  BY <1>1, <1>5 DEF ModulesInv, ModulesTypeOK
<1>11. CacheInv'
  BY <1>1, <1>2, <1>5, <1>6, <1>7, <1>8, <1>9, Zenon DEF CacheInv
<1>12. StackInv'
  BY <1>2, <1>4, <1>5, <1>8, <1>9 DEF StackInv
<1>13. LinksInv'
  BY <1>1, <1>5, <1>7, <1>9, Zenon DEF LinksInv
<1>14. TwinsInv'
  BY <1>5, <1>9, Zenon DEF TwinsInv
<1> QED  BY <1>10, <1>11, <1>12, <1>13, <1>14 DEF ModulesInv

LEMMA ModulesInvHolds == ModulesSpec => []ModulesInv
<1>1. ModulesInit => ModulesInv
  <2> SUFFICES ASSUME ModulesInit PROVE ModulesInv
    OBVIOUS
  <2>1. Len(records) = 0 /\ Len(parsing) = 0 /\ DOMAIN modcache = {} /\ links = {}
    BY DEF ModulesInit
  <2>2. \A i : i \notin 1..0 /\ i \notin 2..0
    OBVIOUS
  <2>3. ModulesTypeOK
    BY ModulesAssumption DEF ModulesInit, ModulesTypeOK
  <2>4. CacheInv /\ StackInv /\ LinksInv /\ TwinsInv
    BY <2>1, <2>2, Zenon DEF CacheInv, StackInv, LinksInv, TwinsInv
  <2> QED  BY <2>3, <2>4 DEF ModulesInv
<1>2. ModulesInv /\ [ModulesNext]_modulesVars => ModulesInv'
  <2> SUFFICES ASSUME ModulesInv, [ModulesNext]_modulesVars PROVE ModulesInv'
    OBVIOUS
  <2>0. /\ \A q \in DOMAIN modcache : /\ modcache[q] \in 1..Len(records) /\ Whole(modcache[q])
                                      /\ records[modcache[q]] = q /\ q \in Files \cup Builtins
        /\ Len(records) \in Nat
    <3>1. Len(records) \in Nat /\ \A a \in 1..Len(records) : records[a] \in Files \cup Builtins
      BY ElementOfSeq DEF ModulesInv, ModulesTypeOK
    <3>2. \A q \in DOMAIN modcache : Whole(modcache[q]) /\ records[modcache[q]] = q
      BY DEF ModulesInv, CacheInv
    <3>3. \A q \in DOMAIN modcache : modcache[q] \in 1..Len(records)
      BY <3>1, <3>2 DEF Whole
    <3> QED  BY <3>1, <3>2, <3>3, Zenon
  <2>A. ASSUME Fetching PROVE Wanted \in Files /\ Specifier \in Specs /\ Root \in Files
    <3>1. Innermost \in Calls /\ Innermost.todo # <<>> /\ Importer \in Files
      BY <2>A, Calling DEF Fetching
    <3>2. Specifier \in Specs
      BY <3>1 DEF Specifier, Calls
    <3> QED  BY <3>1, <3>2, ModulesAssumption DEF Wanted
  <2>1. CASE FetchByName
    <3>1. PICK s, r, p : s = Specifier /\ r = modcache[Raw[s]] /\ p = Root
      OBVIOUS
    <3>2. /\ Fetching /\ Raw[s] \in DOMAIN modcache /\ Answer(parsing, r)
          /\ UNCHANGED <<imports, absent, modcache, records>>
      BY <2>1, <3>1 DEF FetchByName, FromCache
    <3>3. p \in Files \cup Builtins
      BY <2>A, <3>1, <3>2
    <3>4. /\ r \in 1..Len(records) /\ Whole(r) /\ r \in 1..Len(records')
          /\ records'[r] = Raw[s] /\ Raw[s] \in Files \cup Builtins
      BY <2>0, <3>1, <3>2
    <3> QED  BY <3>1, <3>2, <3>3, <3>4, FetchKeeps
  <2>2. CASE FetchBuiltin
    <3>1. PICK s, r, p : s = Specifier /\ r = Len(records) + 1 /\ p = Raw[s]
      OBVIOUS
    <3>2. /\ Fetching /\ p \notin DOMAIN modcache /\ p \in Builtins \ Lazy /\ Answer(parsing, r)
          /\ UNCHANGED <<imports, absent>> /\ records' = Append(records, p) /\ Cached(p, Len(records) + 1)
      BY <2>2, <3>1 DEF FetchBuiltin
    <3>3. /\ records' # records /\ r \in 1..Len(records') /\ records'[r] = p
      <4>1. records \in Seq(Files \cup Builtins) /\ p \in Files \cup Builtins
        BY <3>2 DEF ModulesInv, ModulesTypeOK
      <4>2. Len(records') = Len(records) + 1 /\ records'[Len(records) + 1] = p
        BY <3>2, <4>1, AppendProperties
      <4> QED  BY <2>0, <3>1, <4>2
    <3> QED  BY <3>1, <3>2, <3>3, FetchKeeps
  <2>3. CASE FetchUnloaded
    <3>1. PICK s, r, p : s = Specifier /\ r = 0 /\ p = Root
      OBVIOUS
    <3>2. /\ Fetching /\ Refuse(parsing)
          /\ UNCHANGED <<imports, absent, modcache, records>>
      BY <2>3 DEF FetchUnloaded
    <3>3. p \in Files \cup Builtins
      BY <2>A, <3>1, <3>2
    <3> QED  BY <3>1, <3>2, <3>3, FetchKeeps
  <2>4. CASE FetchByPath
    <3>1. PICK s, r, p : s = Specifier /\ r = modcache[Wanted] /\ p = Root
      OBVIOUS
    <3>2. /\ Fetching /\ Wanted \in DOMAIN modcache /\ Answer(parsing, r) /\ Raw[s] \notin Builtins
          /\ UNCHANGED <<imports, absent, modcache, records>>
      BY <2>4, <3>1 DEF FetchByPath, ByPath, FromCache
    <3>3. p \in Files \cup Builtins
      BY <2>A, <3>1, <3>2
    <3>4. /\ r \in 1..Len(records) /\ Whole(r) /\ r \in 1..Len(records') /\ records'[r] = Wanted
      BY <2>0, <3>1, <3>2
    <3> QED  BY <3>1, <3>2, <3>3, <3>4, FetchKeeps
  <2>5. CASE FetchAbsent
    <3>1. PICK s, r, p : s = Specifier /\ r = 0 /\ p = Wanted
      OBVIOUS
    <3>2. /\ Fetching /\ Refuse(parsing) /\ p \in absent
          /\ UNCHANGED <<imports, absent, modcache>> /\ records' = Append(records, p)
      BY <2>5, <3>1 DEF FetchAbsent, ByPath
    <3>3. p \in Files \cup Builtins
      BY <2>A, <3>1, <3>2
    <3> QED  BY <3>1, <3>2, <3>3, FetchKeeps
  <2>6. CASE FetchFile
    BY <2>6, FetchFileKeeps
  <2>7. CASE Parsed
    BY <2>7, ParsedKeeps
  <2>8. CASE LoadRoot
    BY <2>8, LoadRootKeeps
  <2>9. ASSUME NEW r \in 1..Len(records), NEW s \in Specs, Import(r, s)
        PROVE  ModulesInv'
    <3>1. PICK c : c = [rec |-> r, todo |-> <<s>>, dynamic |-> TRUE]
      OBVIOUS
    <3>2. /\ UNCHANGED <<imports, absent, modcache, records, broken, links>>
          /\ parsing = <<>> /\ parsing' = <<c>> /\ records[r] \in Files
      BY <2>9, <3>1 DEF Import
    <3>3. c \in Calls /\ c.rec = r /\ c.dynamic = TRUE
      <4>1. <<s>> \in Seq(Specs) /\ r \in Nat
        BY <2>0
      <4> QED  BY <3>1, <4>1 DEF Calls
    <3>4. /\ Len(parsing) = 0 /\ parsing' \in Seq(Calls) /\ Len(parsing') = 1
          /\ \A i \in 1..Len(parsing') : parsing'[i] = c
      BY <3>2, <3>3
    <3> QED  BY <3>2, <3>3, <3>4, OutermostKeeps
  <2>10. CASE ImportDone
    <3>1. /\ UNCHANGED <<imports, absent, modcache, records, broken, links>>
          /\ parsing # <<>> /\ Innermost.dynamic /\ parsing' = Front(parsing)
      BY <2>10 DEF ImportDone, Returning
    <3>2. Len(parsing) = 1 /\ parsing \in Seq(Calls)
      BY <3>1, Calling DEF ModulesInv, ModulesTypeOK
    <3>3. parsing' \in Seq(Calls) /\ Len(parsing') = 0
      BY <3>1, <3>2, LastFrontFacts
    <3> QED  BY <3>1, <3>2, <3>3, OutermostKeeps
  <2>11. CASE UNCHANGED modulesVars
    BY <2>11, NothingChanges DEF modulesVars
  <2> QED  BY <2>1, <2>2, <2>3, <2>4, <2>5, <2>6, <2>7, <2>8, <2>9, <2>10, <2>11
              DEF ModulesNext, FetchModule
<1> QED  BY <1>1, <1>2, PTL DEF ModulesSpec

\* Of the records of a file without errors, the newest two could only differ in an import that was
\* answered with records of one more file, which are newer still.
LEMMA FilesAreShared ==
  ASSUME ModulesInv, ~Diverted, NEW k \in links, NEW l \in links, records[k.to] = records[l.to]
  PROVE  k.to = l.to
<1>1. /\ Len(records) \in Nat
      /\ \A j \in links : /\ j.to \in 2..Len(records) /\ j.to \in 1..Len(records)
                          /\ Whole(j.to) /\ j.to \notin broken /\ j.from \in 1..Len(records)
  <2>1. Len(records) \in Nat
    BY DEF ModulesInv, ModulesTypeOK
  <2>2. \A j \in links : Whole(j.to) /\ j.to \notin broken /\ j.from \in 1..Len(records)
    BY DEF ModulesInv, LinksInv
  <2> QED  BY <2>1, <2>2 DEF Whole
<1> DEFINE Distant(d) == \E i, j \in links :
              records[i.to] = records[j.to] /\ i.to < j.to /\ d = Len(records) - i.to
           T == {d \in Nat : Distant(d)}
<1>2. \A i, j \in links : ~(records[i.to] = records[j.to] /\ i.to < j.to)
  <2> SUFFICES ASSUME NEW i0 \in links, NEW j0 \in links, records[i0.to] = records[j0.to], i0.to < j0.to
               PROVE  FALSE
    OBVIOUS
  <2>1. T \subseteq Nat /\ T # {}
    <3>1. Len(records) - i0.to \in Nat /\ Distant(Len(records) - i0.to)
      BY <1>1
    <3> HIDE DEF Distant
    <3> QED  BY <3>1
  <2> HIDE DEF Distant
  <2>2. PICK d \in T : \A e \in T : d <= e
    BY <2>1, LeastNumber
  <2>3. PICK i \in links, j \in links : records[i.to] = records[j.to] /\ i.to < j.to /\ d = Len(records) - i.to
    BY <2>2 DEF Distant
  <2>4. PICK a, b : a = i.to /\ b = j.to
    OBVIOUS
  <2>5. /\ a \in 2..Len(records) /\ b \in 2..Len(records) /\ Whole(a) /\ Whole(b) /\ a < b
        /\ a \notin broken /\ b \notin broken /\ records[a] = records[b]
    BY <1>1, <2>3, <2>4
  <2>6. Outlived(a, b)
    BY <2>5, Zenon DEF Twins, ModulesInv, TwinsInv
  <2>7. PICK x \in links, y \in links :
           /\ x.from = a /\ y.from = b /\ x.by = y.by /\ x.to > a /\ x.to # y.to
           /\ records[x.to] = records[y.to] => y.to > x.to
    BY <2>6 DEF Outlived
  <2>8. records[x.to] = records[y.to]
    BY <2>5, <2>7 DEF Diverted
  <2>9. Len(records) - x.to \in Nat /\ Distant(Len(records) - x.to)
    <3>1. x.to < y.to
      BY <1>1, <2>7, <2>8
    <3> QED  BY <1>1, <2>8, <3>1, SMTT(20) DEF Distant
  <2>10. Len(records) - x.to \in T
    BY <2>9
  <2>11. d <= Len(records) - x.to
    BY <2>2, <2>10
  <2> QED  BY <1>1, <2>3, <2>4, <2>5, <2>7, <2>11
<1> QED  BY <1>1, <1>2

\* All who import a module get the same record of it, in which its code runs once, whatever
\* imports what, in whichever order and with whatever missing: found in the cache, made for a mod,
\* or parsed inside the import (FetchModule and the parse around it in script_loader.cpp).
THEOREM ModulesAreShared == ModulesSpec => []SharedModules
<1>1. ModulesInv => SharedModules
  <2> SUFFICES ASSUME ModulesInv PROVE SharedModules
    OBVIOUS
  <2>1. \A l \in links : ~Ambiguous(l) => records[l.to] = Meant(l)
    BY DEF ModulesInv, LinksInv
  <2>2. \A k, l \in links : ~Ambiguous(k) /\ ~Ambiguous(l) /\ Meant(k) = Meant(l) => k.to = l.to \/ Diverted
    BY <2>1, FilesAreShared
  <2> QED  BY <2>1, <2>2 DEF SharedModules
<1> QED  BY <1>1, ModulesInvHolds, PTL

===============================================================================
