---------------------------- MODULE SettingsProofs ----------------------------
(***************************************************************************)
(* Settings of input devices and of outputs.  Whatever input and seat      *)
(* commands are given, whatever is reloaded and plugged: a device does     *)
(* what it was last told to and is on the seats that attach it, and no     *)
(* keymap in use fails to compile.  Whatever output commands are given,    *)
(* whatever managers and backends ask: an output is configured as it was   *)
(* last told, and the search for settings finds what there is.             *)
(*                                                                         *)
(* A store of an input configuration touches that of one identifier and    *)
(* of what lies below it; StoreUses says of a device which of the three it *)
(* may use, and what it finds there afterwards.  Of outputs, Said is what  *)
(* the list says under a name, and FindIs reads a configuration off the    *)
(* three that count.  Ends says what the search comes to, once some        *)
(* outputs are settled.                                                    *)
(***************************************************************************)
EXTENDS InputConfig, OutputConfig, FiniteSetTheorems, FunctionTheorems, SequenceTheorems,
        WellFoundedInduction, NaturalsInduction, TLAPS

------------------------------------------------------------------------------
(***************************************************************************)
(* Walks along a sequence.                                                 *)
(***************************************************************************)
LEMMA LeastExists ==
  ASSUME NEW I \in SUBSET Nat, I # {}
  PROVE  \E x \in I : \A y \in I : x <= y
<1>1. \E x \in I : \A y \in I : <<y, x>> \notin OpToRel(<, Nat)
  BY NatLessThanWellFounded, WFMin
<1>2. PICK x \in I : \A y \in I : <<y, x>> \notin OpToRel(<, Nat)
  BY <1>1
<1>3. \A y \in I : ~(y < x)
  BY <1>2 DEF OpToRel
<1> QED
  BY <1>3

\* What holds at first and is kept by every step holds all along.
LEMMA Counting ==
  ASSUME NEW n \in Nat, NEW G, 0 \in G, \A i \in 1 .. n : i - 1 \in G => i \in G
  PROVE  \A i \in 0 .. n : i \in G
<1> DEFINE I == (0 .. n) \ G
<1> SUFFICES ASSUME I # {}
             PROVE  FALSE
  OBVIOUS
<1>1. I \in SUBSET Nat
  OBVIOUS
<1>2. PICK x \in I : \A y \in I : x <= y
  BY <1>1, LeastExists
<1>3. x \in 1 .. n /\ x \notin G
  BY <1>2
<1>4. x - 1 \in 0 .. n /\ ~(x <= x - 1)
  BY <1>3
<1>5. x - 1 \in G
  BY <1>2, <1>4
<1> QED
  BY <1>3, <1>5

Walk(f, m, T, base, g) ==
  /\ f \in [0 .. m -> T] /\ f[0] = base
  /\ \A i \in 1 .. m : f[i] = g[<<f[i - 1], i>>]

\* A walk whose steps stay in T exists.
LEMMA FoldExists ==
  ASSUME NEW n \in Nat, NEW T, NEW base \in T, NEW g \in [T \X (1 .. n) -> T]
  PROVE  \E f : Walk(f, n, T, base, g)
<1> DEFINE G == {m \in 0 .. n : \E f : Walk(f, m, T, base, g)}
<1>1. 0 \in G
  <2>1. Walk([i \in 0 .. 0 |-> base], 0, T, base, g)
    BY DEF Walk
  <2>2. 0 \in 0 .. n
    OBVIOUS
  <2> QED
    BY <2>1, <2>2
<1>2. ASSUME NEW m \in 1 .. n, m - 1 \in G
      PROVE  m \in G
  <2>1. PICK f : Walk(f, m - 1, T, base, g)
    BY <1>2
  <2> DEFINE h == [i \in 0 .. m |-> IF i = m THEN g[<<f[m - 1], m>>] ELSE f[i]]
  <2>2. m - 1 \in 0 .. m - 1 /\ m # 0 /\ m \in Nat
    OBVIOUS
  <2>3. g[<<f[m - 1], m>>] \in T
    BY <2>1, <2>2 DEF Walk
  <2>4. h \in [0 .. m -> T]
    BY <2>1, <2>3 DEF Walk
  <2>5. h[0] = base
    BY <2>1, <2>2 DEF Walk
  <2>6. ASSUME NEW i \in 1 .. m
        PROVE  h[i] = g[<<h[i - 1], i>>]
    <3>1. i - 1 \in 0 .. m /\ i - 1 # m /\ i \in 0 .. m
      BY <2>2
    <3>2. h[i - 1] = f[i - 1]
      BY <3>1
    <3>3. CASE i = m
      BY <3>1, <3>2, <3>3
    <3>4. CASE i # m
      <4>1. i \in 1 .. m - 1
        BY <2>2, <3>4
      <4>2. f[i] = g[<<f[i - 1], i>>] /\ h[i] = f[i]
        BY <2>1, <3>1, <3>4, <4>1 DEF Walk
      <4> QED
        BY <3>2, <4>2
    <3> QED
      BY <3>3, <3>4
  <2>7. Walk(h, m, T, base, g)
    BY <2>4, <2>5, <2>6 DEF Walk
  <2>8. m \in 0 .. n
    OBVIOUS
  <2> HIDE DEF h
  <2> QED
    BY <2>7, <2>8
<1> HIDE DEF G
<1>3. n \in 0 .. n /\ \A i \in 0 .. n : i \in G
  BY <1>1, <1>2, Counting
<1>4. n \in G
  BY <1>3
<1> QED
  BY <1>4 DEF G

LEMMA SetToSeqIs ==
  ASSUME NEW S, IsFiniteSet(S)
  PROVE  LET q == SetToSeq(S)
         IN  /\ q \in Seq(S)
             /\ \A i, j \in 1 .. Len(q) : q[i] = q[j] => i = j
             /\ \A x \in S : \E i \in 1 .. Len(q) : q[i] = x
             /\ S # {} => Len(q) # 0
<1> DEFINE q == SetToSeq(S)
           n == Cardinality(S)
<1>1. n \in Nat /\ ExistsBijection(1 .. n, S)
  BY FS_CardinalityType
<1>2. PICK f \in Bijection(1 .. n, S) : TRUE
  BY <1>1 DEF ExistsBijection
<1>3. f \in [1 .. n -> S] /\ IsInjective(f)
  BY <1>2, Fun_BijectionProperties DEF Bijection, Injection, IsInjective
<1>4. q \in [1 .. n -> S] /\ IsInjective(q)
  BY <1>3 DEF SetToSeq
<1> HIDE DEF q, n
<1>5. \A i, j \in 1 .. n : q[i] = q[j] => i = j
  BY <1>4 DEF IsInjective
<1>6. q \in Injection(1 .. n, S)
  BY <1>4, <1>5, Fun_IsInj
<1>7. Cardinality(1 .. n) = n
  BY <1>1, FS_Interval
<1>8. q \in Surjection(1 .. n, S)
  BY <1>6, <1>7, FS_Injection DEF n
<1>9. \A x \in S : \E i \in 1 .. n : q[i] = x
  BY <1>8 DEF Surjection
<1>10. q \in Seq(S) /\ Len(q) = n
  BY <1>1, <1>4
<1>11. S # {} => n # 0
  BY FS_EmptySet DEF n
<1> QED
  BY <1>5, <1>9, <1>10, <1>11 DEF q

------------------------------------------------------------------------------
(***************************************************************************)
(* Merging and storing.                                                    *)
(***************************************************************************)
Maybe(m, i) == m[i] \in Config \cup {NoConfig}

\* Configurations are typed, and one that knows a device's type knows the
\* right one.
ConfigsOK(m) ==
  /\ m \in [Identifiers -> Config \cup {NoConfig}]
  /\ \A d \in Devices : Stored(m, d) => m[d].kind \in {Unset, KindOf[d]}

\* A command for the identifier covers the device.
Covers(id, d) == id \in {Star, KindOf[d], d}

\* The device's own configuration, if there is one, knows its type.
ReachedIn(m, d) == Stored(m, d) => m[d].kind # Unset

\* What the device uses, field by field.
Used(m, d, f) == IF InUse(m, d) = NoConfig THEN Unset ELSE InUse(m, d)[f]

Told(x, set, f) == IF set[f] # Unset THEN set[f] ELSE x

LEMMA BlankType == Blank \in Config /\ \A k \in Kinds : [Blank EXCEPT !.kind = k] \in Config
<1>1. Unset \in FieldValues \cup Kinds
  BY DEF FieldValues
<1>2. Blank \in Config
  BY <1>1 DEF Blank, Config
<1>3. ASSUME NEW k \in Kinds
      PROVE  [Blank EXCEPT !.kind = k] \in Config
  BY <1>2 DEF Config
<1> QED
  BY <1>2, <1>3

LEMMA MergeType ==
  ASSUME NEW c \in Config, NEW set \in Config
  PROVE  /\ Merge(c, set) \in Config /\ Merge(c, set) # NoConfig
         /\ Merge(c, set).kind = c.kind
         /\ \A f \in Fields : Merge(c, set)[f] = Told(c[f], set, f)
<1>1. DOMAIN c = Fields \cup {"kind"} /\ "kind" \notin Fields
  BY DEF Config, Fields
<1>2. Merge(c, set) \in Config
  BY <1>1 DEF Merge, Config
<1>3. Merge(c, set).kind = c.kind
  BY <1>1 DEF Merge
<1>4. \A f \in Fields : Merge(c, set)[f] = Told(c[f], set, f)
  BY <1>1 DEF Merge, Told
<1> QED
  BY <1>2, <1>3, <1>4, InputConstants

LEMMA StarApart ==
  /\ Star \in Identifiers /\ Kinds \subseteq Identifiers /\ Devices \subseteq Identifiers
  /\ \A d \in Devices : /\ KindOf[d] \in Kinds /\ KindOf[d] # Star /\ KindOf[d] # d /\ d # Star
                        /\ d \notin Kinds /\ KindOf[d] \notin Devices /\ KindOf[d] # Unset
  /\ \A k \in Kinds : k # Star /\ k \notin Devices
BY InputConstants DEF Identifiers

LEMMA OntoType ==
  ASSUME NEW m, ConfigsOK(m), NEW id \in Identifiers, NEW here \in SUBSET Devices
  PROVE  /\ Onto(m, id, here) \in Config
         /\ id \in Devices => Onto(m, id, here).kind \in {Unset, KindOf[id]}
<1>1. m \in [Identifiers -> Config \cup {NoConfig}]
  BY DEF ConfigsOK
<1>2. Blank.kind = Unset /\ \A k : [Blank EXCEPT !.kind = k].kind = k
  BY DEF Blank
<1>3. CASE Stored(m, id)
  BY <1>1, <1>3 DEF Onto, ConfigsOK, Stored
<1>4. CASE ~Stored(m, id) /\ id \in here /\ Stored(m, KindOf[id])
  <2> DEFINE b == [Blank EXCEPT !.kind = KindOf[id]]
             k == m[KindOf[id]]
  <2>1. b \in Config /\ k \in Config /\ b.kind = KindOf[id]
    BY <1>1, <1>2, <1>4, BlankType, StarApart DEF Stored
  <2>2. Onto(m, id, here) = Merge(b, k)
    BY <1>4 DEF Onto
  <2> HIDE DEF b, k
  <2> QED
    BY <2>1, <2>2, MergeType
<1>5. CASE ~Stored(m, id) /\ ~(id \in here /\ Stored(m, KindOf[id])) /\ Stored(m, Star)
  <2> DEFINE b == Blank
             k == m[Star]
  <2>1. b \in Config /\ k \in Config /\ b.kind = Unset
    BY <1>1, <1>2, <1>5, BlankType, StarApart DEF Stored
  <2>2. Onto(m, id, here) = Merge(b, k)
    BY <1>5 DEF Onto
  <2> HIDE DEF b, k
  <2> QED
    BY <2>1, <2>2, MergeType
<1>6. CASE ~Stored(m, id) /\ ~(id \in here /\ Stored(m, KindOf[id])) /\ ~Stored(m, Star)
  <2>1. Onto(m, id, here) = [Blank EXCEPT !.kind = IF id \in here THEN KindOf[id] ELSE Unset]
    BY <1>6 DEF Onto
  <2>2. CASE id \in here
    BY <1>2, <2>1, <2>2, BlankType, StarApart
  <2>3. CASE id \notin here
    <3>1. [Blank EXCEPT !.kind = Unset] = Blank
      BY DEF Blank
    <3> QED
      BY <1>2, <2>1, <2>3, <3>1, BlankType
  <2> QED
    BY <2>2, <2>3
<1> QED
  BY <1>3, <1>4, <1>5, <1>6

LEMMA BelowIs ==
  ASSUME NEW m, ConfigsOK(m), NEW id \in Identifiers
  PROVE  /\ id \notin Below(m, id) /\ Below(m, id) \subseteq Identifiers
         /\ id \in Devices => Below(m, id) = {}
         /\ \A i \in Below(m, id) : Stored(m, i) /\ m[i] \in Config
         /\ \A d \in Devices : d \in Below(m, id) => Covers(id, d)
<1>1. m \in [Identifiers -> Config \cup {NoConfig}]
  BY DEF ConfigsOK
<1>2. id \notin Below(m, id) /\ Below(m, id) \subseteq Identifiers /\ (id \in Devices => Below(m, id) = {})
  BY StarApart DEF Below
<1>3. \A i \in Below(m, id) : Stored(m, i) /\ m[i] \in Config
  BY <1>1, <1>2 DEF Below, Stored
<1>4. ASSUME NEW d \in Devices, d \in Below(m, id)
      PROVE  Covers(id, d)
  <2>1. CASE id = Star
    BY <2>1 DEF Covers
  <2>2. CASE id # Star
    <3>1. Stored(m, d) /\ m[d].kind = id /\ id \in Kinds
      BY <1>4, <2>2 DEF Below
    <3>2. m[d].kind \in {Unset, KindOf[d]}
      BY <3>1 DEF ConfigsOK
    <3> QED
      BY <3>1, <3>2, InputConstants DEF Covers
  <2> QED
    BY <2>1, <2>2
<1> QED
  BY <1>2, <1>3, <1>4

LEMMA StoreType ==
  ASSUME NEW m, ConfigsOK(m), NEW id \in Identifiers, NEW set \in Config, NEW here \in SUBSET Devices
  PROVE  LET r == StoreInputConfig(m, id, set, here)
         IN  /\ ConfigsOK(r)
             /\ r[id] = Merge(Onto(m, id, here), set) /\ Stored(r, id)
             /\ \A i \in Identifiers \ {id} :
                  r[i] = IF i \in Below(m, id) THEN Merge(m[i], set) ELSE m[i]
             /\ \A i \in Identifiers \ {id} : Stored(r, i) <=> Stored(m, i)
             /\ \A d \in Devices \ {id} : Stored(m, d) => r[d].kind = m[d].kind
<1> DEFINE r == StoreInputConfig(m, id, set, here)
           o == Onto(m, id, here)
<1>1. m \in [Identifiers -> Config \cup {NoConfig}]
  BY DEF ConfigsOK
<1>2. o \in Config /\ (id \in Devices => o.kind \in {Unset, KindOf[id]})
  BY OntoType
<1>3. /\ r = [i \in Identifiers |-> r[i]] /\ r[id] = Merge(o, set)
      /\ \A i \in Identifiers \ {id} : r[i] = IF i \in Below(m, id) THEN Merge(m[i], set) ELSE m[i]
  BY DEF StoreInputConfig
<1>4. \A i \in Below(m, id) : Stored(m, i) /\ m[i] \in Config
  BY BelowIs
<1> HIDE DEF r, o
<1>5. r[id] \in Config /\ r[id] # NoConfig /\ r[id].kind = o.kind
  BY <1>2, <1>3, MergeType
<1>6. ASSUME NEW i \in Identifiers \ {id}
      PROVE  /\ r[i] \in Config \cup {NoConfig} /\ (Stored(r, i) <=> Stored(m, i))
             /\ Stored(m, i) => r[i].kind = m[i].kind
  <2>1. CASE i \in Below(m, id)
    BY <1>3, <1>4, <2>1, MergeType DEF Stored
  <2>2. CASE i \notin Below(m, id)
    BY <1>1, <1>3, <2>2 DEF Stored
  <2> QED
    BY <2>1, <2>2
<1>7. r \in [Identifiers -> Config \cup {NoConfig}]
  <2>1. \A i \in Identifiers : r[i] \in Config \cup {NoConfig}
    BY <1>5, <1>6
  <2>2. [i \in Identifiers |-> r[i]] \in [Identifiers -> Config \cup {NoConfig}]
    BY <2>1
  <2> QED
    BY <1>3, <2>2
<1>8. ASSUME NEW d \in Devices, Stored(r, d)
      PROVE  r[d].kind \in {Unset, KindOf[d]}
  <2>1. CASE d = id
    BY <1>2, <1>5, <2>1
  <2>2. CASE d # id
    <3>1. Stored(m, d) /\ r[d].kind = m[d].kind
      BY <1>6, <1>8, <2>2, StarApart
    <3> QED
      BY <3>1 DEF ConfigsOK
  <2> QED
    BY <2>1, <2>2
<1>9. ConfigsOK(r)
  BY <1>7, <1>8 DEF ConfigsOK
<1>10. \A d \in Devices \ {id} : Stored(m, d) => r[d].kind = m[d].kind
  BY <1>6, StarApart
<1>11. Stored(r, id) /\ \A i \in Identifiers \ {id} : Stored(r, i) <=> Stored(m, i)
  BY <1>5, <1>6 DEF Stored
<1> QED
  BY <1>3, <1>9, <1>10, <1>11 DEF r, o

LEMMA StoreReached ==
  ASSUME NEW m, ConfigsOK(m), NEW id \in Identifiers, NEW set \in Config, NEW here \in SUBSET Devices,
         NEW d \in Devices, ReachedIn(StoreInputConfig(m, id, set, here), d)
  PROVE  ReachedIn(m, d)
<1> DEFINE r == StoreInputConfig(m, id, set, here)
<1>1. /\ r[id] = Merge(Onto(m, id, here), set) /\ Stored(r, id) /\ Onto(m, id, here) \in Config
      /\ \A i \in Identifiers \ {id} : Stored(r, i) <=> Stored(m, i)
      /\ \A e \in Devices \ {id} : Stored(m, e) => r[e].kind = m[e].kind
  BY StoreType, OntoType
<1>2. ReachedIn(r, d)
  OBVIOUS
<1> HIDE DEF r
<1>3. CASE d = id
  <2>1. r[id].kind = Onto(m, id, here).kind
    BY <1>1, MergeType
  <2>2. Stored(m, id) => Onto(m, id, here) = m[id]
    BY DEF Onto
  <2> QED
    BY <1>1, <1>2, <1>3, <2>1, <2>2 DEF ReachedIn
<1>4. CASE d # id
  BY <1>1, <1>2, <1>4, StarApart DEF ReachedIn
<1> QED
  BY <1>3, <1>4

\* A device that is not covered finds what it found before.
LEMMA StoreSpares ==
  ASSUME NEW m, ConfigsOK(m), NEW id \in Identifiers, NEW set \in Config, NEW here \in SUBSET Devices,
         NEW d \in Devices, ~Covers(id, d)
  PROVE  LET r == StoreInputConfig(m, id, set, here)
         IN  r[d] = m[d] /\ InUse(r, d) = InUse(m, d)
<1> DEFINE r == StoreInputConfig(m, id, set, here)
           k == KindOf[d]
<1>1. \A i \in Identifiers \ {id} : r[i] = IF i \in Below(m, id) THEN Merge(m[i], set) ELSE m[i]
  BY StoreType
<1>2. d # id /\ k # id /\ Star # id /\ {d, k, Star} \subseteq Identifiers
  BY StarApart DEF Covers
<1>3. d \notin Below(m, id)
  BY BelowIs
<1>4. k \notin Below(m, id) /\ Star \notin Below(m, id)
  BY <1>2, StarApart DEF Below
<1> HIDE DEF r
<1>5. r[d] = m[d] /\ r[k] = m[k] /\ r[Star] = m[Star]
  BY <1>1, <1>2, <1>3, <1>4
<1> QED
  BY <1>5 DEF InUse, Stored, r, k

\* A device whose own configuration is stored finds what was set on top of what
\* it found before.
LEMMA StoreOwn ==
  ASSUME NEW m, ConfigsOK(m), NEW set \in Config, NEW here \in SUBSET Devices, NEW d \in here
  PROVE  LET r == StoreInputConfig(m, d, set, here)
         IN  /\ InUse(r, d) = r[d] /\ r[d] # NoConfig
             /\ \A f \in Fields : r[d][f] = Told(Used(m, d, f), set, f)
<1> DEFINE r == StoreInputConfig(m, d, set, here)
           o == Onto(m, d, here)
           k == KindOf[d]
<1>1. d \in Identifiers /\ d \in Devices /\ {k, Star} \subseteq Identifiers /\ k \in Kinds
  BY StarApart
<1>2. r[d] = Merge(o, set) /\ Stored(r, d) /\ o \in Config
  BY <1>1, StoreType, OntoType
<1>3. \A f \in Fields : o[f] = Used(m, d, f)
  <2> SUFFICES ASSUME NEW f \in Fields
               PROVE  o[f] = Used(m, d, f)
    OBVIOUS
  <2>1. m \in [Identifiers -> Config \cup {NoConfig}] /\ f # "kind"
    BY DEF ConfigsOK, Fields
  <2>2. CASE Stored(m, d)
    BY <2>2 DEF Onto, Used, InUse, Stored
  <2>3. Blank[f] = Unset /\ \A x : [Blank EXCEPT !.kind = x][f] = Unset
    BY <2>1 DEF Blank
  <2>4. CASE ~Stored(m, d) /\ Stored(m, k)
    <3> DEFINE b == [Blank EXCEPT !.kind = k]
               x == m[k]
    <3>1. o = Merge(b, x) /\ b \in Config /\ x \in Config /\ b[f] = Unset
      BY <1>1, <2>1, <2>3, <2>4, BlankType DEF Onto, Stored
    <3>2. Used(m, d, f) = x[f]
      BY <2>4 DEF Used, InUse, Stored
    <3> HIDE DEF b, x, o
    <3> QED
      BY <3>1, <3>2, MergeType DEF Told
  <2>5. CASE ~Stored(m, d) /\ ~Stored(m, k) /\ Stored(m, Star)
    <3> DEFINE b == Blank
               x == m[Star]
    <3>1. o = Merge(b, x) /\ b \in Config /\ x \in Config /\ b[f] = Unset
      BY <1>1, <2>1, <2>3, <2>5, BlankType DEF Onto, Stored
    <3>2. Used(m, d, f) = x[f]
      BY <2>5 DEF Used, InUse, Stored
    <3> HIDE DEF b, x, o
    <3> QED
      BY <3>1, <3>2, MergeType DEF Told
  <2>6. CASE ~Stored(m, d) /\ ~Stored(m, k) /\ ~Stored(m, Star)
    <3>1. o[f] = Unset
      BY <2>3, <2>6 DEF Onto
    <3>2. Used(m, d, f) = Unset
      BY <2>6 DEF Used, InUse, Stored
    <3> QED
      BY <3>1, <3>2
  <2> QED
    BY <2>2, <2>4, <2>5, <2>6
<1> HIDE DEF o, r
<1>4. \A f \in Fields : r[d][f] = Told(o[f], set, f)
  BY <1>2, MergeType
<1>5. InUse(r, d) = r[d] /\ r[d] # NoConfig
  BY <1>2 DEF InUse, Stored
<1> QED
  BY <1>3, <1>4, <1>5 DEF r

\* So does every covered device that is there and whose configuration knows
\* its type.
LEMMA StoreUses ==
  ASSUME NEW m, ConfigsOK(m), NEW id \in Identifiers, NEW set \in Config, NEW here \in SUBSET Devices,
         NEW d \in here, Covers(id, d), ReachedIn(StoreInputConfig(m, id, set, here), d)
  PROVE  LET r == StoreInputConfig(m, id, set, here)
         IN  /\ InUse(r, d) # NoConfig
             /\ \A f \in Fields : InUse(r, d)[f] = Told(Used(m, d, f), set, f)
<1> DEFINE r == StoreInputConfig(m, id, set, here)
           k == KindOf[d]
           o == Onto(m, id, here)
           B == Below(m, id)
<1>1. /\ r[id] = Merge(o, set) /\ Stored(r, id) /\ o \in Config
      /\ \A i \in Identifiers \ {id} : r[i] = IF i \in B THEN Merge(m[i], set) ELSE m[i]
      /\ \A i \in Identifiers \ {id} : Stored(r, i) <=> Stored(m, i)
      /\ m \in [Identifiers -> Config \cup {NoConfig}]
  BY StoreType, OntoType DEF ConfigsOK
<1>2. /\ {d, k, Star} \subseteq Identifiers /\ d # k /\ d # Star /\ k # Star /\ d \in Devices
      /\ k \notin Devices /\ k \in Kinds /\ d \notin Kinds
  BY StarApart
<1>3. ReachedIn(m, d)
  BY <1>2, StoreReached
<1>4. CASE id = d
  BY <1>4, StoreOwn
<1>5. CASE id # d /\ Stored(m, d)
  <2>1. d \in B
    BY <1>2, <1>3, <1>5, StarApart DEF Below, Covers, ReachedIn, ConfigsOK
  <2>2. r[d] = Merge(m[d], set) /\ Stored(r, d) /\ m[d] \in Config
    BY <1>1, <1>2, <1>5, <2>1 DEF Stored
  <2>3. InUse(r, d) = r[d] /\ InUse(m, d) = m[d] /\ m[d] # NoConfig
    BY <1>5, <2>2 DEF InUse, Stored
  <2> HIDE DEF r
  <2>4. r[d] # NoConfig /\ \A f \in Fields : r[d][f] = Told(m[d][f], set, f)
    BY <2>2, MergeType
  <2> QED
    BY <2>3, <2>4 DEF Used, r
<1>6. CASE id = k /\ ~Stored(m, d)
  <2>1. InUse(r, d) = r[k] /\ r[k] = Merge(o, set) /\ r[k] # NoConfig
    BY <1>1, <1>2, <1>6 DEF InUse, Stored
  <2>2. \A f \in Fields : o[f] = Used(m, d, f)
    <3> SUFFICES ASSUME NEW f \in Fields
                 PROVE  o[f] = Used(m, d, f)
      OBVIOUS
    <3>1. k \notin here /\ f # "kind"
      BY <1>2 DEF Fields
    <3>2. CASE Stored(m, k)
      BY <1>6, <3>2 DEF Onto, Used, InUse, Stored
    <3>3. CASE ~Stored(m, k) /\ Stored(m, Star)
      <4> DEFINE b == Blank
                 x == m[Star]
      <4>1. o = Merge(b, x) /\ b \in Config /\ x \in Config /\ b[f] = Unset
        BY <1>1, <1>2, <1>6, <3>1, <3>3, BlankType DEF Onto, Stored, Blank
      <4>2. Used(m, d, f) = x[f]
        BY <1>6, <3>3 DEF Used, InUse, Stored
      <4> HIDE DEF b, x, o
      <4> QED
        BY <4>1, <4>2, MergeType DEF Told
    <3>4. CASE ~Stored(m, k) /\ ~Stored(m, Star)
      <4>1. o = [Blank EXCEPT !.kind = Unset]
        BY <1>6, <3>1, <3>4 DEF Onto
      <4>2. o[f] = Unset
        BY <3>1, <4>1 DEF Blank
      <4>3. Used(m, d, f) = Unset
        BY <1>6, <3>4 DEF Used, InUse, Stored
      <4> QED
        BY <4>2, <4>3
    <3> QED
      BY <3>2, <3>3, <3>4
  <2> HIDE DEF r, o
  <2>3. \A f \in Fields : r[k][f] = Told(o[f], set, f)
    BY <1>1, <2>1, MergeType
  <2> QED
    BY <2>1, <2>2, <2>3 DEF r
<1>7. CASE id = Star /\ ~Stored(m, d) /\ Stored(m, k)
  <2>1. k \in B
    BY <1>2, <1>7 DEF Below
  <2>2. r[k] = Merge(m[k], set) /\ Stored(r, k) /\ ~Stored(r, d) /\ m[k] \in Config
    BY <1>1, <1>2, <1>7, <2>1 DEF Stored
  <2>3. InUse(r, d) = r[k] /\ InUse(m, d) = m[k] /\ m[k] # NoConfig
    BY <1>7, <2>2 DEF InUse, Stored
  <2> HIDE DEF r
  <2>4. r[k] # NoConfig /\ \A f \in Fields : r[k][f] = Told(m[k][f], set, f)
    BY <2>2, MergeType
  <2> QED
    BY <2>3, <2>4 DEF Used, r
<1>8. CASE id = Star /\ ~Stored(m, d) /\ ~Stored(m, k)
  <2>1. InUse(r, d) = r[Star] /\ r[Star] = Merge(o, set) /\ r[Star] # NoConfig
    BY <1>1, <1>2, <1>8 DEF InUse, Stored
  <2>2. \A f \in Fields : o[f] = Used(m, d, f)
    <3> SUFFICES ASSUME NEW f \in Fields
                 PROVE  o[f] = Used(m, d, f)
      OBVIOUS
    <3>1. Star \notin here /\ f # "kind"
      BY StarApart DEF Fields
    <3>2. CASE Stored(m, Star)
      BY <1>8, <3>2 DEF Onto, Used, InUse, Stored
    <3>3. CASE ~Stored(m, Star)
      <4>1. o = [Blank EXCEPT !.kind = Unset]
        BY <1>8, <3>1, <3>3 DEF Onto
      <4>2. o[f] = Unset
        BY <3>1, <4>1 DEF Blank
      <4>3. Used(m, d, f) = Unset
        BY <1>8, <3>3 DEF Used, InUse, Stored
      <4> QED
        BY <4>2, <4>3
    <3> QED
      BY <3>2, <3>3
  <2> HIDE DEF r, o
  <2>3. \A f \in Fields : r[Star][f] = Told(o[f], set, f)
    BY <1>1, <1>8, <2>1, MergeType
  <2> QED
    BY <2>1, <2>2, <2>3 DEF r
<1> QED
  BY <1>4, <1>5, <1>6, <1>7, <1>8 DEF Covers

\* Of the devices in D, the ones done have their events toggled.
Toggles(m, D, done) ==
  /\ ConfigsOK(m)
  /\ \A i \in Identifiers :
       \/ m[i] = configs[i] /\ i \notin done
       \/ i \in D /\ m[i] = Merge(Onto(configs, i, present), ToggledSet(i))

LEMMA ToggledType ==
  ASSUME NEW d
  PROVE  /\ ToggledSet(d) \in Config
         /\ \A f \in Fields \ {"events"} : ToggledSet(d)[f] = Unset
<1> DEFINE v == IF d \in virtual THEN Unset
                ELSE IF events[d] = "enabled" THEN "disabled" ELSE "enabled"
<1>1. v \in FieldValues
  BY DEF FieldValues
<1>2. ToggledSet(d) = [Blank EXCEPT !.events = v]
  BY DEF ToggledSet
<1> HIDE DEF v
<1> QED
  BY <1>1, <1>2, BlankType DEF Config, Blank

LEMMA MergeTwice ==
  ASSUME NEW c \in Config, NEW set
  PROVE  Merge(Merge(c, set), set) = Merge(c, set)
BY DEF Merge, Config

LEMMA ToggleStep ==
  ASSUME ConfigsOK(configs), present \in SUBSET Devices, NEW D \in SUBSET present,
         NEW m, NEW done, Toggles(m, D, done), NEW d \in D
  PROVE  Toggles(StoreInputConfig(m, d, ToggledSet(d), present), D, done \cup {d})
<1> DEFINE r == StoreInputConfig(m, d, ToggledSet(d), present)
           k == KindOf[d]
           set == ToggledSet(d)
           o == Onto(configs, d, present)
<1>1. /\ d \in Devices /\ d \in Identifiers /\ set \in Config /\ ConfigsOK(m)
      /\ k \notin D /\ Star \notin D /\ {k, Star} \subseteq Identifiers
  BY StarApart, ToggledType DEF Toggles
<1>2. /\ ConfigsOK(r) /\ r[d] = Merge(Onto(m, d, present), set)
      /\ \A i \in Identifiers \ {d} : r[i] = m[i]
  BY <1>1, StoreType, BelowIs
<1>3. m[k] = configs[k] /\ m[Star] = configs[Star]
  BY <1>1 DEF Toggles
<1>4. r[d] = Merge(o, set)
  <2>1. CASE m[d] = configs[d]
    <3>1. Onto(m, d, present) = o
      BY <1>3, <2>1 DEF Onto, Stored
    <3> QED
      BY <1>2, <3>1
  <2>2. CASE m[d] = Merge(o, set)
    <3>1. o \in Config
      BY <1>1, OntoType
    <3>2. Stored(m, d)
      BY <1>1, <2>2, <3>1, MergeType DEF Stored
    <3>3. Onto(m, d, present) = m[d]
      BY <3>2 DEF Onto
    <3> HIDE DEF o, set
    <3> QED
      BY <1>2, <2>2, <3>1, <3>3, MergeTwice
  <2> QED
    BY <1>1, <2>1, <2>2 DEF Toggles
<1> HIDE DEF r
<1>5. ASSUME NEW i \in Identifiers
      PROVE  \/ r[i] = configs[i] /\ i \notin done \cup {d}
             \/ i \in D /\ r[i] = Merge(Onto(configs, i, present), ToggledSet(i))
  <2>1. CASE i = d
    BY <1>4, <2>1
  <2>2. CASE i # d
    BY <1>2, <2>2 DEF Toggles
  <2> QED
    BY <2>1, <2>2
<1> QED
  BY <1>2, <1>5 DEF Toggles, r

LEMMA ToggleWalk ==
  ASSUME ConfigsOK(configs), present \in SUBSET Devices, NEW D \in SUBSET present, NEW q \in Seq(D),
         \A d \in D : \E i \in 1 .. Len(q) : q[i] = d
  PROVE  Toggles(ToggleEach(configs, q), D, D)
<1> DEFINE n == Len(q)
           T == {m \in [Identifiers -> Config \cup {NoConfig}] : Toggles(m, D, {})}
           Step(m, i) == StoreInputConfig(m, q[i], ToggledSet(q[i]), present)
           g == [z \in T \X (1 .. n) |-> Step(z[1], z[2])]
<1>1. n \in Nat /\ \A i \in 1 .. n : q[i] \in D
  BY LenProperties, ElementOfSeq
<1>2. configs \in T
  BY DEF Toggles, ConfigsOK
<1>3. ASSUME NEW m \in T, NEW i \in 1 .. n, NEW done, Toggles(m, D, done)
      PROVE  Step(m, i) \in T /\ Toggles(Step(m, i), D, done \cup {q[i]})
  <2>1. Toggles(Step(m, i), D, done \cup {q[i]})
    BY <1>1, <1>3, ToggleStep
  <2> HIDE DEF Step
  <2>2. Toggles(Step(m, i), D, {})
    BY <2>1 DEF Toggles
  <2> QED
    BY <2>1, <2>2 DEF Toggles, ConfigsOK
<1>4. \A m \in T : Toggles(m, D, {})
  OBVIOUS
<1>5. ASSUME NEW m \in T, NEW i \in 1 .. n
      PROVE  Step(m, i) \in T
  <2> HIDE DEF T, Step
  <2> QED
    BY <1>3, <1>4
<1> HIDE DEF T, n
<1>6. g \in [T \X (1 .. n) -> T]
  <2> HIDE DEF Step
  <2> QED
    BY <1>5
<1>7. PICK h : Walk(h, n, T, configs, g)
  <2> HIDE DEF g
  <2> QED
    BY <1>1, <1>2, <1>6, FoldExists
<1> DEFINE E(x) == [i \in 0 .. n |-> IF i = 0 THEN configs ELSE Step(x[i-1], i)]
           w == CHOOSE x : x = E(x)
<1>8. ASSUME NEW i \in 1 .. n PROVE h[i] = Step(h[i - 1], i)
  <2>1. <<h[i - 1], i>> \in T \X (1 .. n)
    BY <1>1, <1>7 DEF Walk
  <2> HIDE DEF Step
  <2> QED
    BY <1>7, <2>1 DEF Walk
<1>9. h = E(h)
  <2>1. h = [i \in 0 .. n |-> h[i]] /\ h[0] = configs
    BY <1>7 DEF Walk
  <2> HIDE DEF Step
  <2>2. \A i \in 0 .. n : i = 0 \/ i \in 1 .. n
    BY <1>1
  <2>3. \A i \in 0 .. n : h[i] = IF i = 0 THEN configs ELSE Step(h[i - 1], i)
    BY <1>8, <2>1, <2>2
  <2>4. [i \in 0 .. n |-> h[i]] = E(h)
    BY <2>3
  <2> QED
    BY <2>1, <2>4
<1>10. w = E(w)
  BY <1>9
<1>11. ToggleEach(configs, q) = w[n]
  BY DEF ToggleEach, n
<1> HIDE DEF w
<1>12. w[0] = configs /\ \A i \in 1 .. n : w[i] = Step(w[i - 1], i)
  <2> HIDE DEF Step
  <2>1. \A i \in 0 .. n : w[i] = E(w)[i]
    BY <1>10
  <2> QED
    BY <1>1, <2>1
<1> DEFINE done(i) == {q[j] : j \in 1 .. i}
           G == {i \in 0 .. n : w[i] \in T /\ Toggles(w[i], D, done(i))}
<1>13. 0 \in G
  <2>1. done(0) = {}
    OBVIOUS
  <2>2. w[0] \in T /\ Toggles(w[0], D, {})
    BY <1>2, <1>4, <1>12
  <2> HIDE DEF done
  <2>3. Toggles(w[0], D, done(0))
    BY <2>1, <2>2
  <2>4. 0 \in 0 .. n
    BY <1>1
  <2> QED
    BY <2>2, <2>3, <2>4
<1>14. ASSUME NEW i \in 1 .. n, i - 1 \in G PROVE i \in G
  <2>1. done(i) = done(i - 1) \cup {q[i]}
    BY <1>1
  <2>2. w[i - 1] \in T /\ Toggles(w[i - 1], D, done(i - 1)) /\ i \in 0 .. n
    BY <1>1, <1>14
  <2> HIDE DEF Step, done
  <2>3. Step(w[i - 1], i) \in T /\ Toggles(Step(w[i - 1], i), D, done(i - 1) \cup {q[i]})
    BY <1>3, <2>2
  <2>4. w[i] \in T /\ Toggles(w[i], D, done(i)) /\ i \in 0 .. n
    BY <1>12, <2>1, <2>2, <2>3
  <2> QED
    BY <2>4
<1> HIDE DEF G
<1>15. \A i \in 0 .. n : i \in G
  BY <1>1, <1>13, <1>14, Counting
<1>18. n \in 0 .. n
  BY <1>1
<1>16. Toggles(w[n], D, done(n))
  BY <1>15, <1>18 DEF G
<1>17. D \subseteq done(n)
  BY DEF n
<1> HIDE DEF done
<1> QED
  BY <1>11, <1>16, <1>17 DEF Toggles


\* A toggle for many changes the events of the devices it covers, and nothing else.
LEMMA EachUses ==
  ASSUME ConfigsOK(configs), present \in SUBSET Devices, NEW D \in SUBSET present,
         NEW m, Toggles(m, D, D)
  PROVE  /\ \A d \in Devices \ D : m[d] = configs[d] /\ InUse(m, d) = InUse(configs, d)
         /\ \A d \in D : /\ ReachedIn(m, d) => ReachedIn(configs, d)
                         /\ InUse(m, d) # NoConfig
                         /\ \A f \in Fields :
                              Used(m, d, f) = Told(Used(configs, d, f), ToggledSet(d), f)
<1>1. ASSUME NEW d \in Devices
      PROVE  m[KindOf[d]] = configs[KindOf[d]] /\ m[Star] = configs[Star]
             /\ {d, KindOf[d], Star} \subseteq Identifiers
  BY StarApart DEF Toggles
<1>2. ASSUME NEW d \in Devices \ D
      PROVE  m[d] = configs[d] /\ InUse(m, d) = InUse(configs, d)
  <2>1. m[d] = configs[d]
    BY <1>1 DEF Toggles
  <2> QED
    BY <1>1, <2>1 DEF InUse, Stored
<1>3. ASSUME NEW d \in D
      PROVE  /\ ReachedIn(m, d) => ReachedIn(configs, d)
             /\ InUse(m, d) # NoConfig
             /\ \A f \in Fields : Used(m, d, f) = Told(Used(configs, d, f), ToggledSet(d), f)
  <2> DEFINE r == StoreInputConfig(configs, d, ToggledSet(d), present)
  <2>1. d \in Devices /\ d \in Identifiers /\ d \in present /\ ToggledSet(d) \in Config
    BY StarApart, ToggledType
  <2>2. r[d] = Merge(Onto(configs, d, present), ToggledSet(d))
    BY <2>1, StoreType
  <2>3. m[d] = r[d]
    BY <2>1, <2>2 DEF Toggles
  <2>4. /\ InUse(r, d) = r[d] /\ r[d] # NoConfig
        /\ \A f \in Fields : r[d][f] = Told(Used(configs, d, f), ToggledSet(d), f)
    BY <2>1, StoreOwn
  <2>5. ReachedIn(r, d) => ReachedIn(configs, d)
    BY <2>1, StoreReached
  <2> HIDE DEF r
  <2>6. ReachedIn(m, d) <=> ReachedIn(r, d)
    BY <2>3 DEF ReachedIn, Stored
  <2>7. InUse(m, d) = r[d]
    BY <2>3, <2>4 DEF InUse, Stored
  <2> QED
    BY <2>4, <2>5, <2>6, <2>7 DEF Used
<1> QED
  BY <1>2, <1>3

------------------------------------------------------------------------------
(***************************************************************************)
(* Keymaps.                                                                *)
(***************************************************************************)
Compiling(m, L) == \A i \in Identifiers \ L : Stored(m, i) => Good(m[i])

LEMMA StoreGood ==
  ASSUME NEW m, ConfigsOK(m), NEW id \in Identifiers, NEW set \in Config, NEW here \in SUBSET Devices,
         NEW L, Compiling(m, L), Valid(m, id, set, here)
  PROVE  Compiling(StoreInputConfig(m, id, set, here), L)
<1> DEFINE r == StoreInputConfig(m, id, set, here)
<1>1. /\ r[id] = Merge(Onto(m, id, here), set)
      /\ \A i \in Identifiers \ {id} : r[i] = IF i \in Below(m, id) THEN Merge(m[i], set) ELSE m[i]
  BY StoreType
<1> HIDE DEF r
<1>2. ASSUME NEW i \in Identifiers \ L, Stored(r, i)
      PROVE  Good(r[i])
  <2>1. CASE i = id
    BY <1>1, <2>1 DEF Valid
  <2>2. CASE i # id /\ i \in Below(m, id)
    BY <1>1, <2>2 DEF Valid
  <2>3. CASE i # id /\ i \notin Below(m, id)
    BY <1>1, <1>2, <2>3 DEF Compiling, Stored
  <2> QED
    BY <2>1, <2>2, <2>3
<1> QED
  BY <1>2 DEF Compiling, r

\* What touches neither layout nor variant leaves the keymap alone.
LEMMA SameKeymap ==
  ASSUME NEW c, NEW e, c["layout"] = e["layout"], c["variant"] = e["variant"]
  PROVE  KeymapOf(c) = KeymapOf(e) /\ (Good(c) <=> Good(e))
BY DEF KeymapOf, Good

LEMMA MergedGood ==
  ASSUME NEW c \in Config, NEW set \in Config
  PROVE  /\ set["layout"] = Unset /\ set["variant"] = Unset /\ Good(c) => Good(Merge(c, set))
         /\ c["layout"] = Unset /\ c["variant"] = Unset /\ Good(set) => Good(Merge(c, set))
<1>1. {"layout", "variant"} \subseteq Fields
  BY DEF Fields
<1>2. Merge(c, set)["layout"] = Told(c["layout"], set, "layout")
      /\ Merge(c, set)["variant"] = Told(c["variant"], set, "variant")
  BY <1>1, MergeType
<1>3. CASE set["layout"] = Unset /\ set["variant"] = Unset
  <2>1. Merge(c, set)["layout"] = c["layout"] /\ Merge(c, set)["variant"] = c["variant"]
    BY <1>2, <1>3 DEF Told
  <2>2. Good(c) <=> Good(Merge(c, set))
    BY <2>1, SameKeymap
  <2>3. c["layout"] = Unset /\ c["variant"] = Unset => (Good(set) <=> Good(c))
    BY <1>3, SameKeymap
  <2> QED
    BY <2>2, <2>3
<1>4. CASE ~(set["layout"] = Unset /\ set["variant"] = Unset)
  <2>1. SUFFICES ASSUME c["layout"] = Unset, c["variant"] = Unset
                 PROVE  Good(set) <=> Good(Merge(c, set))
    BY <1>4
  <2>2. Merge(c, set)["layout"] = set["layout"] /\ Merge(c, set)["variant"] = set["variant"]
    BY <1>2, <2>1 DEF Told
  <2> QED
    BY <2>2, SameKeymap
<1> QED
  BY <1>3, <1>4

LEMMA BlankGood ==
  /\ Good(Blank) /\ \A k : Good([Blank EXCEPT !.kind = k])
  /\ \A f \in Fields : Blank[f] = Unset /\ \A k : [Blank EXCEPT !.kind = k][f] = Unset
BY InputConstants DEF Blank, Good, KeymapOf, Fields

LEMMA OntoGood ==
  ASSUME NEW m, ConfigsOK(m), NEW L \in SUBSET Devices, Compiling(m, L), NEW d \in Devices \ L,
         NEW here \in SUBSET Devices
  PROVE  Good(Onto(m, d, here))
<1> DEFINE k == KindOf[d]
<1>1. /\ m \in [Identifiers -> Config \cup {NoConfig}] /\ {d, k, Star} \subseteq Identifiers \ L /\ k \in Kinds
      /\ {"layout", "variant"} \subseteq Fields
  BY StarApart DEF ConfigsOK, Fields
<1>2. CASE Stored(m, d)
  BY <1>1, <1>2 DEF Onto, Compiling
<1>3. CASE ~Stored(m, d) /\ d \in here /\ Stored(m, k)
  <2> DEFINE b == [Blank EXCEPT !.kind = k]
             x == m[k]
  <2>1. b \in Config /\ x \in Config /\ b["layout"] = Unset /\ b["variant"] = Unset /\ Good(x)
    BY <1>1, <1>3, BlankType, BlankGood DEF Stored, Compiling
  <2>2. Onto(m, d, here) = Merge(b, x)
    BY <1>3 DEF Onto
  <2> HIDE DEF b, x
  <2> QED
    BY <2>1, <2>2, MergedGood
<1>4. CASE ~Stored(m, d) /\ ~(d \in here /\ Stored(m, k)) /\ Stored(m, Star)
  <2> DEFINE b == Blank
             x == m[Star]
  <2>1. b \in Config /\ x \in Config /\ b["layout"] = Unset /\ b["variant"] = Unset /\ Good(x)
    BY <1>1, <1>4, BlankType, BlankGood DEF Stored, Compiling
  <2>2. Onto(m, d, here) = Merge(b, x)
    BY <1>4 DEF Onto
  <2> HIDE DEF b, x
  <2> QED
    BY <2>1, <2>2, MergedGood
<1>5. CASE ~Stored(m, d) /\ ~(d \in here /\ Stored(m, k)) /\ ~Stored(m, Star)
  <2>1. Onto(m, d, here) = [Blank EXCEPT !.kind = IF d \in here THEN k ELSE Unset]
    BY <1>5 DEF Onto
  <2> QED
    BY <2>1, BlankGood
<1> QED
  BY <1>2, <1>3, <1>4, <1>5

LEMMA EachGood ==
  ASSUME ConfigsOK(configs), present \in SUBSET Devices, NEW D \in SUBSET present,
         NEW m, Toggles(m, D, D), NEW L \in SUBSET Devices, Compiling(configs, L)
  PROVE  Compiling(m, L)
<1> SUFFICES ASSUME NEW i \in Identifiers \ L, Stored(m, i)
             PROVE  Good(m[i])
  BY DEF Compiling
<1>1. CASE m[i] = configs[i]
  BY <1>1 DEF Compiling, Stored
<1>2. CASE i \in D /\ m[i] = Merge(Onto(configs, i, present), ToggledSet(i))
  <2> DEFINE o == Onto(configs, i, present)
             set == ToggledSet(i)
  <2>1. i \in Devices /\ i \in Identifiers
    BY <1>2
  <2>2. o \in Config /\ Good(o)
    BY <1>2, <2>1, OntoType, OntoGood
  <2>3. set \in Config /\ set["layout"] = Unset /\ set["variant"] = Unset
    BY ToggledType DEF Fields
  <2> HIDE DEF o, set
  <2> QED
    BY <1>2, <2>2, <2>3, MergedGood DEF o, set
<1> QED
  BY <1>1, <1>2 DEF Toggles

\* The keymap a device's keyboards get, from what it uses field by field.
LEMMA LayoutUsed ==
  ASSUME NEW m, NEW d, NEW n,
         Used(m, d, "layout") = Used(n, d, "layout"), Used(m, d, "variant") = Used(n, d, "variant")
  PROVE  SetLayout(InUse(m, d)) = SetLayout(InUse(n, d))
<1> DEFINE K(x) == <<Used(x, d, "layout"), Used(x, d, "variant")>>
<1>1. ASSUME NEW x
      PROVE  SetLayout(InUse(x, d)) = IF K(x) \in Compiles THEN K(x) ELSE <<Unset, Unset>>
  <2>1. CASE InUse(x, d) = NoConfig
    BY <2>1, InputConstants DEF SetLayout, Used
  <2>2. CASE InUse(x, d) # NoConfig
    BY <2>2 DEF SetLayout, Used, Good, KeymapOf
  <2> QED
    BY <2>1, <2>2
<1>2. K(m) = K(n)
  OBVIOUS
<1> QED
  BY <1>1, <1>2

------------------------------------------------------------------------------
(***************************************************************************)
(* Seats.                                                                  *)
(***************************************************************************)
SeatsOK(sc) == sc \in [SeatNames \cup {Star} -> SeatConfig \cup {NoConfig}]

\* Some seat says whether it is a fallback.
HasFallback(sc, ss) == \E n \in ss : sc[n] # NoConfig /\ sc[n].fallback # Unset

LEMMA NewSeatType ==
  /\ NewSeatConfig \in SeatConfig /\ [NewSeatConfig EXCEPT !.fallback = TRUE] \in SeatConfig
  /\ [NewSeatConfig EXCEPT !.fallback = TRUE].fallback # Unset /\ NoConfig \notin SeatConfig
BY InputConstants DEF NewSeatConfig, SeatConfig

LEMMA MergeSeatType ==
  ASSUME NEW c \in SeatConfig, NEW set \in SeatConfig
  PROVE  /\ MergeSeat(c, set) \in SeatConfig /\ MergeSeat(c, set) # NoConfig
         /\ c.fallback # Unset \/ set.fallback # Unset => MergeSeat(c, set).fallback # Unset
<1>1. MergeSeat(c, set) \in SeatConfig
  BY DEF MergeSeat, SeatConfig
<1> QED
  BY <1>1, NewSeatType DEF MergeSeat

LEMMA StoreSeatType ==
  ASSUME NEW sc, SeatsOK(sc), NEW name \in SeatNames \cup {Star}, NEW set \in SeatConfig
  PROVE  LET r == StoreSeatConfig(sc, name, set)
         IN  /\ SeatsOK(r) /\ r[name] # NoConfig
             /\ set.fallback # Unset => r[name].fallback # Unset
             /\ \A n \in SeatNames \cup {Star} : sc[n] # NoConfig =>
                  r[n] # NoConfig /\ (sc[n].fallback # Unset => r[n].fallback # Unset)
<1> DEFINE N == SeatNames \cup {Star}
           r == StoreSeatConfig(sc, name, set)
           base == IF sc[name] # NoConfig THEN sc[name]
                   ELSE IF name # Star /\ sc[Star] # NoConfig THEN sc[Star] ELSE NewSeatConfig
<1>1. sc \in [N -> SeatConfig \cup {NoConfig}] /\ DOMAIN sc = N /\ Star \in N
  BY DEF SeatsOK
<1>2. /\ r = [n \in N |-> r[n]] /\ r[name] = MergeSeat(base, set)
      /\ \A n \in N \ {name} :
           r[n] = IF name = Star /\ sc[n] # NoConfig THEN MergeSeat(sc[n], set) ELSE sc[n]
  BY <1>1 DEF StoreSeatConfig
<1>3. base \in SeatConfig
  BY <1>1, NewSeatType
<1>4. sc[name] # NoConfig => base = sc[name]
  OBVIOUS
<1> HIDE DEF r, base, N
<1>5. /\ r[name] \in SeatConfig /\ r[name] # NoConfig
      /\ set.fallback # Unset => r[name].fallback # Unset
      /\ sc[name] # NoConfig /\ sc[name].fallback # Unset => r[name].fallback # Unset
  BY <1>2, <1>3, <1>4, MergeSeatType
<1>6. ASSUME NEW n \in N \ {name}
      PROVE  /\ r[n] \in SeatConfig \cup {NoConfig}
             /\ sc[n] # NoConfig =>
                  r[n] # NoConfig /\ (sc[n].fallback # Unset => r[n].fallback # Unset)
  <2>1. sc[n] \in SeatConfig \cup {NoConfig}
    BY <1>1
  <2>2. CASE name = Star /\ sc[n] # NoConfig
    BY <1>2, <2>1, <2>2, MergeSeatType
  <2>3. CASE ~(name = Star /\ sc[n] # NoConfig)
    <3>1. r[n] = sc[n]
      BY <1>2, <2>3
    <3> QED
      BY <2>1, <3>1
  <2> QED
    BY <2>2, <2>3
<1>7. \A n \in N : r[n] \in SeatConfig \cup {NoConfig}
  BY <1>5, <1>6
<1>8. r \in [N -> SeatConfig \cup {NoConfig}]
  <2>1. [n \in N |-> r[n]] \in [N -> SeatConfig \cup {NoConfig}]
    BY <1>7
  <2> QED
    BY <1>2, <2>1
<1>9. \A n \in N : sc[n] # NoConfig =>
        r[n] # NoConfig /\ (sc[n].fallback # Unset => r[n].fallback # Unset)
  BY <1>5, <1>6
<1> QED
  BY <1>5, <1>8, <1>9 DEF SeatsOK, r, N

\* Afterwards there is a fallback, the default seat when nobody else is one.
LEMMA VerifyFallbackIs ==
  ASSUME NEW sc, SeatsOK(sc), NEW ss
  PROVE  LET r == VerifyFallbackSeat(sc, ss)
         IN  /\ SeatsOK(r) /\ HasFallback(r, ss \cup {Seat0})
             /\ HasFallback(r, ss) \/ (r[Seat0] # NoConfig /\ r[Seat0].fallback # Unset)
             /\ HasFallback(sc, ss) => r = sc
<1> DEFINE one == [NewSeatConfig EXCEPT !.fallback = TRUE]
<1>1. CASE HasFallback(sc, ss)
  BY <1>1 DEF VerifyFallbackSeat, HasFallback
<1>2. CASE ~HasFallback(sc, ss)
  <2>1. VerifyFallbackSeat(sc, ss) = StoreSeatConfig(sc, Seat0, one)
    BY <1>2 DEF VerifyFallbackSeat, HasFallback
  <2>2. one \in SeatConfig /\ one.fallback # Unset /\ Seat0 \in SeatNames \cup {Star}
    BY NewSeatType, InputConstants
  <2> HIDE DEF one
  <2>3. /\ SeatsOK(StoreSeatConfig(sc, Seat0, one))
        /\ StoreSeatConfig(sc, Seat0, one)[Seat0] # NoConfig
        /\ StoreSeatConfig(sc, Seat0, one)[Seat0].fallback # Unset
    BY <2>2, StoreSeatType
  <2> QED
    BY <1>2, <2>1, <2>3 DEF HasFallback
<1> QED
  BY <1>1, <1>2

------------------------------------------------------------------------------
(***************************************************************************)
(* Reading a configuration.                                                *)
(***************************************************************************)
InputsRead == {m \in [Identifiers -> Config \cup {NoConfig}] : ConfigsOK(m) /\ Compiling(m, {})}
ReadSoFar == [input : InputsRead, seat : {sc \in [SeatNames \cup {Star} -> SeatConfig \cup {NoConfig}] : SeatsOK(sc)}]

LEMMA ReadLineType ==
  ASSUME present \in SUBSET Devices, NEW c \in ReadSoFar, NEW l \in InputLines \cup SeatLines
  PROVE  ReadLine(c, l) \in ReadSoFar
<1>1. /\ c.input \in InputsRead /\ SeatsOK(c.seat)
      /\ ConfigsOK(c.input) /\ Compiling(c.input, {})
  BY DEF ReadSoFar, InputsRead
<1>2. CASE l \in SeatLines
  <2>1. l.name \in SeatNames \cup {Star} /\ l.set \in SeatConfig
    BY <1>2, InputConstants
  <2>2. SeatsOK(StoreSeatConfig(c.seat, l.name, l.set))
    BY <1>1, <2>1, StoreSeatType
  <2>3. ReadLine(c, l) = [c EXCEPT !.seat = StoreSeatConfig(c.seat, l.name, l.set)]
    BY <1>2 DEF ReadLine
  <2> QED
    BY <2>2, <2>3 DEF ReadSoFar, SeatsOK
<1>3. CASE l \notin SeatLines /\ Valid(c.input, l.id, l.set, present)
  <2> DEFINE r == StoreInputConfig(c.input, l.id, l.set, present)
  <2>1. l.id \in Identifiers /\ l.set \in Config
    BY <1>3, InputConstants
  <2>2. ConfigsOK(r) /\ Compiling(r, {})
    BY <1>1, <1>3, <2>1, StoreType, StoreGood
  <2>3. ReadLine(c, l) = [c EXCEPT !.input = r]
    BY <1>3 DEF ReadLine
  <2> HIDE DEF r
  <2>4. r \in InputsRead
    BY <2>2 DEF InputsRead, ConfigsOK
  <2> QED
    BY <2>3, <2>4 DEF ReadSoFar
<1>4. CASE l \notin SeatLines /\ ~Valid(c.input, l.id, l.set, present)
  BY <1>4 DEF ReadLine
<1> QED
  BY <1>2, <1>3, <1>4

LEMMA ReadConfigType ==
  ASSUME present \in SUBSET Devices, NEW script \in Scripts
  PROVE  /\ ConfigsOK(ReadConfig(script).input) /\ Compiling(ReadConfig(script).input, {})
         /\ SeatsOK(ReadConfig(script).seat)
<1> DEFINE n == Len(script)
           T == ReadSoFar
           empty == [input |-> [id \in Identifiers |-> NoConfig],
                     seat |-> [s \in SeatNames \cup {Star} |-> NoConfig]]
           Step(c, i) == ReadLine(c, script[i])
           g == [z \in T \X (1 .. n) |-> Step(z[1], z[2])]
<1>0. script \in Seq(InputLines \cup SeatLines)
  BY InputConstants
<1>1. n \in Nat /\ \A i \in 1 .. n : script[i] \in InputLines \cup SeatLines
  BY <1>0, LenProperties, ElementOfSeq
<1>2. empty \in T
  <2> DEFINE m == [id \in Identifiers |-> NoConfig]
  <2>1. \A i \in Identifiers : m[i] = NoConfig
    OBVIOUS
  <2>2. m \in [Identifiers -> Config \cup {NoConfig}]
    OBVIOUS
  <2> HIDE DEF m
  <2>3. m \in InputsRead
    BY <2>1, <2>2, StarApart DEF InputsRead, ConfigsOK, Compiling, Stored
  <2> DEFINE s == [k \in SeatNames \cup {Star} |-> NoConfig]
  <2>4. SeatsOK(s)
    BY DEF SeatsOK
  <2> HIDE DEF s
  <2>5. [input |-> m, seat |-> s] \in ReadSoFar
    BY <2>3, <2>4 DEF ReadSoFar, SeatsOK
  <2> QED
    BY <2>5 DEF m, s
<1> HIDE DEF empty
<1>5. ASSUME NEW c \in T, NEW i \in 1 .. n
      PROVE  Step(c, i) \in T
  BY <1>1, ReadLineType
<1> HIDE DEF T, n
<1>6. g \in [T \X (1 .. n) -> T]
  <2> HIDE DEF Step
  <2> QED
    BY <1>5
<1>7. PICK h : Walk(h, n, T, empty, g)
  <2> HIDE DEF g
  <2> QED
    BY <1>1, <1>2, <1>6, FoldExists
<1> DEFINE E(x) == [i \in 0 .. n |-> IF i = 0 THEN empty ELSE Step(x[i-1], i)]
           w == CHOOSE x : x = E(x)
<1>8. ASSUME NEW i \in 1 .. n PROVE h[i] = Step(h[i - 1], i)
  <2>1. <<h[i - 1], i>> \in T \X (1 .. n)
    BY <1>1, <1>7 DEF Walk
  <2> HIDE DEF Step
  <2> QED
    BY <1>7, <2>1 DEF Walk
<1>9. h = E(h)
  <2>1. h = [i \in 0 .. n |-> h[i]] /\ h[0] = empty
    BY <1>7 DEF Walk
  <2> HIDE DEF Step
  <2>2. \A i \in 0 .. n : i = 0 \/ i \in 1 .. n
    BY <1>1
  <2>3. \A i \in 0 .. n : h[i] = IF i = 0 THEN empty ELSE Step(h[i - 1], i)
    BY <1>8, <2>1, <2>2
  <2>4. [i \in 0 .. n |-> h[i]] = E(h)
    BY <2>3
  <2> QED
    BY <2>1, <2>4
<1>10. w = E(w)
  BY <1>9
<1>11. ReadConfig(script) = w[n]
  BY DEF ReadConfig, n, empty
<1> HIDE DEF w
<1>12. w[0] = empty /\ \A i \in 1 .. n : w[i] = Step(w[i - 1], i)
  <2> HIDE DEF Step
  <2>1. \A i \in 0 .. n : w[i] = E(w)[i]
    BY <1>10
  <2> QED
    BY <1>1, <2>1
<1> DEFINE G == {i \in 0 .. n : w[i] \in T}
<1>13. 0 \in G
  BY <1>1, <1>2, <1>12
<1>14. ASSUME NEW i \in 1 .. n, i - 1 \in G PROVE i \in G
  <2> HIDE DEF Step
  <2> QED
    BY <1>1, <1>5, <1>12, <1>14
<1> HIDE DEF G
<1>15. \A i \in 0 .. n : i \in G
  BY <1>1, <1>13, <1>14, Counting
<1>16. n \in 0 .. n
  BY <1>1
<1>17. w[n] \in ReadSoFar
  BY <1>15, <1>16 DEF G, T
<1> QED
  BY <1>11, <1>17 DEF ReadSoFar, InputsRead

------------------------------------------------------------------------------
(***************************************************************************)
(* The invariant.  What was said to a device is forgotten when it goes,    *)
(* which is when its configuration may be put on top of its type's; and    *)
(* there is always a fallback seat, so that a device that appears moves no *)
(* other.                                                                  *)
(***************************************************************************)
SettingsTypes ==
  /\ ConfigsOK(configs) /\ SeatsOK(seatConf) /\ seats \subseteq SeatNames
  /\ present \subseteq Devices /\ layered \subseteq Devices
  /\ said \in [Devices -> Config]
  /\ DOMAIN events = Devices /\ DOMAIN keymap = Devices /\ DOMAIN holds = Devices

Unsaid == \A d \in Devices \ present : said[d] = Blank

SaidRules ==
  \A d \in Devices : \A f \in Fields :
    ReachedIn(configs, d) /\ said[d][f] # Unset /\ (f = "events" => d \notin untold)
      => Used(configs, d, f) = said[d][f]

EventsFit ==
  \A d \in present \ virtual :
    InUse(configs, d) # NoConfig /\ ~modeset /\ d \notin untold
      => events[d] = SendEvents(InUse(configs, d), online)

KeymapsFit ==
  \A d \in present \ virtual : holds[d] # {} => keymap[d] = SetLayout(InUse(configs, d))

SettingsInv ==
  /\ SettingsTypes /\ Unsaid /\ SaidRules /\ EventsFit /\ KeymapsFit
  /\ DevicesPlaced /\ HasFallback(seatConf, seats) /\ Compiling(configs, layered)

LEMMA SettingsInit == InputConfigInit => SettingsInv
<1> SUFFICES ASSUME InputConfigInit
             PROVE  SettingsInv
  OBVIOUS
<1>1. /\ configs = [i \in Identifiers |-> NoConfig] /\ present = {} /\ seats = {Seat0}
      /\ said = [d \in Devices |-> Blank] /\ layered = {}
      /\ DOMAIN events = Devices /\ DOMAIN keymap = Devices /\ DOMAIN holds = Devices
  BY DEF InputConfigInit
<1>2. \A i \in Identifiers : ~Stored(configs, i)
  BY <1>1 DEF Stored
<1>3. ConfigsOK(configs) /\ Compiling(configs, layered)
  BY <1>1, <1>2, StarApart DEF ConfigsOK, Compiling
<1>4. SeatsOK(seatConf)
  BY NewSeatType DEF InputConfigInit, SeatsOK
<1>5. HasFallback(seatConf, seats)
  BY <1>1, NewSeatType, InputConstants DEF InputConfigInit, HasFallback
<1>6. SettingsTypes
  BY <1>1, <1>3, <1>4, BlankType, InputConstants DEF SettingsTypes
<1>7. Unsaid /\ SaidRules
  BY <1>1, BlankGood DEF Unsaid, SaidRules
<1>8. EventsFit /\ KeymapsFit /\ DevicesPlaced
  BY <1>1 DEF EventsFit, KeymapsFit, DevicesPlaced
<1> QED
  BY <1>3, <1>5, <1>6, <1>7, <1>8 DEF SettingsInv

LEMMA MatchingIs ==
  ASSUME NEW id, NEW d \in Devices
  PROVE  d \in Matching(id) <=> d \in present /\ Covers(id, d)
BY DEF Matching, Covers

\* When every covered device finds what it is told on top of what it found, and
\* the others what they found, what was said still rules.
LEMMA SayRules ==
  ASSUME SettingsInv, NEW ds \in SUBSET present, NEW s, \A d \in ds : s[d] \in Config,
         said' = [d \in Devices |-> IF d \in ds THEN Merge(said[d], s[d]) ELSE said[d]],
         \A d \in ds : ReachedIn(configs', d) =>
           /\ ReachedIn(configs, d)
           /\ \A f \in Fields : Used(configs', d, f) = Told(Used(configs, d, f), s[d], f),
         \A d \in present \ ds :
           configs'[d] = configs[d] /\ InUse(configs', d) = InUse(configs, d),
         present' = present, untold' = untold
  PROVE  said' \in [Devices -> Config] /\ Unsaid' /\ SaidRules'
<1>1. /\ said \in [Devices -> Config] /\ present \subseteq Devices /\ Unsaid /\ SaidRules
  BY DEF SettingsInv, SettingsTypes
<1>2. \A d \in ds : /\ Merge(said[d], s[d]) \in Config
                    /\ \A f \in Fields : Merge(said[d], s[d])[f] = Told(said[d][f], s[d], f)
  BY <1>1, MergeType
<1>3. said' \in [Devices -> Config]
  BY <1>1, <1>2
<1>4. Unsaid'
  BY <1>1 DEF Unsaid
<1>5. ASSUME NEW d \in Devices, NEW f \in Fields, ReachedIn(configs', d), said'[d][f] # Unset,
             f = "events" => d \notin untold
      PROVE  Used(configs', d, f) = said'[d][f]
  <2>1. CASE d \in ds
    <3>1. said'[d][f] = Told(said[d][f], s[d], f)
      BY <1>2, <2>1
    <3>2. /\ ReachedIn(configs, d)
          /\ Used(configs', d, f) = Told(Used(configs, d, f), s[d], f)
      BY <1>5, <2>1
    <3>3. CASE s[d][f] # Unset
      BY <3>1, <3>2, <3>3 DEF Told
    <3>4. CASE s[d][f] = Unset
      <4>1. said'[d][f] = said[d][f] /\ Used(configs', d, f) = Used(configs, d, f)
        BY <3>1, <3>2, <3>4 DEF Told
      <4> QED
        BY <1>1, <1>5, <3>2, <4>1 DEF SaidRules
    <3> QED
      BY <3>3, <3>4
  <2>2. CASE d \in present \ ds
    <3>1. said'[d] = said[d] /\ ReachedIn(configs, d) /\ Used(configs', d, f) = Used(configs, d, f)
      BY <1>5, <2>2 DEF ReachedIn, Stored, Used
    <3> QED
      BY <1>1, <1>5, <3>1 DEF SaidRules
  <2>3. CASE d \notin present
    <3>1. said'[d] = Blank
      BY <1>1, <2>3 DEF Unsaid
    <3> QED
      BY <1>5, <3>1, BlankGood
  <2> QED
    BY <2>1, <2>2, <2>3
<1> QED
  BY <1>3, <1>4, <1>5 DEF SaidRules

\* When all covered devices are configured, what devices do fits what they use.
LEMMA AppliedFits ==
  ASSUME SettingsInv, NEW id, ApplyInputConfig(id),
         \A d \in present : ~Covers(id, d) => InUse(configs', d) = InUse(configs, d),
         UNCHANGED <<holds, present, virtual, online, modeset, untold>>
  PROVE  EventsFit' /\ KeymapsFit' /\ DOMAIN events' = Devices /\ DOMAIN keymap' = Devices
<1>1. present \subseteq Devices /\ EventsFit /\ KeymapsFit
  BY DEF SettingsInv, SettingsTypes
<1>2. /\ DOMAIN events' = Devices /\ DOMAIN keymap' = Devices
      /\ \A d \in present \ virtual :
           /\ events'[d] = IF d \in Matching(id) /\ InUse(configs', d) # NoConfig
                           THEN SendEvents(InUse(configs', d), online) ELSE events[d]
           /\ keymap'[d] = IF d \in Matching(id) /\ holds[d] # {}
                           THEN SetLayout(InUse(configs', d)) ELSE keymap[d]
  BY <1>1 DEF ApplyInputConfig, ConfigureLibinput, ConfigureKeyboards, Held
<1>3. \A d \in present : d \notin Matching(id) => InUse(configs', d) = InUse(configs, d)
  BY <1>1, MatchingIs
<1>4. ASSUME NEW d \in present \ virtual, InUse(configs', d) # NoConfig, ~modeset, d \notin untold
      PROVE  events'[d] = SendEvents(InUse(configs', d), online)
  <2>1. CASE d \in Matching(id)
    BY <1>2, <1>4, <2>1
  <2>2. CASE d \notin Matching(id)
    <3>1. events'[d] = events[d] /\ InUse(configs', d) = InUse(configs, d)
      BY <1>2, <1>3, <2>2
    <3> QED
      BY <1>1, <1>4, <3>1 DEF EventsFit
  <2> QED
    BY <2>1, <2>2
<1>5. ASSUME NEW d \in present \ virtual, holds[d] # {}
      PROVE  keymap'[d] = SetLayout(InUse(configs', d))
  <2>1. CASE d \in Matching(id)
    BY <1>2, <1>5, <2>1
  <2>2. CASE d \notin Matching(id)
    <3>1. keymap'[d] = keymap[d] /\ InUse(configs', d) = InUse(configs, d)
      BY <1>2, <1>3, <2>2
    <3> QED
      BY <1>1, <1>5, <3>1 DEF KeymapsFit
  <2> QED
    BY <2>1, <2>2
<1> QED
  BY <1>2, <1>4, <1>5 DEF EventsFit, KeymapsFit

LEMMA CmdInputKeeps ==
  ASSUME SettingsInv, NEW l \in InputLines, CmdInput(l)
  PROVE  SettingsInv'
<1> DEFINE id == l.id
           set == l.set
           r == StoreInputConfig(configs, id, set, present)
<1>1. SettingsTypes /\ id \in Identifiers /\ set \in Config
  BY InputConstants DEF SettingsInv
<1>2. UNCHANGED <<seatConf, seats, holds, present, virtual, online, modeset, layered, untold>>
  BY DEF CmdInput
<1>3. CASE Valid(configs, id, set, present)
  <2>1. configs' = r /\ ApplyInputConfig(id) /\ Note(Matching(id), set)
    BY <1>3 DEF CmdInput
  <2>2. ConfigsOK(configs') /\ Compiling(configs', layered)
    BY <1>1, <1>3, <2>1, StoreType, StoreGood DEF SettingsInv, SettingsTypes
  <2>3. \A d \in present : ~Covers(id, d) =>
          configs'[d] = configs[d] /\ InUse(configs', d) = InUse(configs, d)
    BY <1>1, <2>1, StoreSpares DEF SettingsTypes
  <2>4. \A d \in present : Covers(id, d) /\ ReachedIn(configs', d) =>
          /\ ReachedIn(configs, d)
          /\ \A f \in Fields : Used(configs', d, f) = Told(Used(configs, d, f), set, f)
    BY <1>1, <2>1, StoreUses, StoreReached DEF SettingsTypes, Used
  <2>5. EventsFit' /\ KeymapsFit' /\ DOMAIN events' = Devices /\ DOMAIN keymap' = Devices
    BY <1>2, <2>1, <2>3, AppliedFits
  <2>6. said' \in [Devices -> Config] /\ Unsaid' /\ SaidRules'
    <3> DEFINE s == [d \in Devices |-> set]
               ds == Matching(id)
    <3>1. /\ ds \in SUBSET present /\ present \subseteq Devices
          /\ \A d \in present : d \in ds <=> Covers(id, d)
      BY <1>1, MatchingIs DEF Matching, SettingsTypes
    <3>2. \A d \in ds : s[d] = set
      BY <3>1
    <3> HIDE DEF ds, s
    <3>3. said' = [d \in Devices |-> IF d \in ds THEN Merge(said[d], s[d]) ELSE said[d]]
      BY <2>1, <3>2 DEF Note, ds
    <3>4. \A d \in ds : ReachedIn(configs', d) =>
           /\ ReachedIn(configs, d)
           /\ \A f \in Fields : Used(configs', d, f) = Told(Used(configs, d, f), s[d], f)
      BY <2>4, <3>1, <3>2
    <3>5. \A d \in present \ ds :
           configs'[d] = configs[d] /\ InUse(configs', d) = InUse(configs, d)
      BY <2>3, <3>1
    <3>6. \A d \in ds : s[d] \in Config
      BY <1>1, <3>2
    <3> QED
      BY <1>2, <3>1, <3>3, <3>4, <3>5, <3>6, SayRules
  <2>7. SettingsTypes'
    BY <1>1, <1>2, <2>2, <2>5, <2>6 DEF SettingsTypes
  <2> QED
    BY <1>2, <2>2, <2>5, <2>6, <2>7 DEF SettingsInv, DevicesPlaced
<1>4. CASE ~Valid(configs, id, set, present)
  <2>1. UNCHANGED <<configs, events, keymap, said>>
    BY <1>4 DEF CmdInput
  <2> QED
    BY <1>2, <2>1 DEF SettingsInv, SettingsTypes, Unsaid, SaidRules, EventsFit, KeymapsFit, DevicesPlaced
<1> QED
  BY <1>3, <1>4

LEMMA CmdEventsToggleKeeps ==
  ASSUME SettingsInv, NEW id \in Identifiers, CmdEventsToggle(id)
  PROVE  SettingsInv'
<1> DEFINE D == IF id \in Devices THEN {} ELSE Matching(id)
           each == IF id \in Devices THEN configs ELSE ToggleEach(configs, SetToSeq(Matching(id)))
           set == IF id \in Devices /\ id \in present THEN ToggledSet(id) ELSE Blank
           r == StoreInputConfig(each, id, set, present)
<1>1. /\ SettingsTypes /\ ConfigsOK(configs) /\ present \subseteq Devices /\ layered \in SUBSET Devices
      /\ Compiling(configs, layered)
  BY DEF SettingsInv, SettingsTypes
<1>2. UNCHANGED <<seatConf, seats, holds, present, virtual, online, modeset, layered>>
  BY DEF CmdEventsToggle
<1>3. D \in SUBSET present /\ Matching(id) \in SUBSET present
  BY DEF Matching
<1>4. Toggles(each, D, D)
  <2>1. CASE id \in Devices
    BY <1>1, <2>1 DEF Toggles
  <2>2. CASE id \notin Devices
    <3> DEFINE q == SetToSeq(D)
    <3>1. IsFiniteSet(D)
      BY <1>1, <1>3, FS_Subset, InputConstants
    <3>2. q \in Seq(D) /\ \A d \in D : \E i \in 1 .. Len(q) : q[i] = d
      BY <3>1, SetToSeqIs
    <3>3. each = ToggleEach(configs, q)
      BY <2>2
    <3> HIDE DEF q, D, each
    <3> QED
      BY <1>1, <1>3, <3>2, <3>3, ToggleWalk
  <2> QED
    BY <2>1, <2>2
<1>5. set \in Config /\ ConfigsOK(each)
  BY <1>4, BlankType, ToggledType DEF Toggles
<1>6. Compiling(each, layered)
  <2> HIDE DEF D, each
  <2> QED
    BY <1>1, <1>3, <1>4, EachGood
<1>7. /\ \A d \in Devices \ D : each[d] = configs[d] /\ InUse(each, d) = InUse(configs, d)
      /\ \A d \in D : /\ ReachedIn(each, d) => ReachedIn(configs, d)
                      /\ InUse(each, d) # NoConfig
                      /\ \A f \in Fields :
                           Used(each, d, f) = Told(Used(configs, d, f), ToggledSet(d), f)
  <2> HIDE DEF D, each
  <2> QED
    BY <1>1, <1>3, <1>4, EachUses
<1>8. CASE Valid(each, id, set, present)
  <2>1. /\ configs' = r /\ ApplyInputConfig(id) /\ untold' = untold
        /\ said' = [d \in Devices |-> IF d \in Matching(id) THEN Merge(said[d], ToggledSet(d)) ELSE said[d]]
    BY <1>8 DEF CmdEventsToggle
  <2>2. \A d \in present : (d \in Matching(id) <=> Covers(id, d)) /\ (d \in D => Covers(id, d))
    BY <1>1, MatchingIs
  <2>3. id \in Devices => \A d \in present : Covers(id, d) => d = id /\ set = ToggledSet(d)
    BY <1>1, StarApart DEF Covers
  <2>4. id \notin Devices => set = Blank /\ D = Matching(id)
    OBVIOUS
  <2>5. id \in Devices => D = {}
    OBVIOUS
  <2> HIDE DEF D, each, set
  <2>6. ConfigsOK(configs') /\ Compiling(configs', layered)
    BY <1>1, <1>5, <1>6, <1>8, <2>1, StoreType, StoreGood
  <2>7. \A d \in present : ~Covers(id, d) =>
          configs'[d] = configs[d] /\ InUse(configs', d) = InUse(configs, d)
    BY <1>1, <1>5, <1>7, <2>1, <2>2, StoreSpares
  <2>8. ASSUME NEW d \in present, Covers(id, d), ReachedIn(configs', d)
        PROVE  /\ ReachedIn(configs, d)
               /\ \A f \in Fields : Used(configs', d, f) = Told(Used(configs, d, f), ToggledSet(d), f)
    <3>1. /\ ReachedIn(each, d)
          /\ \A f \in Fields : Used(configs', d, f) = Told(Used(each, d, f), set, f)
      BY <1>1, <1>5, <2>1, <2>8, StoreUses, StoreReached DEF Used
    <3>2. CASE id \in Devices
      <4>1. d \in Devices \ D /\ set = ToggledSet(d)
        BY <1>1, <2>3, <2>5, <2>8, <3>2
      <4>2. each[d] = configs[d] /\ InUse(each, d) = InUse(configs, d)
        BY <1>7, <4>1
      <4> QED
        BY <3>1, <4>1, <4>2 DEF Used, ReachedIn, Stored
    <3>3. CASE id \notin Devices
      <4>1. d \in D /\ set = Blank
        BY <2>2, <2>4, <2>8, <3>3
      <4>2. \A f \in Fields : Used(configs', d, f) = Used(each, d, f)
        BY <3>1, <4>1, BlankGood DEF Told
      <4> QED
        BY <1>7, <3>1, <4>1, <4>2
    <3> QED
      BY <3>2, <3>3
  <2>9. EventsFit' /\ KeymapsFit' /\ DOMAIN events' = Devices /\ DOMAIN keymap' = Devices
    BY <1>2, <2>1, <2>7, AppliedFits
  <2>10. said' \in [Devices -> Config] /\ Unsaid' /\ SaidRules'
    <3> DEFINE s == [d \in Devices |-> ToggledSet(d)]
               ds == Matching(id)
    <3>1. \A d \in Devices : s[d] = ToggledSet(d) /\ s[d] \in Config
      BY ToggledType
    <3>2. /\ ds \in SUBSET present /\ \A d \in present : d \in ds <=> Covers(id, d)
      BY <1>3, <2>2
    <3> HIDE DEF ds, s
    <3>3. said' = [d \in Devices |-> IF d \in ds THEN Merge(said[d], s[d]) ELSE said[d]]
      BY <2>1, <3>1 DEF ds
    <3>4. \A d \in ds : ReachedIn(configs', d) =>
           /\ ReachedIn(configs, d)
           /\ \A f \in Fields : Used(configs', d, f) = Told(Used(configs, d, f), s[d], f)
      BY <1>1, <2>8, <3>1, <3>2
    <3>5. \A d \in present \ ds :
           configs'[d] = configs[d] /\ InUse(configs', d) = InUse(configs, d)
      BY <2>7, <3>2
    <3>6. \A d \in ds : s[d] \in Config
      BY <1>1, <3>1, <3>2
    <3> QED
      BY <1>2, <2>1, <3>2, <3>3, <3>4, <3>5, <3>6, SayRules
  <2>11. SettingsTypes'
    BY <1>1, <1>2, <2>6, <2>9, <2>10 DEF SettingsTypes
  <2> QED
    BY <1>2, <2>6, <2>9, <2>10, <2>11 DEF SettingsInv, DevicesPlaced
<1>9. CASE ~Valid(each, id, set, present)
  <2>1. configs' = each /\ untold' = untold \cup D /\ UNCHANGED <<events, keymap, said>>
    BY <1>9 DEF CmdEventsToggle
  <2> HIDE DEF D, each, set
  <2>2. SettingsTypes' /\ Unsaid'
    BY <1>1, <1>2, <1>5, <2>1 DEF SettingsTypes, SettingsInv, Unsaid
  <2>3. ASSUME NEW d \in Devices, NEW f \in Fields, ReachedIn(each, d), said[d][f] # Unset,
               f = "events" => d \notin untold \cup D
        PROVE  Used(each, d, f) = said[d][f]
    <3>1. CASE d \in D
      <4>1. ReachedIn(configs, d) /\ Used(each, d, f) = Told(Used(configs, d, f), ToggledSet(d), f)
        BY <1>7, <2>3, <3>1
      <4>2. f # "events" /\ ToggledSet(d)[f] = Unset
        BY <2>3, <3>1, ToggledType
      <4> QED
        BY <2>3, <4>1, <4>2 DEF Told, SettingsInv, SaidRules
    <3>2. CASE d \notin D
      <4>1. each[d] = configs[d] /\ InUse(each, d) = InUse(configs, d)
        BY <1>7, <3>2
      <4> QED
        BY <2>3, <4>1 DEF SettingsInv, SaidRules, ReachedIn, Stored, Used
    <3> QED
      BY <3>1, <3>2
  <2>4. SaidRules'
    BY <2>1, <2>3 DEF SaidRules
  <2>5. EventsFit'
    <3>1. \A d \in present : d \notin D => InUse(each, d) = InUse(configs, d)
      BY <1>1, <1>7
    <3> QED
      BY <1>2, <2>1, <3>1 DEF EventsFit, SettingsInv
  <2>6. \A d \in present : SetLayout(InUse(each, d)) = SetLayout(InUse(configs, d))
    <3> SUFFICES ASSUME NEW d \in present
                 PROVE  SetLayout(InUse(each, d)) = SetLayout(InUse(configs, d))
      OBVIOUS
    <3>1. CASE d \in D
      <4>1. {"layout", "variant"} \subseteq Fields \ {"events"}
        BY DEF Fields
      <4>2. ToggledSet(d)["layout"] = Unset /\ ToggledSet(d)["variant"] = Unset
        BY <4>1, ToggledType
      <4>3. /\ Used(each, d, "layout") = Used(configs, d, "layout")
            /\ Used(each, d, "variant") = Used(configs, d, "variant")
        BY <1>7, <3>1, <4>1, <4>2 DEF Told
      <4> QED
        BY <4>3, LayoutUsed
    <3>2. CASE d \notin D
      BY <1>1, <1>7, <3>2
    <3> QED
      BY <3>1, <3>2
  <2>7. KeymapsFit'
    BY <1>2, <2>1, <2>6 DEF KeymapsFit, SettingsInv
  <2> QED
    BY <1>2, <1>6, <2>1, <2>2, <2>4, <2>5, <2>7 DEF SettingsInv, DevicesPlaced
<1> QED
  BY <1>8, <1>9

LEMMA CmdSeatKeeps ==
  ASSUME SettingsInv, NEW l \in SeatLines, CmdSeat(l)
  PROVE  SettingsInv'
<1> DEFINE r == StoreSeatConfig(seatConf, l.name, l.set)
<1>1. /\ SettingsTypes /\ SeatsOK(seatConf) /\ present \subseteq Devices /\ seats \subseteq SeatNames
      /\ l.name \in SeatNames \cup {Star} /\ l.set \in SeatConfig /\ HasFallback(seatConf, seats)
  BY InputConstants DEF SettingsInv, SettingsTypes
<1>2. /\ UNCHANGED <<configs, events, present, virtual, online, modeset, said, layered, untold>>
      /\ seatConf' = r /\ seats' = seats \cup ({l.name} \ {Star})
      /\ holds' = [d \in Devices |-> IF d \in present THEN Placed(r, seats', d) ELSE {}]
      /\ keymap' = ConfigureKeyboards(keymap, configs, Held(holds'))
  BY DEF CmdSeat, ApplySeatConfig
<1>3. SeatsOK(r) /\ \A n \in SeatNames \cup {Star} : seatConf[n] # NoConfig =>
                      r[n] # NoConfig /\ (seatConf[n].fallback # Unset => r[n].fallback # Unset)
  BY <1>1, StoreSeatType
<1> HIDE DEF r
<1>4. HasFallback(r, seats')
  BY <1>1, <1>2, <1>3 DEF HasFallback
<1>5. DOMAIN holds' = Devices /\ DOMAIN keymap' = Devices /\ seats' \subseteq SeatNames
  BY <1>1, <1>2 DEF ConfigureKeyboards
<1>6. SettingsTypes'
  BY <1>1, <1>2, <1>3, <1>5 DEF SettingsTypes
<1>7. DevicesPlaced'
  BY <1>1, <1>2 DEF DevicesPlaced
<1>8. KeymapsFit'
  <2>1. \A d \in present \ virtual : holds'[d] # {} => keymap'[d] = SetLayout(InUse(configs, d))
    BY <1>1, <1>2 DEF ConfigureKeyboards, Held
  <2> QED
    BY <1>2, <2>1 DEF KeymapsFit
<1>9. Unsaid' /\ SaidRules' /\ EventsFit' /\ Compiling(configs, layered)'
  BY <1>2 DEF SettingsInv, Unsaid, SaidRules, EventsFit
<1> QED
  BY <1>2, <1>4, <1>6, <1>7, <1>8, <1>9 DEF SettingsInv

LEMMA LoadMainConfigKeeps ==
  ASSUME SettingsInv, NEW script \in Scripts, LoadMainConfig(script)
  PROVE  SettingsInv'
<1> DEFINE new == ReadConfig(script)
           sc == VerifyFallbackSeat(new.seat, seats)
           gone == (Named(seatConf) \ Named(sc)) \ {Star}
           ss == seats \cup (Named(sc) \ {Star})
<1>1. SettingsTypes /\ present \subseteq Devices /\ seats \subseteq SeatNames /\ SeatsOK(seatConf)
  BY DEF SettingsInv, SettingsTypes
<1>2. ConfigsOK(new.input) /\ Compiling(new.input, {}) /\ SeatsOK(new.seat)
  BY <1>1, ReadConfigType
<1>3. /\ SeatsOK(sc)
      /\ HasFallback(sc, seats) \/ (sc[Seat0] # NoConfig /\ sc[Seat0].fallback # Unset)
  <2> HIDE DEF new
  <2> QED
    BY <1>2, VerifyFallbackIs
<1>4. /\ configs' = new.input /\ seatConf' = sc /\ seats' = ss \ gone
      /\ holds' = [d \in Devices |-> IF d \in present THEN Placed(sc, ss, d) \ gone ELSE {}]
      /\ events' = ConfigureLibinput([d \in Devices |-> IF d \in virtual THEN events[d] ELSE "enabled"],
                                     new.input, present, online)
      /\ keymap' = ConfigureKeyboards(keymap, new.input, Held(holds) \cup Held(holds'))
      /\ said' = [d \in Devices |-> Blank] /\ layered' = {} /\ untold' = {}
      /\ UNCHANGED <<present, virtual, online, modeset>>
  BY DEF LoadMainConfig
<1> HIDE DEF new, sc
<1>5. DOMAIN sc = SeatNames \cup {Star} /\ Named(sc) \subseteq SeatNames \cup {Star}
      /\ \A n \in SeatNames \cup {Star} : n \in Named(sc) <=> sc[n] # NoConfig
  BY <1>3 DEF SeatsOK, Named
<1>6. ss \subseteq SeatNames /\ seats' \subseteq SeatNames
  BY <1>1, <1>4, <1>5
<1>7. HasFallback(sc, seats')
  <2>1. CASE HasFallback(sc, seats)
    <3>1. PICK n \in seats : sc[n] # NoConfig /\ sc[n].fallback # Unset
      BY <2>1 DEF HasFallback
    <3>2. n \in seats'
      BY <1>1, <1>4, <1>5, <3>1
    <3> QED
      BY <3>1, <3>2 DEF HasFallback
  <2>2. CASE sc[Seat0] # NoConfig /\ sc[Seat0].fallback # Unset
    <3>1. Seat0 \in seats'
      BY <1>4, <1>5, <2>2, InputConstants
    <3> QED
      BY <2>2, <3>1 DEF HasFallback
  <2> QED
    BY <1>3, <2>1, <2>2
<1>8. ASSUME NEW d \in present
      PROVE  Placed(sc, ss, d) \ gone = Placed(sc, seats', d)
  <2>1. {n \in ss : sc[n] # NoConfig /\ {d, Star} \cap sc[n].attach # {}}
        = {n \in seats' : sc[n] # NoConfig /\ {d, Star} \cap sc[n].attach # {}}
    BY <1>4, <1>5, <1>6
  <2>2. {n \in ss : sc[n] # NoConfig /\ sc[n].fallback = TRUE}
        = {n \in seats' : sc[n] # NoConfig /\ sc[n].fallback = TRUE}
    BY <1>4, <1>5, <1>6
  <2>3. Placed(sc, ss, d) = Placed(sc, seats', d)
    BY <2>1, <2>2 DEF Placed
  <2>4. \A n \in Placed(sc, seats', d) : n \notin gone
    BY <1>4 DEF Placed
  <2> QED
    BY <2>3, <2>4
<1>9. DevicesPlaced'
  BY <1>1, <1>4, <1>8 DEF DevicesPlaced
<1>10. /\ DOMAIN events' = Devices /\ DOMAIN keymap' = Devices /\ DOMAIN holds' = Devices
       /\ said' \in [Devices -> Config]
  BY <1>4, BlankType DEF ConfigureLibinput, ConfigureKeyboards
<1>11. SettingsTypes'
  BY <1>1, <1>2, <1>3, <1>4, <1>6, <1>10 DEF SettingsTypes
<1>12. Unsaid' /\ SaidRules'
  BY <1>4, BlankGood DEF Unsaid, SaidRules
<1>13. EventsFit'
  <2>1. \A d \in present \ virtual : InUse(new.input, d) # NoConfig =>
           events'[d] = SendEvents(InUse(new.input, d), online)
    BY <1>1, <1>4 DEF ConfigureLibinput
  <2> QED
    BY <1>4, <2>1 DEF EventsFit
<1>14. KeymapsFit'
  <2>1. \A d \in present \ virtual : holds'[d] # {} => keymap'[d] = SetLayout(InUse(new.input, d))
    BY <1>1, <1>4 DEF ConfigureKeyboards, Held
  <2> QED
    BY <1>4, <2>1 DEF KeymapsFit
<1> QED
  BY <1>2, <1>4, <1>7, <1>9, <1>11, <1>12, <1>13, <1>14 DEF SettingsInv

LEMMA HandleNewInputKeeps ==
  ASSUME SettingsInv, NEW d \in Devices, HandleNewInput(d)
  PROVE  SettingsInv'
<1> DEFINE k == KindOf[d]
           b == [Blank EXCEPT !.kind = k]
<1>1. /\ SettingsTypes /\ ConfigsOK(configs) /\ SeatsOK(seatConf) /\ present \subseteq Devices
      /\ DOMAIN events = Devices /\ DOMAIN keymap = Devices /\ DOMAIN holds = Devices
      /\ layered \subseteq Devices /\ HasFallback(seatConf, seats) /\ Unsaid
      /\ said \in [Devices -> Config] /\ seats \subseteq SeatNames
  BY DEF SettingsInv, SettingsTypes
<1>2. VerifyFallbackSeat(seatConf, seats) = seatConf
  BY <1>1, VerifyFallbackIs
<1>3. /\ d \notin present /\ present' = present \cup {d} /\ virtual' = virtual \ {d}
      /\ configs' = ApplyInputTypeConfig(configs, d)
      /\ layered' = IF configs' # configs THEN layered \cup {d} ELSE layered
      /\ events' = [events EXCEPT ![d] = IF InUse(configs', d) # NoConfig
                                         THEN SendEvents(InUse(configs', d), online) ELSE "enabled"]
      /\ seatConf' = seatConf /\ seats' = seats
      /\ holds' = [e \in Devices |-> IF e = d THEN Placed(seatConf, seats, e) ELSE holds[e]]
      /\ keymap' = [keymap EXCEPT ![d] = IF holds'[d] # {} THEN SetLayout(InUse(configs', d))
                                         ELSE <<Unset, Unset>>]
      /\ UNCHANGED <<online, modeset, said, untold>>
  BY <1>2 DEF HandleNewInput
<1>4. /\ ConfigsOK(configs') /\ \A i \in Identifiers \ {d} : configs'[i] = configs[i]
  <2>1. CASE Stored(configs, k) /\ Stored(configs, d)
    <3>1. configs' = [configs EXCEPT ![d] = Merge(Merge(b, configs[k]), configs[d])]
      BY <1>3, <2>1 DEF ApplyInputTypeConfig
    <3>2. /\ configs \in [Identifiers -> Config \cup {NoConfig}] /\ d \in Identifiers /\ k \in Identifiers
          /\ b \in Config /\ b.kind = k
      BY <1>1, StarApart, BlankType DEF ConfigsOK, Blank
    <3>3. configs[k] \in Config /\ configs[d] \in Config
      BY <2>1, <3>2 DEF Stored
    <3> HIDE DEF b
    <3>4. Merge(b, configs[k]) \in Config /\ Merge(b, configs[k]).kind = k
      BY <3>2, <3>3, MergeType
    <3> DEFINE x == Merge(b, configs[k])
               c == Merge(x, configs[d])
    <3> HIDE DEF x
    <3>5. c \in Config /\ c.kind = k
      BY <3>3, <3>4, MergeType DEF x
    <3>6. configs' = [configs EXCEPT ![d] = c]
      BY <3>1 DEF x
    <3> HIDE DEF c, k
    <3>7. \A e \in Devices : Stored(configs', e) => configs'[e].kind \in {Unset, KindOf[e]}
      BY <1>1, <3>2, <3>5, <3>6, StarApart DEF ConfigsOK, Stored, k
    <3> QED
      BY <3>2, <3>5, <3>6, <3>7 DEF ConfigsOK
  <2>2. CASE ~(Stored(configs, k) /\ Stored(configs, d))
    BY <1>1, <1>3, <2>2 DEF ApplyInputTypeConfig
  <2> QED
    BY <2>1, <2>2
<1>5. \A e \in Devices \ {d} :
        configs'[e] = configs[e] /\ InUse(configs', e) = InUse(configs, e)
  BY <1>4, StarApart DEF InUse, Stored
<1>6. DOMAIN events' = Devices /\ DOMAIN keymap' = Devices /\ DOMAIN holds' = Devices
  BY <1>1, <1>3
<1>7. layered' \subseteq Devices
  BY <1>1, <1>3
<1>8. SettingsTypes'
  BY <1>1, <1>3, <1>4, <1>6, <1>7 DEF SettingsTypes
<1>9. Unsaid'
  BY <1>1, <1>3 DEF Unsaid
<1>10. SaidRules'
  <2> SUFFICES ASSUME NEW e \in Devices, NEW f \in Fields, ReachedIn(configs', e), said[e][f] # Unset,
                      f = "events" => e \notin untold
               PROVE  Used(configs', e, f) = said[e][f]
    BY <1>3 DEF SaidRules
  <2>1. e # d
    BY <1>1, <1>3, BlankGood DEF Unsaid
  <2>2. ReachedIn(configs, e) /\ Used(configs', e, f) = Used(configs, e, f)
    BY <1>5, <2>1 DEF ReachedIn, Stored, Used
  <2> QED
    BY <2>2 DEF SettingsInv, SaidRules
<1>11. \A e \in present : e # d /\ events'[e] = events[e] /\ keymap'[e] = keymap[e] /\ holds'[e] = holds[e]
  BY <1>1, <1>3
<1>12. EventsFit'
  <2>1. \A e \in present' : e = d \/ e \in present
    BY <1>3
  <2>2. InUse(configs', d) # NoConfig => events'[d] = SendEvents(InUse(configs', d), online)
    BY <1>1, <1>3
  <2>3. \A e \in present \ virtual' :
          InUse(configs', e) # NoConfig /\ ~modeset /\ e \notin untold
            => events'[e] = SendEvents(InUse(configs', e), online)
    BY <1>1, <1>3, <1>5, <1>11 DEF SettingsInv, EventsFit
  <2> QED
    BY <1>3, <2>1, <2>2, <2>3 DEF EventsFit
<1>13. KeymapsFit'
  <2>1. \A e \in present' : e = d \/ e \in present
    BY <1>3
  <2>2. holds'[d] # {} => keymap'[d] = SetLayout(InUse(configs', d))
    BY <1>1, <1>3
  <2>3. \A e \in present \ virtual' : holds'[e] # {} => keymap'[e] = SetLayout(InUse(configs', e))
    BY <1>1, <1>3, <1>5, <1>11 DEF SettingsInv, KeymapsFit
  <2> QED
    BY <2>1, <2>2, <2>3 DEF KeymapsFit
<1>14. DevicesPlaced'
  <2>1. \A e \in present' : e = d \/ e \in present
    BY <1>3
  <2>2. holds'[d] = Placed(seatConf, seats, d)
    BY <1>3
  <2> QED
    BY <1>1, <1>3, <1>11, <2>1, <2>2 DEF SettingsInv, DevicesPlaced
<1>15. Compiling(configs', layered')
  <2>1. CASE configs' = configs
    BY <1>3, <2>1 DEF SettingsInv
  <2>2. CASE configs' # configs
    BY <1>3, <1>4, <2>2 DEF SettingsInv, Compiling, Stored
  <2> QED
    BY <2>1, <2>2
<1>16. HasFallback(seatConf', seats')
  BY <1>1, <1>3
<1> QED
  BY <1>8, <1>9, <1>10, <1>12, <1>13, <1>14, <1>15, <1>16 DEF SettingsInv

LEMMA HandleVirtualKeeps ==
  ASSUME SettingsInv, NEW d \in Devices, NEW n \in SeatNames, HandleVirtual(d, n)
  PROVE  SettingsInv'
<1>1. SettingsTypes /\ DOMAIN holds = Devices /\ present \subseteq Devices
  BY DEF SettingsInv, SettingsTypes
<1>2. /\ d \notin present /\ present' = present \cup {d} /\ virtual' = virtual \cup {d}
      /\ holds' = [holds EXCEPT ![d] = {n}]
      /\ UNCHANGED <<configs, seatConf, seats, events, keymap, online, modeset, said, layered, untold>>
  BY DEF HandleVirtual
<1>3. SettingsTypes'
  BY <1>1, <1>2 DEF SettingsTypes
<1>4. \A e \in present' \ virtual' : e \in present \ virtual /\ holds'[e] = holds[e]
  BY <1>1, <1>2
<1>5. Unsaid' /\ SaidRules' /\ HasFallback(seatConf, seats)' /\ Compiling(configs, layered)'
  BY <1>2 DEF SettingsInv, Unsaid, SaidRules
<1>6. EventsFit' /\ KeymapsFit' /\ DevicesPlaced'
  BY <1>2, <1>4 DEF SettingsInv, EventsFit, KeymapsFit, DevicesPlaced
<1> QED
  BY <1>3, <1>5, <1>6 DEF SettingsInv

LEMMA HandleDeviceDestroyKeeps ==
  ASSUME SettingsInv, NEW d \in Devices, HandleDeviceDestroy(d)
  PROVE  SettingsInv'
<1>1. /\ SettingsTypes /\ DOMAIN holds = Devices /\ DOMAIN events = Devices /\ DOMAIN keymap = Devices
      /\ present \subseteq Devices /\ said \in [Devices -> Config]
  BY DEF SettingsInv, SettingsTypes
<1>2. /\ present' = present \ {d} /\ virtual' = virtual \ {d}
      /\ holds' = [holds EXCEPT ![d] = {}] /\ events' = [events EXCEPT ![d] = "enabled"]
      /\ keymap' = [keymap EXCEPT ![d] = <<Unset, Unset>>] /\ said' = [said EXCEPT ![d] = Blank]
      /\ UNCHANGED <<configs, seatConf, seats, online, modeset, layered, untold>>
  BY DEF HandleDeviceDestroy
<1>3. SettingsTypes'
  BY <1>1, <1>2, BlankType DEF SettingsTypes
<1>4. \A e \in present' \ virtual' : /\ e \in present \ virtual /\ holds'[e] = holds[e]
                                     /\ events'[e] = events[e] /\ keymap'[e] = keymap[e]
  BY <1>1, <1>2
<1>5. HasFallback(seatConf, seats)' /\ Compiling(configs, layered)'
  BY <1>2 DEF SettingsInv
<1>6. Unsaid' /\ SaidRules'
  <2>1. \A e \in Devices : said'[e] = Blank \/ (said'[e] = said[e] /\ e # d)
    BY <1>1, <1>2
  <2>2. Unsaid'
    BY <1>1, <1>2 DEF SettingsInv, Unsaid
  <2>3. SaidRules'
    BY <1>2, <2>1, BlankGood DEF SettingsInv, SaidRules
  <2> QED
    BY <2>2, <2>3
<1>7. EventsFit' /\ KeymapsFit' /\ DevicesPlaced'
  BY <1>2, <1>4 DEF SettingsInv, EventsFit, KeymapsFit, DevicesPlaced
<1> QED
  BY <1>3, <1>5, <1>6, <1>7 DEF SettingsInv

LEMMA OutputGoneKeeps ==
  ASSUME SettingsInv, NEW o \in Screens, OutputGone(o)
  PROVE  SettingsInv'
BY DEF SettingsInv, SettingsTypes, Unsaid, SaidRules, EventsFit, KeymapsFit, DevicesPlaced,
       OutputGone, conf

LEMMA ConfigureAllKeeps ==
  ASSUME SettingsInv, NEW up \in SUBSET Screens, ConfigureAllInputMappings(up)
  PROVE  SettingsInv'
<1>1. SettingsTypes /\ present \subseteq Devices
  BY DEF SettingsInv, SettingsTypes
<1>2. /\ online' = up /\ events' = ConfigureLibinput(events, configs, present, up)
      /\ UNCHANGED <<configs, seatConf, seats, holds, keymap, present, virtual, said, layered, untold>>
  BY DEF ConfigureAllInputMappings
<1>3. DOMAIN events' = Devices
  BY <1>2 DEF ConfigureLibinput
<1>4. SettingsTypes'
  BY <1>1, <1>2, <1>3 DEF SettingsTypes
<1>5. EventsFit'
  <2>1. \A d \in present \ virtual : InUse(configs, d) # NoConfig =>
          events'[d] = SendEvents(InUse(configs, d), up)
    BY <1>1, <1>2 DEF ConfigureLibinput
  <2> QED
    BY <1>2, <2>1 DEF EventsFit
<1>6. /\ Unsaid' /\ SaidRules' /\ KeymapsFit' /\ DevicesPlaced'
      /\ HasFallback(seatConf, seats)' /\ Compiling(configs, layered)'
  BY <1>2 DEF SettingsInv, Unsaid, SaidRules, KeymapsFit, DevicesPlaced
<1> QED
  BY <1>4, <1>5, <1>6 DEF SettingsInv

LEMMA SettingsNext == SettingsInv /\ [InputConfigNext]_icVars => SettingsInv'
<1> SUFFICES ASSUME SettingsInv, [InputConfigNext]_icVars
             PROVE  SettingsInv'
  OBVIOUS
<1>1. CASE UNCHANGED icVars
  BY <1>1 DEF icVars, conf, SettingsInv, SettingsTypes, Unsaid, SaidRules, EventsFit, KeymapsFit,
              DevicesPlaced
<1>2. CASE \E l \in InputLines : CmdInput(l)
  BY <1>2, CmdInputKeeps
<1>3. CASE \E id \in Identifiers : CmdEventsToggle(id)
  BY <1>3, CmdEventsToggleKeeps
<1>4. CASE \E l \in SeatLines : CmdSeat(l)
  BY <1>4, CmdSeatKeeps
<1>5. CASE \E script \in Scripts : LoadMainConfig(script)
  BY <1>5, LoadMainConfigKeeps
<1>6. CASE \E d \in Devices : HandleNewInput(d) \/ HandleDeviceDestroy(d)
  BY <1>6, HandleNewInputKeeps, HandleDeviceDestroyKeeps
<1>7. CASE \E d \in Devices, n \in SeatNames : HandleVirtual(d, n)
  BY <1>7, HandleVirtualKeeps
<1>8. CASE \E o \in Screens : OutputGone(o)
  BY <1>8, OutputGoneKeeps
<1>9. CASE \E up \in SUBSET Screens : ConfigureAllInputMappings(up)
  BY <1>9, ConfigureAllKeeps
<1> QED
  BY <1>1, <1>2, <1>3, <1>4, <1>5, <1>6, <1>7, <1>8, <1>9 DEF InputConfigNext

\* The invariant holds of every behaviour (the input manager, input-manager.c,
\* under cmd_input, cmd_seat, reloads and hot-plugging).
THEOREM SettingsStaySound == InputConfigSpec => []SettingsInv
<1>1. InputConfigInit => SettingsInv
  BY SettingsInit
<1>2. SettingsInv /\ [InputConfigNext]_icVars => SettingsInv'
  BY SettingsNext
<1> QED
  BY <1>1, <1>2, PTL DEF InputConfigSpec

\* Whatever identifiers commands were given under and in whatever order devices,
\* seats and outputs came: a device uses what it was last told, its events mode
\* and its keymap agree with what it uses, and it is on the seats that attach it
\* or on the fallback seats (cmd_input, input_manager_apply_seat_config).
THEOREM DevicesKeepObeying == InputConfigSpec => []DevicesObey
<1>1. SettingsInv => DevicesObey
  <2> SUFFICES ASSUME SettingsInv
               PROVE  DevicesObey
    OBVIOUS
  <2>1. SettingsTypes /\ present \subseteq Devices /\ SaidRules /\ EventsFit /\ KeymapsFit /\ DevicesPlaced
    BY DEF SettingsInv, SettingsTypes
  <2>2. LastCommandRules
    <3> SUFFICES ASSUME NEW d \in present, NEW f \in Fields, Reached(d), said[d][f] # Unset,
                        f = "events" => d \notin untold
                 PROVE  InUse(configs, d)[f] = said[d][f]
      BY DEF LastCommandRules
    <3>1. ReachedIn(configs, d)
      BY DEF Reached, ReachedIn, Stored
    <3>2. Used(configs, d, f) = said[d][f]
      BY <2>1, <3>1 DEF SaidRules
    <3> QED
      BY <3>2 DEF Used
  <2>3. DeviceObeys
    BY <2>1 DEF DeviceObeys, EventsFit, KeymapsFit
  <2> QED
    BY <2>1, <2>2, <2>3 DEF DevicesObey
<1> QED
  BY <1>1, SettingsStaySound, PTL

\* No accepted command, toggle or reload leaves a stored keymap that does not
\* compile (validate_xkb_merge).
THEOREM KeymapsKeepCompiling == InputConfigSpec => []KeymapsCompile
<1>1. SettingsInv => KeymapsCompile
  BY DEF SettingsInv, Compiling, KeymapsCompile, Stored
<1> QED
  BY <1>1, SettingsStaySound, PTL

------------------------------------------------------------------------------
(***************************************************************************)
(* Configurations of outputs.  Said is what a list says under a name.      *)
(***************************************************************************)
OutputSet ==
  {c \in [OutputFields -> ModeSet \cup {NotSet, 0, 1}] :
     \A f \in OutputFields : c[f] = NotSet \/ c[f] \in ValuesOf(f)}
Entry == [name : Names, set : OutputSet]
Unique(list) == \A i, j \in 1 .. Len(list) : list[i].name = list[j].name => i = j
ListOK(list) == list \in Seq(Entry) /\ Unique(list)

Speaks(list, n) == {i \in 1 .. Len(list) : list[i].name = n}
Said(list, n) ==
  IF Speaks(list, n) = {} THEN NewOutputConfig
  ELSE list[CHOOSE i \in 1 .. Len(list) : list[i].name = n].set

Over(x, y) == IF x # NotSet THEN x ELSE y

LEMMA NewOutputType ==
  NewOutputConfig \in OutputSet /\ \A f \in OutputFields : NewOutputConfig[f] = NotSet
BY DEF NewOutputConfig, OutputSet

LEMMA MergeOutputType ==
  ASSUME NEW c \in OutputSet, NEW s \in OutputSet
  PROVE  /\ MergeOutput(c, s) \in OutputSet /\ Supersede(c, s) \in OutputSet
         /\ \A f \in OutputFields :
              /\ MergeOutput(c, s)[f] = Over(s[f], c[f])
              /\ Supersede(c, s)[f] = IF s[f] # NotSet THEN NotSet ELSE c[f]
BY DEF MergeOutput, Supersede, OutputSet, Over

LEMMA SameSet ==
  ASSUME NEW c \in OutputSet, NEW s \in OutputSet, \A f \in OutputFields : c[f] = s[f]
  PROVE  c = s
BY DEF OutputSet

LEMMA NamesApart ==
  /\ Wildcard \in Names
  /\ \A o \in Outputs :
       /\ NameOf(o) \in Names /\ IdOf(o) \in Names
       /\ NameOf(o) # Wildcard /\ IdOf(o) # Wildcard
       /\ \A p \in Outputs : NameOf(o) # IdOf(p) /\ (NameOf(o) = NameOf(p) \/ IdOf(o) = IdOf(p) => o = p)
BY DEF Names, Wildcard, NameOf, IdOf

LEMMA SaidType ==
  ASSUME NEW list \in Seq(Entry), NEW n
  PROVE  /\ Said(list, n) \in OutputSet
         /\ \A i \in 1 .. Len(list) : list[i].name = n /\ Unique(list) => Said(list, n) = list[i].set
         /\ (\A i \in 1 .. Len(list) : list[i].name # n) => Said(list, n) = NewOutputConfig
<1>1. \A i \in 1 .. Len(list) : list[i] \in Entry
  OBVIOUS
<1>2. CASE Speaks(list, n) = {}
  BY <1>2, NewOutputType DEF Said, Speaks
<1>3. CASE Speaks(list, n) # {}
  <2> DEFINE k == CHOOSE i \in 1 .. Len(list) : list[i].name = n
  <2>1. k \in 1 .. Len(list) /\ list[k].name = n
    BY <1>3 DEF Speaks
  <2>2. Said(list, n) = list[k].set
    BY <1>3 DEF Said
  <2> HIDE DEF k
  <2>3. \A i \in 1 .. Len(list) : list[i].name = n /\ Unique(list) => i = k
    BY <2>1 DEF Unique
  <2> QED
    BY <1>1, <2>1, <2>2, <2>3 DEF Entry
<1> QED
  BY <1>2, <1>3

LEMMA MergeNamedIs ==
  ASSUME NEW dst \in OutputSet, NEW list \in Seq(Entry), NEW name
  PROVE  /\ MergeNamed(dst, list, name) \in OutputSet
         /\ Unique(list) => MergeNamed(dst, list, name) = MergeOutput(dst, Said(list, name))
<1> DEFINE n == Len(list)
           T == OutputSet
           Step(c, i) == IF list[i].name = name THEN MergeOutput(c, list[i].set) ELSE c
           g == [z \in T \X (1 .. n) |-> Step(z[1], z[2])]
<1>0. n \in Nat /\ \A i \in 1 .. n : list[i] \in Entry
  OBVIOUS
<1>1. n \in Nat /\ \A i \in 1 .. n : list[i].set \in OutputSet
  BY <1>0 DEF Entry
<1>2. ASSUME NEW c \in T, NEW i \in 1 .. n
      PROVE  Step(c, i) \in T
  BY <1>1, MergeOutputType
<1> HIDE DEF n, T
<1>3. g \in [T \X (1 .. n) -> T]
  <2> HIDE DEF Step
  <2> QED
    BY <1>2
<1>4. PICK h : Walk(h, n, T, dst, g)
  <2>1. dst \in T
    BY DEF T
  <2> HIDE DEF g
  <2> QED
    BY <1>1, <1>3, <2>1, FoldExists
<1> DEFINE E(x) == [i \in 0 .. n |->
                      IF i = 0 THEN dst
                      ELSE IF list[i].name = name THEN MergeOutput(x[i-1], list[i].set) ELSE x[i-1]]
           w == CHOOSE x : x = E(x)
<1>5. ASSUME NEW i \in 1 .. n PROVE h[i] = Step(h[i - 1], i)
  <2>1. <<h[i - 1], i>> \in T \X (1 .. n)
    BY <1>1, <1>4 DEF Walk
  <2> HIDE DEF Step
  <2> QED
    BY <1>4, <2>1 DEF Walk
<1>6. h = E(h)
  <2>1. h = [i \in 0 .. n |-> h[i]] /\ h[0] = dst
    BY <1>4 DEF Walk
  <2>2. \A i \in 0 .. n : i = 0 \/ i \in 1 .. n
    BY <1>1
  <2>3. \A i \in 0 .. n : h[i] = IF i = 0 THEN dst ELSE Step(h[i - 1], i)
    <3> HIDE DEF Step
    <3> QED
      BY <1>5, <2>1, <2>2
  <2>4. [i \in 0 .. n |-> h[i]] = E(h)
    BY <2>3
  <2> QED
    BY <2>1, <2>4
<1>7. w = E(w)
  BY <1>6
<1>8. MergeNamed(dst, list, name) = w[n]
  BY DEF MergeNamed, n
<1> HIDE DEF w
<1>9. w[0] = dst /\ \A i \in 1 .. n : w[i] = Step(w[i - 1], i)
  <2>1. \A i \in 0 .. n : w[i] = E(w)[i]
    BY <1>7
  <2> QED
    BY <1>1, <2>1
<1>10. \A i \in 0 .. n : i = 0 \/ (i \in 1 .. n /\ i - 1 \in 0 .. n)
  BY <1>1
<1>11. 0 \in 0 .. n /\ n \in 0 .. n
  BY <1>1
<1> HIDE DEF Step
<1>12. w[n] \in T
  <2> DEFINE G == {i \in 0 .. n : w[i] \in T}
  <2>1. 0 \in G
    BY <1>9, <1>11 DEF T
  <2>2. ASSUME NEW i \in 1 .. n, i - 1 \in G PROVE i \in G
    BY <1>1, <1>2, <1>9, <2>2
  <2> HIDE DEF G
  <2>3. \A i \in 0 .. n : i \in G
    BY <1>1, <2>1, <2>2, Counting
  <2> QED
    BY <1>11, <2>3 DEF G
<1>13. ASSUME Unique(list)
       PROVE  w[n] = MergeOutput(dst, Said(list, name))
  <2>1. CASE \A i \in 1 .. n : list[i].name # name
    <3> DEFINE G == {i \in 0 .. n : w[i] = dst}
    <3>1. 0 \in G
      BY <1>9, <1>11
    <3>2. ASSUME NEW i \in 1 .. n, i - 1 \in G PROVE i \in G
      BY <1>1, <1>9, <2>1, <3>2 DEF Step
    <3> HIDE DEF G
    <3>3. \A i \in 0 .. n : i \in G
      BY <1>1, <3>1, <3>2, Counting
    <3>4. w[n] = dst
      BY <1>11, <3>3 DEF G
    <3>5. Said(list, name) = NewOutputConfig
      BY <2>1, SaidType DEF n
    <3>6. MergeOutput(dst, NewOutputConfig) = dst
      BY NewOutputType, MergeOutputType, SameSet DEF Over
    <3> QED
      BY <3>4, <3>5, <3>6
  <2>2. ASSUME NEW k \in 1 .. n, list[k].name = name
        PROVE  w[n] = MergeOutput(dst, Said(list, name))
    <3>1. Said(list, name) = list[k].set /\ \A i \in 1 .. n : list[i].name = name => i = k
      BY <1>13, <2>2, SaidType DEF n, Unique
    <3> DEFINE m == MergeOutput(dst, list[k].set)
               G == {i \in 0 .. n : w[i] = IF i < k THEN dst ELSE m}
    <3>2. 0 \in G
      BY <1>9, <1>11
    <3>3. ASSUME NEW i \in 1 .. n, i - 1 \in G PROVE i \in G
      <4>1. w[i - 1] = (IF i - 1 < k THEN dst ELSE m) /\ i \in 0 .. n
        BY <1>1, <3>3
      <4> HIDE DEF m
      <4>2. CASE i = k
        <5>1. w[i] = m
          BY <1>9, <2>2, <4>1, <4>2 DEF Step, m
        <5> QED
          BY <4>1, <4>2, <5>1
      <4>3. CASE i # k
        <5>1. w[i] = w[i - 1]
          BY <1>9, <3>1, <4>3 DEF Step
        <5>2. i - 1 < k <=> i < k
          BY <4>3
        <5> QED
          BY <4>1, <5>1, <5>2
      <4> QED
        BY <4>2, <4>3
    <3> HIDE DEF G, m
    <3>4. \A i \in 0 .. n : i \in G
      BY <1>1, <3>2, <3>3, Counting
    <3>5. w[n] = m
      BY <1>1, <1>11, <3>4 DEF G
    <3> QED
      BY <3>1, <3>5 DEF m
  <2> QED
    BY <2>1, <2>2
<1> QED
  BY <1>8, <1>12, <1>13 DEF T

\* What an output is configured with, field by field: the identifier's word
\* before the name's before the wildcard's.
LEMMA FindIs ==
  ASSUME NEW list, ListOK(list), NEW o
  PROVE  /\ FindOutputConfig(list, o) \in OutputSet
         /\ \A f \in OutputFields :
              FindOutputConfig(list, o)[f] =
                Over(Said(list, IdOf(o))[f], Over(Said(list, NameOf(o))[f], Said(list, Wildcard)[f]))
<1> DEFINE a == MergeNamed(NewOutputConfig, list, Wildcard)
           b == MergeNamed(a, list, NameOf(o))
           c == MergeNamed(b, list, IdOf(o))
<1>1. FindOutputConfig(list, o) = c
  BY DEF FindOutputConfig
<1>2. list \in Seq(Entry) /\ Unique(list)
  BY DEF ListOK
<1>3. a \in OutputSet /\ a = MergeOutput(NewOutputConfig, Said(list, Wildcard))
  BY <1>2, NewOutputType, MergeNamedIs
<1>4. \A f \in OutputFields : a[f] = Said(list, Wildcard)[f]
  BY <1>2, <1>3, NewOutputType, MergeOutputType, SaidType DEF Over
<1> HIDE DEF a
<1>5. b \in OutputSet /\ b = MergeOutput(a, Said(list, NameOf(o)))
  BY <1>2, <1>3, MergeNamedIs
<1>6. \A f \in OutputFields : b[f] = Over(Said(list, NameOf(o))[f], a[f])
  BY <1>2, <1>3, <1>5, MergeOutputType, SaidType
<1> HIDE DEF b
<1>7. c \in OutputSet /\ c = MergeOutput(b, Said(list, IdOf(o)))
  BY <1>2, <1>5, MergeNamedIs
<1>8. \A f \in OutputFields : c[f] = Over(Said(list, IdOf(o))[f], b[f])
  BY <1>2, <1>5, <1>7, MergeOutputType, SaidType
<1> HIDE DEF c
<1> QED
  BY <1>1, <1>4, <1>6, <1>7, <1>8

LEMMA StoreIs ==
  ASSUME NEW list, ListOK(list), NEW name \in Names, NEW set \in OutputSet
  PROVE  LET r == StoreOutputConfig(list, name, set)
         IN  /\ ListOK(r)
             /\ Said(r, name) = MergeOutput(Said(list, name), set)
             /\ \A n : n # name =>
                  Said(r, n) = IF Supersedes(name, n) THEN Supersede(Said(list, n), set)
                               ELSE Said(list, n)
<1> DEFINE update(old) ==
             IF old.name = name THEN [old EXCEPT !.set = MergeOutput(old.set, set)]
             ELSE IF Supersedes(name, old.name) THEN [old EXCEPT !.set = Supersede(old.set, set)]
             ELSE old
           updated == [i \in DOMAIN list |-> update(list[i])]
           extra == [name |-> name, set |-> set]
           r == StoreOutputConfig(list, name, set)
           N == Len(list)
<1>1. /\ list \in Seq(Entry) /\ Unique(list) /\ N \in Nat /\ DOMAIN list = 1 .. N
  BY DEF ListOK
<1>2. r = IF \E i \in 1 .. N : list[i].name = name THEN updated ELSE Append(updated, extra)
  BY <1>1 DEF StoreOutputConfig
<1>3. ASSUME NEW e \in Entry
      PROVE  /\ update(e) \in Entry /\ update(e).name = e.name
             /\ update(e).set = IF e.name = name THEN MergeOutput(e.set, set)
                                ELSE IF Supersedes(name, e.name) THEN Supersede(e.set, set) ELSE e.set
  <2>1. e.set \in OutputSet /\ e.name \in Names
    BY DEF Entry
  <2>2. MergeOutput(e.set, set) \in OutputSet /\ Supersede(e.set, set) \in OutputSet
    BY <2>1, MergeOutputType
  <2> QED
    BY <2>2 DEF Entry
<1>4. \A i \in 1 .. N : list[i] \in Entry
  BY <1>1
<1> HIDE DEF update
<1>5. /\ updated \in Seq(Entry) /\ Len(updated) = N
      /\ \A i \in 1 .. N : updated[i] = update(list[i])
  BY <1>1, <1>3, <1>4
<1> HIDE DEF updated
<1>6. extra \in Entry /\ extra.name = name /\ extra.set = set
  BY DEF Entry
<1> HIDE DEF extra, N
<1>7. /\ r \in Seq(Entry)
      /\ \/ Len(r) = N /\ \E i \in 1 .. N : list[i].name = name
         \/ Len(r) = N + 1 /\ r[N + 1] = extra /\ \A i \in 1 .. N : list[i].name # name
      /\ \A i \in 1 .. N : r[i] = update(list[i])
  <2>1. CASE \E i \in 1 .. N : list[i].name = name
    BY <1>2, <1>5, <2>1
  <2>2. CASE ~\E i \in 1 .. N : list[i].name = name
    <3>1. r = Append(updated, extra)
      BY <1>2, <2>2
    <3> QED
      BY <1>1, <1>5, <1>6, <2>2, <3>1
  <2> QED
    BY <2>1, <2>2
<1> HIDE DEF r
<1>8. \A i \in 1 .. N : i \in 1 .. Len(r) /\ r[i].name = list[i].name
  BY <1>1, <1>3, <1>4, <1>7
<1>9. \A i \in 1 .. Len(r) : i \in 1 .. N \/ (i = N + 1 /\ r[i] = extra /\ \A j \in 1 .. N : list[j].name # name)
  BY <1>1, <1>7
<1>10. Unique(r)
  BY <1>1, <1>6, <1>8, <1>9 DEF Unique, N
<1>11. ListOK(r)
  BY <1>7, <1>10 DEF ListOK
<1>12. ASSUME NEW n, NEW i \in 1 .. N, list[i].name = n
       PROVE  Said(list, n) = list[i].set /\ Said(r, n) = update(list[i]).set
  <2>1. Said(list, n) = list[i].set
    BY <1>1, <1>12, SaidType DEF N
  <2>2. Said(r, n) = r[i].set
    BY <1>7, <1>8, <1>10, <1>12, SaidType
  <2> QED
    BY <1>7, <2>1, <2>2
<1>13. Said(r, name) = MergeOutput(Said(list, name), set)
  <2>1. CASE \E i \in 1 .. N : list[i].name = name
    <3>1. PICK i \in 1 .. N : list[i].name = name
      BY <2>1
    <3> QED
      BY <1>3, <1>4, <1>12, <3>1
  <2>2. CASE \A i \in 1 .. N : list[i].name # name
    <3>1. Said(list, name) = NewOutputConfig
      BY <1>1, <2>2, SaidType DEF N
    <3>2. N + 1 \in 1 .. Len(r) /\ r[N + 1] = extra
      BY <1>1, <1>7, <2>2
    <3>3. Said(r, name) = set
      BY <1>6, <1>7, <1>10, <3>2, SaidType
    <3>4. MergeOutput(NewOutputConfig, set) = set
      BY NewOutputType, MergeOutputType, SameSet DEF Over
    <3> QED
      BY <3>1, <3>3, <3>4
  <2> QED
    BY <2>1, <2>2
<1>14. ASSUME NEW n, n # name
       PROVE  Said(r, n) = IF Supersedes(name, n) THEN Supersede(Said(list, n), set) ELSE Said(list, n)
  <2>1. CASE \E i \in 1 .. N : list[i].name = n
    <3>1. PICK i \in 1 .. N : list[i].name = n
      BY <2>1
    <3> QED
      BY <1>3, <1>4, <1>12, <1>14, <3>1
  <2>2. CASE \A i \in 1 .. N : list[i].name # n
    <3>1. Said(list, n) = NewOutputConfig
      BY <1>1, <2>2, SaidType DEF N
    <3>2. \A i \in 1 .. Len(r) : r[i].name # n
      BY <1>6, <1>8, <1>9, <1>14, <2>2
    <3>3. Said(r, n) = NewOutputConfig
      BY <1>7, <3>2, SaidType
    <3>4. Supersede(NewOutputConfig, set) = NewOutputConfig
      BY NewOutputType, MergeOutputType, SameSet
    <3> QED
      BY <3>1, <3>3, <3>4
  <2> QED
    BY <2>1, <2>2
<1> QED
  BY <1>11, <1>13, <1>14 DEF r

\* A configuration that is stored has its way with every output it covers, and
\* changes no other, provided that outputs it names are plugged in.
LEMMA StoreHasItsWay ==
  ASSUME NEW list, ListOK(list), NEW name \in Names, NEW set \in OutputSet, NEW o \in Outputs,
         Plugged \subseteq Outputs, Matches(name, o) => name = Wildcard \/ o \in Plugged
  PROVE  FindOutputConfig(StoreOutputConfig(list, name, set), o)
           = IF Matches(name, o) THEN MergeOutput(FindOutputConfig(list, o), set)
             ELSE FindOutputConfig(list, o)
<1> DEFINE r == StoreOutputConfig(list, name, set)
           F(x) == FindOutputConfig(x, o)
           W == Wildcard
           M == NameOf(o)
           I == IdOf(o)
<1>1. /\ ListOK(r) /\ Said(r, name) = MergeOutput(Said(list, name), set)
      /\ \A n : n # name => Said(r, n) = IF Supersedes(name, n) THEN Supersede(Said(list, n), set)
                                         ELSE Said(list, n)
  BY StoreIs
<1>2. W # M /\ W # I /\ M # I
  BY NamesApart
<1>3. /\ F(r) \in OutputSet /\ F(list) \in OutputSet
      /\ \A f \in OutputFields :
           /\ F(r)[f] = Over(Said(r, I)[f], Over(Said(r, M)[f], Said(r, W)[f]))
           /\ F(list)[f] = Over(Said(list, I)[f], Over(Said(list, M)[f], Said(list, W)[f]))
  BY <1>1, FindIs
<1>4. \A n : Said(list, n) \in OutputSet
  BY SaidType DEF ListOK
<1>5. \A n : /\ MergeOutput(Said(list, n), set) \in OutputSet
             /\ \A f \in OutputFields :
                  /\ MergeOutput(Said(list, n), set)[f] = Over(set[f], Said(list, n)[f])
                  /\ Supersede(Said(list, n), set)[f] =
                       IF set[f] # NotSet THEN NotSet ELSE Said(list, n)[f]
  BY <1>4, MergeOutputType
<1>6. /\ MergeOutput(F(list), set) \in OutputSet
      /\ \A f \in OutputFields : MergeOutput(F(list), set)[f] = Over(set[f], F(list)[f])
  BY <1>3, MergeOutputType
<1>7. ~Supersedes(name, W) \/ name = W
  BY NamesApart DEF Supersedes
<1> HIDE DEF r, F, W, M, I
<1>8. CASE name = W
  <2>1. Supersedes(name, M) /\ Supersedes(name, I) /\ Matches(name, o)
    BY <1>8 DEF Supersedes, Matches, W
  <2>2. /\ Said(r, W) = MergeOutput(Said(list, W), set)
        /\ Said(r, M) = Supersede(Said(list, M), set) /\ Said(r, I) = Supersede(Said(list, I), set)
    BY <1>1, <1>2, <1>8, <2>1
  <2>3. \A f \in OutputFields : F(r)[f] = MergeOutput(F(list), set)[f]
    BY <1>3, <1>5, <1>6, <2>2 DEF Over
  <2>4. F(r) = MergeOutput(F(list), set)
    BY <1>3, <1>6, <2>3, SameSet
  <2> QED
    BY <2>1, <2>4 DEF r, F
<1>9. CASE name = M
  <2>1. Supersedes(name, I) /\ Matches(name, o) /\ ~Supersedes(name, W)
    BY <1>2, <1>7, <1>9 DEF Supersedes, Matches, W, M, I
  <2>2. /\ Said(r, W) = Said(list, W)
        /\ Said(r, M) = MergeOutput(Said(list, M), set) /\ Said(r, I) = Supersede(Said(list, I), set)
    BY <1>1, <1>2, <1>9, <2>1
  <2>3. \A f \in OutputFields : F(r)[f] = MergeOutput(F(list), set)[f]
    BY <1>3, <1>5, <1>6, <2>2 DEF Over
  <2>4. F(r) = MergeOutput(F(list), set)
    BY <1>3, <1>6, <2>3, SameSet
  <2> QED
    BY <2>1, <2>4 DEF r, F
<1>10. CASE name = I
  <2>1. ~Supersedes(name, M) /\ Matches(name, o) /\ ~Supersedes(name, W)
    BY <1>2, <1>7, <1>10, NamesApart DEF Supersedes, Matches, W, M, I
  <2>2. /\ Said(r, W) = Said(list, W)
        /\ Said(r, M) = Said(list, M) /\ Said(r, I) = MergeOutput(Said(list, I), set)
    BY <1>1, <1>2, <1>10, <2>1
  <2>3. \A f \in OutputFields : F(r)[f] = MergeOutput(F(list), set)[f]
    BY <1>3, <1>5, <1>6, <2>2 DEF Over
  <2>4. F(r) = MergeOutput(F(list), set)
    BY <1>3, <1>6, <2>3, SameSet
  <2> QED
    BY <2>1, <2>4 DEF r, F
<1>11. CASE name \notin {W, M, I}
  <2>1. ~Supersedes(name, M) /\ ~Supersedes(name, I) /\ ~Matches(name, o) /\ ~Supersedes(name, W)
    BY <1>2, <1>7, <1>11, NamesApart DEF Supersedes, Matches, W, M, I
  <2>2. Said(r, W) = Said(list, W) /\ Said(r, M) = Said(list, M) /\ Said(r, I) = Said(list, I)
    BY <1>1, <1>11, <2>1
  <2>3. \A f \in OutputFields : F(r)[f] = F(list)[f]
    BY <1>3, <2>2
  <2>4. F(r) = F(list)
    BY <1>3, <2>3, SameSet
  <2> QED
    BY <2>1, <2>4 DEF r, F
<1> QED
  BY <1>8, <1>9, <1>10, <1>11

LEMMA OneType ==
  ASSUME NEW field \in OutputFields, NEW value \in ValuesOf(field)
  PROVE  One(field, value) \in OutputSet
BY NewOutputType DEF One, OutputSet, ValuesOf

LEMMA HeadType ==
  ASSUME NEW head \in ModeSet \cup {Off}
  PROVE  ConfigForHead(head) \in OutputSet
<1>1. CASE head = Off
  BY <1>1, OneType DEF ConfigForHead, OutputFields, ValuesOf
<1>2. CASE head # Off
  BY <1>2 DEF ConfigForHead, OutputSet, OutputFields, ValuesOf
<1> QED
  BY <1>1, <1>2

\* A manager's configurations are stored one after the other, each under the
\* name of an output that is there.
LEMMA StoreAllIs ==
  ASSUME NEW list, ListOK(list), plugged \in Seq(Outputs), Plugged \subseteq Outputs,
         \A i, j \in 1 .. Len(plugged) : plugged[i] = plugged[j] => i = j,
         NEW new, Len(new) = Len(plugged),
         \A i \in 1 .. Len(plugged) :
           new[i].name = NameOf(plugged[i]) /\ new[i].set \in OutputSet
  PROVE  /\ ListOK(StoreAll(list, new))
         /\ \A k \in 1 .. Len(plugged) :
              FindOutputConfig(StoreAll(list, new), plugged[k])
                = MergeOutput(FindOutputConfig(list, plugged[k]), new[k].set)
         /\ \A o \in Outputs \ Plugged :
              FindOutputConfig(StoreAll(list, new), o) = FindOutputConfig(list, o)
<1> DEFINE n == Len(plugged)
           T == {l \in Seq(Entry) : ListOK(l)}
           Step(l, i) == StoreOutputConfig(l, new[i].name, new[i].set)
           g == [z \in T \X (1 .. n) |-> Step(z[1], z[2])]
<1>1. n \in Nat /\ \A i \in 1 .. n : plugged[i] \in Plugged
  BY DEF Plugged, Range
<1>2. ASSUME NEW l \in T, NEW i \in 1 .. n
      PROVE  /\ Step(l, i) \in T
             /\ \A o \in Outputs : FindOutputConfig(Step(l, i), o)
                  = IF o = plugged[i] THEN MergeOutput(FindOutputConfig(l, o), new[i].set)
                    ELSE FindOutputConfig(l, o)
  <2>1. plugged[i] \in Outputs /\ new[i].name = NameOf(plugged[i]) /\ new[i].set \in OutputSet
    BY <1>1
  <2>2. new[i].name \in Names
    BY <2>1, NamesApart
  <2>3. ListOK(l)
    OBVIOUS
  <2>4. ListOK(Step(l, i))
    BY <2>1, <2>2, <2>3, StoreIs
  <2>5. Step(l, i) \in T
    BY <2>4 DEF ListOK
  <2>6. ASSUME NEW o \in Outputs
        PROVE  Matches(new[i].name, o) <=> o = plugged[i]
    BY <2>1, NamesApart DEF Matches
  <2>7. ASSUME NEW o \in Outputs
        PROVE  FindOutputConfig(Step(l, i), o)
                  = IF o = plugged[i] THEN MergeOutput(FindOutputConfig(l, o), new[i].set)
                    ELSE FindOutputConfig(l, o)
    <3>1. Matches(new[i].name, o) => o \in Plugged
      BY <1>1, <2>6
    <3> QED
      BY <2>1, <2>2, <2>3, <2>6, <3>1, StoreHasItsWay
  <2> QED
    BY <2>5, <2>7
<1>3. list \in T
  BY DEF ListOK
<1> HIDE DEF n, T
<1>4. g \in [T \X (1 .. n) -> T]
  <2> HIDE DEF Step
  <2> QED
    BY <1>2
<1>5. PICK h : Walk(h, n, T, list, g)
  <2> HIDE DEF g
  <2> QED
    BY <1>1, <1>3, <1>4, FoldExists
<1> DEFINE E(x) == [i \in 0 .. n |-> IF i = 0 THEN list
                                      ELSE StoreOutputConfig(x[i-1], new[i].name, new[i].set)]
           w == CHOOSE x : x = E(x)
<1>6. ASSUME NEW i \in 1 .. n PROVE h[i] = Step(h[i - 1], i)
  <2>1. <<h[i - 1], i>> \in T \X (1 .. n)
    BY <1>1, <1>5 DEF Walk
  <2> HIDE DEF Step
  <2> QED
    BY <1>5, <2>1 DEF Walk
<1>7. h = E(h)
  <2>1. h = [i \in 0 .. n |-> h[i]] /\ h[0] = list
    BY <1>5 DEF Walk
  <2>2. \A i \in 0 .. n : i = 0 \/ i \in 1 .. n
    BY <1>1
  <2>3. \A i \in 0 .. n : h[i] = IF i = 0 THEN list ELSE Step(h[i - 1], i)
    <3> HIDE DEF Step
    <3> QED
      BY <1>6, <2>1, <2>2
  <2>4. [i \in 0 .. n |-> h[i]] = E(h)
    BY <2>3
  <2> QED
    BY <2>1, <2>4
<1>8. w = E(w)
  BY <1>7
<1>9. StoreAll(list, new) = w[n]
  BY DEF StoreAll, n
<1> HIDE DEF w
<1>10. w[0] = list /\ \A i \in 1 .. n : w[i] = Step(w[i - 1], i)
  <2>1. \A i \in 0 .. n : w[i] = E(w)[i]
    BY <1>8
  <2> QED
    BY <1>1, <2>1
<1>11. 0 \in 0 .. n /\ n \in 0 .. n
  BY <1>1
<1> DEFINE F(l, o) == FindOutputConfig(l, o)
           Done(i) == /\ \A k \in 1 .. n : F(w[i], plugged[k]) =
                           IF k <= i THEN MergeOutput(F(list, plugged[k]), new[k].set)
                           ELSE F(list, plugged[k])
                      /\ \A o \in Outputs \ Plugged : F(w[i], o) = F(list, o)
           G == {i \in 0 .. n : w[i] \in T /\ Done(i)}
<1> HIDE DEF Step, F
<1>12. 0 \in G
  <2>1. \A k \in 1 .. n : ~(k <= 0)
    BY <1>1
  <2> QED
    BY <1>3, <1>10, <1>11, <2>1
<1>13. ASSUME NEW i \in 1 .. n, i - 1 \in G PROVE i \in G
  <2>1. w[i - 1] \in T /\ Done(i - 1) /\ i \in 0 .. n /\ w[i] = Step(w[i - 1], i)
    BY <1>1, <1>10, <1>13
  <2>2. /\ w[i] \in T
        /\ \A o \in Outputs : F(w[i], o) = IF o = plugged[i] THEN MergeOutput(F(w[i - 1], o), new[i].set)
                                           ELSE F(w[i - 1], o)
    BY <1>2, <2>1 DEF F
  <2>3. \A o \in Outputs \ Plugged : F(w[i], o) = F(list, o)
    BY <1>1, <2>1, <2>2
  <2>4. ASSUME NEW k \in 1 .. n
        PROVE  F(w[i], plugged[k]) = IF k <= i THEN MergeOutput(F(list, plugged[k]), new[k].set)
                                     ELSE F(list, plugged[k])
    <3>1. plugged[k] = plugged[i] <=> k = i
      BY DEF n
    <3>2. plugged[k] \in Outputs
      BY <1>1
    <3>3. F(w[i - 1], plugged[k]) = IF k <= i - 1 THEN MergeOutput(F(list, plugged[k]), new[k].set)
                                    ELSE F(list, plugged[k])
      BY <2>1
    <3>4. CASE k = i
      <4>1. ~(k <= i - 1) /\ k <= i
        BY <3>4
      <4> QED
        BY <2>2, <3>1, <3>2, <3>3, <3>4, <4>1
    <3>5. CASE k # i
      <4>1. k <= i - 1 <=> k <= i
        BY <3>5
      <4> QED
        BY <2>2, <3>1, <3>2, <3>3, <3>5, <4>1
    <3> QED
      BY <3>4, <3>5
  <2> QED
    BY <2>1, <2>2, <2>3, <2>4
<1> HIDE DEF G
<1>14. \A i \in 0 .. n : i \in G
  BY <1>1, <1>12, <1>13, Counting
<1>15. w[n] \in T /\ Done(n)
  BY <1>11, <1>14 DEF G
<1>16. \A k \in 1 .. n : k <= n
  BY <1>1
<1> QED
  BY <1>9, <1>15, <1>16 DEF F, T, n

------------------------------------------------------------------------------
(***************************************************************************)
(* What the backend takes.                                                 *)
(***************************************************************************)
State == Setting \cup {Off}

Sums(f, states) ==
  /\ f \in [0 .. Len(states) -> Nat] /\ f[0] = 0
  /\ \A i \in 1 .. Len(states) : f[i] = f[i - 1] + CostOf(states[i])

LEMMA CostType ==
  CostOf(Off) = 0 /\ \A x \in State : CostOf(x) \in Nat
BY OutputConstants DEF CostOf, State, Setting

LEMMA TotalIs ==
  ASSUME NEW n \in Nat, NEW states \in [1 .. n -> State]
  PROVE  \E f : Sums(f, states) /\ TotalCost(states) = f[n]
<1> DEFINE T == Nat
           Step(c, i) == c + CostOf(states[i])
           g == [z \in T \X (1 .. n) |-> Step(z[1], z[2])]
<1>1. Len(states) = n /\ \A i \in 1 .. n : CostOf(states[i]) \in Nat
  BY CostType
<1>2. ASSUME NEW c \in T, NEW i \in 1 .. n
      PROVE  Step(c, i) \in T
  BY <1>1
<1>3. 0 \in T
  OBVIOUS
<1> HIDE DEF T
<1>4. g \in [T \X (1 .. n) -> T]
  <2> HIDE DEF Step
  <2> QED
    BY <1>2
<1>5. PICK h : Walk(h, n, T, 0, g)
  <2> HIDE DEF g
  <2> QED
    BY <1>3, <1>4, FoldExists
<1> DEFINE E(x) == [i \in 0 .. n |-> IF i = 0 THEN 0 ELSE x[i-1] + CostOf(states[i])]
           w == CHOOSE x : x = E(x)
<1>6. ASSUME NEW i \in 1 .. n PROVE h[i] = Step(h[i - 1], i)
  <2>1. <<h[i - 1], i>> \in T \X (1 .. n)
    BY <1>5 DEF Walk
  <2> HIDE DEF Step
  <2> QED
    BY <1>5, <2>1 DEF Walk
<1>7. h = E(h)
  <2>1. h = [i \in 0 .. n |-> h[i]] /\ h[0] = 0
    BY <1>5 DEF Walk
  <2>2. \A i \in 0 .. n : i = 0 \/ i \in 1 .. n
    OBVIOUS
  <2>3. \A i \in 0 .. n : h[i] = IF i = 0 THEN 0 ELSE Step(h[i - 1], i)
    <3> HIDE DEF Step
    <3> QED
      BY <1>6, <2>1, <2>2
  <2>4. [i \in 0 .. n |-> h[i]] = E(h)
    BY <2>3
  <2> QED
    BY <2>1, <2>4
<1>8. w = E(w)
  BY <1>7
<1>9. TotalCost(states) = w[n]
  BY <1>1 DEF TotalCost
<1> HIDE DEF w
<1>10. /\ w = [i \in 0 .. n |-> w[i]] /\ w[0] = 0
       /\ \A i \in 1 .. n : w[i] = Step(w[i - 1], i)
  <2>1. \A i \in 0 .. n : w[i] = E(w)[i]
    BY <1>8
  <2>2. w = [i \in 0 .. n |-> w[i]]
    BY <1>8
  <2>3. w[0] = 0
    BY <2>1
  <2>4. \A i \in 1 .. n : w[i] = Step(w[i - 1], i)
    BY <2>1
  <2> HIDE DEF Step
  <2> QED
    BY <2>2, <2>3, <2>4
<1>11. 0 \in 0 .. n /\ n \in 0 .. n
  OBVIOUS
<1> DEFINE G == {i \in 0 .. n : w[i] \in T}
<1>12. 0 \in G
  BY <1>3, <1>10, <1>11
<1>13. ASSUME NEW i \in 1 .. n, i - 1 \in G PROVE i \in G
  <2> HIDE DEF Step
  <2>1. w[i - 1] \in T /\ i \in 0 .. n
    BY <1>13
  <2>2. w[i] \in T
    BY <1>2, <1>10, <2>1
  <2> QED
    BY <2>1, <2>2
<1> HIDE DEF G
<1>14. \A i \in 0 .. n : i \in G
  BY <1>12, <1>13, Counting
<1>15. \A i \in 0 .. n : w[i] \in T
  BY <1>14 DEF G
<1>16. w \in [0 .. n -> T]
  BY <1>10, <1>15
<1>17. Sums(w, states)
  BY <1>1, <1>10, <1>16 DEF Sums, T
<1> QED
  BY <1>9, <1>17

\* A sum of no more costs no more, and no less than one of its parts.
LEMMA TotalGrows ==
  ASSUME NEW n \in Nat, NEW a \in [1 .. n -> State], NEW b \in [1 .. n -> State]
  PROVE  /\ TotalCost(a) \in Nat
         /\ (\A i \in 1 .. n : CostOf(a[i]) <= CostOf(b[i])) => TotalCost(a) <= TotalCost(b)
         /\ (\A i \in 1 .. n : a[i] = Off) => TotalCost(a) = 0
         /\ \A k \in 1 .. n : CostOf(a[k]) <= TotalCost(a)
<1>1. PICK f : Sums(f, a) /\ TotalCost(a) = f[n]
  BY TotalIs
<1>2. PICK h : Sums(h, b) /\ TotalCost(b) = h[n]
  BY TotalIs
<1>3. Len(a) = n /\ Len(b) = n /\ 0 \in 0 .. n /\ n \in 0 .. n
  OBVIOUS
<1>4. \A i \in 1 .. n : CostOf(a[i]) \in Nat /\ CostOf(b[i]) \in Nat
  BY CostType
<1>5. /\ f \in [0 .. n -> Nat] /\ f[0] = 0 /\ \A i \in 1 .. n : f[i] = f[i - 1] + CostOf(a[i])
      /\ h \in [0 .. n -> Nat] /\ h[0] = 0 /\ \A i \in 1 .. n : h[i] = h[i - 1] + CostOf(b[i])
  BY <1>1, <1>2, <1>3 DEF Sums
<1>6. \A i \in 1 .. n : i - 1 \in 0 .. n /\ i \in 0 .. n
  OBVIOUS
<1> HIDE DEF CostOf, TotalCost
<1>7. ASSUME \A i \in 1 .. n : CostOf(a[i]) <= CostOf(b[i])
      PROVE  f[n] <= h[n]
  <2> DEFINE G == {i \in 0 .. n : f[i] <= h[i]}
  <2>1. 0 \in G
    BY <1>3, <1>5
  <2>2. ASSUME NEW i \in 1 .. n, i - 1 \in G PROVE i \in G
    <3>1. f[i - 1] <= h[i - 1] /\ f[i - 1] \in Nat /\ h[i - 1] \in Nat
      BY <1>5, <1>6, <2>2
    <3>2. /\ f[i] = f[i - 1] + CostOf(a[i]) /\ h[i] = h[i - 1] + CostOf(b[i])
          /\ CostOf(a[i]) <= CostOf(b[i])
      BY <1>5, <1>7
    <3>3. f[i] <= h[i]
      BY <1>4, <3>1, <3>2
    <3> QED
      BY <1>6, <3>3
  <2> HIDE DEF G
  <2>3. \A i \in 0 .. n : i \in G
    BY <2>1, <2>2, Counting
  <2> QED
    BY <1>3, <2>3 DEF G
<1>8. ASSUME \A i \in 1 .. n : a[i] = Off
      PROVE  f[n] = 0
  <2> DEFINE G == {i \in 0 .. n : f[i] = 0}
  <2>1. 0 \in G
    BY <1>3, <1>5
  <2>2. ASSUME NEW i \in 1 .. n, i - 1 \in G PROVE i \in G
    <3>1. f[i - 1] = 0 /\ f[i] = f[i - 1] + CostOf(a[i]) /\ CostOf(a[i]) = 0
      BY <1>5, <1>6, <1>8, <2>2, CostType
    <3> QED
      BY <1>6, <3>1
  <2> HIDE DEF G
  <2>3. \A i \in 0 .. n : i \in G
    BY <2>1, <2>2, Counting
  <2> QED
    BY <1>3, <2>3 DEF G
<1>9. ASSUME NEW k \in 1 .. n
      PROVE  CostOf(a[k]) <= f[n]
  <2> DEFINE G == {i \in 0 .. n : k <= i => CostOf(a[k]) <= f[i]}
  <2>1. 0 \in G
    BY <1>3
  <2>2. ASSUME NEW i \in 1 .. n, i - 1 \in G PROVE i \in G
    <3>1. /\ k <= i - 1 => CostOf(a[k]) <= f[i - 1]
          /\ f[i - 1] \in Nat /\ f[i] = f[i - 1] + CostOf(a[i]) /\ i \in 0 .. n
      BY <1>5, <1>6, <2>2
    <3>2. CASE k = i
      BY <1>4, <3>1, <3>2
    <3>3. CASE k # i
      <4>1. k <= i => k <= i - 1
        BY <3>3
      <4> QED
        BY <1>4, <3>1, <4>1
    <3> QED
      BY <3>2, <3>3
  <2> HIDE DEF G
  <2>3. \A i \in 0 .. n : i \in G
    BY <2>1, <2>2, Counting
  <2> QED
    BY <1>3, <2>3 DEF G
<1>10. f[n] \in Nat
  BY <1>3, <1>5
<1> QED
  BY <1>1, <1>2, <1>7, <1>8, <1>9, <1>10

\* An output without a state yet counts as off.
Pad(order, s) == [i \in 1 .. Len(order) |-> IF i <= Len(s) THEN s[i] ELSE Off]

LEMMA PadType ==
  ASSUME NEW order \in Seq(Outputs), NEW s \in Seq(State)
  PROVE  /\ Pad(order, s) \in [1 .. Len(order) -> State]
         /\ Prepare(order, s) <=>
              /\ \A i \in 1 .. Len(order) : Pad(order, s)[i] = Off \/ Pad(order, s)[i] \in Works[order[i]]
              /\ TotalCost(Pad(order, s)) <= budget
<1>1. DOMAIN order = 1 .. Len(order)
  OBVIOUS
<1>2. \A i \in 1 .. Len(order) : i <= Len(s) => s[i] \in State
  OBVIOUS
<1>3. Pad(order, s) \in [1 .. Len(order) -> State]
  BY <1>2 DEF Pad, State
<1>4. Prepare(order, s) <=>
        /\ \A i \in 1 .. Len(order) : Pad(order, s)[i] = Off \/ Pad(order, s)[i] \in Works[order[i]]
        /\ TotalCost(Pad(order, s)) <= budget
  BY <1>1 DEF Prepare, Pad
<1> QED
  BY <1>3, <1>4

\* With some outputs turned off it takes what it took before.
LEMMA PrepareLess ==
  ASSUME budget \in Nat, NEW order \in Seq(Outputs), NEW s \in Seq(State), NEW t \in Seq(State),
         Prepare(order, t),
         \A i \in 1 .. Len(order) : Pad(order, s)[i] \in {Off, Pad(order, t)[i]}
  PROVE  Prepare(order, s)
<1> DEFINE n == Len(order)
           a == Pad(order, s)
           b == Pad(order, t)
<1>1. n \in Nat /\ a \in [1 .. n -> State] /\ b \in [1 .. n -> State]
  BY PadType
<1>2. /\ \A i \in 1 .. n : b[i] = Off \/ b[i] \in Works[order[i]]
      /\ TotalCost(b) <= budget
  BY PadType
<1>3. \A i \in 1 .. n : a[i] \in {Off, b[i]}
  OBVIOUS
<1> HIDE DEF n, a, b
<1>4. \A i \in 1 .. n : a[i] = Off \/ a[i] \in Works[order[i]]
  BY <1>2, <1>3
<1>5. \A i \in 1 .. n : CostOf(a[i]) <= CostOf(b[i])
  <2>1. \A i \in 1 .. n : CostOf(a[i]) \in Nat /\ CostOf(b[i]) \in Nat /\ CostOf(a[i]) \in {0, CostOf(b[i])}
    BY <1>1, <1>3, CostType
  <2> QED
    BY <2>1
<1>6. TotalCost(a) <= TotalCost(b) /\ TotalCost(a) \in Nat /\ TotalCost(b) \in Nat
  BY <1>1, <1>5, TotalGrows
<1>7. TotalCost(a) <= budget
  BY <1>2, <1>6
<1> QED
  BY <1>4, <1>7, PadType DEF n, a

------------------------------------------------------------------------------
(***************************************************************************)
(* The search.  By induction on how many outputs are left: what it finds   *)
(* for the rest, when the outputs so far prepare.                          *)
(***************************************************************************)
LEMMA StatesAre ==
  ASSUME NEW n \in Nat, NEW s
  PROVE  s \in States(n) <=> s \in Seq(State) /\ Len(s) <= n
<1>1. ASSUME s \in States(n)
      PROVE  s \in Seq(State) /\ Len(s) <= n
  <2>1. PICK k \in 0 .. n : s \in [1 .. k -> State]
    BY <1>1 DEF States, State
  <2> QED
    BY <2>1
<1>2. ASSUME s \in Seq(State), Len(s) <= n
      PROVE  s \in States(n)
  <2>1. Len(s) \in 0 .. n /\ s \in [1 .. Len(s) -> State]
    BY <1>2
  <2> QED
    BY <2>1 DEF States, State
<1> QED
  BY <1>1, <1>2

\* What is tried is what is allowed.
LEMMA TriedIs ==
  ASSUME NEW oc \in OutputSet
  PROVE  /\ Tries(oc) \subseteq Nat \X Nat \X Nat
         /\ \A t \in Tries(oc) : Tried(oc, t) \in Setting
         /\ ~Disabling(oc) =>
              /\ Allowed(oc) \subseteq Setting
              /\ \A t \in Tries(oc) : Tried(oc, t) \in Allowed(oc)
              /\ \A c \in Allowed(oc) : \E t \in Tries(oc) : c = Tried(oc, t)
<1> DEFINE M == ModesToTry(oc)
           Y == SyncsToTry(oc)
<1>1. /\ oc.mode # NotSet => oc.mode \in ModeSet
      /\ oc.sync \in {NotSet, 0, 1}
  BY DEF OutputSet, OutputFields, ValuesOf
<1>2. /\ DOMAIN Formats = 1 .. Len(Formats) /\ DOMAIN Modes = 1 .. Len(Modes)
      /\ Len(Formats) \in Nat /\ Len(Modes) \in Nat
      /\ \A i \in DOMAIN Formats : Formats[i] \in FormatSet
      /\ \A i \in DOMAIN Modes : Modes[i] \in ModeSet
  BY OutputConstants
<1>3. /\ DOMAIN M \subseteq Nat
      /\ \A i \in DOMAIN M : M[i] \in ModeSet /\ (oc.mode # NotSet => M[i] = oc.mode)
  <2>1. CASE oc.mode = NotSet
    BY <1>2, <2>1 DEF ModesToTry
  <2>2. CASE oc.mode # NotSet
    BY <1>1, <2>2 DEF ModesToTry
  <2> QED
    BY <2>1, <2>2
<1>4. \A m \in ModeSet : (oc.mode # NotSet => m = oc.mode) => \E i \in DOMAIN M : M[i] = m
  <2>1. CASE oc.mode = NotSet
    BY <2>1 DEF ModesToTry, ModeSet
  <2>2. CASE oc.mode # NotSet
    BY <1>1, <2>2 DEF ModesToTry
  <2> QED
    BY <2>1, <2>2
<1>5. /\ DOMAIN Y \subseteq Nat
      /\ \A i \in DOMAIN Y : Y[i] \in BOOLEAN /\ (Y[i] => oc.sync = 1)
      /\ \A y \in BOOLEAN : (y => oc.sync = 1) => \E i \in DOMAIN Y : Y[i] = y
  <2> DEFINE both == <<TRUE, FALSE>>
             none == <<FALSE>>
  <2>1. DOMAIN both = 1 .. 2 /\ DOMAIN none = 1 .. 1
    OBVIOUS
  <2>2. both[1] = TRUE /\ both[2] = FALSE /\ none[1] = FALSE
    OBVIOUS
  <2>3. Y = IF oc.sync = 1 THEN both ELSE none
    BY DEF SyncsToTry
  <2> HIDE DEF both, none, Y
  <2>4. CASE oc.sync = 1
    <3>1. DOMAIN Y = 1 .. 2 /\ Y[1] = TRUE /\ Y[2] = FALSE
      BY <2>1, <2>2, <2>3, <2>4
    <3>2. \A y \in BOOLEAN : y = TRUE \/ y = FALSE
      OBVIOUS
    <3>3. 1 \in DOMAIN Y /\ 2 \in DOMAIN Y /\ \A i \in DOMAIN Y : i = 1 \/ i = 2
      BY <3>1
    <3>5. \A i \in DOMAIN Y : Y[i] \in BOOLEAN
      BY <3>1, <3>3, Zenon
    <3>4. \A y \in BOOLEAN : \E i \in DOMAIN Y : Y[i] = y
      BY <3>1, <3>2, <3>3, Zenon
    <3> QED
      BY <2>4, <3>1, <3>4, <3>5
  <2>5. CASE oc.sync # 1
    <3>1. DOMAIN Y = 1 .. 1 /\ Y[1] = FALSE
      BY <2>1, <2>2, <2>3, <2>5
    <3>2. 1 \in DOMAIN Y /\ \A i \in DOMAIN Y : i = 1
      BY <3>1
    <3>3. \A i \in DOMAIN Y : Y[i] = FALSE
      BY <3>1, <3>2, Zenon
    <3>4. \A y \in BOOLEAN : (y => oc.sync = 1) => y = FALSE
      BY <2>5
    <3>5. \A y \in BOOLEAN : (y => oc.sync = 1) => \E i \in DOMAIN Y : Y[i] = y
      BY <3>1, <3>2, <3>4, Zenon
    <3>6. \A i \in DOMAIN Y : Y[i] \in BOOLEAN /\ (Y[i] => oc.sync = 1)
      BY <3>3, Zenon
    <3> QED
      BY <3>1, <3>5, <3>6
  <2> QED
    BY <2>4, <2>5
<1>7. \A y \in FormatSet : \E i \in DOMAIN Formats : Formats[i] = y
  BY DEF FormatSet
<1>8. /\ Tries(oc) = (DOMAIN Formats) \X (DOMAIN M) \X (DOMAIN Y)
      /\ \A t : Tried(oc, t) = [mode |-> M[t[2]], format |-> Formats[t[1]], sync |-> Y[t[3]]]
  BY DEF Tries, Tried
<1> HIDE DEF M, Y
<1>9. Tries(oc) \subseteq Nat \X Nat \X Nat
  BY <1>2, <1>3, <1>5, <1>8
<1>10. ASSUME NEW t \in Tries(oc)
       PROVE  /\ Tried(oc, t) \in Setting
              /\ oc.mode # NotSet => Tried(oc, t).mode = oc.mode
              /\ Tried(oc, t).sync => oc.sync = 1
  <2>1. t[1] \in DOMAIN Formats /\ t[2] \in DOMAIN M /\ t[3] \in DOMAIN Y
    BY <1>8
  <2>2. /\ Formats[t[1]] \in FormatSet /\ M[t[2]] \in ModeSet /\ Y[t[3]] \in BOOLEAN
        /\ oc.mode # NotSet => M[t[2]] = oc.mode
        /\ Y[t[3]] => oc.sync = 1
    BY <1>2, <1>3, <1>5, <2>1
  <2> QED
    BY <1>8, <2>2 DEF Setting
<1>11. ASSUME ~Disabling(oc), NEW c \in Allowed(oc)
       PROVE  c \in Setting /\ \E t \in Tries(oc) : c = Tried(oc, t)
  <2>1. /\ c \in Setting /\ (oc.mode # NotSet => c.mode = oc.mode) /\ (c.sync => oc.sync = 1)
    BY <1>11 DEF Allowed
  <2>2. c.mode \in ModeSet /\ c.format \in FormatSet /\ c.sync \in BOOLEAN
    BY <2>1 DEF Setting
  <2>3. PICK i \in DOMAIN Formats : Formats[i] = c.format
    BY <1>7, <2>2
  <2>4. PICK j \in DOMAIN M : M[j] = c.mode
    BY <1>4, <2>1, <2>2
  <2>5. PICK k \in DOMAIN Y : Y[k] = c.sync
    BY <1>5, <2>1, <2>2, Zenon
  <2>6. <<i, j, k>> \in Tries(oc)
    BY <1>8
  <2>7. c = [mode |-> c.mode, format |-> c.format, sync |-> c.sync]
    BY <2>1 DEF Setting
  <2>8. c = Tried(oc, <<i, j, k>>)
    BY <1>8, <2>3, <2>4, <2>5, <2>7
  <2> QED
    BY <2>1, <2>6, <2>8
<1>12. ASSUME ~Disabling(oc), NEW t \in Tries(oc)
       PROVE  Tried(oc, t) \in Allowed(oc)
  BY <1>10, <1>12 DEF Allowed
<1> QED
  BY <1>9, <1>10, <1>11, <1>12

\* Of the things that help, one is tried first.
LEMMA FirstTried ==
  ASSUME NEW good, good \subseteq Nat \X Nat \X Nat, good # {}
  PROVE  \E t \in good : \A u \in good : NotLater(t, u)
<1>1. \A t \in good : t[1] \in Nat /\ t[2] \in Nat /\ t[3] \in Nat
  OBVIOUS
<1> DEFINE A == {t[1] : t \in good}
<1>2. A \in SUBSET Nat /\ A # {}
  BY <1>1
<1>3. PICK a \in A : \A y \in A : a <= y
  BY <1>2, LeastExists
<1> DEFINE B == {t[2] : t \in {u \in good : u[1] = a}}
<1>4. B \in SUBSET Nat /\ B # {}
  BY <1>1, <1>3
<1>5. PICK b \in B : \A y \in B : b <= y
  BY <1>4, LeastExists
<1> DEFINE C == {t[3] : t \in {u \in good : u[1] = a /\ u[2] = b}}
<1>6. C \in SUBSET Nat /\ C # {}
  BY <1>1, <1>5
<1>7. PICK c \in C : \A y \in C : c <= y
  BY <1>6, LeastExists
<1>8. PICK t \in good : t[1] = a /\ t[2] = b /\ t[3] = c
  BY <1>7
<1>9. ASSUME NEW u \in good PROVE NotLater(t, u)
  <2>1. a <= u[1] /\ (u[1] = a => b <= u[2]) /\ (u[1] = a /\ u[2] = b => c <= u[3])
    BY <1>3, <1>5, <1>7
  <2>2. a \in Nat /\ b \in Nat /\ c \in Nat /\ u[1] \in Nat /\ u[2] \in Nat /\ u[3] \in Nat
    BY <1>1, <1>8
  <2> QED
    BY <1>8, <2>1, <2>2 DEF NotLater
<1> QED
  BY <1>9

\* The search of an output, in words: one of three things.
Helps(f, order, matched, s) ==
  {t \in Tries(matched[order[Len(s) + 1]]) :
     SearchFinish(f, order, Append(s, Tried(matched[order[Len(s) + 1]], t))) # Failed}
First(good) == CHOOSE t \in good : \A u \in good : NotLater(t, u)

LEMMA OutputIs ==
  ASSUME NEW f, NEW order, NEW matched, NEW degrade, NEW s,
         matched[order[Len(s) + 1]] \in OutputSet
  PROVE  LET oc == matched[order[Len(s) + 1]]
             good == Helps(f, order, matched, s)
         IN  /\ SearchOutput(f, order, matched, degrade, s) =
                  IF Disabling(oc) \/ (good = {} /\ degrade)
                  THEN SearchFinish(f, order, Append(s, Off))
                  ELSE IF good = {} THEN Failed
                  ELSE SearchFinish(f, order, Append(s, Tried(oc, First(good))))
             /\ good # {} => First(good) \in good
<1> DEFINE oc == matched[order[Len(s) + 1]]
           good == Helps(f, order, matched, s)
<1>1. good # {} => First(good) \in good
  <2>1. good \subseteq Nat \X Nat \X Nat
    BY TriedIs DEF Helps
  <2> HIDE DEF good
  <2>2. good # {} => \E t \in good : \A u \in good : NotLater(t, u)
    BY <2>1, FirstTried
  <2> QED
    BY <2>2 DEF First
<1>2. SearchOutput(f, order, matched, degrade, s) =
                  IF Disabling(oc) \/ (good = {} /\ degrade)
                  THEN SearchFinish(f, order, Append(s, Off))
                  ELSE IF good = {} THEN Failed
                  ELSE SearchFinish(f, order, Append(s, Tried(oc, First(good))))
  BY DEF SearchOutput, Helps, First
<1> QED
  BY <1>1, <1>2

\* It looks one output further, and no further than that.
LEMMA SameOutput ==
  ASSUME NEW f, NEW h, NEW order, NEW matched, NEW degrade, NEW s,
         matched[order[Len(s) + 1]] \in OutputSet,
         \A x \in State : f[Append(s, x)] = h[Append(s, x)]
  PROVE  SearchOutput(f, order, matched, degrade, s) = SearchOutput(h, order, matched, degrade, s)
<1> DEFINE oc == matched[order[Len(s) + 1]]
<1>1. \A x \in State : SearchFinish(f, order, Append(s, x)) = SearchFinish(h, order, Append(s, x))
  BY DEF SearchFinish
<1>2. Off \in State /\ \A t \in Tries(oc) : Tried(oc, t) \in State
  BY TriedIs DEF State
<1>3. Helps(f, order, matched, s) = Helps(h, order, matched, s)
  BY <1>1, <1>2 DEF Helps
<1>4. Helps(f, order, matched, s) \subseteq Tries(oc)
  BY DEF Helps
<1> DEFINE good == Helps(f, order, matched, s)
<1>5. good # {} => First(good) \in Tries(oc)
  BY <1>4, OutputIs
<1>6. good # {} => SearchFinish(f, order, Append(s, Tried(oc, First(good))))
                     = SearchFinish(h, order, Append(s, Tried(oc, First(good))))
  BY <1>1, <1>2, <1>5
<1>7. SearchFinish(f, order, Append(s, Off)) = SearchFinish(h, order, Append(s, Off))
  BY <1>1, <1>2
<1>8. SearchOutput(f, order, matched, degrade, s) =
                  IF Disabling(oc) \/ (good = {} /\ degrade)
                  THEN SearchFinish(f, order, Append(s, Off))
                  ELSE IF good = {} THEN Failed
                  ELSE SearchFinish(f, order, Append(s, Tried(oc, First(good))))
  BY OutputIs
<1>9. SearchOutput(h, order, matched, degrade, s) =
                  IF Disabling(oc) \/ (good = {} /\ degrade)
                  THEN SearchFinish(h, order, Append(s, Off))
                  ELSE IF good = {} THEN Failed
                  ELSE SearchFinish(h, order, Append(s, Tried(oc, First(good))))
  BY <1>3, OutputIs
<1> HIDE DEF good
<1> QED
  BY <1>6, <1>7, <1>8, <1>9

Searched(f, order, matched, degrade, s) ==
  IF Len(s) = Len(order) THEN s ELSE SearchOutput(f, order, matched, degrade, s)

Asking(order, matched) ==
  /\ order \in Seq(Outputs)
  /\ \A i \in 1 .. Len(order) : matched[order[i]] \in OutputSet

LEMMA AppendState ==
  ASSUME NEW s \in Seq(State), NEW x \in State
  PROVE  /\ Append(s, x) \in Seq(State) /\ Len(Append(s, x)) = Len(s) + 1
         /\ \A i \in 1 .. Len(s) : Append(s, x)[i] = s[i]
         /\ Append(s, x)[Len(s) + 1] = x
  OBVIOUS

\* The function the search defines exists: from the last output backwards.
LEMMA SearchExists ==
  ASSUME NEW order, NEW matched, Asking(order, matched), NEW degrade
  PROVE  \E f : /\ f = [s \in States(Len(order)) |-> Searched(f, order, matched, degrade, s)]
                /\ SearchValidConfig(order, matched, degrade) = f[<<>>]
<1> DEFINE n == Len(order)
           S == States(n)
           F(f, s) == Searched(f, order, matched, degrade, s)
           E(f) == [s \in S |-> F(f, s)]
           Done(f, k) == \A s \in S : Len(s) >= n - k => f[s] = F(f, s)
           G == {k \in 0 .. n : \E f : DOMAIN f = S /\ f = [s \in S |-> f[s]] /\ Done(f, k)}
<1>1. n \in Nat /\ \A i \in 1 .. n : matched[order[i]] \in OutputSet
  BY DEF Asking
<1>2. \A s : s \in S <=> s \in Seq(State) /\ Len(s) <= n
  BY <1>1, StatesAre
<1> HIDE DEF n, S, G
<1>3. 0 \in G
  <2> DEFINE f == [s \in S |-> s]
  <2>1. \A s \in S : Len(s) >= n - 0 => f[s] = F(f, s)
    BY <1>1, <1>2 DEF Searched, n
  <2>2. DOMAIN f = S /\ f = [s \in S |-> f[s]]
    OBVIOUS
  <2>3. 0 \in 0 .. n
    BY <1>1
  <2> HIDE DEF f, F
  <2>4. Done(f, 0)
    BY <2>1
  <2> QED
    BY <2>2, <2>3, <2>4 DEF G
<1>4. ASSUME NEW k \in 1 .. n, k - 1 \in G
      PROVE  k \in G
  <2>1. PICK f : DOMAIN f = S /\ f = [s \in S |-> f[s]] /\ Done(f, k - 1)
    BY <1>4 DEF G
  <2> DEFINE h == [s \in S |-> IF Len(s) = n - k THEN F(f, s) ELSE f[s]]
  <2>2. DOMAIN h = S /\ h = [s \in S |-> h[s]]
    OBVIOUS
  <2>3. \A s \in S : h[s] = IF Len(s) = n - k THEN F(f, s) ELSE f[s]
    OBVIOUS
  <2> HIDE DEF h
  <2>4. ASSUME NEW s \in S, Len(s) >= n - k, Len(s) # n
        PROVE  F(h, s) = F(f, s)
    <3>1. s \in Seq(State) /\ Len(s) \in Nat /\ Len(s) + 1 \in 1 .. n
      BY <1>1, <1>2, <2>4
    <3>2. ASSUME NEW x \in State
          PROVE  h[Append(s, x)] = f[Append(s, x)]
      <4>1. Append(s, x) \in S /\ Len(Append(s, x)) # n - k
        <5>1. Append(s, x) \in Seq(State) /\ Len(Append(s, x)) = Len(s) + 1
          BY <3>1, AppendState
        <5>2. Len(s) + 1 <= n /\ Len(s) + 1 # n - k
          BY <1>1, <2>4, <3>1
        <5> QED
          BY <1>2, <5>1, <5>2
      <4> QED
        BY <2>3, <4>1
    <3>3. matched[order[Len(s) + 1]] \in OutputSet
      BY <1>1, <3>1
    <3>4. SearchOutput(h, order, matched, degrade, s) = SearchOutput(f, order, matched, degrade, s)
      BY <3>2, <3>3, SameOutput
    <3> QED
      BY <2>4, <3>4 DEF Searched, n
  <2>5. ASSUME NEW s \in S, Len(s) >= n - k
        PROVE  h[s] = F(h, s)
    <3>1. Len(s) \in Nat /\ k \in Nat
      BY <1>2
    <3>2. F(h, s) = F(f, s)
      <4>1. CASE Len(s) = n
        BY <4>1 DEF Searched, n
      <4> QED
        BY <2>4, <2>5, <4>1
    <3>3. CASE Len(s) = n - k
      BY <2>3, <3>2, <3>3
    <3>4. CASE Len(s) # n - k
      <4>1. Len(s) >= n - (k - 1)
        BY <1>1, <2>5, <3>1, <3>4
      <4>2. f[s] = F(f, s)
        BY <2>1, <4>1
      <4> HIDE DEF F
      <4> QED
        BY <2>3, <3>2, <3>4, <4>2
    <3> QED
      BY <3>3, <3>4
  <2>6. Done(h, k)
    BY <2>5
  <2>7. k \in 0 .. n
    BY <1>1
  <2> HIDE DEF Done
  <2> QED
    BY <2>2, <2>6, <2>7 DEF G
<1>5. n \in 0 .. n /\ \A k \in 0 .. n : k \in G
  BY <1>1, <1>3, <1>4, Counting
<1>6. PICK f : DOMAIN f = S /\ f = [s \in S |-> f[s]] /\ Done(f, n)
  BY <1>5 DEF G
<1>7. f = E(f)
  <2>1. ASSUME NEW s \in S PROVE f[s] = F(f, s)
    <3>1. Len(s) \in Nat
      BY <1>2
    <3>2. Len(s) >= n - n
      BY <1>1, <3>1
    <3> HIDE DEF F
    <3> QED
      BY <1>6, <3>2
  <2>2. [s \in S |-> f[s]] = E(f)
    <3> HIDE DEF F
    <3> QED
      BY <2>1
  <2> QED
    BY <1>6, <2>2
<1> DEFINE w == CHOOSE x : x = E(x)
<1>8. w = E(w)
  BY <1>7
<1>9. SearchValidConfig(order, matched, degrade) = w[<<>>]
  BY DEF SearchValidConfig, Searched, n, S
<1> HIDE DEF w
<1> QED
  BY <1>8, <1>9 DEF n, S

\* What it may come to, when the outputs of s are settled: r is the whole.
Settled(order, s, r) ==
  /\ r \in [1 .. Len(order) -> State]
  /\ \A i \in 1 .. Len(s) : r[i] = s[i]
  /\ Prepare(order, r)
  /\ r # Failed

Found(order, matched, degrade, s, r) ==
  /\ Settled(order, s, r)
  /\ \A i \in Len(s) + 1 .. Len(order) :
       r[i] \in Allowed(matched[order[i]]) \/ (degrade /\ r[i] = Off)

NoBetter(order, matched, r, i) ==
  r[i] = Off => \A c \in Allowed(matched[order[i]]) \ {Off} :
                  ~Prepare(order, Append(SubSeq(r, 1, i - 1), c))

Hopeless(order, matched, s) ==
  \A a \in [1 .. Len(order) -> State] :
    (/\ \A i \in 1 .. Len(s) : a[i] = s[i]
     /\ \A i \in Len(s) + 1 .. Len(order) : a[i] \in Allowed(matched[order[i]]))
    => ~Prepare(order, a)

Ends(order, matched, degrade, s, r) ==
  /\ r # Failed => Found(order, matched, degrade, s, r)
  /\ degrade => /\ r # Failed
                /\ \A i \in Len(s) + 1 .. Len(order) : NoBetter(order, matched, r, i)
  /\ ~degrade /\ r = Failed => Hopeless(order, matched, s)

LEMMA PadLess ==
  ASSUME NEW order \in Seq(Outputs), NEW s \in Seq(State), NEW a \in [1 .. Len(order) -> State],
         Len(s) <= Len(order), \A i \in 1 .. Len(s) : a[i] = s[i] \/ s[i] = Off, budget \in Nat,
         Prepare(order, a)
  PROVE  Prepare(order, s)
<1>1. a \in Seq(State) /\ Len(a) = Len(order)
  OBVIOUS
<1>2. \A i \in 1 .. Len(order) : Pad(order, s)[i] \in {Off, Pad(order, a)[i]}
  <2>1. ASSUME NEW i \in 1 .. Len(order) PROVE Pad(order, s)[i] \in {Off, Pad(order, a)[i]}
    <3>1. Pad(order, a)[i] = a[i] /\ Pad(order, s)[i] = IF i <= Len(s) THEN s[i] ELSE Off
      BY <1>1 DEF Pad
    <3>2. i <= Len(s) => i \in 1 .. Len(s)
      OBVIOUS
    <3> QED
      BY <3>1, <3>2
  <2> QED
    BY <2>1
<1> QED
  BY <1>1, <1>2, PrepareLess

\* What the rest comes to once the next output has its state.
LEMMA NextSettled ==
  ASSUME NEW order, NEW matched, Asking(order, matched), NEW degrade \in BOOLEAN,
         NEW s \in Seq(State), Len(s) < Len(order), NEW x \in State, NEW r,
         r # Failed, Ends(order, matched, degrade, Append(s, x), r),
         LET k == Len(s) + 1
         IN  /\ x \in Allowed(matched[order[k]]) \/ (degrade /\ x = Off)
             /\ degrade /\ x = Off =>
                  \A c \in Allowed(matched[order[k]]) \ {Off} : ~Prepare(order, Append(s, c))
  PROVE  Ends(order, matched, degrade, s, r)
<1> DEFINE n == Len(order)
           k == Len(s) + 1
           t == Append(s, x)
<1>1. n \in Nat /\ Len(s) \in Nat /\ k \in 1 .. n
  BY DEF Asking
<1>2. t \in Seq(State) /\ Len(t) = k /\ (\A i \in 1 .. Len(s) : t[i] = s[i]) /\ t[k] = x
  BY AppendState
<1> HIDE DEF t
<1>3. Settled(order, t, r) /\ \A i \in k + 1 .. n : r[i] \in Allowed(matched[order[i]]) \/ (degrade /\ r[i] = Off)
  BY <1>2 DEF Ends, Found, t
<1>4. degrade => \A i \in k + 1 .. n : NoBetter(order, matched, r, i)
  BY <1>2 DEF Ends, t
<1>5. r \in [1 .. n -> State] /\ Prepare(order, r) /\ \A i \in 1 .. k : r[i] = t[i]
  BY <1>2, <1>3 DEF Settled
<1>6. (\A i \in 1 .. Len(s) : r[i] = s[i]) /\ r[k] = x
  <2>1. k \in 1 .. k /\ \A i \in 1 .. Len(s) : i \in 1 .. k
    BY <1>1
  <2> HIDE DEF k
  <2> QED
    BY <1>2, <1>5, <2>1
<1>7. \A i \in k .. n : i = k \/ i \in k + 1 .. n
  BY <1>1
<1>8. Found(order, matched, degrade, s, r)
  <2>1. \A i \in k .. n : r[i] \in Allowed(matched[order[i]]) \/ (degrade /\ r[i] = Off)
    BY <1>3, <1>6, <1>7
  <2>2. Settled(order, s, r)
    BY <1>5, <1>6 DEF Settled
  <2> QED
    BY <2>1, <2>2 DEF Found
<1>9. ASSUME degrade
      PROVE  NoBetter(order, matched, r, k)
  <2>1. SubSeq(r, 1, k - 1) = s
    <3>1. r \in Seq(State) /\ Len(r) = n
      BY <1>1, <1>5
    <3>2. k - 1 = Len(s) /\ 0 <= Len(s) /\ Len(s) <= n
      BY <1>1
    <3>3. /\ Len(SubSeq(r, 1, k - 1)) = Len(s) /\ SubSeq(r, 1, k - 1) \in Seq(State)
          /\ \A i \in 1 .. Len(s) : SubSeq(r, 1, k - 1)[i] = r[i]
      BY <3>1, <3>2
    <3> QED
      BY <1>6, <3>3
  <2> QED
    BY <1>6, <1>9, <2>1 DEF NoBetter
<1>10. degrade => \A i \in k .. n : NoBetter(order, matched, r, i)
  BY <1>4, <1>7, <1>9
<1> QED
  BY <1>8, <1>10 DEF Ends

\* A step of the search: the outputs of s prepare, and what the search comes
\* to for the outputs after the next is known.
LEMMA SearchStep ==
  ASSUME budget \in Nat, NEW order, NEW matched, Asking(order, matched), NEW degrade \in BOOLEAN,
         NEW s \in Seq(State), Len(s) < Len(order), Prepare(order, s), NEW f,
         \A x \in State : Prepare(order, Append(s, x)) =>
           Ends(order, matched, degrade, Append(s, x), f[Append(s, x)])
  PROVE  Ends(order, matched, degrade, s, SearchOutput(f, order, matched, degrade, s))
<1> DEFINE n == Len(order)
           k == Len(s) + 1
           oc == matched[order[k]]
           R == SearchOutput(f, order, matched, degrade, s)
           with(x) == SearchFinish(f, order, Append(s, x))
           good == Helps(f, order, matched, s)
<1>1. /\ order \in Seq(Outputs) /\ n \in Nat /\ Len(s) \in Nat /\ k \in 1 .. n
      /\ oc \in OutputSet
  BY DEF Asking
<1>2. /\ R = IF Disabling(oc) \/ (good = {} /\ degrade) THEN with(Off)
             ELSE IF good = {} THEN Failed ELSE with(Tried(oc, First(good)))
      /\ good # {} => First(good) \in good
  BY <1>1, OutputIs
<1>3. /\ good = {t \in Tries(oc) : with(Tried(oc, t)) # Failed}
      /\ \A t \in Tries(oc) : Tried(oc, t) \in State
      /\ ~Disabling(oc) => /\ \A t \in Tries(oc) : Tried(oc, t) \in Allowed(oc)
                           /\ \A c \in Allowed(oc) : \E t \in Tries(oc) : c = Tried(oc, t)
                           /\ Allowed(oc) \subseteq Setting
  BY <1>1, TriedIs DEF Helps, State
<1>4. Off \in State /\ Off \notin Setting
  BY OutputConstants DEF State
<1>5. \A x : with(x) = IF Prepare(order, Append(s, x)) THEN f[Append(s, x)] ELSE Failed
  BY DEF SearchFinish
<1>6. Prepare(order, Append(s, Off))
  <2>1. Append(s, Off) \in Seq(State) /\ Len(Append(s, Off)) = k
        /\ (\A i \in 1 .. Len(s) : Append(s, Off)[i] = s[i]) /\ Append(s, Off)[k] = Off
    BY <1>4, AppendState
  <2>2. \A i \in 1 .. n : Pad(order, Append(s, Off))[i] \in {Off, Pad(order, s)[i]}
    <3>1. ASSUME NEW i \in 1 .. n PROVE Pad(order, Append(s, Off))[i] \in {Off, Pad(order, s)[i]}
      <4>1. /\ Pad(order, s)[i] = IF i <= Len(s) THEN s[i] ELSE Off
            /\ Pad(order, Append(s, Off))[i] = IF i <= k THEN Append(s, Off)[i] ELSE Off
        BY <2>1 DEF Pad
      <4>2. (i <= Len(s) => i \in 1 .. Len(s)) /\ (i <= k => i = k \/ i <= Len(s)) /\ ~(k <= Len(s))
        BY <1>1
      <4> HIDE DEF k
      <4> QED
        BY <2>1, <4>1, <4>2
    <3> QED
      BY <3>1
  <2> QED
    BY <1>1, <2>1, <2>2, PrepareLess
<1> HIDE DEF with, good, R, oc
\* Any choice of the rest extends a choice of the next, which must succeed.
<1>7. ASSUME ~degrade, \A x \in Allowed(oc) : x \in State /\ with(x) = Failed
      PROVE  Hopeless(order, matched, s)
  <2> SUFFICES ASSUME NEW a \in [1 .. n -> State],
                      \A i \in 1 .. Len(s) : a[i] = s[i],
                      \A i \in k .. n : a[i] \in Allowed(matched[order[i]]),
                      Prepare(order, a)
               PROVE  FALSE
    BY DEF Hopeless
  <2> DEFINE t == Append(s, a[k])
  <2>1. a[k] \in Allowed(oc) /\ a[k] \in State
    BY <1>1, <1>7 DEF oc
  <2>2. t \in Seq(State) /\ Len(t) = k /\ (\A i \in 1 .. Len(s) : t[i] = s[i]) /\ t[k] = a[k]
    BY <2>1, AppendState
  <2>3. \A i \in 1 .. k : i \in 1 .. Len(s) \/ i = k
    BY <1>1
  <2>4. with(a[k]) = Failed
    BY <1>7, <2>1
  <2> HIDE DEF t
  <2>5. \A i \in 1 .. Len(t) : a[i] = t[i]
    <3> HIDE DEF k
    <3> QED
      BY <2>2, <2>3
  <2>6. Prepare(order, t)
    <3>1. Len(t) <= n
      BY <1>1, <2>2
    <3> QED
      BY <1>1, <2>2, <2>5, <3>1, PadLess
  <2>7. f[t] = Failed /\ Ends(order, matched, degrade, t, f[t])
    BY <1>5, <2>1, <2>4, <2>6 DEF t
  <2>8. Hopeless(order, matched, t)
    BY <1>7, <2>7 DEF Ends
  <2>9. \A i \in Len(t) + 1 .. n : i \in k .. n
    BY <1>1, <2>2
  <2> QED
    BY <2>5, <2>8, <2>9 DEF Hopeless
<1>8. CASE Disabling(oc)
  <2>1. R = f[Append(s, Off)] /\ Ends(order, matched, degrade, Append(s, Off), R)
    BY <1>2, <1>4, <1>5, <1>6, <1>8
  <2>2. Allowed(oc) = {Off}
    BY <1>8 DEF Allowed
  <2>3. CASE R # Failed
    <3>1. Off \in Allowed(oc) /\ \A c \in Allowed(oc) \ {Off} : ~Prepare(order, Append(s, c))
      BY <2>2
    <3> QED
      BY <1>4, <2>1, <2>3, <3>1, NextSettled DEF oc, R
  <2>4. CASE R = Failed
    <3>1. ~degrade /\ with(Off) = Failed
      BY <1>2, <1>8, <2>1, <2>4 DEF Ends
    <3>2. Hopeless(order, matched, s)
      BY <1>4, <1>7, <2>2, <3>1
    <3> QED
      BY <2>4, <3>1, <3>2 DEF Ends, R
  <2> QED
    BY <2>3, <2>4 DEF R
<1>9. CASE ~Disabling(oc) /\ good = {} /\ degrade
  <2>1. R = f[Append(s, Off)] /\ Ends(order, matched, degrade, Append(s, Off), R)
    BY <1>2, <1>4, <1>5, <1>6, <1>9
  <2>2. R # Failed
    BY <1>9, <2>1 DEF Ends
  <2>3. ASSUME NEW c \in Allowed(oc) PROVE ~Prepare(order, Append(s, c))
    <3>1. PICK t \in Tries(oc) : c = Tried(oc, t)
      BY <1>3, <1>9
    <3>2. with(c) = Failed /\ c \in State
      BY <1>3, <1>9, <3>1
    <3> SUFFICES ASSUME Prepare(order, Append(s, c)) PROVE FALSE
      OBVIOUS
    <3>3. f[Append(s, c)] = Failed /\ Ends(order, matched, degrade, Append(s, c), f[Append(s, c)])
      BY <1>5, <3>2
    <3> QED
      BY <1>9, <3>3 DEF Ends
  <2> QED
    BY <1>4, <1>9, <2>1, <2>2, <2>3, NextSettled DEF oc, R
<1>10. CASE ~Disabling(oc) /\ good = {} /\ ~degrade
  <2>1. R = Failed
    BY <1>2, <1>10
  <2>2. \A x \in Allowed(oc) : x \in State /\ with(x) = Failed
    BY <1>3, <1>10
  <2>3. Hopeless(order, matched, s)
    BY <1>7, <1>10, <2>2
  <2> QED
    BY <1>10, <2>1, <2>3 DEF Ends, R
<1>11. CASE ~Disabling(oc) /\ good # {}
  <2> DEFINE x == Tried(oc, First(good))
  <2>1. R = with(x) /\ x \in Allowed(oc) /\ x \in State /\ x # Off /\ with(x) # Failed
    BY <1>2, <1>3, <1>4, <1>11
  <2> HIDE DEF x
  <2>2. R = f[Append(s, x)] /\ R # Failed /\ Ends(order, matched, degrade, Append(s, x), R)
    BY <1>5, <2>1
  <2> QED
    BY <2>1, <2>2, NextSettled DEF oc, R
<1> QED
  BY <1>8, <1>9, <1>10, <1>11 DEF R

LEMMA SearchIs ==
  ASSUME budget \in Nat, NEW order, NEW matched, Asking(order, matched), NEW degrade \in BOOLEAN
  PROVE  Ends(order, matched, degrade, <<>>, SearchValidConfig(order, matched, degrade))
<1> DEFINE n == Len(order)
           S == States(n)
<1>1. PICK f : /\ f = [s \in S |-> Searched(f, order, matched, degrade, s)]
               /\ SearchValidConfig(order, matched, degrade) = f[<<>>]
  BY SearchExists
<1>2. n \in Nat /\ order \in Seq(Outputs)
  BY DEF Asking
<1>3. \A s : s \in S <=> s \in Seq(State) /\ Len(s) <= n
  BY <1>2, StatesAre
<1> HIDE DEF S
<1>4. \A s \in S : f[s] = Searched(f, order, matched, degrade, s)
  BY <1>1
<1> DEFINE G == {k \in 0 .. n : \A s \in S : Len(s) = n - k /\ Prepare(order, s) =>
                                  Ends(order, matched, degrade, s, f[s])}
<1>5. 0 \in G
  <2>1. ASSUME NEW s \in S, Len(s) = n, Prepare(order, s)
        PROVE  Ends(order, matched, degrade, s, f[s])
    <3>1. f[s] = s
      BY <1>4, <2>1 DEF Searched
    <3>2. s \in [1 .. n -> State] /\ s # Failed
      BY <1>3, <2>1, OutputConstants DEF State
    <3>3. n + 1 .. n = {}
      BY <1>2
    <3> HIDE DEF n
    <3>4. Settled(order, s, s)
      BY <2>1, <3>2 DEF Settled, n
    <3> QED
      BY <2>1, <3>1, <3>2, <3>3, <3>4 DEF Ends, Found, n
  <2> QED
    BY <1>2, <2>1
<1>6. ASSUME NEW k \in 1 .. n, k - 1 \in G
      PROVE  k \in G
  <2>1. ASSUME NEW s \in S, Len(s) = n - k, Prepare(order, s)
        PROVE  Ends(order, matched, degrade, s, f[s])
    <3>1. s \in Seq(State) /\ Len(s) \in Nat /\ Len(s) < n /\ Len(s) + 1 = n - (k - 1)
      BY <1>2, <1>3, <2>1
    <3>2. f[s] = SearchOutput(f, order, matched, degrade, s)
      BY <1>4, <2>1, <3>1 DEF Searched
    <3>3. ASSUME NEW x \in State, Prepare(order, Append(s, x))
          PROVE  Ends(order, matched, degrade, Append(s, x), f[Append(s, x)])
      <4>1. Append(s, x) \in Seq(State) /\ Len(Append(s, x)) = Len(s) + 1
        BY <3>1, AppendState
      <4>2. Append(s, x) \in S /\ Len(Append(s, x)) = n - (k - 1)
        <5>1. Len(Append(s, x)) = n - (k - 1) /\ Len(Append(s, x)) <= n
          BY <1>2, <3>1, <4>1
        <5> QED
          BY <1>3, <4>1, <5>1
      <4> QED
        BY <1>6, <3>3, <4>2
    <3> HIDE DEF n
    <3> QED
      BY <2>1, <3>1, <3>2, <3>3, SearchStep DEF n
  <2>2. k \in 0 .. n
    BY <1>2
  <2> QED
    BY <2>1, <2>2
<1> HIDE DEF G
<1>7. n \in 0 .. n /\ \A k \in 0 .. n : k \in G
  <2> HIDE DEF n
  <2>1. \A k \in 0 .. n : k \in G
    BY <1>2, <1>5, <1>6, Counting
  <2> QED
    BY <1>2, <2>1
<1>8. <<>> \in S /\ Len(<<>>) = n - n
  <2>1. <<>> \in Seq(State) /\ Len(<<>>) = 0 /\ 0 <= n /\ n - n = 0
    BY <1>2
  <2> QED
    BY <1>3, <2>1
<1>9. Prepare(order, <<>>)
  <2>1. <<>> \in Seq(State)
    OBVIOUS
  <2>2. \A i \in 1 .. n : Pad(order, <<>>)[i] = Off
    BY <1>2 DEF Pad
  <2>3. TotalCost(Pad(order, <<>>)) = 0
    BY <1>2, <2>1, <2>2, PadType, TotalGrows
  <2>4. TotalCost(Pad(order, <<>>)) <= budget
    BY <2>3
  <2> HIDE DEF n, TotalCost, Pad, Prepare
  <2> QED
    BY <1>2, <2>1, <2>2, <2>4, PadType DEF n
<1> QED
  BY <1>1, <1>7, <1>8, <1>9 DEF G

------------------------------------------------------------------------------
(***************************************************************************)
(* What a modeset puts in force.                                           *)
(***************************************************************************)
NoRepeats(q) == \A i, j \in 1 .. Len(q) : q[i] = q[j] => i = j

LEMMA OrdersAre ==
  ASSUME Plugged \subseteq Outputs, NEW matched, NEW order \in Orders(matched)
  PROVE  /\ order \in Seq(Outputs) /\ DOMAIN order = 1 .. Len(order) /\ NoRepeats(order)
         /\ \A i \in 1 .. Len(order) : order[i] \in Plugged
         /\ \A o \in Plugged : \E i \in 1 .. Len(order) : order[i] = o
         /\ \A i, j \in 1 .. Len(order) : i < j =>
              Priority(matched, order[i]) <= Priority(matched, order[j])
<1> DEFINE n == Cardinality(Plugged)
<1>1. IsFiniteSet(Plugged) /\ n \in Nat
  BY OutputConstants, FS_Subset, FS_CardinalityType
<1>2. /\ order \in [1 .. n -> Plugged]
      /\ \A i, j \in 1 .. n : i # j => order[i] # order[j]
      /\ \A i, j \in DOMAIN order : i < j => Priority(matched, order[i]) <= Priority(matched, order[j])
  BY DEF Orders, SetToSeqs
<1> HIDE DEF n
<1>3. order \in Injection(1 .. n, Plugged)
  BY <1>2, Fun_IsInj
<1>4. Cardinality(1 .. n) = n
  BY <1>1, FS_Interval
<1>5. order \in Surjection(1 .. n, Plugged)
  BY <1>1, <1>3, <1>4, FS_Injection DEF n
<1>6. \A o \in Plugged : \E i \in 1 .. n : order[i] = o
  BY <1>5 DEF Surjection
<1>7. order \in Seq(Outputs) /\ Len(order) = n /\ DOMAIN order = 1 .. n
  BY <1>1, <1>2
<1> HIDE DEF Priority
<1> QED
  BY <1>2, <1>6, <1>7 DEF NoRepeats

LEMMA FindType ==
  ASSUME NEW list \in Seq(Entry), NEW o
  PROVE  FindOutputConfig(list, o) \in OutputSet
BY MergeNamedIs, NewOutputType DEF FindOutputConfig

LEMMA SettingIs ==
  ASSUME NEW m, NEW f, NEW y
  PROVE  [mode |-> m, format |-> f, sync |-> y].sync = y
OBVIOUS

LEMMA RequestedIs ==
  ASSUME NEW oc \in OutputSet
  PROVE  Requested(oc) \in Allowed(oc) /\ Requested(oc) \in State
         /\ (~Disabling(oc) => Requested(oc) \in Setting)
<1>1. CASE Disabling(oc)
  BY <1>1 DEF Requested, Allowed, State
<1>2. CASE ~Disabling(oc)
  <2> DEFINE m == IF oc.mode = NotSet THEN Modes[1] ELSE oc.mode
             y == oc.sync = 1
  <2>1. Modes[1] \in ModeSet /\ Formats[1] \in FormatSet
    BY OutputConstants DEF ModeSet, FormatSet
  <2>2. m \in ModeSet /\ (oc.mode # NotSet => m = oc.mode)
    BY <2>1 DEF OutputSet, OutputFields, ValuesOf
  <2>3. y \in BOOLEAN
    OBVIOUS
  <2>4. Requested(oc) = [mode |-> m, format |-> Formats[1], sync |-> y]
    BY <1>2 DEF Requested
  <2> HIDE DEF m
  <2>5. Requested(oc) \in Setting
    BY <2>1, <2>2, <2>3, <2>4 DEF Setting
  <2>6. Requested(oc).mode = m /\ (Requested(oc).sync => y)
    <3> HIDE DEF y
    <3>1. Requested(oc).sync = y
      BY <2>4, SettingIs
    <3>2. Requested(oc).mode = m
      BY <2>4
    <3> QED
      BY <3>1, <3>2, Zenon
  <2> QED
    BY <1>2, <2>2, <2>5, <2>6 DEF Allowed, State
<1> QED
  BY <1>1, <1>2

\* Whether asked for or searched, what is put in force prepares, and gives an
\* output what its configuration leaves open or turns it off.
LEMMA ResolveIs ==
  ASSUME budget \in Nat, NEW order, NEW matched, Asking(order, matched), NEW degrade \in BOOLEAN,
         Resolve(order, matched, degrade) # Failed
  PROVE  LET r == Resolve(order, matched, degrade)
         IN  /\ r \in [1 .. Len(order) -> State]
             /\ Prepare(order, r)
             /\ \A i \in 1 .. Len(order) : r[i] \in Allowed(matched[order[i]]) \/ r[i] = Off
<1> DEFINE n == Len(order)
           asked == [i \in DOMAIN order |-> Requested(matched[order[i]])]
           r == Resolve(order, matched, degrade)
           searched == SearchValidConfig(order, matched, degrade)
<1>1. n \in Nat /\ DOMAIN order = 1 .. n
  BY DEF Asking
<1>2. r = IF Prepare(order, asked) THEN asked ELSE searched
  BY DEF Resolve
<1>3. CASE Prepare(order, asked)
  <2>1. ASSUME NEW i \in 1 .. n
        PROVE  asked[i] \in State /\ asked[i] \in Allowed(matched[order[i]])
    BY <1>1, RequestedIs DEF Asking
  <2>2. asked \in [1 .. n -> State]
    <3>1. asked = [i \in 1 .. n |-> asked[i]]
      BY <1>1
    <3> HIDE DEF asked
    <3> QED
      BY <2>1, <3>1
  <2> HIDE DEF asked, r
  <2> QED
    BY <1>2, <1>3, <2>1, <2>2 DEF r
<1>4. CASE ~Prepare(order, asked)
  <2>1. Ends(order, matched, degrade, <<>>, searched)
    BY SearchIs
  <2> HIDE DEF asked, searched, r
  <2>2. Found(order, matched, degrade, <<>>, r)
    BY <1>2, <1>4, <2>1 DEF Ends, r
  <2>3. Len(<<>>) + 1 = 1
    OBVIOUS
  <2> QED
    BY <2>2, <2>3 DEF Found, Settled, r
<1> QED
  BY <1>3, <1>4

\* A setting that is on takes no more than there is.
LEMMA PreparedFits ==
  ASSUME budget \in Nat, NEW order \in Seq(Outputs), NEW r \in [1 .. Len(order) -> State],
         Prepare(order, r), NEW i \in 1 .. Len(order), r[i] # Off
  PROVE  r[i] \in Works[order[i]] /\ CostOf(r[i]) <= budget
<1> DEFINE n == Len(order)
<1>1. n \in Nat /\ r \in Seq(State) /\ Len(r) = n
  OBVIOUS
<1>2. Pad(order, r) = r
  BY <1>1 DEF Pad
<1>3. r[i] \in Works[order[i]] /\ TotalCost(r) <= budget
  BY <1>1, <1>2, PadType
<1>4. TotalCost(r) \in Nat /\ CostOf(r[i]) <= TotalCost(r)
  BY <1>1, TotalGrows
<1>5. CostOf(r[i]) \in Nat
  BY CostType
<1> HIDE DEF TotalCost, CostOf
<1> QED
  BY <1>3, <1>4, <1>5

\* And one that takes no more than there is can be had alone.
LEMMA AlonePrepares ==
  ASSUME budget \in Nat, NEW order \in Seq(Outputs), Len(order) # 0, NEW x \in State,
         x \in Works[order[1]], CostOf(x) <= budget
  PROVE  Prepare(order, <<x>>)
<1> DEFINE n == Len(order)
           a == Pad(order, <<x>>)
<1>1. n \in Nat /\ 1 \in 1 .. n /\ <<x>> \in Seq(State) /\ Len(<<x>>) = 1 /\ <<x>>[1] = x
  OBVIOUS
<1>2. a \in [1 .. n -> State]
  BY <1>1, PadType
<1>3. a[1] = x /\ \A i \in 2 .. n : a[i] = Off
  BY <1>1 DEF Pad
<1> HIDE DEF a, CostOf
<1>4. PICK f : Sums(f, a) /\ TotalCost(a) = f[n]
  BY <1>1, <1>2, TotalIs
<1>5. f[0] = 0 /\ \A i \in 1 .. n : f[i] = f[i - 1] + CostOf(a[i])
  BY <1>1, <1>2, <1>4 DEF Sums
<1>6. CostOf(x) \in Nat /\ CostOf(Off) = 0
  BY CostType
<1> DEFINE G == {i \in 0 .. n : f[i] = IF i = 0 THEN 0 ELSE CostOf(x)}
<1>7. 0 \in G
  BY <1>1, <1>5
<1>8. ASSUME NEW i \in 1 .. n, i - 1 \in G PROVE i \in G
  <2>1. f[i - 1] = (IF i - 1 = 0 THEN 0 ELSE CostOf(x)) /\ f[i] = f[i - 1] + CostOf(a[i])
    BY <1>5, <1>8
  <2>2. CASE i = 1
    BY <1>3, <1>6, <2>1, <2>2
  <2>3. CASE i # 1
    <3>1. i \in 2 .. n /\ i - 1 # 0
      BY <2>3
    <3> QED
      BY <1>3, <1>6, <2>1, <3>1
  <2> QED
    BY <2>2, <2>3
<1> HIDE DEF G
<1>9. \A i \in 0 .. n : i \in G
  BY <1>1, <1>7, <1>8, Counting
<1>10. f[n] = CostOf(x)
  BY <1>1, <1>9 DEF G
<1>11. TotalCost(a) <= budget
  BY <1>4, <1>10
<1>12. \A i \in 1 .. n : a[i] = Off \/ a[i] \in Works[order[i]]
  <2>1. \A i \in 1 .. n : i = 1 \/ i \in 2 .. n
    OBVIOUS
  <2> HIDE DEF n
  <2> QED
    BY <1>3, <2>1
<1> HIDE DEF TotalCost, Pad
<1> QED
  BY <1>1, <1>11, <1>12, PadType DEF a

------------------------------------------------------------------------------
(***************************************************************************)
(* The invariant.                                                          *)
(***************************************************************************)
OutputsTyped ==
  /\ ListOK(stored)
  /\ plugged \in Seq(Outputs) /\ NoRepeats(plugged)
  /\ last \in [Outputs -> OutputSet]
  /\ shown \in [Outputs -> OutputSet]
  /\ lit \in [Outputs -> State]
  /\ budget \in Nat

\* LastCommandWins, of the outputs that are away too.
LastWords == \A o \in Outputs \ blind : FindOutputConfig(stored, o) = last[o]

\* A lit output could be lit as it is with every other output turned off.
LitFits ==
  \A o \in Outputs : lit[o] # Off =>
    /\ o \in Plugged
    /\ lit[o] \in Works[o] /\ CostOf(lit[o]) <= budget
    /\ lit[o] \in Allowed(shown[o])

OutputsInv == OutputsTyped /\ LastWords /\ StoredIsInForce /\ LitFits

LEMMA PluggedIs ==
  ASSUME plugged \in Seq(Outputs)
  PROVE  /\ Plugged \subseteq Outputs /\ DOMAIN plugged = 1 .. Len(plugged)
         /\ \A i \in 1 .. Len(plugged) : plugged[i] \in Plugged
         /\ \A o \in Plugged : \E i \in 1 .. Len(plugged) : plugged[i] = o
BY DEF Plugged, Range

LEMMA OutputsInvInit == OutputConfigInit => OutputsInv
<1> SUFFICES ASSUME OutputConfigInit
             PROVE  OutputsInv
  OBVIOUS
<1> USE DEF OutputConfigInit
<1>1. ListOK(stored)
  BY DEF ListOK, Unique
<1>2. plugged \in Seq(Outputs) /\ NoRepeats(plugged)
  BY DEF NoRepeats
<1>3. /\ last \in [Outputs -> OutputSet] /\ shown \in [Outputs -> OutputSet]
      /\ lit \in [Outputs -> State] /\ budget \in Nat
  BY NewOutputType, OutputConstants DEF State
<1>4. OutputsTyped
  BY <1>1, <1>2, <1>3 DEF OutputsTyped
<1>5. LastWords
  <2>1. ASSUME NEW o \in Outputs
        PROVE  FindOutputConfig(stored, o) = NewOutputConfig
    <3>1. \A n : Said(stored, n) = NewOutputConfig
      BY DEF Said, Speaks
    <3>2. /\ FindOutputConfig(stored, o) \in OutputSet
          /\ \A f \in OutputFields : FindOutputConfig(stored, o)[f] = NotSet
      BY <1>1, <3>1, FindIs, NewOutputType DEF Over
    <3> QED
      BY <3>2, NewOutputType, SameSet
  <2> QED
    BY <2>1 DEF LastWords
<1>6. StoredIsInForce
  BY DEF StoredIsInForce
<1>7. LitFits
  BY DEF LitFits
<1> QED
  BY <1>4, <1>5, <1>6, <1>7 DEF OutputsInv

------------------------------------------------------------------------------
(***************************************************************************)
(* Every action keeps it.                                                  *)
(***************************************************************************)
LEMMA AskingIs ==
  ASSUME Plugged \subseteq Outputs, NEW list \in Seq(Entry), NEW order \in Orders(Configs(list))
  PROVE  Asking(order, Configs(list))
         /\ \A o \in Outputs : Configs(list)[o] = FindOutputConfig(list, o)
                             /\ Configs(list)[o] \in OutputSet
<1>1. \A o \in Outputs : Configs(list)[o] = FindOutputConfig(list, o)
                       /\ Configs(list)[o] \in OutputSet
  BY FindType DEF Configs
<1>2. order \in Seq(Outputs) /\ \A i \in 1 .. Len(order) : order[i] \in Plugged
  BY OrdersAre
<1> QED
  BY <1>1, <1>2 DEF Asking

\* What is committed is typed and fits.
LEMMA CommitIs ==
  ASSUME OutputsTyped, NEW list \in Seq(Entry), NEW order \in Orders(Configs(list)),
         NEW degrade \in BOOLEAN, Resolve(order, Configs(list), degrade) # Failed,
         Commit(order, Configs(list), Resolve(order, Configs(list), degrade)),
         plugged' = plugged, budget' = budget
  PROVE  /\ lit' \in [Outputs -> State] /\ shown' \in [Outputs -> OutputSet]
         /\ LitFits'
         /\ \A o \in Plugged : shown'[o] = FindOutputConfig(list, o)
<1> DEFINE matched == Configs(list)
           r == Resolve(order, matched, degrade)
           n == Len(order)
           At(o) == CHOOSE i \in DOMAIN order : order[i] = o
<1>1. plugged \in Seq(Outputs) /\ budget \in Nat /\ shown \in [Outputs -> OutputSet]
  BY DEF OutputsTyped
<1>2. Plugged \subseteq Outputs
  BY <1>1, PluggedIs
<1>3. /\ order \in Seq(Outputs) /\ DOMAIN order = 1 .. n
      /\ \A o \in Plugged : \E i \in 1 .. n : order[i] = o
  BY <1>2, OrdersAre
<1>4. /\ Asking(order, matched)
      /\ \A o \in Outputs : matched[o] = FindOutputConfig(list, o) /\ matched[o] \in OutputSet
  BY <1>2, AskingIs
<1>5. /\ r \in [1 .. n -> State] /\ Prepare(order, r)
      /\ \A i \in 1 .. n : r[i] \in Allowed(matched[order[i]]) \/ r[i] = Off
  BY <1>1, <1>4, ResolveIs
<1>6. \A o \in Plugged : At(o) \in 1 .. n /\ order[At(o)] = o
  BY <1>3
<1>7. /\ lit' = [o \in Outputs |-> IF o \in Plugged THEN r[At(o)] ELSE Off]
      /\ shown' = [o \in Outputs |-> IF o \in Plugged THEN matched[o] ELSE shown[o]]
      /\ Plugged' = Plugged
  BY DEF Commit, Plugged
<1> HIDE DEF r, matched, At, n
<1>8. shown' \in [Outputs -> OutputSet] /\ \A o \in Plugged : shown'[o] = matched[o]
  BY <1>1, <1>2, <1>4, <1>7
<1>9. /\ \A o \in Plugged : lit'[o] = r[At(o)] /\ lit'[o] \in State
      /\ \A o \in Outputs \ Plugged : lit'[o] = Off
  BY <1>2, <1>5, <1>6, <1>7
<1>10. lit' \in [Outputs -> State]
  <2>1. Off \in State
    BY DEF State
  <2>2. \A o \in Outputs : (IF o \in Plugged THEN r[At(o)] ELSE Off) \in State
    BY <1>9, <1>7, <2>1
  <2> QED
    BY <1>7, <2>2
<1>11. ASSUME NEW o \in Outputs, lit'[o] # Off
       PROVE  /\ o \in Plugged' /\ lit'[o] \in Works[o] /\ CostOf(lit'[o]) <= budget'
              /\ lit'[o] \in Allowed(shown'[o])
  <2>1. o \in Plugged /\ lit'[o] = r[At(o)]
    BY <1>9, <1>11
  <2>2. At(o) \in 1 .. n /\ order[At(o)] = o /\ r[At(o)] # Off
    BY <1>6, <1>11, <2>1
  <2>3. r[At(o)] \in Works[o] /\ CostOf(r[At(o)]) <= budget
    BY <1>1, <1>3, <1>5, <2>2, PreparedFits DEF n
  <2>4. r[At(o)] \in Allowed(matched[o])
    BY <1>5, <2>2
  <2> QED
    BY <1>7, <1>8, <2>1, <2>3, <2>4
<1>12. LitFits'
  BY <1>11 DEF LitFits
<1> QED
  BY <1>2, <1>4, <1>8, <1>10, <1>12 DEF matched

\* A modeset, of a list that is then the stored one.
LEMMA ModesetKeeps ==
  ASSUME OutputsTyped, LitFits, NEW list \in Seq(Entry), Modeset(list), stored' = list,
         plugged' = plugged, budget' = budget
  PROVE  /\ lit' \in [Outputs -> State] /\ shown' \in [Outputs -> OutputSet]
         /\ LitFits' /\ StoredIsInForce'
<1>0. Plugged' = Plugged /\ Plugged \subseteq Outputs
  BY PluggedIs DEF OutputsTyped, Plugged
<1>1. PICK order \in Orders(Configs(list)) :
        \/ /\ Resolve(order, Configs(list), TRUE) # Failed
           /\ Commit(order, Configs(list), Resolve(order, Configs(list), TRUE))
           /\ outcome' = "ok"
        \/ Refuse /\ outcome' = "refused"
  BY DEF Modeset
<1>2. CASE /\ Resolve(order, Configs(list), TRUE) # Failed
           /\ Commit(order, Configs(list), Resolve(order, Configs(list), TRUE))
  <2>1. /\ lit' \in [Outputs -> State] /\ shown' \in [Outputs -> OutputSet]
        /\ LitFits' /\ \A o \in Plugged : shown'[o] = FindOutputConfig(list, o)
    BY <1>2, CommitIs
  <2>2. StoredIsInForce'
    BY <1>0, <2>1 DEF StoredIsInForce
  <2> QED
    BY <2>1, <2>2
<1>3. CASE Refuse /\ outcome' = "refused"
  BY <1>0, <1>3 DEF Refuse, StoredIsInForce, LitFits, OutputsTyped
<1> QED
  BY <1>1, <1>2, <1>3

LEMMA StoreKeeps ==
  ASSUME OutputsTyped, LastWords, NEW name \in Names, NEW set \in OutputSet, Store(name, set)
  PROVE  ListOK(stored') /\ last' \in [Outputs -> OutputSet] /\ LastWords'
<1>1. /\ ListOK(stored) /\ plugged \in Seq(Outputs) /\ last \in [Outputs -> OutputSet]
      /\ Plugged \subseteq Outputs
  BY PluggedIs DEF OutputsTyped
<1>2. /\ stored' = StoreOutputConfig(stored, name, set)
      /\ last' = [o \in Outputs |-> IF Matches(name, o) THEN MergeOutput(last[o], set) ELSE last[o]]
      /\ blind' = blind \cup {o \in Outputs \ Plugged : name # Wildcard /\ Matches(name, o)}
  BY DEF Store, Remember
<1>3. ListOK(stored')
  BY <1>1, <1>2, StoreIs
<1>4. \A o \in Outputs : MergeOutput(last[o], set) \in OutputSet /\ last[o] \in OutputSet
  BY <1>1, MergeOutputType
<1>5. last' \in [Outputs -> OutputSet]
  BY <1>2, <1>4
<1>6. ASSUME NEW o \in Outputs \ blind'
      PROVE  FindOutputConfig(stored', o) = last'[o]
  <2>1. o \in Outputs \ blind /\ (Matches(name, o) => name = Wildcard \/ o \in Plugged)
    BY <1>2, <1>6
  <2>2. FindOutputConfig(stored', o)
          = IF Matches(name, o) THEN MergeOutput(FindOutputConfig(stored, o), set)
            ELSE FindOutputConfig(stored, o)
    BY <1>1, <1>2, <2>1, StoreHasItsWay
  <2>3. FindOutputConfig(stored, o) = last[o]
    BY <2>1 DEF LastWords
  <2> HIDE DEF Matches
  <2> QED
    BY <1>2, <2>1, <2>2, <2>3
<1>7. LastWords'
  BY <1>6 DEF LastWords
<1> QED
  BY <1>3, <1>5, <1>7

LEMMA TimerModesetHandleKeeps ==
  ASSUME OutputsInv, TimerModesetHandle
  PROVE  OutputsInv'
<1>1. Modeset(stored) /\ UNCHANGED <<stored, plugged, budget, last, blind>>
  BY DEF TimerModesetHandle
<1>2. OutputsTyped /\ LitFits /\ LastWords /\ stored \in Seq(Entry) /\ stored' = stored
  BY <1>1 DEF OutputsInv, OutputsTyped, ListOK
<1>3. /\ lit' \in [Outputs -> State] /\ shown' \in [Outputs -> OutputSet]
      /\ LitFits' /\ StoredIsInForce'
  BY <1>1, <1>2, ModesetKeeps
<1>4. OutputsTyped'
  BY <1>1, <1>2, <1>3 DEF OutputsTyped
<1>5. LastWords'
  BY <1>1, <1>2 DEF LastWords
<1> QED
  BY <1>3, <1>4, <1>5 DEF OutputsInv

LEMMA HandleNewOutputKeeps ==
  ASSUME OutputsInv, NEW o \in Outputs, HandleNewOutput(o)
  PROVE  OutputsInv'
<1>1. /\ o \notin Plugged /\ plugged' = <<o>> \o plugged /\ pending' = TRUE
      /\ UNCHANGED <<stored, lit, budget, shown, last, blind>>
  BY DEF HandleNewOutput
<1>2. OutputsTyped /\ LitFits /\ LastWords /\ plugged \in Seq(Outputs) /\ NoRepeats(plugged)
  BY DEF OutputsInv, OutputsTyped
<1> DEFINE n == Len(plugged)
<1>3. /\ plugged' \in Seq(Outputs) /\ Len(plugged') = n + 1 /\ n \in Nat /\ plugged'[1] = o
      /\ \A i \in 1 .. n : plugged'[i + 1] = plugged[i]
  BY <1>1, <1>2
<1>4. \A i \in 1 .. n : plugged[i] \in Plugged
  BY <1>2, PluggedIs
<1>5. \A i \in 1 .. n + 1 : i = 1 \/ (i - 1 \in 1 .. n /\ plugged'[i] = plugged[i - 1])
  <2>1. \A i \in 1 .. n + 1 : i = 1 \/ (i - 1 \in 1 .. n /\ (i - 1) + 1 = i)
    BY <1>3
  <2> QED
    BY <1>3, <2>1
<1>6. NoRepeats(plugged')
  <2>1. ASSUME NEW i \in 1 .. n + 1, NEW j \in 1 .. n + 1, plugged'[i] = plugged'[j]
        PROVE  i = j
    <3>1. CASE i = 1 \/ j = 1
      BY <1>1, <1>3, <1>4, <1>5, <2>1, <3>1
    <3>2. CASE i # 1 /\ j # 1
      <4>1. i - 1 = j - 1
        BY <1>2, <1>5, <2>1, <3>2 DEF NoRepeats
      <4> QED
        BY <1>3, <4>1
    <3> QED
      BY <3>1, <3>2
  <2> QED
    BY <1>3, <2>1 DEF NoRepeats
<1>7. Plugged \subseteq Plugged'
  <2>1. ASSUME NEW p \in Plugged PROVE p \in Plugged'
    <3>1. PICK i \in 1 .. n : plugged[i] = p
      BY <1>2, PluggedIs
    <3>2. i + 1 \in DOMAIN plugged' /\ plugged'[i + 1] = p
      BY <1>3, <3>1
    <3> QED
      BY <3>2 DEF Plugged, Range
  <2> QED
    BY <2>1
<1>8. OutputsTyped'
  BY <1>1, <1>2, <1>3, <1>6 DEF OutputsTyped
<1>9. LastWords' /\ StoredIsInForce'
  BY <1>1, <1>2 DEF LastWords, StoredIsInForce
<1>10. LitFits'
  BY <1>1, <1>2, <1>7 DEF LitFits
<1> QED
  BY <1>8, <1>9, <1>10 DEF OutputsInv

\* Taking the output out of the list leaves the others.
LEMMA RemoveAtIs ==
  ASSUME NEW q \in Seq(Outputs), NoRepeats(q), NEW k \in 1 .. Len(q)
  PROVE  /\ RemoveAt(q, k) \in Seq(Outputs) /\ NoRepeats(RemoveAt(q, k))
         /\ \A i \in 1 .. Len(q) : i # k => q[i] \in Range(RemoveAt(q, k))
<1> DEFINE n == Len(q)
           a == SubSeq(q, 1, k - 1)
           b == SubSeq(q, k + 1, n)
           r == RemoveAt(q, k)
<1>1. n \in Nat /\ k \in 1 .. n
  OBVIOUS
<1>2. a \in Seq(Outputs) /\ Len(a) = k - 1 /\ \A i \in 1 .. k - 1 : a[i] = q[i]
  BY <1>1
<1>3. b \in Seq(Outputs) /\ Len(b) = n - k /\ \A i \in 1 .. n - k : b[i] = q[k + i]
  BY <1>1
<1>4. r = a \o b
  BY DEF RemoveAt
<1> HIDE DEF a, b, r
<1>5. /\ r \in Seq(Outputs) /\ Len(r) = n - 1
      /\ \A i \in 1 .. n - 1 : r[i] = IF i < k THEN q[i] ELSE q[i + 1]
  <2>1. r \in Seq(Outputs) /\ Len(r) = (k - 1) + (n - k)
    <3>1. a \o b \in Seq(Outputs) /\ Len(a \o b) = Len(a) + Len(b)
      BY <1>2, <1>3, ConcatProperties, Zenon
    <3> QED
      BY <1>2, <1>3, <1>4, <3>1
  <2>2. ASSUME NEW i \in 1 .. n - 1 PROVE r[i] = IF i < k THEN q[i] ELSE q[i + 1]
    <3>1. CASE i < k
      <4>1. i \in 1 .. k - 1 /\ i \in 1 .. Len(a)
        BY <1>1, <1>2, <3>1
      <4> QED
        BY <1>2, <1>3, <1>4, <3>1, <4>1
    <3>2. CASE ~(i < k)
      <4>1. i - (k - 1) \in 1 .. n - k /\ k + (i - (k - 1)) = i + 1 /\ i > Len(a)
            /\ i <= Len(a) + Len(b)
        BY <1>1, <1>2, <1>3, <3>2
      <4>2. r[i] = b[i - Len(a)]
        BY <1>2, <1>3, <1>4, <4>1
      <4> QED
        BY <1>2, <1>3, <3>2, <4>1, <4>2
    <3> QED
      BY <3>1, <3>2
  <2> QED
    BY <1>1, <2>1, <2>2
<1>6. \A i, j \in 1 .. n : q[i] = q[j] => i = j
  BY DEF NoRepeats
<1>7. NoRepeats(r)
  <2>1. ASSUME NEW i \in 1 .. n - 1, NEW j \in 1 .. n - 1, r[i] = r[j] PROVE i = j
    <3>1. i \in 1 .. n /\ i + 1 \in 1 .. n /\ j \in 1 .. n /\ j + 1 \in 1 .. n
      BY <1>1
    <3>2. (IF i < k THEN i ELSE i + 1) = (IF j < k THEN j ELSE j + 1)
      BY <1>5, <1>6, <2>1, <3>1
    <3> QED
      BY <1>1, <3>1, <3>2
  <2> QED
    BY <1>5, <2>1 DEF NoRepeats
<1>8. ASSUME NEW i \in 1 .. n, i # k PROVE q[i] \in Range(r)
  <2>1. DOMAIN r = 1 .. n - 1
    BY <1>5
  <2>2. CASE i < k
    <3>1. i \in 1 .. n - 1 /\ r[i] = q[i]
      BY <1>1, <1>5, <2>2
    <3> QED
      BY <2>1, <3>1 DEF Range
  <2>3. CASE ~(i < k)
    <3>1. i - 1 \in 1 .. n - 1 /\ ~(i - 1 < k) /\ (i - 1) + 1 = i
      BY <1>1, <1>8, <2>3
    <3>2. r[i - 1] = q[i]
      BY <1>5, <3>1
    <3> QED
      BY <2>1, <3>1, <3>2 DEF Range
  <2> QED
    BY <2>2, <2>3
<1> QED
  BY <1>5, <1>7, <1>8 DEF r

LEMMA BeginDestroyKeeps ==
  ASSUME OutputsInv, NEW o \in Outputs, BeginDestroy(o)
  PROVE  OutputsInv'
<1>1. PICK k \in DOMAIN plugged : plugged[k] = o /\ plugged' = RemoveAt(plugged, k)
  BY DEF BeginDestroy
<1>2. /\ lit' = [lit EXCEPT ![o] = Off] /\ pending' = TRUE
      /\ UNCHANGED <<stored, budget, shown, last, blind>>
  BY DEF BeginDestroy
<1>3. /\ OutputsTyped /\ LitFits /\ LastWords /\ plugged \in Seq(Outputs) /\ NoRepeats(plugged)
      /\ lit \in [Outputs -> State]
  BY DEF OutputsInv, OutputsTyped
<1>4. k \in 1 .. Len(plugged)
  BY <1>1, <1>3, PluggedIs
<1>5. /\ plugged' \in Seq(Outputs) /\ NoRepeats(plugged')
      /\ \A i \in 1 .. Len(plugged) : i # k => plugged[i] \in Plugged'
  BY <1>1, <1>3, <1>4, RemoveAtIs DEF Plugged
<1>6. \A p \in Plugged \ {o} : p \in Plugged'
  <2>1. ASSUME NEW p \in Plugged \ {o} PROVE p \in Plugged'
    <3>1. PICK i \in 1 .. Len(plugged) : plugged[i] = p
      BY <1>3, PluggedIs
    <3> QED
      BY <1>1, <1>5, <2>1, <3>1
  <2> QED
    BY <2>1
<1>7. lit' \in [Outputs -> State] /\ \A p \in Outputs : lit'[p] = IF p = o THEN Off ELSE lit[p]
  BY <1>2, <1>3 DEF State
<1>8. OutputsTyped'
  BY <1>2, <1>3, <1>5, <1>7 DEF OutputsTyped
<1>9. LastWords' /\ StoredIsInForce'
  BY <1>2, <1>3 DEF LastWords, StoredIsInForce
<1>10. LitFits'
  BY <1>2, <1>3, <1>6, <1>7 DEF LitFits
<1> QED
  BY <1>8, <1>9, <1>10 DEF OutputsInv

\* A command that stores and puts off a modeset.
LEMMA StoreLaterKeeps ==
  ASSUME OutputsInv, NEW name \in Names, NEW set \in OutputSet, Store(name, set),
         pending' = TRUE, UNCHANGED <<plugged, lit, budget, shown>>
  PROVE  OutputsInv'
<1>1. OutputsTyped /\ LitFits /\ LastWords
  BY DEF OutputsInv
<1>2. ListOK(stored') /\ last' \in [Outputs -> OutputSet] /\ LastWords'
  BY <1>1, StoreKeeps
<1>3. OutputsTyped'
  BY <1>1, <1>2 DEF OutputsTyped
<1>4. LitFits'
  BY <1>1 DEF LitFits, Plugged
<1>5. StoredIsInForce'
  BY DEF StoredIsInForce
<1> QED
  BY <1>2, <1>3, <1>4, <1>5 DEF OutputsInv

LEMMA CmdOutputKeeps ==
  ASSUME OutputsInv, NEW c \in Commands, CmdOutput(c)
  PROVE  OutputsInv'
<1>1. c.name \in Names /\ One(c.field, c.value) \in OutputSet
  BY OneType, OutputConstants
<1>2. Store(c.name, One(c.field, c.value)) /\ pending' = TRUE /\ UNCHANGED <<plugged, lit, budget, shown>>
  BY DEF CmdOutput
<1> QED
  BY <1>1, <1>2, StoreLaterKeeps

LEMMA CmdToggleKeeps ==
  ASSUME OutputsInv, NEW o \in Outputs, CmdToggle(o)
  PROVE  OutputsInv'
<1> DEFINE v == IF FindOutputConfig(stored, o).enabled = 0 THEN 1 ELSE 0
<1>1. v \in ValuesOf("enabled")
  BY DEF ValuesOf
<1>2. Store(NameOf(o), One("enabled", v)) /\ pending' = TRUE /\ UNCHANGED <<plugged, lit, budget, shown>>
  BY DEF CmdToggle
<1> HIDE DEF v
<1>3. NameOf(o) \in Names /\ One("enabled", v) \in OutputSet
  BY <1>1, OneType, NamesApart DEF OutputFields
<1> QED
  BY <1>2, <1>3, StoreLaterKeeps

LEMMA SetPowerKeeps ==
  ASSUME OutputsInv, NEW o \in Outputs, NEW p \in {0, 1}, SetPower(o, p)
  PROVE  OutputsInv'
<1>1. NameOf(o) \in Names /\ One("power", p) \in OutputSet
  BY OneType, NamesApart DEF OutputFields, ValuesOf
<1>2. Store(NameOf(o), One("power", p)) /\ pending' = TRUE /\ UNCHANGED <<plugged, lit, budget, shown>>
  BY DEF SetPower
<1> QED
  BY <1>1, <1>2, StoreLaterKeeps

LEMMA HandleRequestStateKeeps ==
  ASSUME OutputsInv, NEW o \in Outputs, NEW m \in ModeSet, HandleRequestState(o, m)
  PROVE  OutputsInv'
<1>1. /\ Store(NameOf(o), One("mode", m)) /\ Modeset(stored')
      /\ plugged' = plugged /\ budget' = budget
  BY DEF HandleRequestState
<1>2. NameOf(o) \in Names /\ One("mode", m) \in OutputSet
  BY OneType, NamesApart DEF OutputFields, ValuesOf
<1>3. OutputsTyped /\ LitFits /\ LastWords
  BY DEF OutputsInv
<1>4. ListOK(stored') /\ last' \in [Outputs -> OutputSet] /\ LastWords'
  BY <1>1, <1>2, <1>3, StoreKeeps
<1>5. /\ lit' \in [Outputs -> State] /\ shown' \in [Outputs -> OutputSet]
      /\ LitFits' /\ StoredIsInForce'
  <2>1. stored' \in Seq(Entry)
    BY <1>4 DEF ListOK
  <2> QED
    BY <1>1, <1>3, <2>1, ModesetKeeps
<1>6. OutputsTyped'
  BY <1>1, <1>3, <1>4, <1>5 DEF OutputsTyped
<1> QED
  BY <1>4, <1>5, <1>6 DEF OutputsInv

LEMMA HeadConfigsAre ==
  ASSUME plugged \in Seq(Outputs), NEW heads \in [Plugged -> ModeSet \cup {Off}]
  PROVE  LET new == HeadConfigs(heads)
         IN  /\ new \in Seq(Entry) /\ Len(new) = Len(plugged)
             /\ \A i \in 1 .. Len(plugged) :
                  /\ new[i].name = NameOf(plugged[i]) /\ new[i].set \in OutputSet
                  /\ new[i].set = ConfigForHead(heads[plugged[i]])
<1> DEFINE n == Len(plugged)
           new == HeadConfigs(heads)
           e(i) == [name |-> NameOf(plugged[i]), set |-> ConfigForHead(heads[plugged[i]])]
<1>1. n \in Nat /\ DOMAIN plugged = 1 .. n /\ \A i \in 1 .. n : plugged[i] \in Plugged /\ plugged[i] \in Outputs
  BY PluggedIs
<1>2. new = [i \in 1 .. n |-> e(i)]
  BY <1>1 DEF HeadConfigs
<1>3. ASSUME NEW i \in 1 .. n
      PROVE  /\ e(i) \in Entry /\ e(i).name = NameOf(plugged[i])
             /\ e(i).set = ConfigForHead(heads[plugged[i]]) /\ e(i).set \in OutputSet
  <2>1. NameOf(plugged[i]) \in Names /\ ConfigForHead(heads[plugged[i]]) \in OutputSet
    BY <1>1, HeadType, NamesApart
  <2> QED
    BY <2>1 DEF Entry
<1> HIDE DEF new, e, n
<1>4. new \in [1 .. n -> Entry] /\ \A i \in 1 .. n : new[i] = e(i)
  BY <1>2, <1>3
<1>5. new \in Seq(Entry) /\ Len(new) = n
  BY <1>1, <1>4
<1> QED
  BY <1>3, <1>4, <1>5 DEF new, n

LEMMA OutputManagerApplyKeeps ==
  ASSUME OutputsInv, NEW heads \in [Plugged -> ModeSet \cup {Off}], NEW t \in BOOLEAN,
         OutputManagerApply(heads, t)
  PROVE  OutputsInv'
<1> DEFINE new == HeadConfigs(heads)
           matched == Configs(stored \o new)
<1>1. UNCHANGED <<plugged, budget, blind>>
  BY DEF OutputManagerApply
<1>2. PICK order \in Orders(matched) :
        LET states == Resolve(order, matched, FALSE)
        IN \/ /\ states # Failed /\ Commit(order, matched, states)
              /\ stored' = StoreAll(stored, new)
              /\ last' = [o \in Outputs |-> IF o \in Plugged
                   THEN MergeOutput(last[o], ConfigForHead(heads[o])) ELSE last[o]]
              /\ outcome' = "manager"
           \/ /\ Refuse /\ UNCHANGED <<stored, last>>
              /\ outcome' = "manager" \/ UNCHANGED <<pending, outcome>>
  BY DEF OutputManagerApply
<1>3. /\ OutputsTyped /\ LitFits /\ LastWords /\ StoredIsInForce /\ ListOK(stored)
      /\ plugged \in Seq(Outputs) /\ NoRepeats(plugged) /\ last \in [Outputs -> OutputSet]
      /\ stored \in Seq(Entry)
  BY DEF OutputsInv, OutputsTyped, ListOK
<1>4. /\ new \in Seq(Entry) /\ Len(new) = Len(plugged)
      /\ \A i \in 1 .. Len(plugged) :
           /\ new[i].name = NameOf(plugged[i]) /\ new[i].set \in OutputSet
           /\ new[i].set = ConfigForHead(heads[plugged[i]])
  BY <1>3, HeadConfigsAre
<1>5. Plugged \subseteq Outputs
  BY <1>3, PluggedIs
<1>6. CASE /\ Resolve(order, matched, FALSE) # Failed
           /\ Commit(order, matched, Resolve(order, matched, FALSE))
           /\ stored' = StoreAll(stored, new)
           /\ last' = [o \in Outputs |-> IF o \in Plugged
                   THEN MergeOutput(last[o], ConfigForHead(heads[o])) ELSE last[o]]
           /\ outcome' = "manager"
  <2>1. stored \o new \in Seq(Entry)
    BY <1>3, <1>4
  <2>2. /\ lit' \in [Outputs -> State] /\ shown' \in [Outputs -> OutputSet] /\ LitFits'
    BY <1>1, <1>3, <1>6, <2>1, CommitIs
  <2>3. /\ ListOK(stored')
        /\ \A k \in 1 .. Len(plugged) : FindOutputConfig(stored', plugged[k])
             = MergeOutput(FindOutputConfig(stored, plugged[k]), new[k].set)
        /\ \A o \in Outputs \ Plugged : FindOutputConfig(stored', o) = FindOutputConfig(stored, o)
    <3>1. \A i, j \in 1 .. Len(plugged) : plugged[i] = plugged[j] => i = j
      BY <1>3 DEF NoRepeats
    <3> HIDE DEF new
    <3> QED
      BY <1>3, <1>4, <1>5, <1>6, <3>1, StoreAllIs
  <2> HIDE DEF new, matched
  <2>4. ASSUME NEW o \in Outputs
        PROVE  /\ last'[o] \in OutputSet
               /\ o \notin blind => FindOutputConfig(stored', o) = last'[o]
    <3>1. last[o] \in OutputSet /\ (o \notin blind => FindOutputConfig(stored, o) = last[o])
      BY <1>3 DEF LastWords
    <3>2. CASE o \in Plugged
      <4>1. PICK k \in 1 .. Len(plugged) : plugged[k] = o
        BY <1>3, <3>2, PluggedIs
      <4>2. last'[o] = MergeOutput(last[o], ConfigForHead(heads[o])) /\ ConfigForHead(heads[o]) \in OutputSet
        BY <1>4, <1>6, <3>2, <4>1
      <4>3. FindOutputConfig(stored', o) = MergeOutput(FindOutputConfig(stored, o), ConfigForHead(heads[o]))
        BY <1>4, <2>3, <4>1
      <4> QED
        BY <3>1, <4>2, <4>3, MergeOutputType
    <3>3. CASE o \notin Plugged
      BY <1>6, <2>3, <3>1, <3>3
    <3> QED
      BY <3>2, <3>3
  <2>5. last' \in [Outputs -> OutputSet]
    <3>1. last' = [o \in Outputs |-> last'[o]]
      BY <1>6
    <3> QED
      BY <2>4, <3>1
  <2>6. OutputsTyped'
    BY <1>1, <1>3, <2>2, <2>3, <2>5 DEF OutputsTyped
  <2>7. LastWords'
    BY <1>1, <2>4 DEF LastWords
  <2>8. StoredIsInForce'
    BY <1>6 DEF StoredIsInForce
  <2> QED
    BY <2>2, <2>6, <2>7, <2>8 DEF OutputsInv
<1>7. CASE /\ Refuse /\ UNCHANGED <<stored, last>>
           /\ outcome' = "manager" \/ UNCHANGED <<pending, outcome>>
  <2>1. UNCHANGED <<stored, last, lit, shown, plugged, budget, blind>> /\ Plugged' = Plugged
    BY <1>1, <1>7 DEF Refuse, Plugged
  <2>2. OutputsTyped' /\ LastWords' /\ LitFits'
    BY <1>3, <2>1 DEF OutputsTyped, LastWords, LitFits
  <2>3. StoredIsInForce'
    BY <1>3, <1>7, <2>1 DEF StoredIsInForce
  <2> QED
    BY <2>2, <2>3 DEF OutputsInv
<1> QED
  BY <1>2, <1>6, <1>7

LEMMA OutputsInvNext == OutputsInv /\ [OutputConfigNext]_ocVars => OutputsInv'
<1> SUFFICES ASSUME OutputsInv, [OutputConfigNext]_ocVars
             PROVE  OutputsInv'
  OBVIOUS
<1>1. CASE TimerModesetHandle
  BY <1>1, TimerModesetHandleKeeps
<1>2. ASSUME NEW o \in Outputs, HandleNewOutput(o) \/ BeginDestroy(o)
      PROVE  OutputsInv'
  BY <1>2, HandleNewOutputKeeps, BeginDestroyKeeps
<1>3. ASSUME NEW c \in Commands, CmdOutput(c)
      PROVE  OutputsInv'
  BY <1>3, CmdOutputKeeps
<1>4. ASSUME NEW o \in Outputs, CmdToggle(o) \/ PowerToggle(o)
      PROVE  OutputsInv'
  BY <1>4, CmdToggleKeeps, SetPowerKeeps DEF PowerToggle
<1>5. ASSUME NEW o \in Outputs, NEW m \in ModeSet, HandleRequestState(o, m)
      PROVE  OutputsInv'
  BY <1>5, HandleRequestStateKeeps
<1>6. ASSUME NEW o \in Outputs, NEW p \in {0, 1}, SetPower(o, p)
      PROVE  OutputsInv'
  BY <1>6, SetPowerKeeps
<1>7. ASSUME NEW heads \in [Plugged -> ModeSet \cup {Off}], NEW t \in BOOLEAN,
             OutputManagerApply(heads, t)
      PROVE  OutputsInv'
  BY <1>7, OutputManagerApplyKeeps
<1>8. CASE UNCHANGED ocVars
  BY <1>8 DEF ocVars, OutputsInv, OutputsTyped, LastWords, StoredIsInForce, LitFits, Plugged
<1> QED
  BY <1>1, <1>2, <1>3, <1>4, <1>5, <1>6, <1>7, <1>8 DEF OutputConfigNext

------------------------------------------------------------------------------
(***************************************************************************)
(* What follows.                                                           *)
(***************************************************************************)
\* The invariant the theorems below rest on: configurations are typed, every
\* output but those named while away is configured as it was last told, what
\* is stored is in force, and a lit output could be lit alone as it is
\* (store_output_config, apply_stored_output_configs).
THEOREM OutputsStaySound == OutputConfigSpec => []OutputsInv
<1>1. OutputConfigInit => OutputsInv
  BY OutputsInvInit
<1>2. OutputsInv /\ [OutputConfigNext]_ocVars => OutputsInv'
  BY OutputsInvNext
<1> QED
  BY <1>1, <1>2, PTL DEF OutputConfigSpec

\* Whatever outputs are called by, plugged and unplugged, whatever commands,
\* managers and backends ask: the last that spoke of an output has its way,
\* and what is stored is in force once no modeset is put off or refused
\* (store_output_config, request_modeset, apply_output_configs).
THEOREM OutputsKeepObeying == OutputConfigSpec => []OutputsObey
<1>1. OutputsInv => OutputsObey
  <2> SUFFICES ASSUME OutputsInv
               PROVE  OutputsObey
    OBVIOUS
  <2>1. Plugged \subseteq Outputs
    BY PluggedIs DEF OutputsInv, OutputsTyped
  <2>2. LastCommandWins
    BY <2>1 DEF OutputsInv, LastWords, LastCommandWins
  <2> QED
    BY <2>2 DEF OutputsInv, OutputsObey
<1> QED
  BY <1>1, OutputsStaySound, PTL

\* However many outputs, modes and formats there are: the search fails only
\* if nothing the configurations leave open can be had together, and with
\* leave to turn outputs off it never fails, and turns one off only if none
\* of its settings can be had next to the outputs before it
\* (search_valid_config .. search_finish).
THEOREM SearchStaysComplete == OutputConfigSpec => []SearchIsComplete
<1>1. OutputsInv => SearchIsComplete
  <2> SUFFICES ASSUME OutputsInv, NEW order \in Orders(Configs(stored))
               PROVE  LET matched == Configs(stored)
                          whole == SearchValidConfig(order, matched, FALSE)
                          part == SearchValidConfig(order, matched, TRUE)
                      IN /\ (whole = Failed) <=>
                              (\A states \in Assignments(order, matched) : ~Prepare(order, states))
                         /\ part # Failed /\ Prepare(order, part)
                         /\ \A i \in DOMAIN order : part[i] = Off =>
                              \A c \in Allowed(matched[order[i]]) \ {Off} :
                                ~Prepare(order, Append(SubSeq(part, 1, i - 1), c))
    BY DEF SearchIsComplete
  <2> DEFINE matched == Configs(stored)
             whole == SearchValidConfig(order, matched, FALSE)
             part == SearchValidConfig(order, matched, TRUE)
             n == Len(order)
  <2>1. plugged \in Seq(Outputs) /\ budget \in Nat /\ stored \in Seq(Entry)
    BY DEF OutputsInv, OutputsTyped, ListOK
  <2>2. Asking(order, matched) /\ DOMAIN order = 1 .. n
    BY <2>1, PluggedIs, AskingIs, OrdersAre
  <2>3. Ends(order, matched, FALSE, <<>>, whole) /\ Ends(order, matched, TRUE, <<>>, part)
    BY <2>1, <2>2, SearchIs
  <2>4. Len(<<>>) = 0 /\ Len(<<>>) + 1 = 1
    OBVIOUS
  <2> HIDE DEF matched, whole, part, n
  <2>5. ASSUME whole = Failed, NEW a \in Assignments(order, matched)
        PROVE  ~Prepare(order, a)
    <3>1. Hopeless(order, matched, <<>>)
      BY <2>3, <2>5 DEF Ends
    <3>2. a \in [1 .. n -> State] /\ \A i \in 1 .. n : a[i] \in Allowed(matched[order[i]])
      BY <2>2, <2>5 DEF Assignments, State
    <3> QED
      BY <2>4, <3>1, <3>2 DEF Hopeless, n
  <2>6. ASSUME whole # Failed
        PROVE  whole \in Assignments(order, matched) /\ Prepare(order, whole)
    <3>1. Found(order, matched, FALSE, <<>>, whole)
      BY <2>3, <2>6 DEF Ends
    <3>2. /\ whole \in [1 .. n -> State] /\ Prepare(order, whole)
          /\ \A i \in 1 .. n : whole[i] \in Allowed(matched[order[i]])
      BY <2>4, <3>1 DEF Found, Settled, n
    <3> QED
      BY <2>2, <3>2 DEF Assignments, State
  <2>7. /\ part # Failed /\ Prepare(order, part)
        /\ \A i \in 1 .. n : NoBetter(order, matched, part, i)
    BY <2>3, <2>4 DEF Ends, Found, Settled, n
  <2>8. \A i \in DOMAIN order : part[i] = Off =>
          \A c \in Allowed(matched[order[i]]) \ {Off} :
            ~Prepare(order, Append(SubSeq(part, 1, i - 1), c))
    BY <2>2, <2>7 DEF NoBetter
  <2> QED
    BY <2>5, <2>6, <2>7, <2>8 DEF matched, whole, part
<1> QED
  BY <1>1, OutputsStaySound, PTL

\* Whatever is plugged in next to it, the only lit output stays lit when the
\* modeset that was put off is done: it comes before the others, and alone it
\* can be lit as it is (compare_matched_output_config_priority).
THEOREM HotplugKeepsItLit == OutputConfigSpec => HotplugKeepsLit
<1> DEFINE A == \A o \in Plugged :
                  (/\ TimerModesetHandle
                   /\ lit' # lit
                   /\ enabled = {o} /\ lit[o] # Off
                   /\ shown[o] = FindOutputConfig(stored, o))
                  => lit'[o] # Off
<1>1. OutputsInv /\ [OutputConfigNext]_ocVars => [A]_ocVars
  <2> SUFFICES ASSUME OutputsInv, NEW o \in Plugged, TimerModesetHandle, lit' # lit,
                      enabled = {o}, lit[o] # Off, shown[o] = FindOutputConfig(stored, o)
               PROVE  lit'[o] # Off
    OBVIOUS
  <2> DEFINE matched == Configs(stored)
             oc == matched[o]
  <2>1. /\ plugged \in Seq(Outputs) /\ budget \in Nat /\ stored \in Seq(Entry)
        /\ lit \in [Outputs -> State]
    BY DEF OutputsInv, OutputsTyped, ListOK
  <2>2. Plugged \subseteq Outputs /\ o \in Outputs
    BY <2>1, PluggedIs
  <2>3. PICK order \in Orders(matched) :
          /\ Resolve(order, matched, TRUE) # Failed
          /\ Commit(order, matched, Resolve(order, matched, TRUE))
    BY DEF TimerModesetHandle, Modeset, Refuse
  <2> DEFINE n == Len(order)
             asked == [i \in DOMAIN order |-> Requested(matched[order[i]])]
             searched == SearchValidConfig(order, matched, TRUE)
             r == Resolve(order, matched, TRUE)
  <2>4. /\ order \in Seq(Outputs) /\ DOMAIN order = 1 .. n /\ NoRepeats(order)
        /\ \E i \in 1 .. n : order[i] = o
        /\ \A i, j \in 1 .. n : i < j =>
              Priority(matched, order[i]) <= Priority(matched, order[j])
    BY <2>2, OrdersAre
  <2>5. Asking(order, matched) /\ oc = FindOutputConfig(stored, o) /\ oc \in OutputSet
    BY <2>1, <2>2, AskingIs
  <2>6. lit[o] \in Allowed(oc) /\ lit[o] \in Works[o] /\ CostOf(lit[o]) <= budget
    BY <2>2, <2>5 DEF OutputsInv, LitFits
  <2>7. ~Disabling(oc)
    BY <2>6 DEF Allowed
  <2>8. Ends(order, matched, TRUE, <<>>, searched)
    BY <2>1, <2>5, SearchIs
  <2> HIDE DEF matched, searched
  <2>9. n # 0 /\ 1 \in 1 .. n /\ order[1] = o
    <3>1. PICK i \in 1 .. n : order[i] = o
      BY <2>4
    <3>2. n \in Nat /\ 1 \in 1 .. n
      BY <2>4
    <3>3. CASE i = 1
      BY <3>1, <3>2, <3>3
    <3>4. CASE i # 1
      <4>1. Priority(matched, order[1]) <= Priority(matched, order[i])
        BY <2>4, <3>1, <3>2, <3>4
      <4>2. Priority(matched, o) = 1
        BY <2>7 DEF Priority
      <4>3. Priority(matched, order[1]) = 1
        BY <3>1, <4>1, <4>2 DEF Priority
      <4>4. order[1] \in enabled
        BY <4>3 DEF Priority
      <4> QED
        BY <2>4, <3>1, <3>2, <4>4 DEF NoRepeats
    <3> QED
      BY <3>3, <3>4
  <2>10. r[1] # Off
    <3>1. r = IF Prepare(order, asked) THEN asked ELSE searched
      BY DEF Resolve, searched
    <3>2. CASE Prepare(order, asked)
      <4>1. r[1] = Requested(oc)
        BY <2>4, <2>9, <3>1, <3>2
      <4> QED
        BY <2>5, <2>7, <4>1, RequestedIs, OutputConstants
    <3>3. CASE ~Prepare(order, asked)
      <4>1. r = searched
        BY <3>1, <3>3
      <4>2. NoBetter(order, matched, searched, 1) /\ searched \in [1 .. n -> State]
        <5>1. Len(<<>>) + 1 = 1
          OBVIOUS
        <5> QED
          BY <2>8, <2>9, <5>1 DEF Ends, Found, Settled
      <4>3. SubSeq(searched, 1, 1 - 1) = <<>>
        <5>1. searched \in Seq(State)
          BY <4>2
        <5> QED
          BY <5>1
      <4>4. Append(<<>>, lit[o]) = <<lit[o]>>
        OBVIOUS
      <4>5. Prepare(order, <<lit[o]>>)
        BY <2>1, <2>2, <2>4, <2>6, <2>9, AlonePrepares
      <4>6. searched[1] # Off
        BY <2>6, <2>9, <4>2, <4>3, <4>4, <4>5 DEF NoBetter
      <4> QED
        BY <4>1, <4>6
    <3> QED
      BY <3>2, <3>3
  <2> HIDE DEF r
  <2>11. lit'[o] = r[CHOOSE i \in DOMAIN order : order[i] = o]
    BY <2>2, <2>3 DEF Commit, r
  <2>12. (CHOOSE i \in DOMAIN order : order[i] = o) = 1
    BY <2>4, <2>9 DEF NoRepeats
  <2> QED
    BY <2>10, <2>11, <2>12
<1> QED
  BY <1>1, OutputsStaySound, PTL DEF OutputConfigSpec, HotplugKeepsLit
=============================================================================
