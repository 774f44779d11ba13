---------------------------- MODULE ThreadProofs ----------------------------
(***************************************************************************)
(* Theorems of Thread, for any spawn calls and any finite set of places    *)
(* for Thread values: the references to each closure add up, so no task    *)
(* loses the closure it runs.                                              *)
(***************************************************************************)
EXTENDS System, TLAPS, FiniteSetTheorems

USE ThreadAssumption DEF ThreadAssumption

-----------------------------------------------------------------------------
(* Counting references.                                                    *)

\* The references to c that a place with v in it makes.
One(v, c) == IF v # None /\ v.closure = c THEN 1 ELSE 0

LEMMA RefsFinite ==
  ASSUME NEW places, NEW c
  PROVE  /\ IsFiniteSet(RefsTo(places, c))
         /\ Cardinality(RefsTo(places, c)) \in 0..Cardinality(Slots)
<1>1. RefsTo(places, c) \subseteq Slots
  BY DEF RefsTo
<1>2. Cardinality(RefsTo(places, c)) <= Cardinality(Slots) /\ IsFiniteSet(RefsTo(places, c))
  BY <1>1, FS_Subset
<1>3. Cardinality(RefsTo(places, c)) \in Nat /\ Cardinality(Slots) \in Nat
  BY <1>2, FS_CardinalityType
<1> QED
  BY <1>2, <1>3

\* Places that differ in s only.
OnlyAt(s, before, after) == \A r \in Slots \ {s} : after[r] = before[r]

LEMMA RefsChange ==
  ASSUME NEW before, NEW after, NEW s \in Slots, NEW c, OnlyAt(s, before, after)
  PROVE  Refs(after, c) = Refs(before, c) - One(before[s], c) + One(after[s], c)
<1> USE DEF Refs, OnlyAt
<1> DEFINE old == RefsTo(before, c)
           new == RefsTo(after, c)
<1>1. IsFiniteSet(old) /\ Cardinality(old) \in Nat
  BY RefsFinite
<1>2. CASE One(before[s], c) = One(after[s], c)
  <2>1. new = old
    BY <1>2 DEF RefsTo, One
  <2>2. One(after[s], c) \in {0, 1}
    BY DEF One
  <2> QED
    BY <1>1, <1>2, <2>1, <2>2
<1>3. CASE One(before[s], c) = 1 /\ One(after[s], c) = 0
  <2>1. new = old \ {s} /\ s \in old
    BY <1>3 DEF RefsTo, One
  <2>2. Cardinality(old \ {s}) = Cardinality(old) - 1
    <3> HIDE DEF old
    <3> QED
      BY <1>1, <2>1, FS_RemoveElement
  <2>3. Cardinality(new) = Cardinality(old \ {s})
    BY <2>1
  <2> QED
    BY <1>1, <1>3, <2>2, <2>3
<1>4. CASE One(before[s], c) = 0 /\ One(after[s], c) = 1
  <2>1. new = old \cup {s} /\ s \notin old
    BY <1>4 DEF RefsTo, One
  <2>2. Cardinality(old \cup {s}) = Cardinality(old) + 1
    <3> HIDE DEF old
    <3> QED
      BY <1>1, <2>1, FS_AddElement
  <2>3. Cardinality(new) = Cardinality(old \cup {s})
    BY <2>1
  <2> QED
    BY <1>1, <1>4, <2>2, <2>3
<1> QED
  BY <1>2, <1>3, <1>4 DEF One

\* One place changes.
LEMMA PlaceStep ==
  ASSUME IInv, NEW s \in Slots, NEW v \in Values \cup {None},
         values' = [values EXCEPT ![s] = v], NEW c
  PROVE  Refs(values', c) = Refs(values, c) - One(values[s], c) + One(v, c)
<1>1. PICK after : after = values'
  OBVIOUS
<1>2. after[s] = v /\ OnlyAt(s, values, after)
  BY <1>1 DEF IInv, TypeOK, OnlyAt
<1>3. Refs(after, c) = Refs(values, c) - One(values[s], c) + One(after[s], c)
  BY <1>2, RefsChange
<1> QED
  BY <1>1, <1>2, <1>3

LEMMA RefsType ==
  ASSUME NEW c
  PROVE  /\ Refs(values, c) \in 0..Cardinality(Slots)
         /\ Refs(values', c) \in 0..Cardinality(Slots)
         /\ Cardinality(Slots) \in Nat
  BY RefsFinite, FS_CardinalityType DEF Refs

\* Nobody refers to a closure nobody has heard of, and it has no count.
LEMMA UnheardHasNothing ==
  ASSUME IInv, NEW c \in Spawns, phase[c] = "none"
  PROVE  /\ Refs(values, c) = 0 /\ strong[c] = 0 /\ leaked[c] = 0
         /\ c \notin simple \cup done
         /\ \A s \in Slots : values[s] # None => values[s].closure # c
<1>1. c \notin simple \cup done /\ \A s \in Slots : values[s] # None => values[s].closure # c
  BY DEF IInv, Unheard
<1>2. Refs(values, c) = 0
  <2>1. RefsTo(values, c) = {}
    BY <1>1 DEF RefsTo
  <2> QED
    BY <2>1, FS_EmptySet DEF Refs
<1>3. leaked[c] = 0
  BY DEF IInv, LeaksAtEnd
<1>4. Owned(c) = 0
  BY DEF Owned, Alive
<1>5. strong[c] = 0
  BY <1>2, <1>3, <1>4 DEF IInv, Accounted
<1> QED
  BY <1>1, <1>2, <1>3, <1>5

LEMMA OwnedRange ==
  ASSUME NEW c \in Spawns
  PROVE  Owned(c) \in 0..3 /\ (phase[c] \in Alive <=> Owned(c) > 0)
  BY DEF Owned, Alive

-----------------------------------------------------------------------------
(* What a step has to keep: the bounds of the counts follow from the rest. *)

Types ==
  /\ values \in [Slots -> Values \cup {None}]
  /\ simple \subseteq Spawns
  /\ phase \in [Spawns -> Phases]
  /\ suspended \subseteq {c \in Spawns : phase[c] \in Alive}
  /\ leaked \in [Spawns -> 0..3]
  /\ done \subseteq Spawns /\ joined \subseteq Spawns
  /\ ub \in {0, 1}

LEMMA TypesAreEnough ==
  ASSUME Types', strong' \in [Spawns -> Int], Accounted', LeaksAtEnd'
  PROVE  TypeOK'
<1>1. ASSUME NEW c \in Spawns
      PROVE  strong'[c] \in 0..(Cardinality(Slots) + 3)
  <2>1. strong'[c] = Refs(values', c) + Owned(c)' + leaked'[c]
    BY DEF Accounted
  <2>2. Refs(values', c) \in 0..Cardinality(Slots) /\ Cardinality(Slots) \in Nat
    BY RefsType
  <2>3. Owned(c)' \in 0..3 /\ leaked'[c] \in 0..3
    BY DEF Owned, Types
  <2>4. Owned(c)' = 0 \/ leaked'[c] = 0
    BY DEF Owned, Alive, LeaksAtEnd
  <2> QED
    BY <2>1, <2>2, <2>3, <2>4
<1>2. strong' \in [Spawns -> 0..(Cardinality(Slots) + 3)]
  BY <1>1
<1> QED
  BY <1>2 DEF Types, TypeOK

\* A place changes, and the counts with it.
LEMMA ValueStep ==
  ASSUME IInv, NEW s \in Slots, NEW v \in Values \cup {None},
         values' = [values EXCEPT ![s] = v],
         strong' \in [Spawns -> Int],
         \A c \in Spawns : strong'[c] = strong[c] - One(values[s], c) + One(v, c),
         \A c \in Spawns : One(v, c) = 1 => phase[c] # "none",
         UNCHANGED <<simple, phase, suspended, leaked, done, joined, ub>>
  PROVE  IInv'
<1>1. Types'
  BY DEF IInv, TypeOK, Types
<1>2. Accounted'
  <2> SUFFICES ASSUME NEW c \in Spawns
               PROVE  strong'[c] = Refs(values', c) + Owned(c)' + leaked'[c]
    BY DEF Accounted
  <2>1. Owned(c)' = Owned(c)
    BY DEF Owned
  <2>2. Refs(values', c) = Refs(values, c) - One(values[s], c) + One(v, c)
    BY PlaceStep
  <2>3. strong[c] = Refs(values, c) + Owned(c) + leaked[c]
    BY DEF IInv, Accounted
  <2>4. /\ One(values[s], c) \in {0, 1} /\ One(v, c) \in {0, 1}
        /\ Owned(c) \in Int /\ leaked[c] \in Int /\ Refs(values, c) \in Int
    BY RefsType, OwnedRange DEF One, IInv, TypeOK
  <2> QED
    BY <2>1, <2>2, <2>3, <2>4
<1>3. Unheard'
  BY DEF IInv, TypeOK, Unheard, One
<1>4. LeaksAtEnd' /\ BoxOfSpawn'
  BY DEF IInv, LeaksAtEnd, BoxOfSpawn
<1> QED
  BY <1>1, <1>2, <1>3, <1>4, TypesAreEnough DEF IInv

LEMMA FreeIsFree ==
  ASSUME Room
  PROVE  Free \in Slots /\ values[Free] = None
  BY DEF Room, Free

-----------------------------------------------------------------------------
(* Thread values.                                                          *)

\* A value without a closure is made.
MakesBare(task) ==
  /\ Room
  /\ values' = [values EXCEPT ![Free] = [task |-> task, closure |-> None]]
  /\ UNCHANGED <<simple, phase, suspended, strong, leaked, done, joined, ub>>

LEMMA BareValueStep ==
  ASSUME IInv, NEW task \in Spawns \cup {None}, MakesBare(task)
  PROVE  IInv'
<1> DEFINE v == [task |-> task, closure |-> None]
<1>1. Free \in Slots /\ values[Free] = None /\ v \in Values
  BY FreeIsFree DEF MakesBare, Values
<1>2. \A c \in Spawns : One(values[Free], c) = 0 /\ One(v, c) = 0
  BY <1>1 DEF One
<1>3. strong \in [Spawns -> Int]
  BY DEF IInv, TypeOK
<1>4. /\ values' = [values EXCEPT ![Free] = v]
      /\ strong' = strong
      /\ UNCHANGED <<simple, phase, suspended, leaked, done, joined, ub>>
  BY DEF MakesBare
<1>5. ASSUME NEW c \in Spawns
      PROVE  /\ strong'[c] = strong[c] - One(values[Free], c) + One(v, c)
             /\ One(v, c) = 1 => phase[c] # "none"
  <2> HIDE DEF v
  <2> QED
    BY <1>2, <1>3, <1>4
<1>6. strong' \in [Spawns -> Int]
  BY <1>3, <1>4
<1> QED
  <2> HIDE DEF v
  <2> QED
    BY <1>1, <1>4, <1>5, <1>6, ValueStep

LEMMA CloneStep ==
  ASSUME IInv, NEW s \in Slots, Clone(s)
  PROVE  IInv'
<1> DEFINE v == values[s]
<1>1. Free \in Slots /\ values[Free] = None /\ v \in Values /\ v # None
  BY FreeIsFree DEF Clone, IInv, TypeOK
<1>2. /\ values' = [values EXCEPT ![Free] = v]
      /\ strong' = Counted(v.closure, 1)
      /\ UNCHANGED <<simple, phase, suspended, leaked, done, joined, ub>>
  BY DEF Clone
<1>3. strong' \in [Spawns -> Int]
  BY <1>2 DEF Counted, IInv, TypeOK
<1>4. ASSUME NEW c \in Spawns
      PROVE  /\ strong'[c] = strong[c] - One(values[Free], c) + One(v, c)
             /\ One(v, c) = 1 => phase[c] # "none"
  <2>1. strong[c] \in Int
    BY DEF IInv, TypeOK
  <2>2. One(values[Free], c) = 0 /\ One(v, c) = IF v.closure = c THEN 1 ELSE 0
    BY <1>1 DEF One
  <2>3. phase[c] = "none" => v.closure # c
    BY <1>1, UnheardHasNothing
  <2> QED
    BY <1>2, <2>1, <2>2, <2>3 DEF Counted
<1> QED
  <2> HIDE DEF v
  <2> QED
    BY <1>1, <1>2, <1>3, <1>4, ValueStep

LEMMA DropValueStep ==
  ASSUME IInv, NEW s \in Slots, DropValue(s)
  PROVE  IInv'
<1> DEFINE v == None
<1>1. v \in Values \cup {None} /\ values[s] \in Values /\ values[s] # None
  BY DEF DropValue, IInv, TypeOK
<1>2. /\ values' = [values EXCEPT ![s] = v]
      /\ strong' = Counted(values[s].closure, -1)
      /\ UNCHANGED <<simple, phase, suspended, leaked, done, joined, ub>>
  BY DEF DropValue
<1>3. strong' \in [Spawns -> Int]
  BY <1>2 DEF Counted, IInv, TypeOK
<1>4. ASSUME NEW c \in Spawns
      PROVE  /\ strong'[c] = strong[c] - One(values[s], c) + One(v, c)
             /\ One(v, c) = 1 => phase[c] # "none"
  <2>1. strong[c] \in Int
    BY DEF IInv, TypeOK
  <2>2. One(v, c) = 0 /\ One(values[s], c) = IF values[s].closure = c THEN 1 ELSE 0
    BY <1>1 DEF One
  <2> QED
    BY <1>2, <2>1, <2>2 DEF Counted
<1> QED
  <2> HIDE DEF v
  <2> QED
    BY <1>1, <1>2, <1>3, <1>4, ValueStep

-----------------------------------------------------------------------------
(* spawn and spawn_simple.                                                 *)

\* A spawn call ends as p; l of the references to its closure are lost.
LEMMA CallStep ==
  ASSUME IInv, NEW c \in Spawns, phase[c] = "none",
         NEW p \in {"refused", "failed", "created"},
         NEW l, l = IF p = "failed" THEN 1 ELSE 0,
         phase' = [phase EXCEPT ![c] = p],
         leaked' = [leaked EXCEPT ![c] = l],
         simple' = simple \/ simple' = simple \cup {c},
         values' \in [Slots -> Values \cup {None}],
         strong' \in [Spawns -> Int],
         strong'[c] = Refs(values', c) + l + (IF p = "created" THEN 1 ELSE 0),
         \A d \in Spawns \ {c} : strong'[d] - strong[d] = Refs(values', d) - Refs(values, d),
         \A d \in Spawns \ {c} : phase[d] = "none" =>
           \A s \in Slots : values'[s] # None => values'[s].closure # d,
         UNCHANGED <<suspended, done, joined, ub>>
  PROVE  IInv'
<1>1. /\ leaked \in [Spawns -> 0..3] /\ phase \in [Spawns -> Phases]
      /\ c \notin simple \cup done /\ l \in {0, 1} /\ leaked[c] = 0
      /\ phase'[c] = p /\ leaked'[c] = l
      /\ \A d \in Spawns \ {c} : phase'[d] = phase[d] /\ leaked'[d] = leaked[d]
  BY UnheardHasNothing DEF IInv, TypeOK
<1>2. Types'
  BY <1>1 DEF IInv, TypeOK, Types, Phases, Alive
<1>3. Accounted'
  <2>1. Owned(c)' = IF p = "created" THEN 1 ELSE 0
    BY <1>1 DEF Owned, Alive
  <2>2. strong'[c] = Refs(values', c) + Owned(c)' + leaked'[c]
    BY <1>1, <2>1, RefsType
  <2>3. ASSUME NEW d \in Spawns \ {c}
        PROVE  strong'[d] = Refs(values', d) + Owned(d)' + leaked'[d]
    <3>1. Owned(d)' = Owned(d)
      BY <1>1 DEF Owned
    <3>2. strong[d] = Refs(values, d) + Owned(d) + leaked[d]
      BY DEF IInv, Accounted
    <3>3. /\ strong[d] \in Int /\ strong'[d] \in Int /\ Owned(d) \in Int
          /\ leaked[d] \in Int /\ Refs(values, d) \in Int /\ Refs(values', d) \in Int
      BY <1>1, RefsType, OwnedRange DEF IInv, TypeOK
    <3> QED
      BY <1>1, <3>1, <3>2, <3>3
  <2> QED
    BY <2>2, <2>3 DEF Accounted
<1>4. Unheard'
  BY <1>1 DEF IInv, Unheard
<1>5. LeaksAtEnd' /\ BoxOfSpawn'
  BY <1>1 DEF IInv, LeaksAtEnd, BoxOfSpawn
<1> QED
  BY <1>2, <1>3, <1>4, <1>5, TypesAreEnough DEF IInv

\* Two places change.
TwoChange(s, v, r, w) ==
  /\ s \in Slots /\ r \in Slots \ {s}
  /\ v \in Values \cup {None} /\ w \in Values \cup {None}
  /\ values' = [values EXCEPT ![s] = v, ![r] = w]

LEMMA PlacesStep ==
  ASSUME IInv, NEW s, NEW v, NEW r, NEW w, TwoChange(s, v, r, w), NEW c
  PROVE  Refs(values', c) =
           Refs(values, c) + One(v, c) + One(w, c) - (One(values[s], c) + One(values[r], c))
<1>1. values \in [Slots -> Values \cup {None}]
  BY DEF IInv, TypeOK
<1>2. PICK one, after : one = [values EXCEPT ![s] = v] /\ after = values'
  OBVIOUS
<1>3. /\ one[s] = v /\ one[r] = values[r] /\ after[r] = w /\ s \in Slots /\ r \in Slots
      /\ OnlyAt(s, values, one) /\ OnlyAt(r, one, after)
  BY <1>1, <1>2 DEF OnlyAt, TwoChange
<1>4. Refs(one, c) = Refs(values, c) - One(values[s], c) + One(one[s], c)
  BY <1>3, RefsChange
<1>5. Refs(after, c) = Refs(one, c) - One(one[r], c) + One(after[r], c)
  BY <1>3, RefsChange
<1>6. Refs(values, c) \in Int /\ \A x : One(x, c) \in {0, 1}
  BY RefsType DEF One
<1> QED
  BY <1>2, <1>3, <1>4, <1>5, <1>6

LEMMA SpawnStep ==
  ASSUME IInv, NEW s \in Slots, NEW c \in Spawns, Spawn(s, c)
  PROVE  IInv'
<1> DEFINE old  == values[s].closure
           self == [values[s] EXCEPT !.closure = c]
           new  == [task |-> c, closure |-> c]
           counts(n) == Counts(c, n, old, -1)
<1>1. /\ values[s] # None /\ phase[c] = "none"
      /\ UNCHANGED <<simple, suspended, done, joined, ub>>
  BY DEF Spawn
<1>2. /\ values \in [Slots -> Values \cup {None}] /\ strong \in [Spawns -> Int]
      /\ leaked \in [Spawns -> 0..3]
  BY DEF IInv, TypeOK
<1>3. /\ Refs(values, c) = 0 /\ leaked[c] = 0
      /\ \A r \in Slots : values[r] # None => values[r].closure # c
  BY <1>1, UnheardHasNothing
<1>4. /\ self \in Values /\ self # None /\ self.closure = c
      /\ new \in Values /\ new # None /\ new.closure = c
  BY <1>1, <1>2 DEF Values
<1>5. \A d : /\ One(values[s], d) = (IF old = d THEN 1 ELSE 0)
            /\ One(self, d) = (IF c = d THEN 1 ELSE 0)
            /\ One(new, d) = (IF c = d THEN 1 ELSE 0)
  BY <1>1, <1>4 DEF One
<1>6. ASSUME NEW n \in Nat
      PROVE  /\ counts(n) \in [Spawns -> Int] /\ counts(n)[c] = n
             /\ \A d \in Spawns \ {c} : counts(n)[d] = strong[d] - One(values[s], d)
  BY <1>2, <1>5 DEF Counts, Counted
<1>7. \A d \in Spawns : phase[d] = "none" => \A r \in Slots : values[r] # None => values[r].closure # d
  BY UnheardHasNothing
<1>8. leaked = [leaked EXCEPT ![c] = 0]
  BY <1>2, <1>3
<1>9. One(values[s], c) = 0
  BY <1>1, <1>3, <1>5
<1>10. ASSUME NEW p \in {"refused", "failed"}, NEW l, l = IF p = "failed" THEN 1 ELSE 0,
              phase' = [phase EXCEPT ![c] = p], leaked' = [leaked EXCEPT ![c] = l],
              values' = [values EXCEPT ![s] = self], strong' = counts(1 + l)
       PROVE  IInv'
  <2> HIDE DEF old, self, new, counts
  <2>1. \A d : Refs(values', d) = Refs(values, d) - One(values[s], d) + One(self, d)
    BY <1>4, <1>10, PlaceStep
  <2>2. 1 + l \in Nat
    BY <1>10
  <2>3. /\ strong' \in [Spawns -> Int] /\ strong'[c] = 1 + l
        /\ \A d \in Spawns \ {c} : strong'[d] = strong[d] - One(values[s], d)
    BY <1>6, <1>10, <2>2
  <2>4. Refs(values', c) = 1
    BY <1>3, <1>5, <1>9, <2>1
  <2>5. \A d \in Spawns \ {c} : strong'[d] - strong[d] = Refs(values', d) - Refs(values, d)
    <3> TAKE d \in Spawns \ {c}
    <3>1. One(self, d) = 0 /\ One(values[s], d) \in {0, 1}
      BY <1>5
    <3>2. strong[d] \in Int /\ Refs(values, d) \in Int
      BY <1>2, RefsType
    <3> QED
      BY <2>1, <2>3, <3>1, <3>2
  <2>6. values' \in [Slots -> Values \cup {None}]
    BY <1>2, <1>4, <1>10
  <2>7. \A d \in Spawns \ {c} : phase[d] = "none" =>
          \A r \in Slots : values'[r] # None => values'[r].closure # d
    BY <1>2, <1>4, <1>7, <1>10
  <2>8. strong'[c] = Refs(values', c) + l + (IF p = "created" THEN 1 ELSE 0)
    BY <1>10, <2>3, <2>4
  <2>9. simple' = simple \/ simple' = simple \cup {c}
    BY <1>1
  <2> QED
    BY <1>1, <1>10, <2>3, <2>5, <2>6, <2>7, <2>8, <2>9, CallStep
<1>11. ASSUME Room, phase' = [phase EXCEPT ![c] = "created"], UNCHANGED leaked,
              values' = [values EXCEPT ![s] = self, ![Free] = new], strong' = counts(3)
       PROVE  IInv'
  <2>1. Free \in Slots \ {s} /\ values[Free] = None
    BY <1>1, <1>11, FreeIsFree
  <2>2. \A d : One(values[Free], d) = 0
    BY <2>1 DEF One
  <2> HIDE DEF old, self, new, counts
  <2>3. \A d : Refs(values', d) = Refs(values, d) + One(self, d) + One(new, d)
                                    - (One(values[s], d) + One(values[Free], d))
    <3>1. TwoChange(s, self, Free, new)
      BY <1>4, <1>11, <2>1 DEF TwoChange
    <3> QED
      BY <3>1, PlacesStep
  <2>4. /\ strong' \in [Spawns -> Int] /\ strong'[c] = 3
        /\ \A d \in Spawns \ {c} : strong'[d] = strong[d] - One(values[s], d)
    BY <1>6, <1>11
  <2>5. Refs(values', c) = 2
    BY <1>3, <1>5, <1>9, <2>2, <2>3
  <2>6. \A d \in Spawns \ {c} : strong'[d] - strong[d] = Refs(values', d) - Refs(values, d)
    <3> TAKE d \in Spawns \ {c}
    <3>1. One(self, d) = 0 /\ One(new, d) = 0 /\ One(values[s], d) \in {0, 1}
      BY <1>5
    <3>2. strong[d] \in Int /\ Refs(values, d) \in Int
      BY <1>2, RefsType
    <3> QED
      BY <2>2, <2>3, <2>4, <3>1, <3>2
  <2>7. values' \in [Slots -> Values \cup {None}]
    BY <1>2, <1>4, <1>11
  <2>8. \A d \in Spawns \ {c} : phase[d] = "none" =>
          \A r \in Slots : values'[r] # None => values'[r].closure # d
    BY <1>2, <1>4, <1>7, <1>11, <2>1
  <2>9. PICK p, l : p = "created" /\ l = 0
    OBVIOUS
  <2>10. /\ phase' = [phase EXCEPT ![c] = p] /\ leaked' = [leaked EXCEPT ![c] = l]
         /\ p \in {"refused", "failed", "created"} /\ l = IF p = "failed" THEN 1 ELSE 0
    BY <1>8, <1>11, <2>9
  <2>11. strong'[c] = Refs(values', c) + l + (IF p = "created" THEN 1 ELSE 0)
    BY <2>4, <2>5, <2>9
  <2>12. simple' = simple \/ simple' = simple \cup {c}
    BY <1>1
  <2> QED
    BY <1>1, <2>4, <2>6, <2>7, <2>8, <2>10, <2>11, <2>12, CallStep
<1>12. CASE phase' = [phase EXCEPT ![c] = "refused"] /\ values' = [values EXCEPT ![s] = self]
            /\ strong' = counts(1) /\ UNCHANGED leaked
  BY <1>8, <1>10, <1>12
<1>13. CASE phase' = [phase EXCEPT ![c] = "failed"] /\ values' = [values EXCEPT ![s] = self]
            /\ strong' = counts(2) /\ leaked' = [leaked EXCEPT ![c] = 1]
  <2>1. PICK p, l : p = "failed" /\ l = 1
    OBVIOUS
  <2>2. /\ phase' = [phase EXCEPT ![c] = p] /\ leaked' = [leaked EXCEPT ![c] = l]
        /\ p \in {"refused", "failed"} /\ l = (IF p = "failed" THEN 1 ELSE 0)
        /\ values' = [values EXCEPT ![s] = self] /\ strong' = counts(1 + l)
    <3> HIDE DEF self, counts
    <3>1. 1 + l = 2
      BY <2>1
    <3> QED
      BY <1>13, <2>1, <3>1
  <2> HIDE DEF old, self, new, counts
  <2> QED
    BY <1>10, <2>2
<1> QED
  BY <1>11, <1>12, <1>13 DEF Spawn

LEMMA SpawnSimpleStep ==
  ASSUME IInv, NEW s \in Slots, NEW c \in Spawns, SpawnSimple(s, c)
  PROVE  IInv'
<1> DEFINE old == values[s].closure
           new == [task |-> c, closure |-> old]
<1>1. /\ values[s] # None /\ phase[c] = "none" /\ simple' = simple \cup {c}
      /\ UNCHANGED <<suspended, done, joined, ub>>
  BY DEF SpawnSimple
<1>2. /\ values \in [Slots -> Values \cup {None}] /\ strong \in [Spawns -> Int]
      /\ leaked \in [Spawns -> 0..3]
  BY DEF IInv, TypeOK
<1>3. /\ Refs(values, c) = 0 /\ leaked[c] = 0 /\ strong[c] = 0
      /\ \A r \in Slots : values[r] # None => values[r].closure # c
  BY <1>1, UnheardHasNothing
<1>4. \A d \in Spawns : phase[d] = "none" => \A r \in Slots : values[r] # None => values[r].closure # d
  BY UnheardHasNothing
<1>5. ASSUME NEW p \in {"refused", "failed"}, NEW l, l = IF p = "failed" THEN 1 ELSE 0,
             phase' = [phase EXCEPT ![c] = p], leaked' = [leaked EXCEPT ![c] = l],
             values' = values, strong' = [strong EXCEPT ![c] = l]
      PROVE  IInv'
  <2>1. /\ strong' \in [Spawns -> Int] /\ strong'[c] = l
        /\ \A d \in Spawns \ {c} : strong'[d] = strong[d] /\ strong[d] \in Int
    BY <1>2, <1>5
  <2>2. \A d : Refs(values', d) = Refs(values, d) /\ Refs(values, d) \in Int
    BY <1>5, RefsType
  <2>3. strong'[c] = Refs(values', c) + l + (IF p = "created" THEN 1 ELSE 0)
    BY <1>3, <1>5, <2>1, <2>2
  <2>4. \A d \in Spawns \ {c} : strong'[d] - strong[d] = Refs(values', d) - Refs(values, d)
    BY <2>1, <2>2
  <2>5. /\ values' \in [Slots -> Values \cup {None}]
        /\ \A d \in Spawns \ {c} : phase[d] = "none" =>
             \A r \in Slots : values'[r] # None => values'[r].closure # d
    BY <1>2, <1>4, <1>5
  <2> QED
    BY <1>1, <1>5, <2>1, <2>3, <2>4, <2>5, CallStep
<1>6. ASSUME Room, phase' = [phase EXCEPT ![c] = "created"], UNCHANGED leaked,
             values' = [values EXCEPT ![Free] = new], strong' = Counts(c, 1, old, 1)
      PROVE  IInv'
  <2>1. Free \in Slots /\ values[Free] = None
    BY <1>6, FreeIsFree
  <2>2. new \in Values /\ new # None /\ new.closure = old /\ old # c
    BY <1>1, <1>2, <1>3 DEF Values
  <2>3. \A d : /\ One(values[Free], d) = 0
              /\ One(new, d) = (IF old = d THEN 1 ELSE 0)
    BY <2>1, <2>2 DEF One
  <2>4. /\ strong' \in [Spawns -> Int] /\ strong'[c] = 1
        /\ \A d \in Spawns \ {c} : strong'[d] = strong[d] + One(new, d)
    BY <1>2, <1>6, <2>3 DEF Counts, Counted
  <2>5. \A d \in Spawns \ {c} : phase[d] = "none" => old # d
    BY <1>1, <1>4
  <2> HIDE DEF old, new
  <2>6. \A d : Refs(values', d) = Refs(values, d) - One(values[Free], d) + One(new, d)
    BY <1>6, <2>1, <2>2, PlaceStep
  <2>7. Refs(values', c) = 0
    BY <1>3, <2>2, <2>3, <2>6
  <2>8. \A d \in Spawns \ {c} : strong'[d] - strong[d] = Refs(values', d) - Refs(values, d)
    <3> TAKE d \in Spawns \ {c}
    <3>1. One(new, d) \in {0, 1} /\ strong[d] \in Int /\ Refs(values, d) \in Int
      BY <1>2, <2>3, RefsType
    <3> QED
      BY <2>3, <2>4, <2>6, <3>1
  <2>9. /\ values' \in [Slots -> Values \cup {None}]
        /\ \A d \in Spawns \ {c} : phase[d] = "none" =>
             \A r \in Slots : values'[r] # None => values'[r].closure # d
    BY <1>2, <1>4, <1>6, <2>1, <2>2, <2>5
  <2>10. PICK p, l : p = "created" /\ l = 0
    OBVIOUS
  <2>11. leaked = [leaked EXCEPT ![c] = 0]
    BY <1>2, <1>3
  <2>12. /\ phase' = [phase EXCEPT ![c] = p] /\ leaked' = [leaked EXCEPT ![c] = l]
         /\ p \in {"refused", "failed", "created"} /\ l = IF p = "failed" THEN 1 ELSE 0
    BY <1>6, <2>10, <2>11
  <2>13. strong'[c] = Refs(values', c) + l + (IF p = "created" THEN 1 ELSE 0)
    BY <2>4, <2>7, <2>10
  <2> QED
    BY <1>1, <2>4, <2>8, <2>9, <2>12, <2>13, CallStep
<1>7. CASE phase' = [phase EXCEPT ![c] = "refused"] /\ UNCHANGED <<values, strong, leaked>>
  <2>1. strong = [strong EXCEPT ![c] = 0] /\ leaked = [leaked EXCEPT ![c] = 0]
    BY <1>2, <1>3
  <2> QED
    BY <1>5, <1>7, <2>1
<1>8. CASE /\ phase' = [phase EXCEPT ![c] = "failed"] /\ UNCHANGED values
           /\ strong' = [strong EXCEPT ![c] = 1] /\ leaked' = [leaked EXCEPT ![c] = 1]
  BY <1>5, <1>8
<1> QED
  BY <1>6, <1>7, <1>8 DEF SpawnSimple

-----------------------------------------------------------------------------
(* The task.                                                               *)

\* The task of c goes on to p, or is deleted.
LEMMA TaskStep ==
  ASSUME IInv, NEW c \in Spawns, phase[c] \in Alive,
         NEW p \in {"called", "bare", "returned", "ended"},
         p = "called" => c \notin simple,
         phase[c] = "returned" => p = "ended",
         phase' = [phase EXCEPT ![c] = p],
         leaked' = [leaked EXCEPT ![c] = IF p = "ended" THEN Owned(c) ELSE 0],
         suspended' = IF p = "ended" THEN suspended \ {c} ELSE suspended,
         done' = IF p = "returned" THEN done \cup {c} ELSE done,
         joined' \subseteq Spawns,
         values' \in [Slots -> Values \cup {None}],
         \A s \in Slots : values'[s] = values[s] \/ (values'[s] # None /\ values'[s].closure = c),
         \A d \in Spawns \ {c} : Refs(values', d) = Refs(values, d),
         NEW n \in Int, strong' = Counted(c, n),
         n = (Refs(values', c) - Refs(values, c)) + (Owned(c)' + leaked'[c] - Owned(c)),
         UNCHANGED <<simple, ub>>
  PROVE  IInv'
<1>1. /\ leaked \in [Spawns -> 0..3] /\ phase \in [Spawns -> Phases]
      /\ strong \in [Spawns -> Int] /\ leaked[c] = 0
  BY DEF IInv, TypeOK, LeaksAtEnd, Alive
<1>2. /\ phase'[c] = p /\ leaked'[c] = IF p = "ended" THEN Owned(c) ELSE 0
      /\ \A d \in Spawns \ {c} : phase'[d] = phase[d] /\ leaked'[d] = leaked[d]
  BY <1>1
<1>3. Owned(c) \in 1..3
  BY OwnedRange
<1>4. Types'
  <2>1. leaked' \in [Spawns -> 0..3]
    BY <1>1, <1>3
  <2>2. suspended' \subseteq {d \in Spawns : phase'[d] \in Alive}
    BY <1>2 DEF IInv, TypeOK, Alive
  <2> QED
    BY <1>1, <2>1, <2>2 DEF IInv, TypeOK, Types, Phases
<1>5. strong' \in [Spawns -> Int]
  BY <1>1 DEF Counted
<1>6. Accounted'
  <2> SUFFICES ASSUME NEW d \in Spawns
               PROVE  strong'[d] = Refs(values', d) + Owned(d)' + leaked'[d]
    BY DEF Accounted
  <2>1. strong[d] = Refs(values, d) + Owned(d) + leaked[d]
    BY DEF IInv, Accounted
  <2>2. /\ strong[d] \in Int /\ Owned(d) \in Int /\ leaked[d] \in Int
        /\ Refs(values, d) \in Int /\ Refs(values', d) \in Int
    BY <1>1, RefsType, OwnedRange
  <2>3. CASE d = c
    <3>1. strong'[c] = strong[c] + n
      BY DEF Counted
    <3>2. Owned(c)' \in Int /\ leaked'[c] \in Int
      BY <1>2, <1>3 DEF Owned
    <3> QED
      BY <1>1, <2>1, <2>2, <2>3, <3>1, <3>2
  <2>4. CASE d # c
    <3>1. strong'[d] = strong[d]
      BY <2>4 DEF Counted
    <3>2. Owned(d)' = Owned(d)
      BY <1>2, <2>4 DEF Owned
    <3> QED
      BY <1>2, <2>1, <2>4, <3>1, <3>2
  <2> QED
    BY <2>3, <2>4
<1>7. Unheard'
  BY <1>2 DEF IInv, Unheard
<1>8. LeaksAtEnd'
  <2>1. c \in done => phase[c] = "returned"
    BY DEF IInv, LeaksAtEnd, Alive
  <2>2. phase[c] = "returned" => Owned(c) = 1
    BY DEF Owned, Alive
  <2> QED
    BY <1>2, <1>3, <2>1, <2>2 DEF IInv, LeaksAtEnd
<1>9. BoxOfSpawn'
  BY <1>2 DEF IInv, BoxOfSpawn
<1> QED
  BY <1>4, <1>5, <1>6, <1>7, <1>8, <1>9, TypesAreEnough DEF IInv

LEMMA AliveIsClear ==
  ASSUME IInv, NEW c \in Spawns, phase[c] \in Alive
  PROVE  /\ leaked = [leaked EXCEPT ![c] = 0]
         /\ leaked[c] = 0
         /\ phase \in [Spawns -> Phases] /\ strong \in [Spawns -> Int]
         /\ strong = Counted(c, 0)
  BY DEF IInv, TypeOK, LeaksAtEnd, Alive, Counted

LEMMA EnterStep ==
  ASSUME IInv, NEW c \in Spawns, Enter(c)
  PROVE  IInv'
<1>1. phase[c] = "created" /\ phase[c] \in Alive
  BY DEF Enter, Alive
<1>2. PICK p, n : /\ p = (IF c \in simple THEN "bare" ELSE "called")
                  /\ n = (IF c \in simple THEN 0 ELSE 2)
  OBVIOUS
<1>3. /\ phase' = [phase EXCEPT ![c] = p] /\ strong' = Counted(c, n)
      /\ UNCHANGED <<values, simple, suspended, leaked, done, joined, ub>>
  BY <1>1, <1>2, AliveIsClear DEF Enter
<1>4. Owned(c) = 1 /\ Owned(c)' = 1 + n /\ leaked'[c] = 0
  BY <1>1, <1>2, <1>3, AliveIsClear DEF Owned, Alive
<1>5. Refs(values', c) = Refs(values, c) /\ Refs(values, c) \in Int
  BY <1>3, RefsType
<1>6. n \in Int /\ n = (Refs(values', c) - Refs(values, c)) + (Owned(c)' + leaked'[c] - Owned(c))
  BY <1>2, <1>4, <1>5
<1>7. /\ p \in {"called", "bare", "returned", "ended"} /\ p # "ended" /\ p # "returned"
      /\ p = "called" => c \notin simple
      /\ phase[c] # "returned"
  BY <1>1, <1>2
<1>8. /\ leaked' = [leaked EXCEPT ![c] = IF p = "ended" THEN Owned(c) ELSE 0]
      /\ suspended' = IF p = "ended" THEN suspended \ {c} ELSE suspended
      /\ done' = IF p = "returned" THEN done \cup {c} ELSE done
  BY <1>1, <1>3, <1>7, AliveIsClear
<1>9. joined' \subseteq Spawns /\ values' \in [Slots -> Values \cup {None}]
  BY <1>3 DEF IInv, TypeOK
<1>10. /\ \A s \in Slots : values'[s] = values[s] \/ (values'[s] # None /\ values'[s].closure = c)
       /\ \A d \in Spawns \ {c} : Refs(values', d) = Refs(values, d)
       /\ UNCHANGED <<simple, ub>>
  BY <1>3
<1> QED
  BY <1>1, <1>3, <1>6, <1>7, <1>8, <1>9, <1>10, TaskStep

LEMMA GiveUpBoxStep ==
  ASSUME IInv, NEW c \in Spawns, GiveUpBox(c)
  PROVE  IInv'
<1>1. /\ phase[c] = "called" /\ phase[c] \in Alive /\ c \notin simple
      /\ UNCHANGED <<simple, suspended, leaked, done, joined, ub>>
  BY DEF GiveUpBox, Alive, IInv, BoxOfSpawn
<1>2. PICK p : p = "bare"
  OBVIOUS
<1>3. phase' = [phase EXCEPT ![c] = p]
  BY <1>2 DEF GiveUpBox
<1>4. Owned(c) = 3 /\ Owned(c)' = 2 /\ leaked'[c] = 0
  BY <1>1, <1>2, <1>3, AliveIsClear DEF Owned, Alive
<1>5. /\ p \in {"called", "bare", "returned", "ended"} /\ p # "ended" /\ p # "returned"
      /\ p # "called" /\ phase[c] # "returned"
  BY <1>1, <1>2
<1>6. /\ leaked' = [leaked EXCEPT ![c] = IF p = "ended" THEN Owned(c) ELSE 0]
      /\ suspended' = IF p = "ended" THEN suspended \ {c} ELSE suspended
      /\ done' = IF p = "returned" THEN done \cup {c} ELSE done
  BY <1>1, <1>5, AliveIsClear
<1>7. joined' \subseteq Spawns /\ values \in [Slots -> Values \cup {None}]
  BY <1>1 DEF IInv, TypeOK
<1>8. ASSUME values' \in [Slots -> Values \cup {None}],
             \A s \in Slots : values'[s] = values[s] \/ (values'[s] # None /\ values'[s].closure = c),
             \A d \in Spawns \ {c} : Refs(values', d) = Refs(values, d),
             NEW n \in Int, strong' = Counted(c, n), Refs(values', c) - Refs(values, c) = n + 1
      PROVE  IInv'
  <2>1. n = (Refs(values', c) - Refs(values, c)) + (Owned(c)' + leaked'[c] - Owned(c))
    BY <1>4, <1>8
  <2>2. UNCHANGED <<simple, ub>>
    BY <1>1
  <2> QED
    BY <1>1, <1>3, <1>5, <1>6, <1>7, <1>8, <2>1, <2>2, TaskStep
<1>9. CASE strong' = Counted(c, -1) /\ UNCHANGED values
  <2>1. PICK n : n = -1
    OBVIOUS
  <2>2. /\ n \in Int /\ strong' = Counted(c, n)
        /\ Refs(values', c) - Refs(values, c) = n + 1
        /\ \A d \in Spawns \ {c} : Refs(values', d) = Refs(values, d)
    BY <1>9, <2>1, RefsType
  <2> QED
    BY <1>7, <1>8, <1>9, <2>2
<1>10. CASE Room /\ values' = [values EXCEPT ![Free] = [task |-> c, closure |-> c]] /\ UNCHANGED strong
  <2> DEFINE new == [task |-> c, closure |-> c]
  <2>1. /\ Free \in Slots /\ values[Free] = None
        /\ new \in Values /\ new # None /\ new.closure = c
    BY <1>10, FreeIsFree DEF Values
  <2>2. \A d : One(values[Free], d) = 0 /\ One(new, d) = (IF c = d THEN 1 ELSE 0)
    BY <2>1 DEF One
  <2>3. values' = [values EXCEPT ![Free] = new]
    BY <1>10
  <2> HIDE DEF new
  <2>4. \A d : Refs(values', d) = Refs(values, d) - One(values[Free], d) + One(new, d)
    BY <2>1, <2>3, PlaceStep
  <2>5. PICK n : n = 0
    OBVIOUS
  <2>6. /\ n \in Int /\ strong' = Counted(c, n)
        /\ Refs(values', c) - Refs(values, c) = n + 1
        /\ \A d \in Spawns \ {c} : Refs(values', d) = Refs(values, d)
    <3>1. \A d : Refs(values, d) \in Int
      BY RefsType
    <3>2. strong' = Counted(c, n)
      BY <1>1, <1>10, <2>5, AliveIsClear
    <3> QED
      BY <2>2, <2>4, <2>5, <3>1, <3>2
  <2>7. /\ values' \in [Slots -> Values \cup {None}]
        /\ \A s \in Slots : values'[s] = values[s] \/ (values'[s] # None /\ values'[s].closure = c)
    BY <1>7, <2>1, <2>3
  <2> QED
    BY <1>8, <2>6, <2>7
<1> QED
  BY <1>9, <1>10 DEF GiveUpBox

LEMMA ReturnStep ==
  ASSUME IInv, NEW c \in Spawns, Return(c)
  PROVE  IInv'
<1>1. /\ phase[c] \in {"called", "bare"} /\ phase[c] \in Alive
      /\ UNCHANGED <<values, simple, suspended, leaked, joined, ub>>
  BY DEF Return, Alive
<1>2. PICK p, n : p = "returned" /\ n = 1 - Owned(c)
  OBVIOUS
<1>3. /\ phase' = [phase EXCEPT ![c] = p] /\ strong' = Counted(c, n)
      /\ done' = done \cup {c}
  BY <1>2 DEF Return
<1>4. Owned(c)' = 1 /\ leaked'[c] = 0
  BY <1>1, <1>2, <1>3, AliveIsClear DEF Owned, Alive
<1>5. Refs(values', c) = Refs(values, c) /\ Refs(values, c) \in Int /\ Owned(c) \in Int
  BY <1>1, RefsType, OwnedRange
<1>6. n \in Int /\ n = (Refs(values', c) - Refs(values, c)) + (Owned(c)' + leaked'[c] - Owned(c))
  BY <1>2, <1>4, <1>5
<1>7. /\ p \in {"called", "bare", "returned", "ended"} /\ p # "ended" /\ p = "returned"
      /\ p # "called" /\ phase[c] # "returned"
  BY <1>1, <1>2
<1>8. /\ leaked' = [leaked EXCEPT ![c] = IF p = "ended" THEN Owned(c) ELSE 0]
      /\ suspended' = IF p = "ended" THEN suspended \ {c} ELSE suspended
      /\ done' = IF p = "returned" THEN done \cup {c} ELSE done
  BY <1>1, <1>3, <1>7, AliveIsClear
<1>9. joined' \subseteq Spawns /\ values' \in [Slots -> Values \cup {None}]
  BY <1>1 DEF IInv, TypeOK
<1>10. /\ \A s \in Slots : values'[s] = values[s] \/ (values'[s] # None /\ values'[s].closure = c)
       /\ \A d \in Spawns \ {c} : Refs(values', d) = Refs(values, d)
       /\ UNCHANGED <<simple, ub>>
  BY <1>1
<1> QED
  BY <1>1, <1>3, <1>6, <1>7, <1>8, <1>9, <1>10, TaskStep

LEMMA DeleteTaskStep ==
  ASSUME IInv, NEW c \in Spawns, phase[c] \in Alive, DeleteTask(c), joined' \subseteq Spawns
  PROVE  IInv'
<1>1. PICK p, n : p = "ended" /\ n = 0
  OBVIOUS
<1>2. /\ phase' = [phase EXCEPT ![c] = p] /\ strong' = Counted(c, n)
      /\ suspended' = suspended \ {c}
      /\ UNCHANGED <<values, simple, done, ub>>
  BY <1>1, AliveIsClear DEF DeleteTask
<1>3. Owned(c) \in Int /\ leaked \in [Spawns -> 0..3]
  BY OwnedRange DEF IInv, TypeOK
<1>4. leaked' = [leaked EXCEPT ![c] = Owned(c)]
  <2>1. leaked[c] = 0 /\ leaked[c] + Owned(c) = Owned(c)
    BY <1>3, AliveIsClear
  <2> QED
    BY <1>3, <2>1 DEF DeleteTask
<1>5. Owned(c)' = 0 /\ leaked'[c] = Owned(c)
  BY <1>1, <1>2, <1>3, <1>4, AliveIsClear DEF Owned, Alive
<1>6. Refs(values', c) = Refs(values, c) /\ Refs(values, c) \in Int
  BY <1>2, RefsType
<1>7. n \in Int /\ n = (Refs(values', c) - Refs(values, c)) + (Owned(c)' + leaked'[c] - Owned(c))
  BY <1>1, <1>3, <1>5, <1>6
<1>8. /\ p \in {"called", "bare", "returned", "ended"} /\ p = "ended" /\ p # "returned"
      /\ p # "called"
  BY <1>1
<1>9. /\ leaked' = [leaked EXCEPT ![c] = IF p = "ended" THEN Owned(c) ELSE 0]
      /\ suspended' = IF p = "ended" THEN suspended \ {c} ELSE suspended
      /\ done' = IF p = "returned" THEN done \cup {c} ELSE done
  BY <1>2, <1>4, <1>8
<1>10. values' \in [Slots -> Values \cup {None}]
  BY <1>2 DEF IInv, TypeOK
<1>11. /\ \A s \in Slots : values'[s] = values[s] \/ (values'[s] # None /\ values'[s].closure = c)
       /\ \A d \in Spawns \ {c} : Refs(values', d) = Refs(values, d)
       /\ UNCHANGED <<simple, ub>>
  BY <1>2
<1> QED
  BY <1>2, <1>7, <1>8, <1>9, <1>10, <1>11, TaskStep

\* Nothing that is counted changes.
LEMMA QuietStep ==
  ASSUME IInv, suspended' \subseteq {c \in Spawns : phase[c] \in Alive}, ub' \in {0, 1},
         UNCHANGED <<values, simple, phase, strong, leaked, done, joined>>
  PROVE  IInv'
<1>1. TypeOK'
  BY DEF IInv, TypeOK
<1>2. Accounted'
  <2>1. \A c \in Spawns : Owned(c)' = Owned(c) /\ Refs(values', c) = Refs(values, c)
    BY DEF Owned
  <2> QED
    BY <2>1 DEF IInv, Accounted
<1>3. Unheard' /\ LeaksAtEnd' /\ BoxOfSpawn'
  BY DEF IInv, Unheard, LeaksAtEnd, BoxOfSpawn
<1> QED
  BY <1>1, <1>2, <1>3 DEF IInv

-----------------------------------------------------------------------------
(* The invariant.                                                          *)

LEMMA IInvInit == Init => IInv
<1> SUFFICES ASSUME Init PROVE IInv
  OBVIOUS
<1>1. Cardinality(Slots) \in Nat
  BY FS_CardinalityType
<1>2. TypeOK
  BY <1>1 DEF Init, TypeOK, Phases
<1>3. \A c \in Spawns : Refs(values, c) = 0
  <2> TAKE c \in Spawns
  <2>1. RefsTo(values, c) = {}
    BY DEF Init, RefsTo
  <2> QED
    BY <2>1, FS_EmptySet DEF Refs
<1>4. \A c \in Spawns : Owned(c) = 0
  BY DEF Init, Owned, Alive
<1>5. Accounted
  BY <1>3, <1>4 DEF Init, Accounted
<1>6. Unheard /\ LeaksAtEnd /\ BoxOfSpawn
  BY DEF Init, Unheard, LeaksAtEnd, BoxOfSpawn
<1> QED
  BY <1>2, <1>5, <1>6 DEF IInv

LEMMA IInvStep == IInv /\ [Next]_vars => IInv'
<1> SUFFICES ASSUME IInv, [Next]_vars PROVE IInv'
  OBVIOUS
<1> USE DEF Next, Step
<1>1. CASE New
  BY <1>1, BareValueStep DEF New, MakesBare
<1>15. ASSUME NEW s \in Slots, NewWithHandle(s) PROVE IInv'
  <2>1. PICK task : task = values[s].task
    OBVIOUS
  <2>2. task \in Spawns
    BY <1>15, <2>1 DEF NewWithHandle, IInv, TypeOK, Values
  <2> QED
    BY <1>15, <2>1, <2>2, BareValueStep DEF NewWithHandle, MakesBare
<1>16. ASSUME NEW c \in Spawns, GetCurrent(c) PROVE IInv'
  BY <1>16, BareValueStep DEF GetCurrent, MakesBare
<1>2. ASSUME NEW s \in Slots, Clone(s) PROVE IInv'
  BY <1>2, CloneStep
<1>3. ASSUME NEW s \in Slots, DropValue(s) PROVE IInv'
  BY <1>3, DropValueStep
<1>4. ASSUME NEW s \in Slots, NEW c \in Spawns, Spawn(s, c) PROVE IInv'
  BY <1>4, SpawnStep
<1>5. ASSUME NEW s \in Slots, NEW c \in Spawns, SpawnSimple(s, c) PROVE IInv'
  BY <1>5, SpawnSimpleStep
<1>6. ASSUME NEW s \in Slots, Live(s)
      PROVE  values[s].task \in Spawns /\ phase[values[s].task] \in Alive
  BY <1>6 DEF Live, HasTask, IInv, TypeOK, Values
<1>7. ASSUME NEW s \in Slots, Delete(s) \/ Join(s) PROVE IInv'
  <2>1. PICK c : c = values[s].task
    OBVIOUS
  <2>2. c \in Spawns /\ phase[c] \in Alive
    BY <1>6, <1>7, <2>1 DEF Delete, Join
  <2>3. DeleteTask(c) /\ (UNCHANGED joined \/ joined' = joined \cup {c})
    BY <1>7, <2>1 DEF Delete, Join
  <2>4. joined' \subseteq Spawns
    BY <2>2, <2>3 DEF IInv, TypeOK
  <2> QED
    BY <2>2, <2>3, <2>4, DeleteTaskStep
<1>8. ASSUME NEW s \in Slots, Suspend(s) \/ Resume(s) PROVE IInv'
  <2>1. suspended' \subseteq {c \in Spawns : phase[c] \in Alive}
    BY <1>6, <1>8 DEF Suspend, Resume, IInv, TypeOK
  <2>2. UNCHANGED <<values, simple, phase, strong, leaked, done, joined>> /\ ub' \in {0, 1}
    BY <1>8 DEF Suspend, Resume, IInv, TypeOK
  <2> QED
    BY <2>1, <2>2, QuietStep
<1>9. ASSUME NEW s \in Slots, UseStale(s) PROVE IInv'
  <2>1. suspended' \subseteq {c \in Spawns : phase[c] \in Alive}
    BY <1>9 DEF UseStale, IInv, TypeOK
  <2>2. UNCHANGED <<values, simple, phase, strong, leaked, done, joined>> /\ ub' \in {0, 1}
    BY <1>9 DEF UseStale
  <2> QED
    BY <2>1, <2>2, QuietStep
<1>10. ASSUME NEW c \in Spawns, Enter(c) PROVE IInv'
  BY <1>10, EnterStep
<1>11. ASSUME NEW c \in Spawns, GiveUpBox(c) PROVE IInv'
  BY <1>11, GiveUpBoxStep
<1>12. ASSUME NEW c \in Spawns, Return(c) PROVE IInv'
  BY <1>12, ReturnStep
<1>13. ASSUME NEW c \in Spawns, End(c) PROVE IInv'
  <2>1. phase[c] \in Alive /\ DeleteTask(c) /\ joined' \subseteq Spawns
    BY <1>13 DEF End, Alive, IInv, TypeOK
  <2> QED
    BY <2>1, DeleteTaskStep
<1>14. CASE UNCHANGED vars
  <2>1. /\ suspended' \subseteq {c \in Spawns : phase[c] \in Alive} /\ ub' \in {0, 1}
        /\ UNCHANGED <<values, simple, phase, strong, leaked, done, joined>>
    BY <1>14 DEF vars, IInv, TypeOK
  <2> QED
    BY <2>1, QuietStep
<1> QED
  BY <1>1, <1>2, <1>3, <1>4, <1>5, <1>7, <1>8, <1>9, <1>10, <1>11, <1>12, <1>13, <1>14, <1>15, <1>16

\* The inductive invariant holds in every reachable state.
THEOREM Invariant == Spec => []IInv
BY IInvInit, IInvStep, PTL DEF Spec

-----------------------------------------------------------------------------
(* Properties.                                                             *)

\* Whatever threads are spawned, cloned, dropped, deleted and joined, a count
\* of references is never negative and never above the places there are for
\* values and the three references a task has of its own.
THEOREM TypeCorrect == Spec => []TypeOK
<1>1. IInv => TypeOK
  BY DEF IInv
<1> QED
  BY <1>1, Invariant, PTL

LEMMA KeptWhileNeeded ==
  ASSUME IInv
  PROVE  OnlyUnusedFreed
<1> SUFFICES ASSUME NEW c \in Spawns, phase[c] \in {"failed", "ended"} \cup Alive
             PROVE  strong[c] > 0
  BY DEF OnlyUnusedFreed
<1>1. strong[c] = Refs(values, c) + Owned(c) + leaked[c]
  BY DEF IInv, Accounted
<1>2. Refs(values, c) \in Nat /\ Owned(c) \in 0..3 /\ leaked[c] \in 0..3
  BY RefsType, OwnedRange DEF IInv, TypeOK
<1>3. Owned(c) > 0 \/ leaked[c] > 0
  BY OwnedRange DEF IInv, LeaksAtEnd
<1> QED
  BY <1>1, <1>2, <1>3

\* No closure is freed while the task that runs it is alive, or after it, and
\* none whose spawn failed for lack of memory: Arc::drop in a Thread value, in
\* the wrapper and in client code never drops the last reference.
THEOREM RunningClosureIsKept == Spec => []OnlyUnusedFreed
BY Invariant, KeptWhileNeeded, PTL

\* A thread whose closure has returned keeps exactly one reference to it from
\* the places that could drop it: the wrappers end in vTaskDelete, under which
\* no destructor runs.
THEOREM FinishedLeaksOneRef == Spec => []FinishedLeaksOne
<1>1. IInv => FinishedLeaksOne
  <2> SUFFICES ASSUME IInv, NEW c \in done
               PROVE  strong[c] = Refs(values, c) + 1
    BY DEF FinishedLeaksOne
  <2>1. c \in Spawns
    BY DEF IInv, TypeOK
  <2>2. strong[c] = Refs(values, c) + Owned(c) + leaked[c]
    BY <2>1 DEF IInv, Accounted
  <2>3. \/ phase[c] = "returned" /\ leaked[c] = 0
        \/ phase[c] = "ended" /\ leaked[c] = 1
    BY <2>1 DEF IInv, LeaksAtEnd
  <2>4. Owned(c) = IF phase[c] = "returned" THEN 1 ELSE 0
    BY <2>3 DEF Owned, Alive
  <2>5. Refs(values, c) \in Nat
    BY RefsType
  <2> QED
    BY <2>2, <2>3, <2>4, <2>5
<1> QED
  BY <1>1, Invariant, PTL

-----------------------------------------------------------------------------
(* The life of a closure.                                                  *)

Mapped == [c \in Spawns |-> Life(c)]

\* What the count of a closure that is not given to spawn in this step may do
\* to its life.
LEMMA CountStep ==
  ASSUME OnlyUnusedFreed', NEW c \in Spawns, phase'[c] = phase[c], phase[c] \in Phases,
         strong[c] = 0 => strong'[c] = 0
  PROVE  /\ Life(c)' = Life(c) \/ (Life(c) = "unused" /\ Life(c)' = "freed")
         /\ strong'[c] # 0 => Life(c)' = Life(c)
<1>1. CASE phase[c] \in {"failed", "ended"} \cup Alive
  <2>1. strong'[c] # 0
    BY <1>1 DEF OnlyUnusedFreed
  <2> QED
    BY <2>1 DEF Life
<1>2. CASE phase[c] \in {"none", "refused"}
  BY <1>2 DEF Life
<1> QED
  BY <1>1, <1>2 DEF Phases, Alive

\* What a place refers to has been given to spawn and is not freed.
LEMMA Referred ==
  ASSUME IInv, NEW s \in Slots, values[s] # None, values[s].closure # None
  PROVE  /\ values[s].closure \in Spawns
         /\ phase[values[s].closure] # "none" /\ strong[values[s].closure] > 0
<1> DEFINE c == values[s].closure
<1>1. c \in Spawns
  BY DEF IInv, TypeOK, Values
<1>2. phase[c] # "none"
  BY <1>1, UnheardHasNothing
<1>3. Refs(values, c) # 0
  <2>1. RefsTo(values, c) # {}
    BY DEF RefsTo
  <2> QED
    BY <2>1, RefsFinite, FS_EmptySet DEF Refs
<1>4. strong[c] = Refs(values, c) + Owned(c) + leaked[c]
  BY <1>1 DEF IInv, Accounted
<1>5. Refs(values, c) \in Nat /\ Owned(c) \in 0..3 /\ leaked[c] \in 0..3
  BY <1>1, RefsType, OwnedRange DEF IInv, TypeOK
<1> QED
  BY <1>1, <1>2, <1>3, <1>4, <1>5

\* A life goes on, and no other.
LEMMA OneLife ==
  ASSUME NEW c \in Spawns, \A d \in Spawns \ {c} : Life(d)' = Life(d)
  PROVE  /\ Mapped' = [Mapped EXCEPT ![c] = Life(c)']
         /\ Life(c)' = Life(c) => Mapped' = Mapped
  BY DEF Mapped

\* What a step may use: the invariant, before it and after it.
Usable == IInv /\ IInv' /\ OnlyUnusedFreed /\ OnlyUnusedFreed'

\* A task begins, goes on or ends; its closure stays counted.
LEMMA TaskLife ==
  ASSUME Usable, NEW c \in Spawns, phase[c] \in Alive,
         NEW p, phase' = [phase EXCEPT ![c] = p],
         \/ phase[c] = "created" /\ p \in {"called", "bare", "ended"}
         \/ phase[c] = "called" /\ p = "bare"
         \/ phase[c] \in {"called", "bare"} /\ p = "returned"
         \/ p = "ended",
         \A d \in Spawns \ {c} : strong'[d] = strong[d]
  PROVE  [Shared!Next]_Mapped
<1>1. phase \in [Spawns -> Phases] /\ phase'[c] = p
  BY DEF Usable, IInv, TypeOK
<1>2. strong[c] # 0 /\ strong'[c] # 0
  BY <1>1 DEF Usable, OnlyUnusedFreed, Alive
<1>3. \A d \in Spawns \ {c} : Life(d)' = Life(d)
  BY <1>1 DEF Life
<1>4. /\ Mapped' = [Mapped EXCEPT ![c] = Life(c)']
      /\ Life(c)' = Life(c) => Mapped' = Mapped
      /\ Mapped[c] = Life(c)
  BY <1>3, OneLife DEF Mapped
<1>5. CASE Life(c) = "waiting" /\ Life(c)' = "running"
  <2>1. Shared!Begin(c)
    BY <1>4, <1>5 DEF Shared!Begin, Shared!Becomes, Mapped
  <2> QED
    BY <2>1 DEF Shared!Next
<1>6. CASE Life(c) \in {"waiting", "running"} /\ Life(c)' = "kept"
  <2>1. Shared!Finish(c)
    BY <1>4, <1>6 DEF Shared!Finish, Shared!Becomes, Mapped
  <2> QED
    BY <2>1 DEF Shared!Next
<1>7. CASE Life(c)' = Life(c)
  BY <1>4, <1>7
<1>8. \/ Life(c) = "waiting" /\ Life(c)' = "running"
      \/ Life(c) \in {"waiting", "running"} /\ Life(c)' = "kept"
      \/ Life(c)' = Life(c)
  BY <1>1, <1>2 DEF Life, Alive
<1> QED
  BY <1>5, <1>6, <1>7, <1>8

\* A spawn call has an outcome; nothing but the count of `old` changes besides.
LEMMA CallLife ==
  ASSUME Usable, NEW c \in Spawns, phase[c] = "none",
         NEW p \in {"refused", "failed", "created"}, phase' = [phase EXCEPT ![c] = p],
         NEW old, old \in Spawns => strong[old] # 0,
         \A d \in Spawns \ {c, old} : strong'[d] = strong[d]
  PROVE  Shared!Next
<1>1. phase \in [Spawns -> Phases] /\ phase'[c] = p
  BY DEF Usable, IInv, TypeOK
<1>2. \A d \in Spawns \ {c} : phase'[d] = phase[d]
  BY <1>1
<1>3. Life(c) = "new" /\ Life(c)' \in Shared!Fates
  <2>1. p \in {"failed", "created"} => strong'[c] # 0
    BY <1>1 DEF Usable, OnlyUnusedFreed, Alive
  <2> QED
    BY <1>1, <2>1 DEF Life, Shared!Fates
<1>4. \A d \in Spawns \ {c, old} : Life(d)' = Life(d)
  BY <1>2 DEF Life
<1>5. CASE old \in Spawns \ {c} /\ Life(old)' # Life(old)
  <2>1. Life(old) = "unused" /\ Life(old)' = "freed"
    BY <1>1, <1>2, <1>5, CountStep DEF Usable
  <2>2. Mapped' = [Mapped EXCEPT ![c] = Life(c)', ![old] = "freed"]
    BY <1>4, <1>5, <2>1 DEF Mapped
  <2>3. Mapped[old] = "unused" /\ Mapped[c] = "new"
    BY <1>3, <1>5, <2>1 DEF Mapped
  <2>4. Shared!Replace(old, c)
    BY <1>3, <2>2, <2>3 DEF Shared!Replace, Mapped
  <2> QED
    BY <1>5, <2>4 DEF Shared!Next
<1>6. CASE ~(old \in Spawns \ {c} /\ Life(old)' # Life(old))
  <2>1. \A d \in Spawns \ {c} : Life(d)' = Life(d)
    BY <1>4, <1>6
  <2>2. Mapped' = [Mapped EXCEPT ![c] = Life(c)'] /\ Mapped[c] = "new"
    BY <1>3, <2>1, OneLife DEF Mapped
  <2>3. Shared!Give(c)
    BY <1>3, <2>2 DEF Shared!Give, Shared!Becomes, Mapped
  <2> QED
    BY <2>3 DEF Shared!Next
<1> QED
  BY <1>5, <1>6

\* Only the count of one closure changes.
LEMMA CountLife ==
  ASSUME Usable, phase' = phase, NEW c, c \in Spawns => strong[c] # 0,
         \A d \in Spawns \ {c} : strong'[d] = strong[d]
  PROVE  [Shared!Next]_Mapped
<1>1. \A d \in Spawns \ {c} : Life(d)' = Life(d)
  BY DEF Life
<1>2. CASE c \notin Spawns
  BY <1>1, <1>2 DEF Mapped
<1>3. CASE c \in Spawns
  <2>1. phase[c] \in Phases
    BY <1>3 DEF Usable, IInv, TypeOK
  <2>2. Life(c)' = Life(c) \/ (Life(c) = "unused" /\ Life(c)' = "freed")
    BY <1>3, <2>1, CountStep DEF Usable
  <2>3. /\ Mapped' = [Mapped EXCEPT ![c] = Life(c)']
        /\ Life(c)' = Life(c) => Mapped' = Mapped
        /\ Mapped[c] = Life(c)
    BY <1>1, <1>3, OneLife DEF Mapped
  <2>4. Mapped' = Mapped \/ Shared!Free(c)
    BY <2>2, <2>3 DEF Shared!Free, Shared!Becomes, Mapped
  <2> QED
    BY <1>3, <2>4 DEF Shared!Next
<1> QED
  BY <1>2, <1>3

LEMMA LifeStep == Usable /\ [Next]_vars => [Shared!Next]_Mapped
<1> SUFFICES ASSUME Usable, [Next]_vars PROVE [Shared!Next]_Mapped
  OBVIOUS
<1>1. IInv /\ None \notin Spawns
  BY DEF Usable
<1>2. CASE UNCHANGED <<phase, strong>>
  BY <1>2 DEF Mapped, Life
<1>3. ASSUME NEW s \in Slots, Clone(s) \/ DropValue(s) PROVE [Shared!Next]_Mapped
  <2>1. PICK old, n : old = values[s].closure /\ strong' = Counted(old, n)
    BY <1>3 DEF Clone, DropValue
  <2>2. values[s] # None /\ phase' = phase
    BY <1>3 DEF Clone, DropValue
  <2>3. old \in Spawns => strong[old] # 0
    BY <1>1, <2>1, <2>2, Referred
  <2>4. \A d \in Spawns \ {old} : strong'[d] = strong[d]
    BY <2>1 DEF Counted
  <2> QED
    BY <2>2, <2>3, <2>4, CountLife
<1>4. ASSUME NEW s \in Slots, NEW c \in Spawns, Spawn(s, c) \/ SpawnSimple(s, c)
      PROVE  [Shared!Next]_Mapped
  <2>1. PICK old : old = values[s].closure
    OBVIOUS
  <2>2. values[s] # None /\ phase[c] = "none"
    BY <1>4 DEF Spawn, SpawnSimple
  <2>3. PICK p \in {"refused", "failed", "created"} : phase' = [phase EXCEPT ![c] = p]
    BY <1>4 DEF Spawn, SpawnSimple
  <2>4. old \in Spawns => strong[old] # 0
    BY <1>1, <2>1, <2>2, Referred
  <2>5. ASSUME NEW d \in Spawns \ {c, old} PROVE strong'[d] = strong[d]
    <3>1. strong \in [Spawns -> Int]
      BY <1>1 DEF IInv, TypeOK
    <3> QED
      BY <1>4, <2>1, <2>5, <3>1 DEF Spawn, SpawnSimple, Counts, Counted
  <2> QED
    BY <2>2, <2>3, <2>4, <2>5, CallLife
<1>5. ASSUME NEW c \in Spawns, Enter(c) \/ GiveUpBox(c) \/ Return(c) PROVE [Shared!Next]_Mapped
  <2>1. PICK p : /\ phase' = [phase EXCEPT ![c] = p]
                 /\ \/ phase[c] = "created" /\ p \in {"called", "bare"}
                    \/ phase[c] = "called" /\ p = "bare"
                    \/ phase[c] \in {"called", "bare"} /\ p = "returned"
    <3>1. CASE Enter(c)
      BY <3>1 DEF Enter
    <3>2. CASE GiveUpBox(c)
      BY <3>2 DEF GiveUpBox
    <3>3. CASE Return(c)
      BY <3>3 DEF Return
    <3> QED
      BY <1>5, <3>1, <3>2, <3>3
  <2>2. \A d \in Spawns \ {c} : strong'[d] = strong[d]
    BY <1>5 DEF Enter, GiveUpBox, Return, Counted
  <2>3. phase[c] \in Alive
    BY <2>1 DEF Alive
  <2> QED
    BY <2>1, <2>2, <2>3, TaskLife
<1>6. ASSUME NEW c \in Spawns, phase[c] \in Alive, DeleteTask(c) PROVE [Shared!Next]_Mapped
  <2>1. PICK p : p = "ended"
    OBVIOUS
  <2>2. phase' = [phase EXCEPT ![c] = p] /\ strong' = strong
    BY <1>6, <2>1 DEF DeleteTask
  <2> QED
    BY <1>6, <2>1, <2>2, TaskLife
<1>7. ASSUME NEW s \in Slots, Delete(s) \/ Join(s) PROVE [Shared!Next]_Mapped
  <2>1. PICK c : c = values[s].task
    OBVIOUS
  <2>2. c \in Spawns /\ phase[c] \in Alive /\ DeleteTask(c)
    BY <1>1, <1>7, <2>1 DEF Delete, Join, Live, HasTask, IInv, TypeOK, Values
  <2> QED
    BY <1>6, <2>2
<1>8. ASSUME NEW c \in Spawns, End(c) PROVE [Shared!Next]_Mapped
  BY <1>6, <1>8 DEF End, Alive
<1>9. ASSUME NEW s \in Slots, NewWithHandle(s) \/ Suspend(s) \/ Resume(s) \/ UseStale(s)
      PROVE  [Shared!Next]_Mapped
  BY <1>2, <1>9 DEF NewWithHandle, Suspend, Resume, UseStale
<1>10. CASE New \/ (\E c \in Spawns : GetCurrent(c)) \/ UNCHANGED vars
  BY <1>2, <1>10 DEF New, GetCurrent, vars
<1> QED
  BY <1>3, <1>4, <1>5, <1>7, <1>8, <1>9, <1>10 DEF Next, Step

\* Counting references implements the life of a closure that Closure states:
\* whatever values of Thread are cloned, dropped and spawned with again, and
\* whenever tasks are deleted, a closure runs at most once, is freed at most
\* once, and then only if no task was ever made for it.
THEOREM Refinement == Spec => ImplementsClosure
<1>1. Init => Shared!Init
  BY DEF Init, Life, Shared!Init
<1>2. Usable /\ [Next]_vars => [Shared!Next]_([c \in Spawns |-> Life(c)])
  BY LifeStep DEF Mapped
<1> QED
  BY <1>1, <1>2, Invariant, RunningClosureIsKept, PTL DEF Spec, ImplementsClosure, Shared!Spec, Usable

-----------------------------------------------------------------------------
(* System.                                                                 *)

\* Counting, listing and describing tasks disturbs no thread.
THEOREM SystemImplementsThread == SystemSpec => Spec
<1>1. SystemInit => Init
  BY DEF SystemInit
<1>2. [SystemNext]_systemVars => [Next]_vars
  <2> SUFFICES ASSUME SystemNext \/ UNCHANGED systemVars PROVE Next \/ UNCHANGED vars
    OBVIOUS
  <2>1. CASE ThreadStep /\ ub = 0
    BY <2>1 DEF ThreadStep, Next
  <2>2. CASE SystemNext /\ ~ThreadStep
    BY <2>2 DEF SystemNext, Bury, CountThreads, ListThreads, ReturnEmpty, GetMetadata, ReadName
  <2>3. CASE UNCHANGED systemVars
    BY <2>3 DEF systemVars
  <2> QED
    BY <2>1, <2>2, <2>3 DEF SystemNext
<1> QED
  BY <1>1, <1>2, PTL DEF SystemSpec, Spec

\* So a closure lives as Closure says, and a finished thread leaks one reference
\* to it, while readers list, count and describe the tasks.
THEOREM SystemKeepsClosures == SystemSpec => ImplementsClosure /\ []FinishedLeaksOne
BY SystemImplementsThread, Refinement, FinishedLeaksOneRef

Begun == Alive \cup {"ended"}

\* A task is in the kernel's list only after it was created, and a step creates
\* it out of nothing.
LEMMA PhaseOrder ==
  ASSUME TypeOK, Step, NEW c \in Spawns, phase'[c] \in Begun
  PROVE  phase[c] \in Begun \/ (phase[c] = "none" /\ phase'[c] = "created")
<1> USE DEF Begun, Alive
<1>1. phase \in [Spawns -> Phases]
  BY DEF TypeOK
<1>2. CASE phase' = phase
  BY <1>2
<1>3. ASSUME NEW s \in Slots, NEW d \in Spawns, Spawn(s, d) \/ SpawnSimple(s, d)
      PROVE  phase[c] \in Begun \/ (phase[c] = "none" /\ phase'[c] = "created")
  <2>1. PICK p \in {"refused", "failed", "created"} : phase' = [phase EXCEPT ![d] = p]
    BY <1>3 DEF Spawn, SpawnSimple
  <2>2. phase[d] = "none"
    BY <1>3 DEF Spawn, SpawnSimple
  <2> QED
    BY <1>1, <2>1, <2>2
<1>4. ASSUME NEW d \in Spawns, NEW p, phase[d] \in Alive, phase' = [phase EXCEPT ![d] = p]
      PROVE  phase[c] \in Begun
  BY <1>1, <1>4
<1>5. ASSUME NEW s \in Slots, Delete(s) \/ Join(s) PROVE phase[c] \in Begun
  <2>1. PICK d : d = values[s].task
    OBVIOUS
  <2>2. d \in Spawns /\ phase[d] \in Alive /\ phase' = [phase EXCEPT ![d] = "ended"]
    BY <1>5, <2>1 DEF Delete, Join, Live, HasTask, DeleteTask, TypeOK, Values
  <2> QED
    BY <1>4, <2>2
<1>6. ASSUME NEW d \in Spawns, Enter(d) \/ GiveUpBox(d) \/ Return(d) \/ End(d)
      PROVE  phase[c] \in Begun
  <2>1. phase[d] \in Alive /\ \E p : phase' = [phase EXCEPT ![d] = p]
    BY <1>6 DEF Enter, GiveUpBox, Return, End, DeleteTask
  <2> QED
    BY <1>4, <2>1
<1>7. ASSUME NEW s \in Slots, NewWithHandle(s) \/ Clone(s) \/ DropValue(s) \/ Suspend(s)
                              \/ Resume(s) \/ UseStale(s)
      PROVE  phase' = phase
  BY <1>7 DEF NewWithHandle, Clone, DropValue, Suspend, Resume, UseStale
<1>8. ASSUME New \/ \E d \in Spawns : GetCurrent(d) PROVE phase' = phase
  BY <1>8 DEF New, GetCurrent
<1> QED
  BY <1>2, <1>3, <1>5, <1>6, <1>7, <1>8 DEF Step

\* A task that has ended is not created again.
LEMMA EndedStays ==
  ASSUME TypeOK, Step, NEW c \in Spawns, phase[c] = "ended"
  PROVE  phase'[c] = "ended"
<1>1. phase \in [Spawns -> Phases]
  BY DEF TypeOK
<1>2. ASSUME NEW d \in Spawns, NEW p, phase[d] # "ended", phase' = [phase EXCEPT ![d] = p]
      PROVE  phase'[c] = "ended"
  BY <1>1, <1>2
<1>3. ASSUME NEW s \in Slots, NEW d \in Spawns, Spawn(s, d) \/ SpawnSimple(s, d)
      PROVE  phase'[c] = "ended"
  <2>1. phase[d] # "ended" /\ \E p : phase' = [phase EXCEPT ![d] = p]
    BY <1>3 DEF Spawn, SpawnSimple
  <2> QED
    BY <1>2, <2>1
<1>4. ASSUME NEW s \in Slots, Delete(s) \/ Join(s) PROVE phase'[c] = "ended"
  <2>1. PICK d : d = values[s].task
    OBVIOUS
  <2>2. d \in Spawns /\ phase[d] # "ended" /\ phase' = [phase EXCEPT ![d] = "ended"]
    BY <1>4, <2>1 DEF Delete, Join, Live, HasTask, DeleteTask, TypeOK, Values, Alive
  <2> QED
    BY <1>2, <2>2
<1>5. ASSUME NEW d \in Spawns, Enter(d) \/ GiveUpBox(d) \/ Return(d) \/ End(d)
      PROVE  phase'[c] = "ended"
  <2>1. phase[d] # "ended" /\ \E p : phase' = [phase EXCEPT ![d] = p]
    BY <1>5 DEF Enter, GiveUpBox, Return, End, DeleteTask
  <2> QED
    BY <1>2, <2>1
<1>6. ASSUME NEW s \in Slots, NewWithHandle(s) \/ Clone(s) \/ DropValue(s) \/ Suspend(s)
                              \/ Resume(s) \/ UseStale(s)
      PROVE  phase' = phase
  BY <1>6 DEF NewWithHandle, Clone, DropValue, Suspend, Resume, UseStale
<1>7. ASSUME New \/ \E d \in Spawns : GetCurrent(d) PROVE phase' = phase
  BY <1>7 DEF New, GetCurrent
<1> QED
  BY <1>3, <1>4, <1>5, <1>6, <1>7 DEF Step

\* The list of tasks gets no longer than an array that is long enough for it.
LEMMA ShrinkKeepsRoom ==
  ASSUME SystemIInv, Existing' \subseteq Existing,
         NEW r \in Readers, readers[r].at = "counted", ~readers[r].born
  PROVE  Cardinality(Existing') <= readers[r].room
<1>1. IsFiniteSet(Existing)
  <2>1. ListedSpawns \subseteq Spawns
    BY DEF ListedSpawns
  <2> QED
    BY <2>1, SystemAssumption, FS_Subset, FS_Union DEF Existing, SystemAssumption
<1>2. IsFiniteSet(Existing') /\ Cardinality(Existing') <= Cardinality(Existing)
  BY <1>1, FS_Subset
<1>3. Cardinality(Existing') \in Nat /\ Cardinality(Existing) \in Nat /\ readers[r].room \in Nat
  BY <1>1, <1>2, FS_CardinalityType DEF SystemIInv, SystemTypeOK, Reader
<1>4. Cardinality(Existing) <= readers[r].room
  BY DEF SystemIInv, RoomEnough
<1> QED
  BY <1>2, <1>3, <1>4

LEMMA ThreadStepKeepsRoom ==
  ASSUME SystemIInv, TypeOK, ThreadStep
  PROVE  SystemIInv'
<1> DEFINE created == {c \in Spawns : phase[c] = "none" /\ phase'[c] = "created"}
           ended   == {c \in Spawns : phase[c] # "ended" /\ phase'[c] = "ended"}
<1>1. /\ readers' = [r \in Readers |->
           [readers[r] EXCEPT !.born = @ \/ (readers[r].at = "counted" /\ created # {})]]
      /\ buried' \in {buried, buried \cup ended}
      /\ gone' = gone /\ Step
  BY DEF ThreadStep
<1>2. ASSUME NEW r \in Readers
      PROVE  /\ readers'[r] \in Reader
             /\ readers'[r].at = readers[r].at /\ readers'[r].room = readers[r].room
             /\ readers[r].born => readers'[r].born
             /\ readers[r].at = "counted" /\ ~readers'[r].born => created = {}
  <2>1. PICK b \in BOOLEAN : b = (created # {})
    OBVIOUS
  <2>2. readers'[r] = [readers[r] EXCEPT !.born = @ \/ (readers[r].at = "counted" /\ b)]
    BY <1>1, <2>1
  <2>3. readers[r] \in Reader
    BY DEF SystemIInv, SystemTypeOK
  <2>4. readers'[r].born = (readers[r].born \/ (readers[r].at = "counted" /\ b))
    BY <2>2, <2>3 DEF Reader
  <2>5. /\ readers'[r].at = readers[r].at /\ readers'[r].room = readers[r].room
        /\ readers'[r] \in Reader
    BY <2>2, <2>3 DEF Reader
  <2> HIDE DEF created
  <2> QED
    BY <2>1, <2>4, <2>5
<1>3. ASSUME NEW c \in Spawns, phase[c] = "ended" PROVE phase'[c] = "ended"
  BY <1>1, <1>3, EndedStays
<1>4. SystemTypeOK'
  <2>1. buried' \subseteq {c \in Spawns : phase'[c] = "ended"}
    BY <1>1, <1>3 DEF SystemIInv, SystemTypeOK
  <2>2. readers' \in [Readers -> Reader]
    BY <1>1, <1>2
  <2> QED
    BY <1>1, <2>1, <2>2 DEF SystemIInv, SystemTypeOK
<1>5. created = {} => Existing' \subseteq Existing
  <2> SUFFICES ASSUME created = {}, NEW c \in Spawns, c \notin buried', phase'[c] \in Begun
               PROVE  c \notin buried /\ phase[c] \in Begun
    BY DEF Existing, ListedSpawns, Begun
  <2>1. c \notin buried
    BY <1>1
  <2> QED
    BY <1>1, <2>1, PhaseOrder
<1> HIDE DEF created, ended
<1>6. RoomEnough'
  <2> SUFFICES ASSUME NEW r \in Readers, readers'[r].at = "counted", ~readers'[r].born
               PROVE  Cardinality(Existing') <= readers'[r].room
    BY DEF RoomEnough
  <2>1. /\ readers[r].at = "counted" /\ ~readers[r].born /\ readers'[r].room = readers[r].room
        /\ created = {}
    BY <1>2
  <2> QED
    BY <1>5, <2>1, ShrinkKeepsRoom
<1>7. EmptyNeedsBirth'
  BY <1>2 DEF SystemIInv, EmptyNeedsBirth
<1> QED
  BY <1>4, <1>6, <1>7 DEF SystemIInv

LEMMA SystemIInvInit == SystemInit => SystemIInv
<1> SUFFICES ASSUME SystemInit PROVE SystemIInv
  OBVIOUS
<1>1. readers \in [Readers -> Reader]
  BY DEF SystemInit, Reader, Rest
<1>2. SystemTypeOK
  BY <1>1 DEF SystemInit, SystemTypeOK
<1>3. RoomEnough /\ EmptyNeedsBirth
  BY DEF SystemInit, RoomEnough, EmptyNeedsBirth, Rest
<1> QED
  BY <1>2, <1>3 DEF SystemIInv

\* A reader's own step: the list of tasks does not change.
LEMMA ReaderStepKeepsRoom ==
  ASSUME SystemIInv, NEW r \in Readers, NEW v \in Reader,
         readers' = [readers EXCEPT ![r] = v],
         v.at = "counted" => Cardinality(Existing) <= v.room,
         v.at = "empty" => v.born,
         gone' \in {0, 1}, UNCHANGED <<vars, buried>>
  PROVE  SystemIInv'
<1>1. SystemTypeOK'
  BY DEF SystemIInv, SystemTypeOK, vars
<1>2. Existing' = Existing
  BY DEF Existing, ListedSpawns, vars
<1>3. ASSUME NEW q \in Readers
      PROVE  readers'[q] = readers[q] \/ readers'[q] = v
  BY DEF SystemIInv, SystemTypeOK
<1>4. RoomEnough'
  BY <1>2, <1>3 DEF SystemIInv, RoomEnough
<1>5. EmptyNeedsBirth'
  BY <1>3 DEF SystemIInv, EmptyNeedsBirth
<1> QED
  BY <1>1, <1>4, <1>5 DEF SystemIInv

LEMMA SystemIInvStep == SystemIInv /\ TypeOK /\ [SystemNext]_systemVars => SystemIInv'
<1> SUFFICES ASSUME SystemIInv, TypeOK, SystemNext \/ UNCHANGED systemVars PROVE SystemIInv'
  OBVIOUS
<1>1. ASSUME NEW tasks \in SUBSET Spawns
      PROVE  Naming(tasks) \in Reader /\ Naming(tasks).at \in {"idle", "listed"}
  BY DEF Naming, Rest, Reader
<1>2. Rest \in Reader /\ Rest.at = "idle"
  BY DEF Rest, Reader
<1>3. IsFiniteSet(Existing) /\ Cardinality(Existing) \in Nat
  <2>1. ListedSpawns \subseteq Spawns
    BY DEF ListedSpawns
  <2> QED
    BY <2>1, SystemAssumption, FS_Subset, FS_Union, FS_CardinalityType DEF Existing, SystemAssumption
<1>4. CASE ThreadStep
  BY <1>4, ThreadStepKeepsRoom
<1>5. ASSUME NEW c \in Spawns, Bury(c) PROVE SystemIInv'
  <2>1. SystemTypeOK'
    BY <1>5 DEF Bury, SystemIInv, SystemTypeOK, vars
  <2>2. Existing' \subseteq Existing
    BY <1>5 DEF Bury, Existing, ListedSpawns, vars
  <2>3. readers' = readers
    BY <1>5 DEF Bury
  <2>4. RoomEnough'
    BY <2>2, <2>3, ShrinkKeepsRoom DEF RoomEnough
  <2> QED
    BY <2>1, <2>3, <2>4 DEF SystemIInv, EmptyNeedsBirth
<1>6. ASSUME NEW r \in Readers, CountThreads(r) PROVE SystemIInv'
  <2>1. PICK v : v = [Rest EXCEPT !.at = "counted", !.room = Cardinality(Existing)]
    OBVIOUS
  <2>2. v \in Reader /\ v.at = "counted" /\ v.room = Cardinality(Existing)
    BY <1>3, <2>1 DEF Rest, Reader
  <2>3. Cardinality(Existing) <= v.room
    BY <1>3, <2>2
  <2>4. readers' = [readers EXCEPT ![r] = v] /\ UNCHANGED <<vars, buried>> /\ gone' \in {0, 1}
    BY <1>6, <2>1 DEF CountThreads, SystemIInv, SystemTypeOK
  <2> QED
    BY <2>2, <2>3, <2>4, ReaderStepKeepsRoom
<1>7. ASSUME NEW r \in Readers, ListThreads(r) PROVE SystemIInv'
  <2>1. PICK v : v = IF Cardinality(Existing) <= readers[r].room
                     THEN Naming(ListedSpawns) ELSE [readers[r] EXCEPT !.at = "empty"]
    OBVIOUS
  <2>2. readers[r] \in Reader /\ ListedSpawns \in SUBSET Spawns
    BY DEF SystemIInv, SystemTypeOK, ListedSpawns
  <2>3. /\ readers' = [readers EXCEPT ![r] = v] /\ readers[r].at = "counted"
        /\ UNCHANGED <<vars, buried>> /\ gone' \in {0, 1}
    BY <1>7, <2>1 DEF ListThreads, SystemIInv, SystemTypeOK
  <2>4. CASE Cardinality(Existing) <= readers[r].room
    <3>1. v \in Reader /\ v.at \in {"idle", "listed"}
      BY <1>1, <2>1, <2>2, <2>4
    <3> QED
      BY <2>3, <3>1, ReaderStepKeepsRoom
  <2>5. CASE ~(Cardinality(Existing) <= readers[r].room)
    <3>1. readers[r].born
      BY <2>3, <2>5 DEF SystemIInv, RoomEnough
    <3>2. v \in Reader /\ v.at = "empty" /\ v.born
      BY <2>1, <2>2, <2>5, <3>1 DEF Reader
    <3> QED
      BY <2>3, <3>2, ReaderStepKeepsRoom
  <2> QED
    BY <2>4, <2>5
<1>8. ASSUME NEW r \in Readers, ReturnEmpty(r) PROVE SystemIInv'
  <2>1. readers' = [readers EXCEPT ![r] = Rest] /\ UNCHANGED <<vars, buried>> /\ gone' \in {0, 1}
    BY <1>8 DEF ReturnEmpty, SystemIInv, SystemTypeOK
  <2> QED
    BY <1>2, <2>1, ReaderStepKeepsRoom
<1>9. ASSUME NEW r \in Readers, NEW s \in Slots, GetMetadata(r, s) PROVE SystemIInv'
  <2>1. PICK v : v = Naming({values[s].task})
    OBVIOUS
  <2>2. {values[s].task} \in SUBSET Spawns
    BY <1>9 DEF GetMetadata, HasTask, TypeOK, Values
  <2>3. v \in Reader /\ v.at \in {"idle", "listed"}
    BY <1>1, <2>1, <2>2
  <2>4. readers' = [readers EXCEPT ![r] = v] /\ UNCHANGED <<vars, buried>> /\ gone' \in {0, 1}
    BY <1>9, <2>1 DEF GetMetadata, SystemIInv, SystemTypeOK
  <2> QED
    BY <2>3, <2>4, ReaderStepKeepsRoom
<1>10. ASSUME NEW r \in Readers, NEW c \in Spawns, ReadName(r, c) PROVE SystemIInv'
  <2>1. PICK v : v = Naming(readers[r].tasks \ {c})
    OBVIOUS
  <2>2. readers[r].tasks \ {c} \in SUBSET Spawns
    BY DEF SystemIInv, SystemTypeOK, Reader
  <2>3. v \in Reader /\ v.at \in {"idle", "listed"}
    BY <1>1, <2>1, <2>2
  <2>4. readers' = [readers EXCEPT ![r] = v] /\ UNCHANGED <<vars, buried>> /\ gone' \in {0, 1}
    BY <1>10, <2>1 DEF ReadName, SystemIInv, SystemTypeOK
  <2> QED
    BY <2>3, <2>4, ReaderStepKeepsRoom
<1>11. CASE UNCHANGED systemVars
  <2>1. UNCHANGED <<vars, buried, readers, gone>> /\ phase' = phase
    BY <1>11 DEF systemVars, vars
  <2>2. Existing' = Existing /\ SystemTypeOK'
    BY <2>1 DEF Existing, ListedSpawns, SystemIInv, SystemTypeOK
  <2> QED
    BY <2>1, <2>2 DEF SystemIInv, RoomEnough, EmptyNeedsBirth
<1> QED
  BY <1>4, <1>5, <1>6, <1>7, <1>8, <1>9, <1>10, <1>11 DEF SystemNext

\* get_all_thread finds no task only if one was created after count_threads():
\* whatever ends meanwhile, the array is long enough for those that are left.
THEOREM EmptyListNeedsBirth == SystemSpec => []EmptyNeedsBirth
<1>1. SystemSpec => []TypeOK
  BY SystemImplementsThread, TypeCorrect, PTL
<1>2. SystemIInv => EmptyNeedsBirth
  BY DEF SystemIInv
<1>3. SystemSpec => []SystemIInv
  BY <1>1, SystemIInvInit, SystemIInvStep, PTL DEF SystemSpec
<1> QED
  BY <1>2, <1>3, PTL

=============================================================================
