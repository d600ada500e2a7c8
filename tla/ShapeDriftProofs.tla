--------------------------- MODULE ShapeDriftProofs ---------------------------
(***************************************************************************)
(* What merging a response does to a baseline, for any paths, types and    *)
(* responses, and with it the safety properties of the probe loop.  The    *)
(* invariant says of the baselines in memory and in the file what the      *)
(* properties say of one of them, and that the file is never ahead.        *)
(***************************************************************************)
EXTENDS ShapeDrift, TLAPS

----------------------------------------------------------------------------
(* Diffs without a change that needs an approval.                          *)

\* Every path is there, and where types differ they have been widened.
LEMMA SafeDiff ==
  ASSUME NEW s, NEW b, AllSafe(Diff(s, b))
  PROVE  /\ Missing(s, b) = {}
         /\ \A p \in Retyped(s, b) :
              p # Root /\ SafelyWidened(Present(s.fields[p].types), Present(TypesAt(p, b)))
         /\ \A p \in Compared(s, b) : Null \in TypesAt(p, b) => Null \in s.fields[p].types
         /\ \A p \in Compared(s, b) \ (b.empty \cup b.truncated) :
              NoItems \in {s.fields[p].items, ItemTypes(p, b)}
                \/ s.fields[p].items = ItemTypes(p, b)
<1>1. \A c \in Diff(s, b) : c.kind \in {"field_added", "type_widened_safe"}
  BY DEF AllSafe, SafeKinds
<1>2. Missing(s, b) = {}
  <2> SUFFICES ASSUME NEW p \in Missing(s, b) PROVE FALSE
    OBVIOUS
  <2> DEFINE kind == IF Required(s.fields[p]) THEN "required_path_missing"
                                              ELSE "optional_key_removed"
  <2>1. Change(p, kind) \in Diff(s, b)
    BY DEF Diff
  <2>2. Change(p, kind).kind = kind
    BY DEF Change
  <2> QED
    BY <1>1, <2>1, <2>2
<1>3. ASSUME NEW p \in Retyped(s, b)
      PROVE  /\ p # Root
             /\ SafelyWidened(Present(s.fields[p].types), Present(TypesAt(p, b)))
  <2> DEFINE kind == Retyping(p, s.fields[p].types, TypesAt(p, b))
  <2>1. Change(p, kind) \in Diff(s, b)
    BY DEF Diff
  <2>2. kind \in {"field_added", "type_widened_safe"}
    <3>1. Change(p, kind).kind = kind
      BY DEF Change
    <3> HIDE DEF kind
    <3> QED
      BY <1>1, <2>1, <3>1
  <2> QED
    BY <2>2 DEF Retyping
<1>4. Further(s, b) = Compared(s, b)
  BY <1>3 DEF Further
<1>5. ASSUME NEW p \in Compared(s, b), Null \in TypesAt(p, b)
      PROVE  Null \in s.fields[p].types
  <2> SUFFICES ASSUME Null \notin s.fields[p].types PROVE FALSE
    OBVIOUS
  <2>1. Change(p, "nullability_changed") \in Diff(s, b)
    BY <1>4, <1>5 DEF Diff
  <2>2. Change(p, "nullability_changed").kind = "nullability_changed"
    BY DEF Change
  <2> QED
    BY <1>1, <2>1, <2>2
<1>6. ASSUME NEW p \in Compared(s, b) \ (b.empty \cup b.truncated)
      PROVE  NoItems \in {s.fields[p].items, ItemTypes(p, b)}
               \/ s.fields[p].items = ItemTypes(p, b)
  <2> SUFFICES ASSUME NoItems \notin {s.fields[p].items, ItemTypes(p, b)},
                      s.fields[p].items # ItemTypes(p, b)
               PROVE  FALSE
    OBVIOUS
  <2>1. Change(p, "array_item_type_changed") \in Diff(s, b)
    BY <1>4 DEF Diff
  <2>2. Change(p, "array_item_type_changed").kind = "array_item_type_changed"
    BY DEF Change
  <2> QED
    BY <1>1, <2>1, <2>2
<1> QED
  BY <1>2, <1>3, <1>5, <1>6

\* No path, no type and no item that was not known: no drift.
LEMMA QuietDiff ==
  ASSUME NEW s, NEW b,
         Added(s, b) = {}, Missing(s, b) = {}, Retyped(s, b) = {},
         \A p \in Compared(s, b) : Null \in TypesAt(p, b) => Null \in s.fields[p].types,
         \A p \in Compared(s, b) \ (b.empty \cup b.truncated) :
           NoItems \in {s.fields[p].items, ItemTypes(p, b)}
             \/ s.fields[p].items = ItemTypes(p, b)
  PROVE  Diff(s, b) = {}
<1>1. {q \in Further(s, b) : Null \in TypesAt(q, b) \ s.fields[q].types} = {}
  BY DEF Further
<1>2. {q \in Further(s, b) \ (b.empty \cup b.truncated) :
         /\ NoItems \notin {s.fields[q].items, ItemTypes(q, b)}
         /\ s.fields[q].items # ItemTypes(q, b)} = {}
  BY DEF Further
<1> QED
  BY <1>1, <1>2 DEF Diff

----------------------------------------------------------------------------
(* Merges.                                                                 *)

LEMMA MergedFields ==
  ASSUME NEW s, NEW b, NEW m, m = Merged(s, b)
  PROVE  /\ DOMAIN m = {"fields", "total"}
         /\ m.total = s.total + 1
         /\ DOMAIN m.fields = DOMAIN s.fields \cup Visited(b)
         /\ \A p \in DOMAIN m.fields : m.fields[p] = FieldAfter(s, p, b, s.total + 1)
BY DEF Merged

\* The field of a path that was visited.
LEMMA VisitedField ==
  ASSUME NEW s, NEW b, NEW m, m = Merged(s, b), NEW p \in Visited(b)
  PROVE  /\ p \in DOMAIN m.fields
         /\ p \notin DOMAIN s.fields => m.fields[p] = NewField(p, b, s.total + 1)
         /\ p \in DOMAIN s.fields =>
              m.fields[p] = SeenField(s.fields[p], p, b, s.total + 1)
<1>1. p \in DOMAIN m.fields
  BY MergedFields
<1>2. m.fields[p] = FieldAfter(s, p, b, s.total + 1)
  BY <1>1, MergedFields
<1> QED
  BY <1>1, <1>2 DEF FieldAfter

LEMMA NewFieldParts ==
  ASSUME NEW p, NEW b, NEW total
  PROVE  LET f == NewField(p, b, total) IN
         /\ f.types = TypesAt(p, b) /\ f.seen = 1 /\ f.sampled = total
         /\ f.items = ItemTypes(p, b) \/ f.items = NoItems
BY DEF NewField

LEMMA Comparable ==
  ASSUME NEW s, NEW b, NEW m, m = Merged(s, b), NEW p \in Compared(m, b)
  PROVE  /\ p \in Visited(b) /\ p \notin Under(b.truncated)
         /\ p \in DOMAIN s.fields => p \in Compared(s, b)
BY DEF Compared

\* What a safe widening adds is a float where there was an integer.
LEMMA WideningAddsNumber ==
  ASSUME NEW old, NEW new, SafelyWidened(old, new)
  PROVE  /\ old \subseteq new /\ Integer \in old
         /\ new \subseteq old \cup {Number}
BY DEF SafelyWidened, SafeWidenings

\* A response that was merged because its drift was safe raises none again.
THEOREM SafeMergeIsQuiet ==
  \A s, b : AllSafe(Diff(s, b)) => Diff(Merged(s, b), b) = {}
<1> SUFFICES ASSUME NEW s, NEW b, AllSafe(Diff(s, b))
             PROVE  Diff(Merged(s, b), b) = {}
  OBVIOUS
<1>m. PICK m : m = Merged(s, b)
  OBVIOUS
<1>d. DOMAIN m.fields = DOMAIN s.fields \cup Visited(b)
  BY <1>m, MergedFields
<1>n. ASSUME NEW p \in Compared(m, b), p \notin DOMAIN s.fields
      PROVE  /\ m.fields[p].types = TypesAt(p, b)
             /\ m.fields[p].items \in {ItemTypes(p, b), NoItems}
  <2>1. m.fields[p] = NewField(p, b, s.total + 1)
    BY <1>m, <1>n, VisitedField, Comparable
  <2> QED
    BY <2>1, NewFieldParts
<1>s. ASSUME NEW p \in Compared(m, b), p \in DOMAIN s.fields
      PROVE  /\ p \in Compared(s, b)
             /\ m.fields[p].types = s.fields[p].types \cup TypesAt(p, b)
             /\ ItemTypes(p, b) # NoItems =>
                  m.fields[p].items = IF s.fields[p].items = NoItems THEN ItemTypes(p, b)
                                      ELSE s.fields[p].items \cup ItemTypes(p, b)
  <2>1. p \in Visited(b) /\ p \in Compared(s, b)
    BY <1>m, <1>s, Comparable
  <2>2. m.fields[p] = SeenField(s.fields[p], p, b, s.total + 1)
    BY <1>m, <1>s, <2>1, VisitedField
  <2>3. m.fields[p].types = s.fields[p].types \cup TypesAt(p, b)
    BY <2>2 DEF SeenField
  <2>4. ItemTypes(p, b) # NoItems =>
          m.fields[p].items = IF s.fields[p].items = NoItems THEN ItemTypes(p, b)
                              ELSE s.fields[p].items \cup ItemTypes(p, b)
    BY <2>2 DEF SeenField
  <2> QED
    BY <2>1, <2>3, <2>4
<1>1. Added(m, b) = {}
  BY <1>d DEF Added
<1>2. Missing(m, b) = {}
  BY <1>d, SafeDiff DEF Missing
<1>3. Retyped(m, b) = {}
  <2> SUFFICES ASSUME NEW p \in Compared(m, b)
               PROVE  Present(m.fields[p].types) = Present(TypesAt(p, b))
    BY DEF Retyped
  <2>1. CASE p \notin DOMAIN s.fields
    BY <1>n, <2>1
  <2>2. CASE p \in DOMAIN s.fields
    <3>1. /\ p \in Compared(s, b)
          /\ m.fields[p].types = s.fields[p].types \cup TypesAt(p, b)
      BY <1>s, <2>2
    <3>2. CASE p \in Retyped(s, b)
      <4>1. SafelyWidened(Present(s.fields[p].types), Present(TypesAt(p, b)))
        BY <3>2, SafeDiff
      <4> QED
        BY <3>1, <4>1, WideningAddsNumber DEF Present
    <3>3. CASE p \notin Retyped(s, b)
      BY <3>1, <3>3 DEF Retyped, Present
    <3> QED
      BY <3>2, <3>3
  <2> QED
    BY <2>1, <2>2
<1>4. ASSUME NEW p \in Compared(m, b), Null \in TypesAt(p, b)
      PROVE  Null \in m.fields[p].types
  BY <1>4, <1>n, <1>s
<1>5. ASSUME NEW p \in Compared(m, b) \ (b.empty \cup b.truncated)
      PROVE  NoItems \in {m.fields[p].items, ItemTypes(p, b)}
               \/ m.fields[p].items = ItemTypes(p, b)
  <2>1. CASE p \notin DOMAIN s.fields
    BY <1>n, <2>1
  <2>2. CASE p \in DOMAIN s.fields
    <3>1. p \in Compared(s, b) \ (b.empty \cup b.truncated)
      BY <1>s, <2>2
    <3>2. NoItems \in {s.fields[p].items, ItemTypes(p, b)}
            \/ s.fields[p].items = ItemTypes(p, b)
      BY <3>1, SafeDiff
    <3> QED
      BY <1>s, <2>2, <3>2
  <2> QED
    BY <2>1, <2>2
<1> QED
  BY <1>1, <1>2, <1>3, <1>4, <1>5, <1>m, QuietDiff

----------------------------------------------------------------------------
(* What a baseline keeps.                                                  *)

\* Outside of arrays every sample counts.
Counted(s) ==
  Shape(s) /\ \A p \in DOMAIN s.fields \ Nested : s.fields[p].sampled = s.total

Learned(s, o, arrays) ==
  \A p \in DOMAIN o.fields \ Under(arrays) :
    /\ p \in DOMAIN s.fields
    /\ s.fields[p].types \subseteq Learnable(o.fields[p].types)

KeptRequired(s, o) ==
  \A p \in DOMAIN o.fields \ Nested :
    Required(o.fields[p]) => p \in DOMAIN s.fields /\ Required(s.fields[p])

LEMMA BodyPaths ==
  ASSUME NEW b \in Body
  PROVE  /\ Visited(b) \subseteq Paths
         /\ Under(b.empty \cup b.truncated) \subseteq Nested
         /\ \A p : TypesAt(p, b) \subseteq Types
         /\ \A p : ItemTypes(p, b) \in {NoItems} \cup SUBSET Types
<1>1. Visited(b) \subseteq Paths
  BY DEF Visited, Body
<1>2. Under(b.empty \cup b.truncated) \subseteq Nested
  BY DEF Under, Nested, Body
<1>3. \A p : TypesAt(p, b) \subseteq Types
  BY DEF TypesAt
<1>4. \A p : ItemTypes(p, b) \in {NoItems} \cup SUBSET Types
  BY <1>3 DEF ItemTypes
<1> QED
  BY <1>1, <1>2, <1>3, <1>4

\* A merge makes a shape of a shape.
LEMMA MergeCounts ==
  ASSUME NEW s, Counted(s), NEW b \in Body
  PROVE  Counted(Merged(s, b))
<1>m. PICK m : m = Merged(s, b)
  OBVIOUS
<1>1. /\ DOMAIN m = {"fields", "total"} /\ m.total = s.total + 1 /\ s.total \in Nat
      /\ DOMAIN m.fields \subseteq Paths
      /\ DOMAIN m.fields = DOMAIN s.fields \cup Visited(b)
  <2>1. /\ DOMAIN m = {"fields", "total"} /\ m.total = s.total + 1
        /\ DOMAIN m.fields = DOMAIN s.fields \cup Visited(b)
    BY <1>m, MergedFields
  <2>2. s.total \in Nat /\ DOMAIN s.fields \subseteq Paths /\ Visited(b) \subseteq Paths
    BY BodyPaths DEF Counted, Shape
  <2> QED
    BY <2>1, <2>2
<1>2. ASSUME NEW p \in DOMAIN m.fields
      PROVE  /\ m.fields[p] \in FieldShape
             /\ m.fields[p].seen <= m.fields[p].sampled
             /\ m.fields[p].sampled <= m.total
             /\ p \notin Nested => m.fields[p].sampled = m.total
  <2>1. m.fields[p] = FieldAfter(s, p, b, s.total + 1)
    BY <1>m, MergedFields
  <2>2. ItemTypes(p, b) \in {NoItems} \cup SUBSET Types /\ TypesAt(p, b) \in SUBSET Types
    BY BodyPaths
  <2>3. CASE p \notin DOMAIN s.fields
    <3>1. m.fields[p] = NewField(p, b, s.total + 1)
      BY <2>1, <2>3 DEF FieldAfter
    <3>2. m.fields[p] \in FieldShape
      BY <1>1, <2>2, <3>1 DEF NewField, FieldShape
    <3> QED
      BY <1>1, <3>1, <3>2, NewFieldParts
  <2>4. CASE p \in DOMAIN s.fields
    <3>1. PICK f : f = s.fields[p]
      OBVIOUS
    <3>2. /\ f \in FieldShape /\ f.seen <= f.sampled /\ f.sampled <= s.total
          /\ f.items \in {NoItems} \cup SUBSET Types
          /\ f.types \in SUBSET Types /\ f.seen \in Nat /\ f.sampled \in Nat
      BY <2>4, <3>1 DEF Counted, Shape, FieldShape
    <3>3. CASE p \in Visited(b)
      <4>1. m.fields[p] = SeenField(f, p, b, s.total + 1)
        BY <2>1, <2>4, <3>1, <3>3 DEF FieldAfter
      <4>2. PICK items \in {NoItems} \cup SUBSET Types :
              m.fields[p] = [types |-> f.types \cup TypesAt(p, b), items |-> items,
                             seen |-> f.seen + 1, sampled |-> s.total + 1]
        BY <2>2, <3>2, <4>1 DEF SeenField
      <4>3. m.fields[p] \in FieldShape
        BY <1>1, <2>2, <3>2, <4>2 DEF FieldShape
      <4> QED
        BY <1>1, <3>2, <4>2, <4>3
    <3>4. CASE p \notin Visited(b) /\ p \in Under(b.empty \cup b.truncated)
      <4>1. m.fields[p] = f /\ p \in Nested
        BY <2>1, <2>4, <3>1, <3>4, BodyPaths DEF FieldAfter
      <4> QED
        BY <1>1, <3>2, <4>1
    <3>5. CASE p \notin Visited(b) /\ p \notin Under(b.empty \cup b.truncated)
      <4>1. m.fields[p] = [f EXCEPT !.sampled = s.total + 1]
        BY <2>1, <2>4, <3>1, <3>5 DEF FieldAfter
      <4>2. /\ m.fields[p] \in FieldShape /\ m.fields[p].seen = f.seen
            /\ m.fields[p].sampled = s.total + 1
        BY <1>1, <3>2, <4>1 DEF FieldShape
      <4> QED
        BY <1>1, <3>2, <4>2
    <3> QED
      BY <3>3, <3>4, <3>5
  <2> QED
    BY <2>3, <2>4
<1> QED
  BY <1>1, <1>2, <1>m DEF Counted, Shape

\* A field that is compared gets no type but a float for an integer.
LEMMA MergeLearns ==
  ASSUME NEW s, NEW b, AllSafe(Diff(s, b)), NEW o, NEW arrays, Learned(s, o, arrays)
  PROVE  Learned(Merged(s, b), o, arrays \cup b.truncated)
<1>m. PICK m : m = Merged(s, b)
  OBVIOUS
<1> SUFFICES ASSUME NEW p \in DOMAIN o.fields \ Under(arrays \cup b.truncated)
             PROVE  /\ p \in DOMAIN m.fields
                    /\ m.fields[p].types \subseteq Learnable(o.fields[p].types)
  BY <1>m DEF Learned
<1>1. p \notin Under(arrays) /\ p \notin Under(b.truncated)
  BY DEF Under
<1>2. /\ p \in DOMAIN s.fields
      /\ s.fields[p].types \subseteq Learnable(o.fields[p].types)
  BY <1>1 DEF Learned
<1>3. p \in DOMAIN m.fields /\ m.fields[p] = FieldAfter(s, p, b, s.total + 1)
  BY <1>2, <1>m, MergedFields
<1>4. CASE p \in Visited(b)
  <2>1. m.fields[p].types = s.fields[p].types \cup TypesAt(p, b)
    BY <1>2, <1>3, <1>4 DEF FieldAfter, SeenField
  <2>2. p \in Compared(s, b)
    BY <1>1, <1>2, <1>4 DEF Compared
  <2>3. Null \in TypesAt(p, b) => Null \in s.fields[p].types
    BY <2>2, SafeDiff
  <2>4. CASE p \in Retyped(s, b)
    <3>1. /\ Integer \in Present(s.fields[p].types)
          /\ Present(TypesAt(p, b)) \subseteq Present(s.fields[p].types) \cup {Number}
      BY <2>4, SafeDiff, WideningAddsNumber
    <3>2. Integer \in s.fields[p].types /\ TypesAt(p, b) \subseteq s.fields[p].types \cup {Number}
      BY <2>3, <3>1 DEF Present
    <3>3. Integer # Number
      BY ShapesAssumption
    <3>4. Number \in Learnable(o.fields[p].types)
      BY <1>2, <3>2, <3>3 DEF Learnable
    <3> QED
      BY <1>2, <1>3, <2>1, <3>2, <3>4
  <2>5. CASE p \notin Retyped(s, b)
    <3>1. Present(s.fields[p].types) = Present(TypesAt(p, b))
      BY <2>2, <2>5 DEF Retyped
    <3>2. TypesAt(p, b) \subseteq s.fields[p].types
      BY <2>3, <3>1 DEF Present
    <3> QED
      BY <1>2, <1>3, <2>1, <3>2
  <2> QED
    BY <2>4, <2>5
<1>5. CASE p \notin Visited(b)
  <2>1. m.fields[p].types = s.fields[p].types
    <3>1. CASE p \in Under(b.empty \cup b.truncated)
      BY <1>2, <1>3, <1>5, <3>1 DEF FieldAfter
    <3>2. CASE p \notin Under(b.empty \cup b.truncated)
      <4>1. p \in Missing(s, b)
        BY <1>2, <1>5, <3>2 DEF Missing
      <4> QED
        BY <4>1, SafeDiff
    <3> QED
      BY <3>1, <3>2
  <2> QED
    BY <1>2, <1>3, <2>1
<1> QED
  BY <1>4, <1>5

\* A required field was in the response, and the sample counts for it.
LEMMA MergeKeepsRequired ==
  ASSUME NEW s, Counted(s), NEW b \in Body, AllSafe(Diff(s, b)), NEW o,
         KeptRequired(s, o)
  PROVE  KeptRequired(Merged(s, b), o)
<1>m. PICK m : m = Merged(s, b)
  OBVIOUS
<1> SUFFICES ASSUME NEW p \in DOMAIN o.fields \ Nested, Required(o.fields[p])
             PROVE  p \in DOMAIN m.fields /\ Required(m.fields[p])
  BY <1>m DEF KeptRequired
<1>1. p \in DOMAIN s.fields /\ Required(s.fields[p])
  BY DEF KeptRequired
<1>2. p \in Visited(b)
  BY <1>1, SafeDiff, BodyPaths DEF Missing
<1>3. p \in DOMAIN m.fields /\ m.fields[p] = FieldAfter(s, p, b, s.total + 1)
  BY <1>1, <1>m, MergedFields
<1>4. /\ m.fields[p].seen = s.fields[p].seen + 1
      /\ m.fields[p].sampled = s.total + 1
  BY <1>1, <1>2, <1>3 DEF FieldAfter, SeenField
<1>5. /\ s.fields[p].sampled = s.total /\ s.total \in Nat
      /\ s.fields[p].seen \in Nat
  BY <1>1 DEF Counted, Shape, FieldShape
<1>6. MinSamples \in Nat
  BY ShapesAssumption
<1> QED
  BY <1>1, <1>3, <1>4, <1>5, <1>6 DEF Required

----------------------------------------------------------------------------
(* The probe loop.                                                         *)

Good(s, t) ==
  /\ Counted(s)
  /\ Learned(s, orig[t], clipped[t])
  /\ KeptRequired(s, orig[t])

IInv ==
  /\ TypeOK
  /\ \A t \in Tools : /\ Good(index[t], t) /\ Good(file[t], t)
                       /\ file[t].total <= index[t].total

LEMMA InitInvariant == Init => IInv
<1> SUFFICES ASSUME Init PROVE IInv
  OBVIOUS
<1>1. ASSUME NEW t \in Tools PROVE Good(orig[t], t) /\ orig[t].total \in Nat
  <2>1. orig[t] \in Baselines
    BY DEF Init
  <2>2. Counted(orig[t])
    BY <2>1, ShapeDriftAssumption DEF Counted
  <2> QED
    BY <2>2 DEF Good, Counted, Shape, Learned, Learnable, KeptRequired
<1>2. TypeOK
  BY <1>1 DEF Init, TypeOK, Good, Counted
<1> QED
  BY <1>1, <1>2 DEF Init, IInv

LEMMA UnchangedIsGood ==
  ASSUME IInv, UNCHANGED <<index, file, orig, clipped>>, TypeOK'
  PROVE  IInv'
BY DEF IInv, Good

LEMMA AutoMergeKeeps ==
  ASSUME IInv, NEW t \in Tools, NEW saved \in BOOLEAN, AutoMerge(t, saved)
  PROVE  IInv'
<1> USE DEF IInv
<1>1. /\ api[t] \in Body /\ AllSafe(Diff(index[t], api[t]))
      /\ index' = [index EXCEPT ![t] = Merged(index[t], api[t])]
      /\ file' = index' \/ file' = file
      /\ clipped' = [clipped EXCEPT ![t] = clipped[t] \cup api[t].truncated]
      /\ orig' = orig
  BY ShapeDriftAssumption DEF AutoMerge, Changes, TypeOK
<1>2. /\ DOMAIN index' = Tools /\ index'[t] = Merged(index[t], api[t])
      /\ \A u \in Tools : u # t => index'[u] = index[u]
  BY <1>1 DEF TypeOK
<1>3. /\ clipped'[t] = clipped[t] \cup api[t].truncated
      /\ \A u \in Tools : u # t => clipped'[u] = clipped[u]
      /\ clipped' \in [Tools -> SUBSET Arrays]
  BY <1>1 DEF TypeOK, Body
<1>4. ASSUME NEW u \in Tools, NEW s, Good(s, u)
      PROVE  /\ Counted(s) /\ Learned(s, orig'[u], clipped'[u])
             /\ KeptRequired(s, orig'[u])
  <2>1. clipped[u] \subseteq clipped'[u]
    BY <1>3
  <2>2. Under(clipped[u]) \subseteq Under(clipped'[u])
    BY <2>1 DEF Under
  <2> QED
    BY <1>1, <1>4, <2>2 DEF Good, Learned
<1>5. Good(index[t], t)
  OBVIOUS
<1>6. /\ Counted(index'[t]) /\ Learned(index'[t], orig'[t], clipped'[t])
      /\ KeptRequired(index'[t], orig'[t])
  BY <1>1, <1>2, <1>3, <1>5, MergeCounts, MergeLearns, MergeKeepsRequired DEF Good
<1>7. ASSUME NEW u \in Tools
      PROVE  /\ Counted(index'[u]) /\ Learned(index'[u], orig'[u], clipped'[u])
             /\ KeptRequired(index'[u], orig'[u])
  BY <1>2, <1>4, <1>6
<1>8. ASSUME NEW u \in Tools
      PROVE  /\ Counted(file'[u]) /\ Learned(file'[u], orig'[u], clipped'[u])
             /\ KeptRequired(file'[u], orig'[u])
  <2>1. CASE file' = index'
    BY <1>7, <2>1
  <2>2. CASE file' = file
    BY <1>4, <2>2
  <2> QED
    BY <1>1, <2>1, <2>2
<1>9. \A u \in Tools : file'[u].total <= index'[u].total
  <2>1. index'[t].total = index[t].total + 1
    BY <1>2, MergedFields
  <2>2. \A u \in Tools : /\ index[u].total \in Nat /\ file[u].total \in Nat
                         /\ index'[u].total \in Nat
    BY <1>7 DEF TypeOK, Shape, Counted
  <2> QED
    BY <1>1, <1>2, <2>1, <2>2
<1>10. TypeOK'
  BY <1>1, <1>2, <1>3, <1>7, <1>8 DEF TypeOK, AutoMerge, Counted
<1> QED
  BY <1>7, <1>8, <1>9, <1>10 DEF Good

LEMMA NextInvariant == IInv /\ [Next]_vars => IInv'
<1> SUFFICES ASSUME IInv, [Next]_vars PROVE IInv'
  OBVIOUS
<1>1. CASE BeginCycle
  BY <1>1, UnchangedIsGood DEF BeginCycle, IInv, TypeOK
<1>2. ASSUME NEW t \in Tools, NEW saved \in BOOLEAN, Answer(t, saved) PROVE IInv'
  <2>1. CASE ProbeFails(t)
    BY <2>1, UnchangedIsGood DEF ProbeFails, IInv, TypeOK
  <2>2. CASE NoDrift(t)
    BY <2>2, UnchangedIsGood DEF NoDrift, IInv, TypeOK
  <2>3. CASE AutoMerge(t, saved)
    BY <2>3, AutoMergeKeeps
  <2>4. CASE Log(t, saved)
    <3>1. reported' \in [Tools -> SUBSET Bodies]
      BY <2>4 DEF Log, IInv, TypeOK
    <3> QED
      BY <2>4, <3>1, UnchangedIsGood DEF Log, IInv, TypeOK
  <2> QED
    BY <1>2, <2>1, <2>2, <2>3, <2>4 DEF Answer
<1>3. ASSUME NEW t \in Tools, NEW body \in Bodies \cup {Down}, Upstream(t, body) PROVE IInv'
  BY <1>3, UnchangedIsGood DEF Upstream, IInv, TypeOK
<1>4. CASE Restart
  <2>1. TypeOK'
    BY <1>4 DEF Restart, IInv, TypeOK
  <2>2. \A t \in Tools : file[t].total \in Nat
    BY DEF IInv, TypeOK, Shape
  <2> QED
    BY <1>4, <2>1, <2>2 DEF Restart, IInv, Good
<1>5. CASE UNCHANGED vars
  <2>1. TypeOK'
    BY <1>5 DEF vars, IInv, TypeOK
  <2> QED
    BY <1>5, <2>1, UnchangedIsGood DEF vars
<1> QED
  BY <1>1, <1>2, <1>3, <1>4, <1>5 DEF Next

LEMMA InvariantHolds == Spec => []IInv
BY InitInvariant, NextInvariant, PTL DEF Spec

----------------------------------------------------------------------------
(* Theorems.                                                               *)

\* Baselines stay shapes: no path is seen more often than it was looked for.
THEOREM TypeCorrect == Spec => []TypeOK
<1>1. IInv => TypeOK
  BY DEF IInv
<1> QED
  BY <1>1, InvariantHolds, PTL

\* handle_drift: no sequence of safe merges, failed saves and restarts teaches
\* a baseline a type it would have had to be approved for.
THEOREM SafelyLearned == Spec => []LearnsOnlySafely
<1>1. IInv => LearnsOnlySafely
  BY DEF IInv, Good, Learned, LearnsOnlySafely
<1> QED
  BY <1>1, InvariantHolds, PTL

\* A path that every response must have stays required.
THEOREM RequiredStaysRequired == Spec => []KeepsRequired
<1>1. IInv => KeepsRequired
  BY DEF IInv, Good, KeptRequired, KeepsRequired
<1> QED
  BY <1>1, InvariantHolds, PTL

\* A body that _auto_merge has merged raises no drift when it comes again.
THEOREM MergesAreQuiet == Spec => MergedIsQuiet
<1>1. ASSUME IInv, [Next]_vars, NEW t \in Tools, index'[t].total > index[t].total
      PROVE  Diff(index'[t], api[t]) = {}
  <2>1. index[t].total \in Nat /\ file[t].total \in Nat /\ file[t].total <= index[t].total
    BY <1>1 DEF IInv, TypeOK, Shape
  <2>2. index'[t] # index[t] /\ ~Restart
    BY <1>1, <2>1 DEF Restart
  <2>3. PICK u \in Tools, saved \in BOOLEAN : AutoMerge(u, saved)
    BY <1>1, <2>2
       DEF Next, vars, Answer, BeginCycle, ProbeFails, NoDrift, Log, Upstream
  <2>4. /\ u = t /\ index'[t] = Merged(index[t], api[t])
        /\ AllSafe(Diff(index[t], api[t]))
    BY <1>1, <2>2, <2>3 DEF AutoMerge, Changes, IInv, TypeOK
  <2> QED
    BY <2>4, SafeMergeIsQuiet
<1>2. IInv /\ [Next]_vars =>
        [\A t \in Tools :
           index'[t].total > index[t].total => Diff(index'[t], api[t]) = {}]_vars
  BY <1>1
<1> QED
  BY <1>2, InvariantHolds, PTL DEF Spec, MergedIsQuiet

----------------------------------------------------------------------------
(* The order of merges.                                                    *)

\* What one merge does to the types and sightings of any path.
TypesOf(s, p) == IF p \in DOMAIN s.fields THEN s.fields[p].types ELSE {}
SeenOf(s, p) == IF p \in DOMAIN s.fields THEN s.fields[p].seen ELSE 0

HasField(s, p) ==
  /\ SeenOf(s, p) \in Nat
  /\ p \in DOMAIN s.fields => {"types", "seen"} \subseteq DOMAIN s.fields[p]

LEMMA MergeAdds ==
  ASSUME NEW s, NEW b, NEW p, HasField(s, p)
  PROVE  /\ HasField(Merged(s, b), p)
         /\ TypesOf(Merged(s, b), p) = TypesOf(s, p) \cup TypesAt(p, b)
         /\ SeenOf(Merged(s, b), p) = SeenOf(s, p) + (IF p \in Visited(b) THEN 1 ELSE 0)
<1>m. PICK m : m = Merged(s, b)
  OBVIOUS
<1>1. p \notin Visited(b) => TypesAt(p, b) = {}
  <2>1. \A ty : <<p, ty>> \in b.nodes => <<p, ty>>[1] \in Visited(b)
    BY DEF Visited
  <2> QED
    BY <2>1 DEF TypesAt
<1>2. CASE p \notin DOMAIN s.fields /\ p \notin Visited(b)
  <2>1. p \notin DOMAIN m.fields
    BY <1>m, <1>2, MergedFields
  <2> QED
    BY <1>m, <1>1, <1>2, <2>1 DEF TypesOf, SeenOf, HasField
<1>3. CASE p \notin DOMAIN s.fields /\ p \in Visited(b)
  <2>1. p \in DOMAIN m.fields /\ m.fields[p] = NewField(p, b, s.total + 1)
    BY <1>m, <1>3, VisitedField
  <2>2. {"types", "seen"} \subseteq DOMAIN m.fields[p]
    BY <2>1 DEF NewField
  <2> QED
    BY <1>m, <1>3, <2>1, <2>2, NewFieldParts DEF TypesOf, SeenOf, HasField
<1>4. CASE p \in DOMAIN s.fields /\ p \in Visited(b)
  <2>1. p \in DOMAIN m.fields /\ m.fields[p] = SeenField(s.fields[p], p, b, s.total + 1)
    BY <1>m, <1>4, VisitedField
  <2>2. /\ {"types", "seen"} \subseteq DOMAIN m.fields[p]
        /\ m.fields[p].types = s.fields[p].types \cup TypesAt(p, b)
        /\ m.fields[p].seen = s.fields[p].seen + 1
    BY <2>1 DEF SeenField
  <2> QED
    BY <1>m, <1>4, <2>1, <2>2 DEF TypesOf, SeenOf, HasField
<1>5. CASE p \in DOMAIN s.fields /\ p \notin Visited(b)
  <2>1. p \in DOMAIN m.fields /\ m.fields[p] = FieldAfter(s, p, b, s.total + 1)
    BY <1>m, <1>5, MergedFields
  <2>2. m.fields[p] \in {s.fields[p], [s.fields[p] EXCEPT !.sampled = s.total + 1]}
    BY <1>5, <2>1 DEF FieldAfter
  <2>3. /\ {"types", "seen"} \subseteq DOMAIN m.fields[p]
        /\ m.fields[p].types = s.fields[p].types
        /\ m.fields[p].seen = s.fields[p].seen
    BY <1>5, <2>2 DEF HasField
  <2> QED
    BY <1>m, <1>1, <1>5, <2>1, <2>3 DEF TypesOf, SeenOf, HasField
<1> QED
  BY <1>2, <1>3, <1>4, <1>5

\* In which order two responses are merged (merge_observation) makes no
\* difference to the paths a baseline knows, to the types it has learned at each,
\* nor to how often it saw them.  It does make one to a field's samples and item
\* types, when an array was empty.
THEOREM MergeOrderIsFree ==
  ASSUME NEW s, Shape(s), NEW b, NEW c
  PROVE  LET one == Merged(Merged(s, b), c)
             two == Merged(Merged(s, c), b)
         IN  /\ DOMAIN one.fields = DOMAIN two.fields /\ one.total = two.total
             /\ \A p \in DOMAIN one.fields :
                  /\ one.fields[p].types = two.fields[p].types
                  /\ one.fields[p].seen = two.fields[p].seen
<1> DEFINE one == Merged(Merged(s, b), c)
           two == Merged(Merged(s, c), b)
<1>1. DOMAIN one.fields = DOMAIN two.fields /\ one.total = two.total
  <2>1. /\ Merged(s, b).total = s.total + 1 /\ Merged(s, c).total = s.total + 1
        /\ DOMAIN Merged(s, b).fields = DOMAIN s.fields \cup Visited(b)
        /\ DOMAIN Merged(s, c).fields = DOMAIN s.fields \cup Visited(c)
    BY MergedFields
  <2>2. /\ one.total = Merged(s, b).total + 1 /\ two.total = Merged(s, c).total + 1
        /\ DOMAIN one.fields = DOMAIN Merged(s, b).fields \cup Visited(c)
        /\ DOMAIN two.fields = DOMAIN Merged(s, c).fields \cup Visited(b)
    BY MergedFields
  <2> HIDE DEF one, two
  <2> QED
    BY <2>1, <2>2
<1>2. ASSUME NEW p
      PROVE  TypesOf(one, p) = TypesOf(two, p) /\ SeenOf(one, p) = SeenOf(two, p)
  <2> DEFINE n(d) == IF p \in Visited(d) THEN 1 ELSE 0
  <2>1. HasField(s, p)
    BY DEF HasField, SeenOf, Shape, FieldShape
  <2>2. /\ TypesOf(Merged(s, b), p) = TypesOf(s, p) \cup TypesAt(p, b)
        /\ SeenOf(Merged(s, b), p) = SeenOf(s, p) + n(b)
        /\ TypesOf(Merged(s, c), p) = TypesOf(s, p) \cup TypesAt(p, c)
        /\ SeenOf(Merged(s, c), p) = SeenOf(s, p) + n(c)
    BY <2>1, MergeAdds
  <2>3. HasField(Merged(s, b), p) /\ HasField(Merged(s, c), p)
    BY <2>1, MergeAdds
  <2>4. /\ TypesOf(one, p) = TypesOf(Merged(s, b), p) \cup TypesAt(p, c)
        /\ SeenOf(one, p) = SeenOf(Merged(s, b), p) + n(c)
    BY <2>3, MergeAdds
  <2>5. /\ TypesOf(two, p) = TypesOf(Merged(s, c), p) \cup TypesAt(p, b)
        /\ SeenOf(two, p) = SeenOf(Merged(s, c), p) + n(b)
    BY <2>3, MergeAdds
  <2> HIDE DEF one, two
  <2>6. TypesOf(one, p) = TypesOf(two, p)
    BY <2>2, <2>4, <2>5
  <2>7. SeenOf(one, p) = SeenOf(two, p)
    BY <2>1, <2>2, <2>4, <2>5 DEF HasField
  <2> QED
    BY <2>6, <2>7
<1> HIDE DEF one, two
<1>3. \A p \in DOMAIN one.fields :
        one.fields[p].types = two.fields[p].types /\ one.fields[p].seen = two.fields[p].seen
  BY <1>1, <1>2 DEF TypesOf, SeenOf
<1> QED
  BY <1>1, <1>3 DEF one, two
=============================================================================
