-------------------------------- MODULE Shapes --------------------------------
(***************************************************************************)
(* Shapes of responses: what a baseline knows of the paths of a JSON body, *)
(* how an observation is merged into it and what counts as drift.          *)
(*                                                                         *)
(* A body is what the walk over it sees: a type at each path it visits,    *)
(* the arrays that were empty and those of which only the first items were *)
(* looked at.  A path is nullable if null was seen there.  Object keys and *)
(* the wording of changes are left out: no decision reads them.            *)
(***************************************************************************)
EXTENDS Naturals, FiniteSets

CONSTANTS
  Paths, Root,
  Item,       \* Item[a]: the path of the items of the array a
  Below,      \* Below[a]: the paths that start with it, itself included
  Types, Null, Integer, Number, Array,
  NoItems,    \* array_item_types_seen is None
  MinSamples  \* MIN_SAMPLES_FOR_PRESENCE

Arrays == DOMAIN Item

ASSUME ShapesAssumption ==
  /\ Root \in Paths /\ {Null, Integer, Number, Array} \subseteq Types
  /\ Null # Integer /\ Null # Number /\ Integer # Number
  /\ (\A S \in SUBSET Types : NoItems # S)
  /\ MinSamples \in Nat \ {0}
  /\ Arrays \subseteq Paths
  /\ Item \in [Arrays -> Paths] /\ Below \in [Arrays -> SUBSET Paths]
  /\ \A a \in Arrays : Item[a] \in Below[a] /\ Root \notin Below[a]

Body ==
  [nodes : SUBSET (Paths \X Types), empty : SUBSET Arrays, truncated : SUBSET Arrays]

FieldShape ==
  [types : SUBSET Types, items : {NoItems} \cup SUBSET Types, seen : Nat,
   sampled : Nat]

----------------------------------------------------------------------------
(* infer_shape.                                                            *)

Visited(body) == {node[1] : node \in body.nodes}

TypesAt(p, body) == {ty \in Types : <<p, ty>> \in body.nodes}

ItemTypes(p, body) ==
  IF p \in Arrays /\ Array \in TypesAt(p, body) THEN TypesAt(Item[p], body)
                                                ELSE NoItems

\* What is below arrays that were empty or cut off is unknown, not missing.
Under(arrays) == UNION {Below[a] : a \in arrays}

----------------------------------------------------------------------------
(* merge_observation: a shape has fields for the paths it knows and the    *)
(* number of samples it was made from.                                     *)

NewField(p, body, total) ==
  [types |-> TypesAt(p, body),
   items |-> IF ItemTypes(p, body) = {} THEN NoItems ELSE ItemTypes(p, body),
   seen |-> 1, sampled |-> total]

\* Two mistakes: types that are not merged, and a presence that is not counted.
SeenFieldUnmerged(f, p, body, total) ==
  [f EXCEPT !.seen = @ + 1, !.sampled = total]

SeenFieldUncounted(f, p, body, total) ==
  [types |-> f.types \cup TypesAt(p, body), items |-> f.items, seen |-> f.seen,
   sampled |-> total]

SeenField(f, p, body, total) ==
  LET items == ItemTypes(p, body) IN
  [types |-> f.types \cup TypesAt(p, body),
   items |-> IF items = NoItems THEN f.items
             ELSE IF f.items = NoItems THEN items ELSE f.items \cup items,
   seen |-> f.seen + 1, sampled |-> total]

\* total counts this sample, too.
FieldAfter(shape, p, body, total) ==
  IF p \notin DOMAIN shape.fields THEN NewField(p, body, total)
  ELSE IF p \in Visited(body) THEN SeenField(shape.fields[p], p, body, total)
  ELSE IF p \in Under(body.empty \cup body.truncated) THEN shape.fields[p]
  ELSE [shape.fields[p] EXCEPT !.sampled = total]

\* A mistake: the sample is counted after its fields.
MergedThenCounted(shape, body) ==
  [fields |-> [p \in DOMAIN shape.fields \cup Visited(body) |->
                 FieldAfter(shape, p, body, shape.total)],
   total |-> shape.total + 1]

Merged(shape, body) ==
  [fields |-> [p \in DOMAIN shape.fields \cup Visited(body) |->
                 FieldAfter(shape, p, body, shape.total + 1)],
   total |-> shape.total + 1]

----------------------------------------------------------------------------
(* diff_shapes: [path, kind] for each change.                              *)

Present(S) == S \ {Null}

SafeWidenings == {<<Integer, Number>>}

\* A mistake: any type may be added.
WidenedAnyhow(old, new) == old \subseteq new /\ old # new

SafelyWidened(old, new) ==
  /\ old \subseteq new /\ old # new
  /\ \A added \in new \ old : \E ty \in old : <<ty, added>> \in SafeWidenings

\* Present in at least 95% of the samples, of which there are enough.
Required(f) == f.sampled >= MinSamples /\ 100 * f.seen >= 95 * f.sampled

Added(shape, body) == Visited(body) \ DOMAIN shape.fields

Missing(shape, body) ==
  (DOMAIN shape.fields \ Visited(body)) \ Under(body.empty \cup body.truncated)

Compared(shape, body) ==
  (DOMAIN shape.fields \cap Visited(body)) \ Under(body.truncated)

Retyped(shape, body) ==
  {p \in Compared(shape, body) :
     Present(shape.fields[p].types) # Present(TypesAt(p, body))}

Retyping(p, old, new) ==
  IF p = Root THEN "root_type_changed"
  ELSE IF SafelyWidened(Present(old), Present(new)) THEN "type_widened_safe"
  ELSE IF Present(new) \subseteq Present(old) THEN "type_narrowed"
  ELSE "type_changed_breaking"

\* A root that changed its type is not looked at any further.
Further(shape, body) ==
  {p \in Compared(shape, body) : p = Root => p \notin Retyped(shape, body)}

Change(p, kind) == [path |-> p, kind |-> kind]

Diff(shape, body) ==
  {Change(p, "field_added") : p \in Added(shape, body)}
  \cup {Change(p, IF Required(shape.fields[p]) THEN "required_path_missing"
                                               ELSE "optional_key_removed") :
          p \in Missing(shape, body)}
  \cup {Change(p, Retyping(p, shape.fields[p].types, TypesAt(p, body))) :
          p \in Retyped(shape, body)}
  \cup {Change(p, "nullability_changed") :
          p \in {q \in Further(shape, body) :
                   Null \in TypesAt(q, body) \ shape.fields[q].types}}
  \cup {Change(p, "array_item_type_changed") :
          p \in {q \in Further(shape, body) \ (body.empty \cup body.truncated) :
                   /\ NoItems \notin {shape.fields[q].items, ItemTypes(q, body)}
                   /\ shape.fields[q].items # ItemTypes(q, body)}}

SafeKinds == {"field_added", "type_widened_safe"}

\* overall_severity, as far as it decides what is merged.
AllSafe(changes) == \A c \in changes : c.kind \in SafeKinds
=============================================================================
