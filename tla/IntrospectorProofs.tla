--------------------------- MODULE IntrospectorProofs ---------------------------
(* Theorems about Introspector and the catalog cache, for any databases. *)
EXTENDS Introspector, TLAPS

(***************************************************************************)
(* Slots and paths                                                         *)
(***************************************************************************)

InSchema == {"enums", "domains", "routines", "views", "tables"}
InOwner == {"columns", "constraints", "indexes", "triggers", "view_indexes", "view_triggers"}

Slots ==
  {Extensions, Schemas} \cup {Slot(k, <<s>>) : k \in InSchema, s \in Nat}
    \cup {Slot(k, <<s, t>>) : k \in InOwner, s \in Nat, t \in Nat}

LEMMA SlotShapes ==
  ASSUME NEW slot \in Slots
  PROVE  \/ slot.kind \in {"extensions", "schemas"} /\ slot.at = <<>>
         \/ /\ slot.kind \in InSchema /\ slot.at[1] \in Nat
            /\ slot.at = <<slot.at[1]>> /\ slot = Slot(slot.kind, <<slot.at[1]>>)
         \/ /\ slot.kind \in InOwner /\ slot.at[1] \in Nat /\ slot.at[2] \in Nat
            /\ slot.at = <<slot.at[1], slot.at[2]>>
            /\ slot = Slot(slot.kind, <<slot.at[1], slot.at[2]>>)
  BY DEF Slots, Slot, Extensions, Schemas, InSchema, InOwner

LEMMA SlotKinds ==
  ASSUME NEW slot \in Slots
  PROVE  /\ slot.kind \in Kinds
         /\ slot.kind \in {"extensions", "schemas"} => slot.at = <<>>
         /\ slot.kind \in {"extensions", "schemas"} => slot = Slot(slot.kind, <<>>)
         /\ slot.kind \in InSchema =>
              /\ slot.at[1] \in Nat /\ slot.at = <<slot.at[1]>>
              /\ slot = Slot(slot.kind, <<slot.at[1]>>)
         /\ slot.kind \in InOwner =>
              /\ slot.at[1] \in Nat /\ slot.at[2] \in Nat /\ slot.at = <<slot.at[1], slot.at[2]>>
              /\ slot = Slot(slot.kind, <<slot.at[1], slot.at[2]>>)
  BY DEF Slots, Slot, Extensions, Schemas, InSchema, InOwner, Kinds

LEMMA SlotOf ==
  ASSUME NEW k, NEW at
  PROVE  Slot(k, at).kind = k /\ Slot(k, at).at = at
  BY DEF Slot

LEMMA SchemasIs == Schemas \in Slots /\ Schemas.kind = "schemas" /\ Schemas.at = <<>>
  BY DEF Schemas, Slots, Slot

LEMMA PathOf ==
  ASSUME NEW c, NEW slot \in Slots
  PROVE  /\ slot.kind \in {"extensions", "schemas"} => Path(c, slot) = <<>> /\ Len(slot.at) = 0
         /\ slot.kind \in InSchema =>
              Path(c, slot) = <<Slice(c, Schemas)[slot.at[1]].name>> /\ Len(slot.at) = 1
         /\ slot.kind \in InOwner =>
              /\ Path(c, slot) = <<Slice(c, Schemas)[slot.at[1]].name,
                                   Slice(c, Holder(slot))[slot.at[2]].name>>
              /\ Len(slot.at) = 2
<1>1. /\ slot.kind \in {"extensions", "schemas"} => Len(slot.at) = 0
      /\ slot.kind \in InSchema => Len(slot.at) = 1
      /\ slot.kind \in InOwner => Len(slot.at) = 2
  <2>1. Len(<<>>) = 0 /\ (\A s : Len(<<s>>) = 1) /\ (\A s, t : Len(<<s, t>>) = 2)
    OBVIOUS
  <2>2. QED
    BY <2>1, SlotKinds
<1>2. ASSUME slot.kind \in {"extensions", "schemas"} PROVE Path(c, slot) = <<>>
  <2>1. Len(slot.at) # 1 /\ Len(slot.at) # 2
    BY <1>1, <1>2
  <2>2. QED
    BY <2>1 DEF Path
<1>3. ASSUME slot.kind \in InSchema
      PROVE  Path(c, slot) = <<Slice(c, Schemas)[slot.at[1]].name>>
  <2>1. Len(slot.at) = 1 /\ Len(slot.at) # 2
    BY <1>1, <1>3
  <2>2. QED
    BY <2>1 DEF Path
<1>4. ASSUME slot.kind \in InOwner
      PROVE  Path(c, slot) = <<Slice(c, Schemas)[slot.at[1]].name,
                               Slice(c, Holder(slot))[slot.at[2]].name>>
  <2>1. Len(slot.at) # 1 /\ Len(slot.at) = 2
    BY <1>1, <1>4
  <2>2. QED
    BY <2>1 DEF Path
<1>5. QED
  BY <1>1, <1>2, <1>3, <1>4

LEMMA HolderOf ==
  ASSUME NEW slot \in Slots, slot.kind \in InOwner
  PROVE  /\ Holder(slot) \in Slots /\ Holder(slot).kind \in {"tables", "views"}
         /\ Holder(slot).kind = "views" <=> slot.kind \in {"view_indexes", "view_triggers"}
         /\ Holder(slot).at = <<slot.at[1]>> /\ Holder(slot).at[1] = slot.at[1]
<1>1. slot.at[1] \in Nat
  BY SlotKinds
<1>2. QED
  BY <1>1 DEF Holder, Slots, Views, Tables, Slot, InSchema


(***************************************************************************)
(* Caches that agree with their catalog                                    *)
(***************************************************************************)

Data == [columns : Seq(Nat), refs : BOOLEAN, marks : SUBSET Types]
\* Blank is a string, which the provers cannot see.
Texts == STRING \cup {Blank}
Objects == [name : Nat, args : Texts, type : Texts, data : Data, ignore : {FALSE}]

\* What a slot is in is there.
Held(c, slot) ==
  /\ slot \in Slots
  /\ slot.kind \in InSchema \cup InOwner => slot.at[1] \in DOMAIN Slice(c, Schemas)
  /\ slot.kind \in InOwner => slot.at[2] \in DOMAIN Slice(c, Holder(slot))

\* Only routines are told apart by more than their names.
Plain(slot, o) == slot.kind \in {"schemas", "tables", "views"} => o.args = Blank

Shaped(c) ==
  \A slot \in DOMAIN c.slices :
    /\ c.slices[slot] \in Seq(Objects) /\ Held(c, slot)
    /\ \A i \in DOMAIN c.slices[slot] : Plain(slot, c.slices[slot][i])

\* No table has the name of a view that indexes, or triggers, have been added to.
ApartFrom(c, slot) ==
  \A l \in DOMAIN c.slices :
    MapOf(l.kind) = MapOf(slot.kind) /\ Path(c, l) = Path(c, slot) => l.kind = slot.kind

HasName(slot, o) == slot.kind # "extensions" /\ (slot.kind = "constraints" => o.name # NoName)

IdOf(c, slot, o) == Id(c, slot, o.name, o.args)

Found(c) ==
  \A slot \in DOMAIN c.slices : \A i \in DOMAIN c.slices[slot] :
    HasName(slot, c.slices[slot][i]) =>
      /\ IdOf(c, slot, c.slices[slot][i]) \in DOMAIN c.index
      /\ c.index[IdOf(c, slot, c.slices[slot][i])] = i

Backed(c) ==
  \A id \in DOMAIN c.index :
    \E slot \in DOMAIN c.slices : \E i \in DOMAIN c.slices[slot] :
      /\ HasName(slot, c.slices[slot][i])
      /\ IdOf(c, slot, c.slices[slot][i]) = id /\ c.index[id] = i

OfType(c, slot, type) == {i \in DOMAIN c.slices[slot] : c.slices[slot][i].type = type}

Keyed(c) ==
  /\ \A slot \in DOMAIN c.slices : slot.kind = "constraints" =>
       /\ Path(c, slot) \in DOMAIN c.fkeys <=> OfType(c, slot, FOREIGN_KEY) # {}
       /\ Path(c, slot) \in DOMAIN c.fkeys =>
            c.fkeys[Path(c, slot)] = OfType(c, slot, FOREIGN_KEY)
       /\ Path(c, slot) \in DOMAIN c.pkeys <=> OfType(c, slot, PRIMARY_KEY) # {}
       /\ Path(c, slot) \in DOMAIN c.pkeys =>
            /\ c.pkeys[Path(c, slot)] \in OfType(c, slot, PRIMARY_KEY)
            /\ \A i \in OfType(c, slot, PRIMARY_KEY) : i <= c.pkeys[Path(c, slot)]
  /\ \A path \in DOMAIN c.fkeys \cup DOMAIN c.pkeys :
       \E slot \in DOMAIN c.slices : slot.kind = "constraints" /\ Path(c, slot) = path

IsCache(c) ==
  c = [slices |-> c.slices, index |-> c.index, pkeys |-> c.pkeys, fkeys |-> c.fkeys]

IsMap(f) == f = [x \in DOMAIN f |-> f[x]]

Good(c) ==
  /\ IsMap(c.pkeys) /\ IsMap(c.fkeys)
  /\ IsCache(c) /\ Shaped(c) /\ Found(c) /\ Backed(c) /\ Keyed(c)
  /\ \A slot \in DOMAIN c.slices : ApartFrom(c, slot)

LEMMA SliceShaped ==
  ASSUME NEW c, Shaped(c), NEW slot
  PROVE  /\ Slice(c, slot) \in Seq(Objects) /\ Len(Slice(c, slot)) \in Nat
         /\ DOMAIN Slice(c, slot) = 1 .. Len(Slice(c, slot))
         /\ \A i \in DOMAIN Slice(c, slot) :
              /\ slot \in DOMAIN c.slices /\ i \in DOMAIN c.slices[slot] /\ i \in Nat \ {0}
              /\ Slice(c, slot)[i] = c.slices[slot][i] /\ Slice(c, slot)[i] \in Objects
<1>1. Slice(c, slot) \in Seq(Objects)
  BY DEF Slice, Shaped
<1>2. slot \notin DOMAIN c.slices => DOMAIN Slice(c, slot) = {}
  BY DEF Slice
<1>3. slot \in DOMAIN c.slices => Slice(c, slot) = c.slices[slot]
  BY DEF Slice
<1>4. QED
  BY <1>1, <1>2, <1>3

\* Schemas, and the tables and views of a schema, have different names.
LEMMA NamesDiffer ==
  ASSUME NEW c, Shaped(c), Found(c), NEW l, l.kind \in {"schemas", "tables", "views"},
         NEW i \in DOMAIN Slice(c, l), NEW j \in DOMAIN Slice(c, l),
         Slice(c, l)[i].name = Slice(c, l)[j].name
  PROVE  i = j
<1>1. /\ l \in DOMAIN c.slices /\ i \in DOMAIN c.slices[l] /\ j \in DOMAIN c.slices[l]
      /\ Slice(c, l)[i] = c.slices[l][i] /\ Slice(c, l)[j] = c.slices[l][j]
  BY SliceShaped
<1>2. Plain(l, c.slices[l][i]) /\ Plain(l, c.slices[l][j])
  BY <1>1 DEF Shaped
<1>3. c.slices[l][i].args = c.slices[l][j].args
  BY <1>2 DEF Plain
<1>4. IdOf(c, l, c.slices[l][i]) = IdOf(c, l, c.slices[l][j])
  BY <1>1, <1>3 DEF IdOf
<1>5. HasName(l, c.slices[l][i]) /\ HasName(l, c.slices[l][j])
  BY DEF HasName
<1>6. QED
  BY <1>1, <1>4, <1>5 DEF Found

\* A path is of one slot of its kind.
LEMMA PathsDiffer ==
  ASSUME NEW c, Shaped(c), Found(c), NEW l, NEW m, Held(c, l), Held(c, m),
         l.kind = m.kind, Path(c, l) = Path(c, m)
  PROVE  l = m
<1>1. l \in Slots /\ m \in Slots
  BY DEF Held
<1>2. CASE l.kind \in {"extensions", "schemas"}
  BY <1>1, <1>2, SlotKinds
<1>3. ASSUME l.kind \in InSchema \cup InOwner
      PROVE  l.at[1] = m.at[1]
  <2>1. Slice(c, Schemas)[l.at[1]].name = Slice(c, Schemas)[m.at[1]].name
    <3>1. ASSUME NEW x1, NEW x2, NEW y1, NEW y2
          PROVE  (<<x1>> = <<y1>> => x1 = y1) /\ (<<x1, x2>> = <<y1, y2>> => x1 = y1)
      OBVIOUS
    <3>2. CASE l.kind \in InSchema
      BY <1>1, <3>1, <3>2, PathOf
    <3>3. CASE l.kind \in InOwner
      BY <1>1, <3>1, <3>3, PathOf
    <3>4. QED
      BY <1>3, <3>2, <3>3
  <2>2. l.at[1] \in DOMAIN Slice(c, Schemas) /\ m.at[1] \in DOMAIN Slice(c, Schemas)
    BY <1>3 DEF Held
  <2>3. QED
    BY <2>1, <2>2, NamesDiffer, SchemasIs
<1>4. ASSUME l.kind \in InOwner
      PROVE  l.at[2] = m.at[2]
  <2>1. Holder(l) = Holder(m) /\ Holder(l).kind \in {"schemas", "tables", "views"}
    <3>1. l.at[1] = m.at[1]
      BY <1>3, <1>4
    <3>2. QED
      BY <1>1, <1>4, <3>1, HolderOf DEF Holder
  <2>2. Slice(c, Holder(l))[l.at[2]].name = Slice(c, Holder(l))[m.at[2]].name
    BY <1>1, <1>4, <2>1, PathOf
  <2>3. l.at[2] \in DOMAIN Slice(c, Holder(l)) /\ m.at[2] \in DOMAIN Slice(c, Holder(l))
    BY <1>4, <2>1 DEF Held
  <2>4. QED
    BY <2>1, <2>2, <2>3, NamesDiffer
<1>5. l.kind \in {"extensions", "schemas"} \cup InSchema \cup InOwner
  BY <1>1, SlotShapes
<1>6. QED
  BY <1>1, <1>2, <1>3, <1>4, <1>5, SlotKinds

\* What a step does not touch of the names in a catalog.
Kept(c, d) ==
  \A l : \A i \in DOMAIN Slice(c, l) :
    /\ i \in DOMAIN Slice(d, l)
    /\ Slice(d, l)[i].name = Slice(c, l)[i].name /\ Slice(d, l)[i].args = Slice(c, l)[i].args

LEMMA HeldKept ==
  ASSUME NEW c, NEW d, Kept(c, d), NEW l, Held(c, l)
  PROVE  /\ Held(d, l) /\ Path(d, l) = Path(c, l)
         /\ \A name, args : Id(d, l, name, args) = Id(c, l, name, args)
<1>1. l \in Slots
  BY DEF Held
<1>2. ASSUME l.kind \in InSchema \cup InOwner
      PROVE  /\ l.at[1] \in DOMAIN Slice(d, Schemas)
             /\ Slice(d, Schemas)[l.at[1]].name = Slice(c, Schemas)[l.at[1]].name
  BY <1>2 DEF Held, Kept
<1>3. ASSUME l.kind \in InOwner
      PROVE  /\ l.at[2] \in DOMAIN Slice(d, Holder(l))
             /\ Slice(d, Holder(l))[l.at[2]].name = Slice(c, Holder(l))[l.at[2]].name
  BY <1>3 DEF Held, Kept
<1>4. Held(d, l)
  BY <1>1, <1>2, <1>3 DEF Held
<1>5. Path(d, l) = Path(c, l)
  <2>1. CASE l.kind \in {"extensions", "schemas"}
    BY <1>1, <2>1, PathOf
  <2>2. CASE l.kind \in InSchema
    BY <1>1, <1>2, <2>2, PathOf
  <2>3. CASE l.kind \in InOwner
    BY <1>1, <1>2, <1>3, <2>3, PathOf
  <2>4. QED
    BY <1>1, <2>1, <2>2, <2>3, SlotShapes
<1>6. QED
  BY <1>4, <1>5 DEF Id

\* What Get finds.
LEMMA GetFinds ==
  ASSUME NEW c, Good(c), NEW slot, Held(c, slot), ApartFrom(c, slot), NEW name, NEW args
  PROVE  /\ Id(c, slot, name, args) \in DOMAIN c.index =>
              /\ slot \in DOMAIN c.slices /\ c.index[Id(c, slot, name, args)] \in DOMAIN c.slices[slot]
              /\ c.slices[slot][c.index[Id(c, slot, name, args)]].name = name
              /\ c.slices[slot][c.index[Id(c, slot, name, args)]].args = args
              /\ HasName(slot, c.slices[slot][c.index[Id(c, slot, name, args)]])
              /\ Get(c, slot, name, args) = c.index[Id(c, slot, name, args)]
              /\ Get(c, slot, name, args) \in Nat \ {0}
         /\ Id(c, slot, name, args) \notin DOMAIN c.index => Get(c, slot, name, args) = 0
<1> DEFINE id == Id(c, slot, name, args)
<1>1. CASE id \notin DOMAIN c.index
  BY <1>1 DEF Get, Position
<1>2. CASE id \in DOMAIN c.index
  <2>1. PICK l \in DOMAIN c.slices : \E i \in DOMAIN c.slices[l] :
               /\ HasName(l, c.slices[l][i])
               /\ IdOf(c, l, c.slices[l][i]) = id /\ c.index[id] = i
    BY <1>2 DEF Good, Backed
  <2>2. PICK i \in DOMAIN c.slices[l] :
               /\ HasName(l, c.slices[l][i])
               /\ IdOf(c, l, c.slices[l][i]) = id /\ c.index[id] = i
    BY <2>1
  <2>3. /\ MapOf(l.kind) = MapOf(slot.kind) /\ Path(c, l) = Path(c, slot)
        /\ c.slices[l][i].name = name /\ c.slices[l][i].args = args
    BY <2>2 DEF IdOf, Id
  <2>4. Held(c, l)
    BY DEF Good, Shaped
  <2>5. l = slot
    BY <2>3, <2>4, PathsDiffer DEF Good, ApartFrom
  <2>6. c.slices[slot] \in Seq(Objects)
    BY <2>5 DEF Good, Shaped
  <2>7. i \in Nat \ {0} /\ ~c.slices[slot][i].ignore
    <3>1. DOMAIN c.slices[slot] \subseteq Nat \ {0} /\ c.slices[slot][i] \in Objects
      BY <2>2, <2>5, <2>6
    <3>2. QED
      BY <2>2, <2>5, <3>1 DEF Objects
  <2>8. Get(c, slot, name, args) = i
    BY <1>2, <2>2, <2>5, <2>7 DEF Get, Position, Slice
  <2>9. QED
    BY <1>2, <2>2, <2>3, <2>5, <2>7, <2>8
<1>3. QED
  BY <1>1, <1>2

\* The places of a catalog with one more object.
Grows(c, d, slot, o) ==
  LET last == Len(Slice(c, slot)) + 1
  IN /\ DOMAIN d.slices = DOMAIN c.slices \cup {slot}
     /\ \A l \in DOMAIN c.slices : \A i \in DOMAIN c.slices[l] :
          i \in DOMAIN d.slices[l] /\ d.slices[l][i] = c.slices[l][i]
     /\ last \in DOMAIN d.slices[slot] /\ d.slices[slot][last] = o
     /\ slot \in DOMAIN c.slices => last \notin DOMAIN c.slices[slot]
     /\ last \in Nat \ {0} /\ \A i \in DOMAIN d.slices[slot] : i <= last
     /\ \A l \in DOMAIN d.slices : \A i \in DOMAIN d.slices[l] :
          \/ l = slot /\ i = last
          \/ l \in DOMAIN c.slices /\ i \in DOMAIN c.slices[l]

LEMMA AppendedGrows ==
  ASSUME NEW c, Shaped(c), NEW slot, Held(c, slot), NEW o \in Objects, Plain(slot, o),
         NEW d, d.slices = Appended(c, slot, o)
  PROVE  /\ Grows(c, d, slot, o) /\ Kept(c, d) /\ Shaped(d)
         /\ (\A l \in DOMAIN c.slices \cup {slot} : ApartFrom(c, l)) =>
              \A l \in DOMAIN d.slices : ApartFrom(d, l)
<1> DEFINE last == Len(Slice(c, slot)) + 1
           S == Slice(c, slot)
<1>1. S \in Seq(Objects) /\ Len(S) \in Nat /\ DOMAIN S = 1 .. Len(S)
  BY SliceShaped
<1>2. /\ DOMAIN Append(S, o) = 1 .. last /\ Append(S, o)[last] = o /\ Append(S, o) \in Seq(Objects)
      /\ \A i \in 1 .. Len(S) : Append(S, o)[i] = S[i]
      /\ last \in Nat \ {0} /\ last \notin 1 .. Len(S)
      /\ \A i \in 1 .. last : i <= last /\ (i = last \/ i \in 1 .. Len(S))
      /\ 1 .. Len(S) \subseteq 1 .. last /\ last \in 1 .. last
  BY <1>1
<1>3. /\ DOMAIN d.slices = DOMAIN c.slices \cup {slot} /\ d.slices[slot] = Append(S, o)
      /\ \A l \in DOMAIN c.slices : l # slot => d.slices[l] = c.slices[l]
  BY DEF Appended, With
<1>4. /\ slot \in DOMAIN c.slices => S = c.slices[slot]
      /\ slot \notin DOMAIN c.slices => DOMAIN S = {}
  BY DEF Slice
<1> HIDE DEF S
<1>5. \A l : \A i \in DOMAIN Slice(c, l) : i \in DOMAIN Slice(d, l) /\ Slice(d, l)[i] = Slice(c, l)[i]
  BY <1>1, <1>2, <1>3, <1>4 DEF Slice
<1>6. Kept(c, d)
  BY <1>5 DEF Kept
<1> HIDE DEF last
<1>7. Grows(c, d, slot, o)
  <2>1. \A l \in DOMAIN c.slices : \A i \in DOMAIN c.slices[l] :
          i \in DOMAIN d.slices[l] /\ d.slices[l][i] = c.slices[l][i]
    BY <1>1, <1>2, <1>3, <1>4
  <2>2. /\ last \in DOMAIN d.slices[slot] /\ d.slices[slot][last] = o
        /\ slot \in DOMAIN c.slices => last \notin DOMAIN c.slices[slot]
        /\ last \in Nat \ {0} /\ \A i \in DOMAIN d.slices[slot] : i <= last
    BY <1>1, <1>2, <1>3, <1>4
  <2>3. \A l \in DOMAIN d.slices : \A i \in DOMAIN d.slices[l] :
          \/ l = slot /\ i = last
          \/ l \in DOMAIN c.slices /\ i \in DOMAIN c.slices[l]
    BY <1>1, <1>2, <1>3, <1>4
  <2>4. QED
    BY <1>3, <2>1, <2>2, <2>3 DEF Grows, last, S
<1>8. Shaped(d)
  <2>1. ASSUME NEW l \in DOMAIN d.slices
        PROVE  /\ d.slices[l] \in Seq(Objects) /\ Held(d, l)
               /\ \A i \in DOMAIN d.slices[l] : Plain(l, d.slices[l][i])
    <3>1. Held(c, l)
      BY <1>3, <2>1 DEF Shaped
    <3>2. d.slices[l] \in Seq(Objects)
      BY <1>2, <1>3, <2>1 DEF Shaped
    <3>3. ASSUME NEW i \in DOMAIN d.slices[l] PROVE Plain(l, d.slices[l][i])
      BY <1>7, <2>1, <3>3 DEF Grows, Shaped
    <3>4. QED
      BY <1>6, <3>1, <3>2, <3>3, HeldKept
  <2>2. QED
    BY <2>1 DEF Shaped
<1>9. ASSUME \A l \in DOMAIN c.slices \cup {slot} : ApartFrom(c, l), NEW l \in DOMAIN d.slices
      PROVE  ApartFrom(d, l)
  <2>1. \A m \in DOMAIN d.slices : Held(c, m)
    BY <1>3 DEF Shaped
  <2>2. \A m \in DOMAIN d.slices : Path(d, m) = Path(c, m)
    BY <1>6, <2>1, HeldKept
  <2>3. Path(d, l) = Path(c, l)
    BY <1>9, <2>2
  <2>4. ASSUME NEW m \in DOMAIN d.slices, MapOf(m.kind) = MapOf(l.kind), Path(d, m) = Path(d, l)
        PROVE  m.kind = l.kind
    <3>1. MapOf(m.kind) = MapOf(l.kind) /\ Path(c, m) = Path(c, l)
      BY <2>2, <2>3, <2>4
    <3>2. CASE m \in DOMAIN c.slices
      BY <1>3, <1>9, <3>1, <3>2 DEF ApartFrom
    <3>3. CASE m = slot /\ l \in DOMAIN c.slices
      BY <1>9, <3>1, <3>3 DEF ApartFrom
    <3>4. QED
      BY <1>3, <1>9, <3>2, <3>3
  <2>5. QED
    BY <2>4 DEF ApartFrom
<1>10. QED
  BY <1>6, <1>7, <1>8, <1>9

LEMMA WithIs ==
  ASSUME NEW f, NEW x, NEW y
  PROVE  /\ DOMAIN With(f, x, y) = DOMAIN f \cup {x} /\ With(f, x, y)[x] = y
         /\ \A z \in DOMAIN f : z # x => With(f, x, y)[z] = f[z]
  BY DEF With

\* The index of a catalog with one more object.
LEMMA GrownIndex ==
  ASSUME NEW c, Good(c), NEW slot, Held(c, slot), NEW o,
         NEW d, Grows(c, d, slot, o), Kept(c, d), Shaped(d), NEW named \in BOOLEAN,
         named <=> HasName(slot, o), named => IdOf(c, slot, o) \notin DOMAIN c.index,
         d.index = IF named THEN Indexed(c, slot, o) ELSE c.index
  PROVE  Found(d) /\ Backed(d)
<1> DEFINE last == Len(Slice(c, slot)) + 1
           new == IdOf(c, slot, o)
<1>1. \A l \in DOMAIN d.slices : Held(c, l)
  BY DEF Grows, Good, Shaped
<1>2. \A l \in DOMAIN d.slices : \A q : IdOf(d, l, q) = IdOf(c, l, q)
  BY <1>1, HeldKept DEF IdOf
<1>3. /\ named => DOMAIN d.index = DOMAIN c.index \cup {new} /\ d.index[new] = last
      /\ ~named => DOMAIN d.index = DOMAIN c.index
      /\ \A id \in DOMAIN c.index : d.index[id] = c.index[id]
  <2>1. Indexed(c, slot, o) = With(c.index, new, last)
    BY DEF Indexed, IdOf
  <2>2. /\ DOMAIN With(c.index, new, last) = DOMAIN c.index \cup {new}
        /\ With(c.index, new, last)[new] = last
        /\ \A id \in DOMAIN c.index : id # new => With(c.index, new, last)[id] = c.index[id]
    BY DEF With
  <2> HIDE DEF new, last
  <2>3. CASE named
    <3>1. d.index = With(c.index, new, last) /\ new \notin DOMAIN c.index
      BY <2>1, <2>3 DEF new
    <3>2. QED
      BY <2>2, <2>3, <3>1
  <2>4. CASE ~named
    BY <2>4
  <2>5. QED
    BY <2>3, <2>4
<1>4. /\ slot \in DOMAIN d.slices /\ last \in DOMAIN d.slices[slot] /\ d.slices[slot][last] = o
      /\ \A l \in DOMAIN c.slices : \A i \in DOMAIN c.slices[l] :
           l \in DOMAIN d.slices /\ i \in DOMAIN d.slices[l] /\ d.slices[l][i] = c.slices[l][i]
      /\ \A l \in DOMAIN d.slices : \A i \in DOMAIN d.slices[l] :
           \/ l = slot /\ i = last
           \/ l \in DOMAIN c.slices /\ i \in DOMAIN c.slices[l] /\ d.slices[l][i] = c.slices[l][i]
  BY DEF Grows
<1> HIDE DEF last, new
<1>5. Found(d)
  <2>1. ASSUME NEW l \in DOMAIN d.slices, NEW i \in DOMAIN d.slices[l], HasName(l, d.slices[l][i])
        PROVE  /\ IdOf(d, l, d.slices[l][i]) \in DOMAIN d.index
               /\ d.index[IdOf(d, l, d.slices[l][i])] = i
    <3>1. CASE l = slot /\ i = last
      BY <1>2, <1>3, <1>4, <2>1, <3>1 DEF new
    <3>2. CASE l \in DOMAIN c.slices /\ i \in DOMAIN c.slices[l] /\ d.slices[l][i] = c.slices[l][i]
      <4>1. /\ IdOf(c, l, c.slices[l][i]) \in DOMAIN c.index
            /\ c.index[IdOf(c, l, c.slices[l][i])] = i
        BY <2>1, <3>2 DEF Good, Found
      <4>2. QED
        BY <1>2, <1>3, <2>1, <3>2, <4>1
    <3>3. QED
      BY <1>4, <2>1, <3>1, <3>2
  <2>2. QED
    BY <2>1 DEF Found
<1>6. Backed(d)
  <2>1. ASSUME NEW id \in DOMAIN d.index
        PROVE  \E l \in DOMAIN d.slices : \E i \in DOMAIN d.slices[l] :
                 /\ HasName(l, d.slices[l][i])
                 /\ IdOf(d, l, d.slices[l][i]) = id /\ d.index[id] = i
    <3>1. CASE named /\ id = new
      BY <1>2, <1>3, <1>4, <3>1 DEF new
    <3>2. CASE id \in DOMAIN c.index
      <4>1. PICK l \in DOMAIN c.slices : \E i \in DOMAIN c.slices[l] :
                   /\ HasName(l, c.slices[l][i])
                   /\ IdOf(c, l, c.slices[l][i]) = id /\ c.index[id] = i
        BY <3>2 DEF Good, Backed
      <4>2. PICK i \in DOMAIN c.slices[l] :
                   /\ HasName(l, c.slices[l][i])
                   /\ IdOf(c, l, c.slices[l][i]) = id /\ c.index[id] = i
        BY <4>1
      <4>3. l \in DOMAIN d.slices /\ i \in DOMAIN d.slices[l] /\ d.slices[l][i] = c.slices[l][i]
        BY <1>4
      <4>4. QED
        BY <1>2, <1>3, <3>2, <4>2, <4>3
    <3>3. QED
      BY <1>3, <2>1, <3>1, <3>2
  <2>2. QED
    BY <2>1 DEF Backed
<1>7. QED
  BY <1>5, <1>6

\* Its keys.
LEMMA GrownKeys ==
  ASSUME NEW c, Good(c), NEW slot, Held(c, slot), NEW o,
         NEW d, Grows(c, d, slot, o), Kept(c, d), Shaped(d),
         d.pkeys = IF slot.kind = "constraints" /\ o.type = PRIMARY_KEY
                   THEN With(c.pkeys, Path(c, slot), Len(Slice(c, slot)) + 1) ELSE c.pkeys,
         d.fkeys = IF slot.kind = "constraints" /\ o.type = FOREIGN_KEY
                   THEN With(c.fkeys, Path(c, slot),
                             GetOrNone(c.fkeys, Path(c, slot), {}) \cup {Len(Slice(c, slot)) + 1})
                   ELSE c.fkeys
  PROVE  Keyed(d)
<1> DEFINE last == Len(Slice(c, slot)) + 1
           path == Path(c, slot)
           Old(type) == IF slot \in DOMAIN c.slices THEN OfType(c, slot, type) ELSE {}
<1>1. \A l \in DOMAIN d.slices : Held(c, l) /\ Path(d, l) = Path(c, l)
  <2>1. \A l \in DOMAIN d.slices : Held(c, l)
    BY DEF Grows, Good, Shaped
  <2>2. QED
    BY <2>1, HeldKept
<1>2. Shaped(c) /\ Found(c) /\ Keyed(c)
  BY DEF Good
<1>3. \A l \in DOMAIN d.slices : l.kind = slot.kind /\ Path(c, l) = path => l = slot
  BY <1>1, <1>2, PathsDiffer
<1>4. \A l \in DOMAIN d.slices \ {slot} : \A type :
        l \in DOMAIN c.slices /\ OfType(d, l, type) = OfType(c, l, type)
  BY DEF Grows, OfType
<1>5. \A type : OfType(d, slot, type) = Old(type) \cup IF o.type = type THEN {last} ELSE {}
  BY DEF Grows, OfType
<1>6. ASSUME slot.kind = "constraints", slot \notin DOMAIN c.slices
      PROVE  path \notin DOMAIN c.fkeys /\ path \notin DOMAIN c.pkeys
  <2>1. \A l \in DOMAIN c.slices : l.kind = "constraints" => Path(c, l) # path
    BY <1>3, <1>6 DEF Grows
  <2>2. QED
    BY <1>2, <2>1 DEF Keyed
<1>7. ASSUME slot.kind = "constraints"
      PROVE  /\ path \in DOMAIN c.fkeys <=> Old(FOREIGN_KEY) # {}
             /\ path \in DOMAIN c.fkeys => c.fkeys[path] = Old(FOREIGN_KEY)
             /\ path \in DOMAIN c.pkeys <=> Old(PRIMARY_KEY) # {}
             /\ path \in DOMAIN c.pkeys =>
                  /\ c.pkeys[path] \in Old(PRIMARY_KEY)
                  /\ \A i \in Old(PRIMARY_KEY) : i <= c.pkeys[path]
  BY <1>2, <1>6, <1>7 DEF Keyed
<1>8. \A i \in DOMAIN d.slices[slot] : i <= last
  BY DEF Grows
<1>9. \A type : OfType(d, slot, type) \subseteq DOMAIN d.slices[slot]
  BY DEF OfType
<1>10. slot \in DOMAIN d.slices /\ DOMAIN c.slices \subseteq DOMAIN d.slices
  BY DEF Grows
<1>11. IF slot.kind = "constraints" /\ o.type = FOREIGN_KEY
      THEN /\ DOMAIN d.fkeys = DOMAIN c.fkeys \cup {path}
           /\ d.fkeys[path] = GetOrNone(c.fkeys, path, {}) \cup {last}
           /\ \A z \in DOMAIN c.fkeys : z # path => d.fkeys[z] = c.fkeys[z]
      ELSE d.fkeys = c.fkeys
  <2> DEFINE keys == GetOrNone(c.fkeys, path, {}) \cup {last}
  <2>1. /\ DOMAIN With(c.fkeys, path, keys) = DOMAIN c.fkeys \cup {path}
        /\ With(c.fkeys, path, keys)[path] = keys
        /\ \A z \in DOMAIN c.fkeys : z # path => With(c.fkeys, path, keys)[z] = c.fkeys[z]
    BY DEF With
  <2>2. slot.kind = "constraints" /\ o.type = FOREIGN_KEY => d.fkeys = With(c.fkeys, path, keys)
    OBVIOUS
  <2>3. ~(slot.kind = "constraints" /\ o.type = FOREIGN_KEY) => d.fkeys = c.fkeys
    OBVIOUS
  <2> HIDE DEF keys
  <2>4. QED
    BY <2>1, <2>2, <2>3 DEF keys
<1>12. IF slot.kind = "constraints" /\ o.type = PRIMARY_KEY
      THEN /\ DOMAIN d.pkeys = DOMAIN c.pkeys \cup {path} /\ d.pkeys[path] = last
           /\ \A z \in DOMAIN c.pkeys : z # path => d.pkeys[z] = c.pkeys[z]
      ELSE d.pkeys = c.pkeys
  <2>1. /\ DOMAIN With(c.pkeys, path, last) = DOMAIN c.pkeys \cup {path}
        /\ With(c.pkeys, path, last)[path] = last
        /\ \A z \in DOMAIN c.pkeys : z # path => With(c.pkeys, path, last)[z] = c.pkeys[z]
    BY DEF With
  <2>2. slot.kind = "constraints" /\ o.type = PRIMARY_KEY => d.pkeys = With(c.pkeys, path, last)
    OBVIOUS
  <2>3. ~(slot.kind = "constraints" /\ o.type = PRIMARY_KEY) => d.pkeys = c.pkeys
    OBVIOUS
  <2> HIDE DEF last
  <2>4. QED
    BY <2>1, <2>2, <2>3
<1> HIDE DEF last, path, Old
<1>13. ASSUME NEW l \in DOMAIN d.slices, l.kind = "constraints"
       PROVE  /\ Path(c, l) \in DOMAIN d.fkeys <=> OfType(d, l, FOREIGN_KEY) # {}
              /\ Path(c, l) \in DOMAIN d.fkeys => d.fkeys[Path(c, l)] = OfType(d, l, FOREIGN_KEY)
  <2>1. CASE l # slot
    <3>1. Path(c, l) = path => slot.kind # "constraints"
      BY <1>3, <1>13, <2>1
    <3>2. \/ d.fkeys = c.fkeys
          \/ DOMAIN d.fkeys = DOMAIN c.fkeys \cup {path} /\ Path(c, l) # path
             /\ \A z \in DOMAIN c.fkeys : z # path => d.fkeys[z] = c.fkeys[z]
      BY <1>11, <3>1
    <3>3. /\ Path(c, l) \in DOMAIN c.fkeys <=> OfType(c, l, FOREIGN_KEY) # {}
          /\ Path(c, l) \in DOMAIN c.fkeys => c.fkeys[Path(c, l)] = OfType(c, l, FOREIGN_KEY)
      BY <1>2, <1>4, <1>13, <2>1 DEF Keyed
    <3>4. QED
      BY <1>4, <1>13, <2>1, <3>2, <3>3
  <2>2. CASE l = slot /\ o.type # FOREIGN_KEY
    <3>1. d.fkeys = c.fkeys /\ OfType(d, l, FOREIGN_KEY) = Old(FOREIGN_KEY)
      BY <1>5, <1>11, <2>2
    <3>2. QED
      BY <1>7, <1>13, <2>2, <3>1 DEF path
  <2>3. CASE l = slot /\ o.type = FOREIGN_KEY
    <3>1. /\ DOMAIN d.fkeys = DOMAIN c.fkeys \cup {path}
          /\ d.fkeys[path] = GetOrNone(c.fkeys, path, {}) \cup {last}
      BY <1>11, <1>13, <2>3
    <3>2. GetOrNone(c.fkeys, path, {}) = Old(FOREIGN_KEY)
      BY <1>7, <1>13, <2>3 DEF GetOrNone
    <3>3. QED
      BY <1>5, <2>3, <3>1, <3>2 DEF path
  <2>4. QED
    BY <2>1, <2>2, <2>3
<1>14. ASSUME NEW l \in DOMAIN d.slices, l.kind = "constraints"
       PROVE  /\ Path(c, l) \in DOMAIN d.pkeys <=> OfType(d, l, PRIMARY_KEY) # {}
              /\ Path(c, l) \in DOMAIN d.pkeys =>
                   /\ d.pkeys[Path(c, l)] \in OfType(d, l, PRIMARY_KEY)
                   /\ \A i \in OfType(d, l, PRIMARY_KEY) : i <= d.pkeys[Path(c, l)]
  <2>1. CASE l # slot
    <3>1. Path(c, l) = path => slot.kind # "constraints"
      BY <1>3, <1>14, <2>1
    <3>2. \/ d.pkeys = c.pkeys
          \/ DOMAIN d.pkeys = DOMAIN c.pkeys \cup {path} /\ Path(c, l) # path
             /\ \A z \in DOMAIN c.pkeys : z # path => d.pkeys[z] = c.pkeys[z]
      BY <1>12, <3>1
    <3>3. /\ Path(c, l) \in DOMAIN c.pkeys <=> OfType(c, l, PRIMARY_KEY) # {}
          /\ Path(c, l) \in DOMAIN c.pkeys =>
               /\ c.pkeys[Path(c, l)] \in OfType(c, l, PRIMARY_KEY)
               /\ \A i \in OfType(c, l, PRIMARY_KEY) : i <= c.pkeys[Path(c, l)]
      BY <1>2, <1>4, <1>14, <2>1 DEF Keyed
    <3>4. QED
      BY <1>4, <1>14, <2>1, <3>2, <3>3
  <2>2. CASE l = slot /\ o.type # PRIMARY_KEY
    <3>1. d.pkeys = c.pkeys /\ OfType(d, l, PRIMARY_KEY) = Old(PRIMARY_KEY)
      BY <1>5, <1>12, <2>2
    <3>2. QED
      BY <1>7, <1>14, <2>2, <3>1 DEF path
  <2>3. CASE l = slot /\ o.type = PRIMARY_KEY
    <3>1. DOMAIN d.pkeys = DOMAIN c.pkeys \cup {path} /\ d.pkeys[path] = last
      BY <1>12, <1>14, <2>3
    <3>2. QED
      BY <1>5, <1>8, <1>9, <2>3, <3>1 DEF path
  <2>4. QED
    BY <2>1, <2>2, <2>3
<1>15. \A p \in DOMAIN d.fkeys \cup DOMAIN d.pkeys :
         \E l \in DOMAIN d.slices : l.kind = "constraints" /\ Path(c, l) = p
  <2>1. \A p \in DOMAIN d.fkeys \cup DOMAIN d.pkeys :
          p \in DOMAIN c.fkeys \cup DOMAIN c.pkeys \/ (slot.kind = "constraints" /\ p = path)
    <3>1. slot.kind = "constraints" \/ (d.fkeys = c.fkeys /\ d.pkeys = c.pkeys)
      BY <1>11, <1>12
    <3>2. /\ DOMAIN d.fkeys = DOMAIN c.fkeys \/ DOMAIN d.fkeys = DOMAIN c.fkeys \cup {path}
          /\ DOMAIN d.pkeys = DOMAIN c.pkeys \/ DOMAIN d.pkeys = DOMAIN c.pkeys \cup {path}
      BY <1>11, <1>12
    <3>3. QED
      BY <3>1, <3>2
  <2>2. QED
    BY <1>2, <1>10, <2>1 DEF Keyed, path
<1>16. QED
  BY <1>1, <1>13, <1>14, <1>15 DEF Keyed

LEMMA AddGood ==
  ASSUME NEW c, Good(c), NEW slot, Held(c, slot), ApartFrom(c, slot),
         NEW o \in Objects, Plain(slot, o), NEW named \in BOOLEAN,
         named <=> HasName(slot, o), named => Get(c, slot, o.name, o.args) = 0
  PROVE  /\ Good(Add(c, slot, o, named)) /\ Kept(c, Add(c, slot, o, named))
         /\ Grows(c, Add(c, slot, o, named), slot, o)
         /\ named => LET d == Add(c, slot, o, named)
                     IN /\ IdOf(c, slot, o) \in DOMAIN d.index
                        /\ d.index[IdOf(c, slot, o)] = Len(Slice(c, slot)) + 1
<1> DEFINE d == Add(c, slot, o, named)
<1>1. /\ d.slices = Appended(c, slot, o)
      /\ d.index = IF named THEN Indexed(c, slot, o) ELSE c.index
      /\ d.pkeys = IF slot.kind = "constraints" /\ o.type = PRIMARY_KEY
                   THEN With(c.pkeys, Path(c, slot), Len(Slice(c, slot)) + 1) ELSE c.pkeys
      /\ d.fkeys = IF slot.kind = "constraints" /\ o.type = FOREIGN_KEY
                   THEN With(c.fkeys, Path(c, slot),
                             GetOrNone(c.fkeys, Path(c, slot), {}) \cup {Len(Slice(c, slot)) + 1})
                   ELSE c.fkeys
      /\ IsCache(d)
  BY DEF Add, IsCache
<1> HIDE DEF d
<1>2. /\ Grows(c, d, slot, o) /\ Kept(c, d) /\ Shaped(d)
      /\ \A l \in DOMAIN d.slices : ApartFrom(d, l)
  BY <1>1, AppendedGrows DEF Good
<1>3. named => IdOf(c, slot, o) \notin DOMAIN c.index
  BY GetFinds DEF IdOf
<1>4. Found(d) /\ Backed(d)
  BY <1>1, <1>2, <1>3, GrownIndex
<1>5. Keyed(d)
  BY <1>1, <1>2, GrownKeys
<1>6. named => /\ IdOf(c, slot, o) \in DOMAIN d.index
               /\ d.index[IdOf(c, slot, o)] = Len(Slice(c, slot)) + 1
  <2>1. Indexed(c, slot, o) = With(c.index, IdOf(c, slot, o), Len(Slice(c, slot)) + 1)
    BY DEF Indexed, IdOf
  <2>2. named => d.index = Indexed(c, slot, o)
    BY <1>1
  <2>3. QED
    BY <2>1, <2>2 DEF With
<1>7. IsMap(d.pkeys) /\ IsMap(d.fkeys)
  <2>1. IsMap(c.pkeys) /\ IsMap(c.fkeys)
    BY DEF Good
  <2>2. \A f, x, y : IsMap(With(f, x, y))
    BY DEF IsMap, With
  <2>3. QED
    BY <1>1, <2>1, <2>2
<1>8. QED
  BY <1>1, <1>2, <1>4, <1>5, <1>6, <1>7 DEF Good, d

\* The same catalog, but for what is in its objects.
Redone(c, d) ==
  /\ DOMAIN d.slices = DOMAIN c.slices
  /\ \A l \in DOMAIN c.slices :
       /\ d.slices[l] \in Seq(Objects) /\ DOMAIN d.slices[l] = DOMAIN c.slices[l]
       /\ \A i \in DOMAIN c.slices[l] :
            /\ d.slices[l][i].name = c.slices[l][i].name /\ d.slices[l][i].args = c.slices[l][i].args
            /\ l.kind = "constraints" => d.slices[l][i].type = c.slices[l][i].type

LEMMA RedoneGood ==
  ASSUME NEW c, Good(c), NEW d, Redone(c, d), IsCache(d),
         d.index = c.index, d.pkeys = c.pkeys, d.fkeys = c.fkeys
  PROVE  Good(d) /\ Kept(c, d)
<1>1. Kept(c, d)
  <2>1. ASSUME NEW l, NEW i \in DOMAIN Slice(c, l)
        PROVE  /\ i \in DOMAIN Slice(d, l)
               /\ Slice(d, l)[i].name = Slice(c, l)[i].name /\ Slice(d, l)[i].args = Slice(c, l)[i].args
    <3>1. l \in DOMAIN c.slices /\ i \in DOMAIN c.slices[l]
      BY <2>1, SliceShaped DEF Good
    <3>2. Slice(c, l) = c.slices[l] /\ Slice(d, l) = d.slices[l]
      BY <3>1 DEF Redone, Slice
    <3>3. QED
      BY <3>1, <3>2 DEF Redone
  <2>2. QED
    BY <2>1 DEF Kept
<1>2. \A l \in DOMAIN c.slices : /\ Held(c, l) /\ Held(d, l) /\ Path(d, l) = Path(c, l)
                                 /\ \A name, args : Id(d, l, name, args) = Id(c, l, name, args)
  <2>1. \A l \in DOMAIN c.slices : Held(c, l)
    BY DEF Good, Shaped
  <2>2. QED
    BY <1>1, <2>1, HeldKept
<1>3. Shaped(d)
  <2>1. ASSUME NEW l \in DOMAIN c.slices, NEW i \in DOMAIN c.slices[l] PROVE Plain(l, d.slices[l][i])
    <3>1. Plain(l, c.slices[l][i]) /\ d.slices[l][i].args = c.slices[l][i].args
      BY DEF Good, Shaped, Redone
    <3>2. QED
      BY <3>1 DEF Plain
  <2>2. QED
    BY <1>2, <2>1 DEF Redone, Shaped
<1>4. \A l \in DOMAIN c.slices : \A i \in DOMAIN c.slices[l] :
        /\ IdOf(d, l, d.slices[l][i]) = IdOf(c, l, c.slices[l][i])
        /\ HasName(l, d.slices[l][i]) <=> HasName(l, c.slices[l][i])
  BY <1>2 DEF Redone, IdOf, HasName
<1>5. Found(d)
  BY <1>4 DEF Good, Found, Redone
<1>6. Backed(d)
  BY <1>4 DEF Good, Backed, Redone
<1>7. \A l \in DOMAIN c.slices : l.kind = "constraints" =>
        \A type : OfType(d, l, type) = OfType(c, l, type)
  BY DEF Redone, OfType
<1>8. Keyed(d)
  BY <1>2, <1>7 DEF Good, Keyed, Redone
<1>9. \A l \in DOMAIN d.slices : ApartFrom(d, l)
  BY <1>2 DEF Good, ApartFrom, Redone
<1>10. QED
  BY <1>1, <1>3, <1>5, <1>6, <1>8, <1>9 DEF Good

\* The catalog d is c with an object in a slot, be it new or not.
Enters(c, d, slot, o) ==
  /\ Good(d) /\ Kept(c, d)
  /\ DOMAIN d.slices = DOMAIN c.slices \cup {slot}
  /\ \A l \in DOMAIN d.slices : \A i \in DOMAIN d.slices[l] :
       \/ l = slot /\ d.slices[l][i] = o
       \/ l \in DOMAIN c.slices /\ i \in DOMAIN c.slices[l] /\ d.slices[l][i] = c.slices[l][i]
  /\ \A l \in DOMAIN c.slices : l # slot => d.slices[l] = c.slices[l]
  /\ \E i \in DOMAIN d.slices[slot] : d.slices[slot][i] = o

\* Nothing is in the objects of a slot.
NoneWithin(c, slot) == \A l \in DOMAIN c.slices : Len(l.at) <= Len(slot.at)

LEMMA AddEnters ==
  ASSUME NEW c, Good(c), NEW slot, Held(c, slot), ApartFrom(c, slot),
         NEW o \in Objects, Plain(slot, o), NEW named \in BOOLEAN,
         named <=> HasName(slot, o), named => Get(c, slot, o.name, o.args) = 0
  PROVE  Enters(c, Add(c, slot, o, named), slot, o)
<1> DEFINE d == Add(c, slot, o, named)
<1>1. Good(d) /\ Kept(c, d) /\ Grows(c, d, slot, o)
  BY AddGood
<1>2. \A l \in DOMAIN c.slices : l # slot => d.slices[l] = c.slices[l]
  BY DEF Add, Appended, With
<1> HIDE DEF d
<1>3. Enters(c, d, slot, o)
  BY <1>1, <1>2 DEF Enters, Grows
<1>4. QED
  BY <1>3 DEF d

LEMMA ReplaceEnters ==
  ASSUME NEW c, Good(c), NEW slot \in DOMAIN c.slices, NEW i \in DOMAIN c.slices[slot],
         NEW o \in Objects, c.slices[slot][i].name = o.name, c.slices[slot][i].args = o.args,
         slot.kind = "constraints" => c.slices[slot][i].type = o.type,
         NoneWithin(c, slot)
  PROVE  Enters(c, Replace(c, slot, i, o), slot, o)
<1> DEFINE d == Replace(c, slot, i, o)
<1>1. \A s \in DOMAIN c.slices : ~(Len(s.at) > Len(slot.at))
  <2>1. \A s \in Slots : Len(s.at) \in Nat
    BY PathOf, SlotShapes
  <2>2. \A s \in DOMAIN c.slices : s \in Slots
    BY DEF Good, Shaped, Held
  <2>3. QED
    BY <2>1, <2>2 DEF NoneWithin
<1>2. d = [c EXCEPT !.slices = [s \in DOMAIN c.slices |->
                                  IF s = slot THEN [c.slices[s] EXCEPT ![i] = o] ELSE c.slices[s]]]
  BY <1>1 DEF Replace
<1>3. /\ d.slices = [s \in DOMAIN c.slices |->
                       IF s = slot THEN [c.slices[s] EXCEPT ![i] = o] ELSE c.slices[s]]
      /\ d.index = c.index /\ d.pkeys = c.pkeys /\ d.fkeys = c.fkeys /\ IsCache(d)
  BY <1>2 DEF Good, IsCache
<1> HIDE DEF d
<1>4. /\ DOMAIN d.slices = DOMAIN c.slices
      /\ \A l \in DOMAIN c.slices : l # slot => d.slices[l] = c.slices[l]
      /\ d.slices[slot] = [c.slices[slot] EXCEPT ![i] = o]
  BY <1>3
<1>5. /\ DOMAIN d.slices[slot] = DOMAIN c.slices[slot] /\ d.slices[slot][i] = o
      /\ \A j \in DOMAIN c.slices[slot] : j # i => d.slices[slot][j] = c.slices[slot][j]
      /\ d.slices[slot] \in Seq(Objects)
  <2>1. c.slices[slot] \in Seq(Objects)
    BY DEF Good, Shaped
  <2>2. QED
    BY <1>4, <2>1
<1>6. \A l \in DOMAIN c.slices : c.slices[l] \in Seq(Objects)
  BY DEF Good, Shaped
<1>7. Redone(c, d)
  BY <1>4, <1>5, <1>6 DEF Redone
<1>8. Good(d) /\ Kept(c, d)
  BY <1>3, <1>7, RedoneGood
<1>9. Enters(c, d, slot, o)
  BY <1>4, <1>5, <1>8 DEF Enters
<1>10. QED
  BY <1>9 DEF d

LEMMA AddOrUpdateEnters ==
  ASSUME NEW c, Good(c), NEW slot, Held(c, slot), ApartFrom(c, slot), slot.kind # "extensions",
         NEW o \in Objects, Plain(slot, o), NoneWithin(c, slot),
         \A i \in DOMAIN Slice(c, slot) :
           slot.kind = "constraints" /\ o.name # NoName /\ Slice(c, slot)[i].name = o.name =>
             Slice(c, slot)[i].type = o.type
  PROVE  Enters(c, AddOrUpdate(c, slot, o), slot, o)
<1> DEFINE i == Get(c, slot, o.name, o.args)
           named == slot.kind # "constraints" \/ o.name # NoName
<1>1. CASE i # 0
  <2>1. /\ slot \in DOMAIN c.slices /\ i \in DOMAIN c.slices[slot]
        /\ c.slices[slot][i].name = o.name /\ c.slices[slot][i].args = o.args
        /\ HasName(slot, c.slices[slot][i])
    BY <1>1, GetFinds
  <2>2. slot.kind = "constraints" => c.slices[slot][i].type = o.type
    BY <2>1 DEF Slice, HasName
  <2>3. AddOrUpdate(c, slot, o) = Replace(c, slot, i, o)
    BY <1>1 DEF AddOrUpdate
  <2>4. QED
    BY <2>1, <2>2, <2>3, ReplaceEnters
<1>2. CASE i = 0
  <2>1. named \in BOOLEAN /\ (named <=> HasName(slot, o))
    BY DEF HasName
  <2>2. AddOrUpdate(c, slot, o) = Add(c, slot, o, named)
    BY <1>2 DEF AddOrUpdate
  <2>3. Enters(c, Add(c, slot, o, named), slot, o)
    BY <1>2, <2>1, AddEnters
  <2>4. QED
    BY <2>2, <2>3
<1>3. QED
  BY <1>1, <1>2

LEMMA GetOrCreateEnters ==
  ASSUME NEW c, Good(c), NEW slot, Held(c, slot), slot.kind \in {"schemas", "tables"},
         ApartFrom(c, slot), NEW o \in Objects, Plain(slot, o)
  PROVE  LET d == GetOrCreate(c, slot, o)
         IN /\ d = c \/ Enters(c, d, slot, o)
            /\ Get(d, slot, o.name, o.args) # 0
            /\ Good(d) /\ Kept(c, d) /\ Held(d, slot) /\ ApartFrom(d, slot)
<1>1. HasName(slot, o)
  BY DEF HasName
<1>2. CASE Get(c, slot, o.name, o.args) # 0
  BY <1>2 DEF GetOrCreate, Kept
<1>3. CASE Get(c, slot, o.name, o.args) = 0
  <2> DEFINE d == Add(c, slot, o, TRUE)
  <2>1. GetOrCreate(c, slot, o) = d
    BY <1>3 DEF GetOrCreate
  <2>2. Enters(c, d, slot, o) /\ IdOf(c, slot, o) \in DOMAIN d.index
    BY <1>1, <1>3, AddEnters, AddGood
  <2> HIDE DEF d
  <2>3. Good(d) /\ Kept(c, d) /\ Held(d, slot) /\ IdOf(d, slot, o) \in DOMAIN d.index /\ ApartFrom(d, slot)
    BY <2>2, HeldKept DEF Enters, Good, IdOf
  <2>4. Get(d, slot, o.name, o.args) # 0
    BY <2>3, GetFinds DEF IdOf
  <2>5. QED
    BY <2>1, <2>2, <2>3, <2>4
<1>4. QED
  BY <1>2, <1>3

\* The new object of a slice that is never looked up.
LEMMA ExtensionEnters ==
  ASSUME NEW c, Good(c), NEW o \in Objects
  PROVE  Enters(c, [c EXCEPT !.slices = Appended(c, Extensions, o)], Extensions, o)
<1> DEFINE d == [c EXCEPT !.slices = Appended(c, Extensions, o)]
<1>1. /\ d.slices = Appended(c, Extensions, o) /\ d.index = c.index
      /\ d.pkeys = c.pkeys /\ d.fkeys = c.fkeys /\ IsCache(d)
  BY DEF Good, IsCache
<1> HIDE DEF d
<1>2. Extensions \in Slots /\ Extensions.kind = "extensions" /\ Extensions.at = <<>>
  BY DEF Extensions, Slots, Slot
<1>3. Held(c, Extensions) /\ Plain(Extensions, o) /\ ~HasName(Extensions, o)
  BY <1>2 DEF Held, Plain, HasName, InSchema, InOwner
<1>4. ApartFrom(c, Extensions)
  BY <1>2 DEF ApartFrom, MapOf
<1>5. /\ Grows(c, d, Extensions, o) /\ Kept(c, d) /\ Shaped(d)
      /\ \A l \in DOMAIN d.slices : ApartFrom(d, l)
  BY <1>1, <1>3, <1>4, AppendedGrows DEF Good
<1>6. Found(d) /\ Backed(d)
  <2>1. d.index = IF FALSE THEN Indexed(c, Extensions, o) ELSE c.index
    BY <1>1
  <2>2. QED
    BY <1>3, <1>5, <2>1, GrownIndex
<1>7. Keyed(d)
  BY <1>1, <1>2, <1>3, <1>5, GrownKeys
<1>8. \A l \in DOMAIN c.slices : l # Extensions => d.slices[l] = c.slices[l]
  BY <1>1 DEF Appended, With
<1>9. Enters(c, d, Extensions, o)
  BY <1>1, <1>5, <1>6, <1>7, <1>8 DEF Enters, Good, Grows
<1>10. QED
  BY <1>9 DEF d

(***************************************************************************)
(* What becomes of a row                                                   *)
(***************************************************************************)

OfViews == {"view_indexes", "view_triggers"}

AnyRow ==
  [kind : RowKinds, schema : Nat, owner : Nat, name : Nat, args : Texts, type : Texts,
   columns : Seq(Nat), refs : BOOLEAN, ofView : BOOLEAN, form : Forms]

RowOK(r) ==
  /\ r \in AnyRow
  /\ r.args = Blank \/ r.kind = "routines"
  /\ r.ofView => r.kind \in {"indexes", "triggers"}

\* The slice for a row.
IsFor(c, l, r) ==
  /\ MapOf(l.kind) = r.kind
  /\ l.kind \in InSchema => Path(c, l) = <<r.schema>>
  /\ l.kind \in InOwner => Path(c, l) = <<r.schema, r.owner>> /\ (r.ofView <=> l.kind \in OfViews)

\* The catalog d is c with the object of a row, and with what that is in, or is c.
Adds(c, d, r) ==
  /\ Good(d) /\ Kept(c, d) /\ DOMAIN c.slices \subseteq DOMAIN d.slices
  /\ \A l \in DOMAIN d.slices :
       l \in DOMAIN c.slices \/ l.kind \in {"schemas", "tables"} \/ IsFor(d, l, r)
  /\ \A l \in DOMAIN d.slices : \A i \in DOMAIN d.slices[l] :
       \/ l \in DOMAIN c.slices /\ i \in DOMAIN c.slices[l] /\ d.slices[l][i] = c.slices[l][i]
       \/ l.kind \in {"schemas", "tables"}
       \/ IsFor(d, l, r) /\ d.slices[l][i] = ObjectOf(r)

\* The object of a row is there.
Holds(d, r) ==
  \E l \in DOMAIN d.slices : IsFor(d, l, r) /\ \E i \in DOMAIN d.slices[l] : d.slices[l][i] = ObjectOf(r)

LEMMA ObjectsOf ==
  /\ \A r \in AnyRow : /\ ObjectOf(r) \in Objects /\ ObjectOf(r).name = r.name
                            /\ ObjectOf(r).args = r.args /\ ObjectOf(r).type = r.type
                            /\ r.schema \in Nat /\ r.owner \in Nat /\ r.kind \in RowKinds
  /\ \A n \in Nat : Named(n) \in Objects /\ Named(n).name = n /\ Named(n).args = Blank
<1>1. <<>> \in Seq(Nat)
  OBVIOUS
<1>2. [columns |-> <<>>, refs |-> FALSE, marks |-> {}] \in Data /\ Blank \in Texts
  BY <1>1 DEF Data, Texts
<1>3. ASSUME NEW r \in AnyRow
      PROVE  /\ [columns |-> r.columns, refs |-> r.refs, marks |-> {}] \in Data
             /\ r.schema \in Nat /\ r.owner \in Nat /\ r.name \in Nat /\ r.kind \in RowKinds
             /\ r.args \in Texts /\ r.type \in Texts
  BY <1>3 DEF Data, AnyRow, Texts
<1>5. ASSUME NEW r \in AnyRow
      PROVE  /\ ObjectOf(r) \in Objects /\ ObjectOf(r).name = r.name
             /\ ObjectOf(r).args = r.args /\ ObjectOf(r).type = r.type
  <2> DEFINE data == [columns |-> r.columns, refs |-> r.refs, marks |-> {}]
  <2>1. data \in Data
    BY <1>3, <1>5
  <2>2. ObjectOf(r) = Object(r.name, r.args, r.type, data)
    BY DEF ObjectOf
  <2>3. r.name \in Nat /\ r.args \in Texts /\ r.type \in Texts
    BY <1>3, <1>5
  <2> HIDE DEF data
  <2>4. QED
    BY <2>1, <2>2, <2>3 DEF Object, Objects
<1>6. ASSUME NEW n \in Nat PROVE Named(n) \in Objects /\ Named(n).name = n /\ Named(n).args = Blank
  <2> DEFINE data == [columns |-> <<>>, refs |-> FALSE, marks |-> {}]
  <2>1. data \in Data /\ Named(n) = Object(n, Blank, Blank, data)
    BY <1>2 DEF Named
  <2> HIDE DEF data
  <2>2. QED
    BY <1>2, <1>6, <2>1 DEF Object, Objects
<1>7. QED
  BY <1>3, <1>5, <1>6

LEMMA KeptOn ==
  /\ \A c : Kept(c, c)
  /\ \A c, d, e : Kept(c, d) /\ Kept(d, e) => Kept(c, e)
  BY DEF Kept

LEMMA ApartKinds ==
  ASSUME NEW c, Good(c), NEW slot, slot.kind \in {"extensions", "schemas", "columns", "constraints"} \cup InSchema
  PROVE  ApartFrom(c, slot)
<1>1. \A l \in DOMAIN c.slices : l.kind \in Kinds
  BY SlotKinds DEF Good, Shaped, Held
<1>2. \A k \in Kinds : MapOf(k) = slot.kind => k = slot.kind
  BY DEF MapOf, InSchema
<1>3. MapOf(slot.kind) = slot.kind
  BY DEF MapOf, InSchema
<1>4. QED
  BY <1>1, <1>2, <1>3 DEF ApartFrom

LEMMA AddsNothing ==
  ASSUME NEW c, Good(c), NEW r PROVE Adds(c, c, r)
  BY KeptOn DEF Adds

LEMMA EntersAdds ==
  ASSUME NEW c, NEW slot, NEW d, NEW r, Enters(c, d, slot, ObjectOf(r)), IsFor(d, slot, r)
  PROVE  Adds(c, d, r)
  BY DEF Enters, Adds

LEMMA EntersTwice ==
  ASSUME NEW b, NEW c, NEW m, m.kind \in {"schemas", "tables"}, NEW q, Enters(b, c, m, q),
         NEW slot, NEW d, NEW r, Enters(c, d, slot, ObjectOf(r)), IsFor(d, slot, r)
  PROVE  Adds(b, d, r)
<1>1. Good(d) /\ Kept(b, d)
  BY KeptOn DEF Enters
<1>2. DOMAIN c.slices = DOMAIN b.slices \cup {m} /\ DOMAIN d.slices = DOMAIN c.slices \cup {slot}
  BY DEF Enters
<1>3. \A l \in DOMAIN d.slices : \A i \in DOMAIN d.slices[l] :
        \/ l = slot /\ d.slices[l][i] = ObjectOf(r)
        \/ l \in DOMAIN c.slices /\ i \in DOMAIN c.slices[l] /\ d.slices[l][i] = c.slices[l][i]
  BY DEF Enters
<1>4. \A l \in DOMAIN c.slices : \A i \in DOMAIN c.slices[l] :
        \/ l = m
        \/ l \in DOMAIN b.slices /\ i \in DOMAIN b.slices[l] /\ c.slices[l][i] = b.slices[l][i]
  BY DEF Enters
<1>5. QED
  BY <1>1, <1>2, <1>3, <1>4 DEF Adds

\* The schema with a name, when Get has found it.
LEMMA SchemaFound ==
  ASSUME NEW c, Good(c), NEW name, Get(c, Schemas, name, Blank) # 0
  PROVE  LET s == Get(c, Schemas, name, Blank)
         IN s \in Nat \ {0} /\ s \in DOMAIN Slice(c, Schemas) /\ Slice(c, Schemas)[s].name = name
<1>1. Held(c, Schemas) /\ ApartFrom(c, Schemas)
  BY SchemasIs, ApartKinds DEF Held, InSchema, InOwner
<1>2. Id(c, Schemas, name, Blank) \in DOMAIN c.index
  BY <1>1, GetFinds
<1>3. /\ Schemas \in DOMAIN c.slices /\ Get(c, Schemas, name, Blank) \in DOMAIN c.slices[Schemas]
      /\ c.slices[Schemas][Get(c, Schemas, name, Blank)].name = name
      /\ Get(c, Schemas, name, Blank) \in Nat \ {0}
  <2>1. ASSUME NEW args, Id(c, Schemas, name, args) \in DOMAIN c.index
        PROVE  /\ Schemas \in DOMAIN c.slices
               /\ c.index[Id(c, Schemas, name, args)] \in DOMAIN c.slices[Schemas]
               /\ c.slices[Schemas][c.index[Id(c, Schemas, name, args)]].name = name
               /\ Get(c, Schemas, name, args) = c.index[Id(c, Schemas, name, args)]
               /\ Get(c, Schemas, name, args) \in Nat \ {0}
    BY <1>1, <2>1, GetFinds
  <2>2. QED
    BY <1>2, <2>1
<1>4. Slice(c, Schemas) = c.slices[Schemas]
  BY <1>3 DEF Slice
<1>5. QED
  BY <1>3, <1>4

\* The slot for objects in it.
LEMMA InSchemaHeld ==
  ASSUME NEW c, NEW s \in Nat, s \in DOMAIN Slice(c, Schemas), NEW k \in InSchema
  PROVE  /\ Held(c, Slot(k, <<s>>)) /\ Slot(k, <<s>>).kind = k
         /\ Path(c, Slot(k, <<s>>)) = <<Slice(c, Schemas)[s].name>> /\ Len(Slot(k, <<s>>).at) = 1
<1>1. Slot(k, <<s>>) \in Slots /\ Slot(k, <<s>>).kind = k /\ Slot(k, <<s>>).at[1] = s
  BY DEF Slots, Slot
<1>2. k \notin InOwner
  BY DEF InSchema, InOwner
<1>3. QED
  BY <1>1, <1>2, PathOf DEF Held

LEMMA SchemaAdds ==
  ASSUME NEW c, Good(c), NEW r, RowOK(r), r.kind \in InSchema,
         \A l \in DOMAIN c.slices : Len(l.at) <= 1
  PROVE  Adds(c, AddToSchema(c, r), r) /\ Holds(AddToSchema(c, r), r)
<1> DEFINE d == GetOrCreate(c, Schemas, Named(r.schema))
           s == Get(d, Schemas, r.schema, Blank)
           slot == Slot(r.kind, <<s>>)
<1>1. r \in AnyRow /\ r.schema \in Nat /\ ObjectOf(r) \in Objects /\ ObjectOf(r).args = r.args
  BY ObjectsOf DEF RowOK
<1>2. /\ Named(r.schema) \in Objects /\ Named(r.schema).name = r.schema /\ Named(r.schema).args = Blank
      /\ Plain(Schemas, Named(r.schema))
  BY <1>1, ObjectsOf DEF Plain
<1>3. Held(c, Schemas) /\ ApartFrom(c, Schemas)
  BY SchemasIs, ApartKinds DEF Held, InSchema, InOwner
<1>4. /\ d = c \/ Enters(c, d, Schemas, Named(r.schema))
      /\ s # 0 /\ Good(d) /\ Kept(c, d)
  BY <1>2, <1>3, SchemasIs, GetOrCreateEnters
<1> HIDE DEF d
<1>5. s \in Nat /\ s \in DOMAIN Slice(d, Schemas) /\ Slice(d, Schemas)[s].name = r.schema
  BY <1>4, SchemaFound
<1> HIDE DEF s
<1>6. Held(d, slot) /\ slot.kind = r.kind /\ Path(d, slot) = <<r.schema>> /\ Len(slot.at) = 1
  BY <1>5, InSchemaHeld
<1>7. ApartFrom(d, slot) /\ slot.kind # "extensions" /\ slot.kind # "constraints"
  BY <1>4, <1>6, ApartKinds DEF InSchema
<1>8. NoneWithin(d, slot)
  <2>1. Len(Schemas.at) = 0
    BY SchemasIs
  <2>2. DOMAIN d.slices \subseteq DOMAIN c.slices \cup {Schemas}
    BY <1>4 DEF Enters
  <2>3. \A l \in DOMAIN d.slices : Len(l.at) <= 1
    BY <2>1, <2>2
  <2>4. QED
    BY <1>6, <2>3 DEF NoneWithin
<1>9. Plain(slot, ObjectOf(r))
  BY <1>1, <1>6 DEF Plain, RowOK
<1> HIDE DEF slot
<1>10. Enters(d, AddOrUpdate(d, slot, ObjectOf(r)), slot, ObjectOf(r))
  BY <1>1, <1>4, <1>6, <1>7, <1>8, <1>9, AddOrUpdateEnters
<1>11. IsFor(AddOrUpdate(d, slot, ObjectOf(r)), slot, r)
  <2>1. Path(AddOrUpdate(d, slot, ObjectOf(r)), slot) = <<r.schema>>
    BY <1>6, <1>10, HeldKept DEF Enters
  <2>2. MapOf(r.kind) = r.kind /\ r.kind \notin InOwner
    BY DEF MapOf, InSchema, InOwner
  <2>3. QED
    BY <1>6, <2>1, <2>2 DEF IsFor
<1>12. Adds(c, AddOrUpdate(d, slot, ObjectOf(r)), r)
  <2>1. Schemas.kind \in {"schemas", "tables"}
    BY SchemasIs
  <2>2. QED
    BY <1>4, <1>10, <1>11, <2>1, EntersAdds, EntersTwice
<1>13. Holds(AddOrUpdate(d, slot, ObjectOf(r)), r)
  BY <1>10, <1>11 DEF Enters, Holds
<1>14. QED
  BY <1>12, <1>13 DEF AddToSchema, slot, s, d

\* The table or the view with a name, when Get has found it.
LEMMA OwnerFound ==
  ASSUME NEW c, Good(c), NEW s \in Nat, s \in DOMAIN Slice(c, Schemas),
         NEW k \in {"tables", "views"}, NEW name, Get(c, Slot(k, <<s>>), name, Blank) # 0
  PROVE  LET t == Get(c, Slot(k, <<s>>), name, Blank)
         IN /\ t \in Nat \ {0} /\ t \in DOMAIN Slice(c, Slot(k, <<s>>))
            /\ Slice(c, Slot(k, <<s>>))[t].name = name
<1> DEFINE slot == Slot(k, <<s>>)
           t == Get(c, slot, name, Blank)
<1>1. k \in InSchema
  BY DEF InSchema
<1>2. Held(c, slot) /\ ApartFrom(c, slot)
  BY <1>1, InSchemaHeld, ApartKinds
<1> HIDE DEF slot
<1>3. Id(c, slot, name, Blank) \in DOMAIN c.index
  BY <1>2, GetFinds DEF slot
<1>4. /\ slot \in DOMAIN c.slices /\ t \in DOMAIN c.slices[slot]
      /\ c.slices[slot][t].name = name /\ t \in Nat \ {0}
  BY <1>2, <1>3, GetFinds
<1>5. Slice(c, slot) = c.slices[slot]
  BY <1>4 DEF Slice
<1>6. QED
  BY <1>4, <1>5 DEF slot

\* The slot for objects in it.
LEMMA InOwnerHeld ==
  ASSUME NEW c, NEW s \in Nat, s \in DOMAIN Slice(c, Schemas), NEW k \in InOwner,
         NEW o \in {"tables", "views"}, o = "views" <=> k \in OfViews,
         NEW t \in Nat, t \in DOMAIN Slice(c, Slot(o, <<s>>))
  PROVE  /\ Held(c, Slot(k, <<s, t>>)) /\ Slot(k, <<s, t>>).kind = k
         /\ Path(c, Slot(k, <<s, t>>)) = <<Slice(c, Schemas)[s].name, Slice(c, Slot(o, <<s>>))[t].name>>
         /\ Len(Slot(k, <<s, t>>).at) = 2
<1> DEFINE slot == Slot(k, <<s, t>>)
<1>1. /\ slot \in Slots /\ slot.kind = k
      /\ slot.at[1] = s /\ slot.at[2] = t
  BY DEF Slots, Slot
<1>2. Holder(slot) = Slot(o, <<s>>)
  BY <1>1 DEF Holder, Views, Tables, OfViews
<1> HIDE DEF slot
<1>3. QED
  BY <1>1, <1>2, PathOf DEF Held, slot

LEMMA NothingWithin ==
  ASSUME NEW c, Good(c), NEW slot, Len(slot.at) = 2 PROVE NoneWithin(c, slot)
<1>1. \A l \in Slots : Len(l.at) <= 2
  <2>1. \A l \in Slots : Len(l.at) \in {0, 1, 2}
    BY PathOf, SlotShapes
  <2>2. \A n \in {0, 1, 2} : n <= 2
    OBVIOUS
  <2>3. QED
    BY <2>1, <2>2
<1>2. \A l \in DOMAIN c.slices : l \in Slots
  BY DEF Good, Shaped, Held
<1>3. \A l \in DOMAIN c.slices : Len(l.at) <= 2
  BY <1>1, <1>2
<1>4. QED
  BY <1>3 DEF NoneWithin

\* The indexes, or the triggers, of something are all those of a table or all those of a view.
OwnersAgree(c, r) ==
  \A l \in DOMAIN c.slices :
    MapOf(l.kind) = r.kind /\ l.kind \in InOwner /\ Path(c, l) = <<r.schema, r.owner>> =>
      (r.ofView <=> l.kind \in OfViews)

LEMMA OwnerAdds ==
  ASSUME NEW c, Good(c), NEW r, RowOK(r), r.kind \in {"columns", "indexes", "triggers"},
         OwnersAgree(c, r)
  PROVE  /\ Adds(c, AddToOwner(c, r), r)
         /\ LET s == Get(c, Schemas, r.schema, Blank)
            IN ~r.ofView /\ s # 0 /\ Get(c, Slot("tables", <<s>>), r.owner, Blank) # 0 =>
                 Holds(AddToOwner(c, r), r)
<1> DEFINE s == Get(c, Schemas, r.schema, Blank)
           o == IF r.ofView THEN "views" ELSE "tables"
           t == IF s = 0 THEN 0 ELSE Get(c, Slot(o, <<s>>), r.owner, Blank)
           k == IF r.ofView THEN (IF r.kind = "indexes" THEN "view_indexes" ELSE "view_triggers")
                ELSE r.kind
           slot == Slot(k, <<s, t>>)
<1>1. r \in AnyRow /\ ObjectOf(r) \in Objects /\ r.ofView \in BOOLEAN
  BY ObjectsOf DEF RowOK, AnyRow
<1>2. AddToOwner(c, r) = IF t = 0 THEN c ELSE AddOrUpdate(c, slot, ObjectOf(r))
  BY <1>1 DEF AddToOwner, Views, Tables
<1>3. CASE t = 0
  <2>1. Adds(c, AddToOwner(c, r), r)
    BY <1>2, <1>3, AddsNothing
  <2>2. QED
    BY <1>3, <2>1
<1>4. CASE t # 0
  <2>1. s # 0 /\ t = Get(c, Slot(o, <<s>>), r.owner, Blank)
    BY <1>4
  <2>2. s \in Nat /\ s \in DOMAIN Slice(c, Schemas) /\ Slice(c, Schemas)[s].name = r.schema
    BY <2>1, SchemaFound
  <2>3. /\ o \in {"tables", "views"} /\ (o = "views" <=> k \in OfViews) /\ (r.ofView <=> k \in OfViews)
        /\ k \in InOwner \ {"constraints"} /\ k \notin InSchema \cup {"extensions", "schemas"}
        /\ MapOf(k) = r.kind
    <3>1. CASE r.ofView /\ r.kind = "indexes"
      BY <3>1 DEF OfViews, InOwner, InSchema, MapOf
    <3>2. CASE r.ofView /\ r.kind = "triggers"
      BY <3>2 DEF OfViews, InOwner, InSchema, MapOf
    <3>3. CASE ~r.ofView
      BY <3>3 DEF OfViews, InOwner, InSchema, MapOf
    <3>4. QED
      BY <1>1, <3>1, <3>2, <3>3 DEF RowOK
  <2> HIDE DEF s, o, k
  <2>4. /\ t \in Nat /\ t \in DOMAIN Slice(c, Slot(o, <<s>>))
        /\ Slice(c, Slot(o, <<s>>))[t].name = r.owner
    BY <1>4, <2>1, <2>2, <2>3, OwnerFound
  <2> HIDE DEF t
  <2>5. Held(c, slot) /\ slot.kind = k /\ Path(c, slot) = <<r.schema, r.owner>> /\ Len(slot.at) = 2
    BY <2>2, <2>3, <2>4, InOwnerHeld
  <2> HIDE DEF slot
  <2>6. ApartFrom(c, slot)
    <3>1. \A l \in DOMAIN c.slices : l \in Slots /\ l.kind \in Kinds
      BY SlotKinds DEF Good, Shaped, Held
    <3>2. ASSUME NEW l \in DOMAIN c.slices, MapOf(l.kind) = MapOf(slot.kind), Path(c, l) = Path(c, slot)
          PROVE  l.kind = slot.kind
      <4>1. l.kind \in InOwner
        BY <2>3, <2>5, <3>1, <3>2 DEF MapOf, Kinds, InOwner, RowOK
      <4>2. r.ofView <=> l.kind \in OfViews
        BY <2>3, <2>5, <3>2, <4>1 DEF OwnersAgree
      <4>3. QED
        BY <2>3, <2>5, <3>1, <3>2, <4>1, <4>2 DEF MapOf, Kinds, InOwner, OfViews
    <3>3. QED
      BY <3>2 DEF ApartFrom
  <2>7. Plain(slot, ObjectOf(r)) /\ slot.kind # "extensions" /\ slot.kind # "constraints"
    BY <2>3, <2>5 DEF Plain, InSchema
  <2>8. Enters(c, AddOrUpdate(c, slot, ObjectOf(r)), slot, ObjectOf(r))
    BY <1>1, <2>5, <2>6, <2>7, NothingWithin, AddOrUpdateEnters
  <2>9. IsFor(AddOrUpdate(c, slot, ObjectOf(r)), slot, r)
    <3>1. Path(AddOrUpdate(c, slot, ObjectOf(r)), slot) = <<r.schema, r.owner>>
      BY <2>5, <2>8, HeldKept DEF Enters
    <3>2. QED
      BY <2>3, <2>5, <3>1 DEF IsFor
  <2>10. Holds(AddOrUpdate(c, slot, ObjectOf(r)), r)
    BY <2>8, <2>9 DEF Enters, Holds
  <2>11. QED
    BY <1>2, <1>4, <2>8, <2>9, <2>10, EntersAdds DEF t
<1>5. QED
  BY <1>3, <1>4

\* No constraint of the table has the name of the new one and another type.
TypesAgree(c, r) ==
  \A l \in DOMAIN c.slices : l.kind = "constraints" /\ Path(c, l) = <<r.schema, r.owner>> =>
    \A i \in DOMAIN c.slices[l] :
      r.name # NoName /\ c.slices[l][i].name = r.name => c.slices[l][i].type = r.type

LEMMA ConstraintAdds ==
  ASSUME NEW c, Good(c), NEW r, RowOK(r), r.kind = "constraints", TypesAgree(c, r)
  PROVE  Adds(c, AddConstraint(c, r), r)
<1> DEFINE s == Get(c, Schemas, r.schema, Blank)
           table == Slot("tables", <<s>>)
           d == GetOrCreate(c, table, Named(r.owner))
           t == Get(d, table, r.owner, Blank)
           slot == Slot("constraints", <<s, t>>)
<1>1. /\ r \in AnyRow /\ ObjectOf(r) \in Objects /\ r.owner \in Nat
      /\ ObjectOf(r).name = r.name /\ ObjectOf(r).type = r.type
      /\ Named(r.owner) \in Objects /\ Named(r.owner).name = r.owner /\ Named(r.owner).args = Blank
  BY ObjectsOf DEF RowOK
<1>2. ~r.ofView
  BY DEF RowOK
<1>3. AddConstraint(c, r) = IF s = 0 THEN c ELSE AddOrUpdate(d, slot, ObjectOf(r))
  BY DEF AddConstraint, Tables, Constraints
<1>4. CASE s = 0
  BY <1>3, <1>4, AddsNothing
<1>5. CASE s # 0
  <2>1. s \in Nat /\ s \in DOMAIN Slice(c, Schemas) /\ Slice(c, Schemas)[s].name = r.schema
    BY <1>5, SchemaFound
  <2> HIDE DEF s
  <2>2. Held(c, table) /\ table.kind = "tables" /\ ApartFrom(c, table)
    <3>1. "tables" \in InSchema
      BY DEF InSchema
    <3>2. QED
      BY <2>1, <3>1, InSchemaHeld, ApartKinds
  <2>3. Plain(table, Named(r.owner))
    BY <1>1 DEF Plain
  <2>4. /\ d = c \/ Enters(c, d, table, Named(r.owner))
        /\ t # 0 /\ Good(d) /\ Kept(c, d)
    BY <1>1, <2>2, <2>3, GetOrCreateEnters
  <2> HIDE DEF d
  <2>5. s \in DOMAIN Slice(d, Schemas) /\ Slice(d, Schemas)[s].name = r.schema
    BY <2>1, <2>4 DEF Kept
  <2>6. t \in Nat /\ t \in DOMAIN Slice(d, table) /\ Slice(d, table)[t].name = r.owner
    BY <2>1, <2>4, <2>5, OwnerFound
  <2> HIDE DEF t
  <2>7. Held(d, slot) /\ slot.kind = "constraints" /\ Path(d, slot) = <<r.schema, r.owner>> /\ Len(slot.at) = 2
    <3>1. "constraints" \in InOwner /\ "constraints" \notin OfViews
      BY DEF InOwner, OfViews
    <3>2. QED
      BY SMTT(30), <2>1, <2>5, <2>6, <3>1, InOwnerHeld
  <2> HIDE DEF slot
  <2>8. ApartFrom(d, slot)
    BY <2>4, <2>7, ApartKinds
  <2>9. \A i \in DOMAIN Slice(d, slot) :
          r.name # NoName /\ Slice(d, slot)[i].name = r.name => Slice(d, slot)[i].type = r.type
    <3>1. Slice(d, slot) = Slice(c, slot)
      BY <2>2, <2>4, <2>7 DEF Enters, Slice
    <3>2. ASSUME NEW i \in DOMAIN Slice(c, slot), r.name # NoName, Slice(c, slot)[i].name = r.name
          PROVE  Slice(c, slot)[i].type = r.type
      <4>1. slot \in DOMAIN c.slices /\ i \in DOMAIN c.slices[slot] /\ Slice(c, slot) = c.slices[slot]
        BY <3>2, SliceShaped DEF Good, Slice
      <4>2. Path(c, slot) = <<r.schema, r.owner>>
        BY <2>4, <2>7, <4>1, HeldKept DEF Good, Shaped
      <4>3. QED
        BY <2>7, <3>2, <4>1, <4>2 DEF TypesAgree
    <3>3. QED
      BY <3>1, <3>2
  <2>10. Plain(slot, ObjectOf(r)) /\ slot.kind # "extensions"
    BY <2>7 DEF Plain
  <2>11. Enters(d, AddOrUpdate(d, slot, ObjectOf(r)), slot, ObjectOf(r))
    BY <1>1, <2>4, <2>7, <2>8, <2>9, <2>10, NothingWithin, AddOrUpdateEnters
  <2>12. IsFor(AddOrUpdate(d, slot, ObjectOf(r)), slot, r)
    <3>1. Path(AddOrUpdate(d, slot, ObjectOf(r)), slot) = <<r.schema, r.owner>>
      BY <2>7, <2>11, HeldKept DEF Enters
    <3>2. "constraints" \notin InSchema /\ "constraints" \notin OfViews /\ MapOf("constraints") = "constraints"
      BY DEF InSchema, OfViews, MapOf
    <3>3. QED
      BY <1>2, <2>7, <3>1, <3>2 DEF IsFor
  <2>13. Adds(c, AddOrUpdate(d, slot, ObjectOf(r)), r)
    BY <2>2, <2>4, <2>11, <2>12, EntersAdds, EntersTwice
  <2>14. QED
    BY <1>3, <1>5, <2>13 DEF slot, t, d
<1>6. QED
  BY <1>4, <1>5

LEMMA RowAdds ==
  ASSUME NEW c, Good(c), NEW r, RowOK(r),
         r.kind \in InSchema => \A l \in DOMAIN c.slices : Len(l.at) <= 1,
         r.kind \in {"columns", "indexes", "triggers"} => OwnersAgree(c, r),
         r.kind = "constraints" => TypesAgree(c, r)
  PROVE  Adds(c, AddRow(c, r), r)
<1>1. r.kind \in RowKinds /\ ObjectOf(r) \in Objects
  BY ObjectsOf DEF RowOK
<1>2. CASE r.kind = "extensions"
  <2> DEFINE d == [c EXCEPT !.slices = Appended(c, Extensions, ObjectOf(r))]
  <2>1. Enters(c, d, Extensions, ObjectOf(r))
    BY <1>1, ExtensionEnters
  <2>2. AddRow(c, r) = d
    BY <1>2 DEF AddRow
  <2> HIDE DEF d
  <2>3. IsFor(d, Extensions, r)
    BY <1>2 DEF IsFor, Extensions, Slot, MapOf, InSchema, InOwner
  <2>4. QED
    BY <2>1, <2>2, <2>3, EntersAdds
<1>3. CASE r.kind \in InSchema
  <2>1. AddRow(c, r) = AddToSchema(c, r)
    BY <1>3 DEF AddRow, InSchema
  <2>2. QED
    BY <1>3, <2>1, SchemaAdds
<1>4. CASE r.kind = "constraints"
  <2>1. AddRow(c, r) = AddConstraint(c, r)
    BY <1>4 DEF AddRow
  <2>2. QED
    BY <1>4, <2>1, ConstraintAdds
<1>5. CASE r.kind \in {"columns", "indexes", "triggers"}
  <2>1. AddRow(c, r) = AddToOwner(c, r)
    BY <1>5 DEF AddRow
  <2>2. QED
    BY <1>5, <2>1, OwnerAdds
<1>6. QED
  BY <1>1, <1>2, <1>3, <1>4, <1>5 DEF RowKinds, InSchema

(***************************************************************************)
(* The introspection                                                       *)
(***************************************************************************)

\* No two constraints of a table have the same name but not the same type.
NamesOnce ==
  \A d \in Dialects : \A D \in Databases[d] :
    \A q, r \in {e \in D : e.kind = "constraints"} :
      q.schema = r.schema /\ q.owner = r.owner /\ q.name = r.name => q.type = r.type

Flow ==
  /\ dialect \in Dialects /\ database \in Databases[dialect]
  /\ phase \in RowKinds \cup {"settings", "marks", "end"}
  /\ result \in {"running", "ok", "error", "panic"}
  /\ asked \in BOOLEAN /\ broken \in BOOLEAN /\ changes \in 0 .. MaxChanges
  /\ asked => phase \in RowKinds /\ IsIncluded(phase)
  /\ rows # {} => asked /\ IsIncluded(phase)
  /\ result = "ok" <=> phase = "end"
  /\ \A r \in rows : RowOK(r) /\ r.kind = phase

ToTables == {"settings", "extensions", "enums", "domains", "routines", "views", "tables"}
Ordered == {"constraints", "indexes", "triggers"}
Before(k) ==
  IF k = "constraints" THEN ToTables \cup {"columns"}
  ELSE IF k = "indexes" THEN ToTables \cup {"columns", "constraints"}
  ELSE ToTables \cup {"columns", "constraints", "indexes"}

\* What is not there yet.
Stages ==
  /\ phase \in ToTables => \A l \in DOMAIN catalog.slices : Len(l.at) <= 1
  /\ \A k \in Ordered :
       phase \in Before(k) \/ (phase = k /\ ~asked) =>
         \A l \in DOMAIN catalog.slices : MapOf(l.kind) # k

\* The rows that are left agree with each other, and with what is there of their kind.
Sources ==
  /\ \A q, r \in rows :
       q.schema = r.schema /\ q.owner = r.owner =>
         /\ q.ofView = r.ofView
         /\ phase = "constraints" /\ r.name # NoName /\ q.name = r.name => q.type = r.type
  /\ \A r \in rows : /\ phase \in {"indexes", "triggers"} => OwnersAgree(catalog, r)
                     /\ phase = "constraints" => TypesAgree(catalog, r)

IInv == Flow /\ Good(catalog) /\ Stages /\ Sources

LEMMA Successors ==
  /\ Successor("settings") = "extensions" /\ Successor("extensions") = "enums"
  /\ Successor("enums") = "domains" /\ Successor("domains") = "routines"
  /\ Successor("routines") = "views" /\ Successor("views") = "tables"
  /\ Successor("tables") = "columns" /\ Successor("columns") = "constraints"
  /\ Successor("constraints") = "indexes" /\ Successor("indexes") = "triggers"
  /\ Successor("triggers") = "marks"
<1>1. DOMAIN Phases = 1 .. 13
  BY DEF Phases
<1>2. /\ Phases[1] = "settings" /\ Phases[2] = "extensions" /\ Phases[3] = "enums"
      /\ Phases[4] = "domains" /\ Phases[5] = "routines" /\ Phases[6] = "views"
      /\ Phases[7] = "tables" /\ Phases[8] = "columns" /\ Phases[9] = "constraints"
      /\ Phases[10] = "indexes" /\ Phases[11] = "triggers" /\ Phases[12] = "marks"
      /\ Phases[13] = "end"
  BY DEF Phases
<1>3. \A i \in 1 .. 13 : i \in {1, 2, 3, 4, 5, 6, 7, 8, 9, 10, 11, 12, 13}
  OBVIOUS
<1>4. \A i, j \in 1 .. 13 : Phases[i] = Phases[j] => i = j
  BY <1>2, <1>3
<1>5. ASSUME NEW i \in 1 .. 13 PROVE Successor(Phases[i]) = Phases[i + 1]
  <2>1. (CHOOSE j \in DOMAIN Phases : Phases[j] = Phases[i]) = i
    BY <1>1, <1>4, <1>5
  <2>2. QED
    BY <2>1 DEF Successor
<1>6. \A i \in 1 .. 11 : i \in 1 .. 13
  OBVIOUS
<1>7. /\ Successor(Phases[1]) = Phases[2] /\ Successor(Phases[2]) = Phases[3]
      /\ Successor(Phases[3]) = Phases[4] /\ Successor(Phases[4]) = Phases[5]
      /\ Successor(Phases[5]) = Phases[6] /\ Successor(Phases[6]) = Phases[7]
      /\ Successor(Phases[7]) = Phases[8] /\ Successor(Phases[8]) = Phases[9]
      /\ Successor(Phases[9]) = Phases[10] /\ Successor(Phases[10]) = Phases[11]
      /\ Successor(Phases[11]) = Phases[12]
  BY <1>5
<1>8. QED
  BY <1>2, <1>7

LEMMA AnswerFrom ==
  ASSUME Flow, phase \in RowKinds, NEW r \in Answer
  PROVE  \E q \in database :
           /\ RowOK(r) /\ r.kind = phase /\ q.kind = phase
           /\ r.schema = q.schema /\ r.owner = q.owner
           /\ r.ofView = (q.ofView /\ (phase = "triggers" => dialect # "sqlite"))
           /\ phase = "constraints" => r.type = q.type /\ (r.name = q.name \/ r.name = NoName)
<1>1. database \subseteq AnyRow
  <2>1. DatabaseRow \subseteq AnyRow
    BY DEF DatabaseRow, AnyRow, Texts
  <2>2. QED
    BY <2>1, IntrospectorAssumption DEF Flow
<1>2. ASSUME NEW q \in database PROVE RowOK(q)
  BY <1>1, <1>2, IntrospectorAssumption DEF Flow, RowOK
<1>3. ASSUME r \in database, r.kind = phase, phase = "triggers" => dialect # "sqlite"
      PROVE  r \in database /\ RowOK(r) /\ r.ofView = (r.ofView /\ (phase = "triggers" => dialect # "sqlite"))
  <2>1. r.ofView \in BOOLEAN
    BY <1>1, <1>3 DEF AnyRow
  <2>2. QED
    BY <1>2, <1>3, <2>1
<1>4. CASE phase = "extensions"
  BY <1>3, <1>4 DEF Answer, GetExtensions, Rows
<1>5. CASE phase = "enums"
  BY <1>3, <1>5 DEF Answer, GetEnums, Rows
<1>6. CASE phase = "domains"
  BY <1>3, <1>6 DEF Answer, GetDomains, Rows
<1>7. CASE phase = "tables"
  BY <1>3, <1>7 DEF Answer, GetTables, Rows
<1>8. CASE phase = "columns"
  BY <1>3, <1>8 DEF Answer, GetColumns, Rows
<1>9. CASE phase = "indexes"
  BY <1>3, <1>9 DEF Answer, GetIndexes, Rows
<1>10. CASE phase = "routines"
  <2>1. PICK q \in database :
          /\ q.kind = "routines"
          /\ r = [q EXCEPT !.args = IF dialect = "postgres" THEN @ ELSE Blank]
    BY <1>10 DEF Answer, GetRoutines, Rows
  <2>2. RowOK(r) /\ r = [q EXCEPT !.args = r.args] /\ r.kind = "routines"
    <3>1. q \in AnyRow /\ Blank \in Texts
      BY <1>1 DEF Texts
    <3>2. QED
      BY <1>2, <2>1, <3>1 DEF RowOK, AnyRow
  <2>3. QED
    BY <1>1, <1>10, <2>1, <2>2 DEF AnyRow
<1>11. CASE phase = "views"
  <2>1. PICK q \in database :
          q.kind = "views" /\ r = [q EXCEPT !.type = IF dialect = "postgres" THEN @ ELSE Blank]
    BY <1>11 DEF Answer, GetViews, Rows
  <2>2. RowOK(r) /\ r.kind = "views"
    <3>1. q \in AnyRow /\ Blank \in Texts
      BY <1>1 DEF Texts
    <3>2. QED
      BY <1>2, <2>1, <3>1 DEF RowOK, AnyRow
  <2>3. QED
    BY <1>1, <1>11, <2>1, <2>2 DEF AnyRow
<1>12. CASE phase = "constraints"
  <2>1. PICK q \in database :
          q.kind = "constraints" /\ r = [q EXCEPT !.name = IF dialect = "sqlite" THEN NoName ELSE @]
    BY <1>12 DEF Answer, GetConstraints, Rows
  <2>2. RowOK(r) /\ r.kind = "constraints"
    <3>1. q \in AnyRow /\ NoName \in Nat
      BY <1>1 DEF NoName
    <3>2. QED
      BY <1>2, <2>1, <3>1 DEF RowOK, AnyRow
  <2>3. QED
    BY <1>1, <1>12, <2>1, <2>2 DEF AnyRow
<1>13. CASE phase = "triggers"
  <2>1. PICK q \in database : q.kind = "triggers" /\ r = [q EXCEPT !.ofView = @ /\ dialect # "sqlite"]
    BY <1>13 DEF Answer, GetTriggers, Rows
  <2>2. q \in AnyRow
    BY <1>1
  <2>3. RowOK(r) /\ r.kind = "triggers" /\ r.ofView = (q.ofView /\ dialect # "sqlite")
    BY <1>2, <2>1, <2>2 DEF RowOK, AnyRow
  <2>4. QED
    BY <1>13, <2>1, <2>2, <2>3 DEF AnyRow
<1>14. QED
  BY <1>4, <1>5, <1>6, <1>7, <1>8, <1>9, <1>10, <1>11, <1>12, <1>13 DEF RowKinds

LEMMA AnswerOK ==
  ASSUME Flow, NamesOnce, phase \in RowKinds
  PROVE  /\ \A r \in Answer : RowOK(r) /\ r.kind = phase
         /\ \A q, r \in Answer :
              q.schema = r.schema /\ q.owner = r.owner =>
                /\ q.ofView = r.ofView
                /\ phase = "constraints" /\ r.name # NoName /\ q.name = r.name => q.type = r.type
<1>1. \A r \in Answer : RowOK(r) /\ r.kind = phase
  BY AnswerFrom
<1>2. ASSUME NEW q \in Answer, NEW r \in Answer, q.schema = r.schema, q.owner = r.owner
      PROVE  /\ q.ofView = r.ofView
             /\ phase = "constraints" /\ r.name # NoName /\ q.name = r.name => q.type = r.type
  <2>1. PICK a \in database :
          /\ a.kind = phase /\ q.schema = a.schema /\ q.owner = a.owner
          /\ q.ofView = (a.ofView /\ (phase = "triggers" => dialect # "sqlite"))
          /\ phase = "constraints" => q.type = a.type /\ (q.name = a.name \/ q.name = NoName)
    BY AnswerFrom
  <2>2. PICK b \in database :
          /\ b.kind = phase /\ r.schema = b.schema /\ r.owner = b.owner
          /\ r.ofView = (b.ofView /\ (phase = "triggers" => dialect # "sqlite"))
          /\ phase = "constraints" => r.type = b.type /\ (r.name = b.name \/ r.name = NoName)
    BY AnswerFrom
  <2>3. a.schema = b.schema /\ a.owner = b.owner
    BY <1>2, <2>1, <2>2
  <2>4. q.ofView = r.ofView
    <3>1. CASE phase \in {"indexes", "triggers"}
      <4>1. a.ofView = b.ofView
        BY <2>1, <2>2, <2>3, <3>1, IntrospectorAssumption DEF Flow
      <4>2. QED
        BY <2>1, <2>2, <4>1
    <3>2. CASE phase \notin {"indexes", "triggers"}
      <4>1. q.ofView \in BOOLEAN /\ r.ofView \in BOOLEAN
        BY <1>1 DEF RowOK, AnyRow
      <4>2. ~q.ofView /\ ~r.ofView
        BY <1>1, <3>2 DEF RowOK
      <4>3. QED
        BY <4>1, <4>2
    <3>3. QED
      BY <3>1, <3>2
  <2>5. ASSUME phase = "constraints", r.name # NoName, q.name = r.name PROVE q.type = r.type
    <3>1. a.name = b.name /\ a.kind = "constraints" /\ b.kind = "constraints"
      BY <2>1, <2>2, <2>5
    <3>2. a.type = b.type
      BY <2>3, <3>1 DEF NamesOnce, Flow
    <3>3. QED
      BY <2>1, <2>2, <2>5, <3>2
  <2>6. QED
    BY <2>4, <2>5
<1>3. QED
  BY <1>1, <1>2

LEMMA EmptyGood == Good(EmptyCache)
<1>1. /\ EmptyCache.slices = [slot \in {} |-> <<>>] /\ EmptyCache.index = [id \in {} |-> 0]
      /\ EmptyCache.pkeys = [path \in {} |-> 0] /\ EmptyCache.fkeys = [path \in {} |-> {}]
  BY DEF EmptyCache
<1>2. /\ DOMAIN EmptyCache.slices = {} /\ DOMAIN EmptyCache.index = {}
      /\ DOMAIN EmptyCache.pkeys = {} /\ DOMAIN EmptyCache.fkeys = {}
  BY <1>1
<1>3. IsMap(EmptyCache.pkeys) /\ IsMap(EmptyCache.fkeys)
  BY <1>1 DEF IsMap
<1>4. IsCache(EmptyCache)
  BY DEF IsCache, EmptyCache
<1>5. QED
  BY <1>2, <1>3, <1>4 DEF Good, Shaped, Found, Backed, Keyed, ApartFrom

LEMMA InitGood == Init => IInv
<1> SUFFICES ASSUME Init PROVE IInv
  OBVIOUS
<1>1. Flow
  <2>1. 0 \in 0 .. MaxChanges
    BY IntrospectorAssumption
  <2>2. rows = {} /\ ~asked
    BY DEF Init
  <2>3. QED
    BY <2>1, <2>2 DEF Init, Flow
<1>2. catalog = EmptyCache /\ DOMAIN catalog.slices = {} /\ rows = {}
  BY DEF Init, EmptyCache
<1>3. QED
  BY <1>1, <1>2, EmptyGood DEF IInv, Stages, Sources

LEMMA SuccessorOf ==
  ASSUME NEW p \in RowKinds \cup {"settings"}
  PROVE  /\ Successor(p) \in RowKinds \cup {"marks"}
         /\ Successor(p) \in ToTables => p \in ToTables
         /\ \A k \in Ordered : Successor(p) \in Before(k) \cup {k} => p \in Before(k)
  BY Successors DEF RowKinds, ToTables, Ordered, Before

\* A kind is taken up, with no rows yet.
LEMMA MovesOn ==
  ASSUME IInv, result = "running", phase \in RowKinds \cup {"settings"}, rows = {},
         phase' = Successor(phase), asked' = FALSE,
         UNCHANGED <<dialect, filter, database, changes, catalog, rows, broken, result>>
  PROVE  IInv'
<1>1. Flow'
  BY SuccessorOf DEF IInv, Flow, RowKinds
<1>2. Stages'
  BY SuccessorOf DEF IInv, Stages
<1>3. QED
  BY <1>1, <1>2 DEF IInv, Sources

\* The rows of an answer, or some of them, are there to be added.
LEMMA Answered ==
  ASSUME NamesOnce, IInv, Asks, rows' \in SUBSET Answer, asked', broken' \in BOOLEAN,
         UNCHANGED <<dialect, filter, database, changes, catalog, phase, result>>
  PROVE  IInv'
<1>1. phase \in RowKinds /\ IsIncluded(phase) /\ ~asked
  BY DEF IInv, Flow, Asks
<1>2. /\ \A r \in rows' : RowOK(r) /\ r.kind = phase
      /\ \A q, r \in rows' :
           q.schema = r.schema /\ q.owner = r.owner =>
             /\ q.ofView = r.ofView
             /\ phase = "constraints" /\ r.name # NoName /\ q.name = r.name => q.type = r.type
  BY <1>1, AnswerOK DEF IInv
<1>3. Flow'
  BY <1>1, <1>2 DEF IInv, Flow, IsIncluded, IncludeObjectType
<1>4. Stages'
  BY DEF IInv, Stages
<1>5. ASSUME NEW r \in rows'
      PROVE  /\ phase \in {"indexes", "triggers"} => OwnersAgree(catalog, r)
             /\ phase = "constraints" => TypesAgree(catalog, r)
  <2>1. phase \in Ordered => \A l \in DOMAIN catalog.slices : MapOf(l.kind) # phase
    BY <1>1 DEF IInv, Stages
  <2>2. QED
    BY <1>2, <1>5, <2>1 DEF OwnersAgree, TypesAgree, Ordered, MapOf
<1>6. Sources'
  BY <1>2, <1>5 DEF Sources
<1>7. QED
  BY <1>3, <1>4, <1>6 DEF IInv

\* The slots that a row adds.
LEMMA NewSlots ==
  ASSUME NEW c, NEW d, NEW r, RowOK(r), Adds(c, d, r), NEW l \in DOMAIN d.slices, l \notin DOMAIN c.slices
  PROVE  /\ l \in Slots
         /\ MapOf(l.kind) \in {"schemas", "tables", r.kind}
         /\ r.kind \in InSchema \cup {"extensions"} => Len(l.at) <= 1
<1>1. l \in Slots
  BY DEF Adds, Good, Shaped, Held
<1>2. l.kind \in {"schemas", "tables"} \/ MapOf(l.kind) = r.kind
  BY DEF Adds, IsFor
<1>3. MapOf("schemas") = "schemas" /\ MapOf("tables") = "tables"
  BY DEF MapOf
<1>4. ASSUME r.kind \in InSchema \cup {"extensions"} PROVE Len(l.at) <= 1
  <2>1. l.kind \in Kinds
    BY <1>1, SlotKinds
  <2>2. l.kind \in InSchema \cup {"extensions", "schemas"}
    BY <1>2, <1>4, <2>1 DEF MapOf, InSchema, Kinds
  <2>3. Len(l.at) = 0 \/ Len(l.at) = 1
    BY <1>1, <2>2, PathOf
  <2>4. 0 <= 1 /\ 1 <= 1
    OBVIOUS
  <2>5. QED
    BY <2>3, <2>4
<1>5. QED
  BY <1>1, <1>2, <1>3, <1>4

LEMMA AgreesOn ==
  ASSUME NEW c, NEW d, NEW r, NEW q, Good(c), RowOK(r), RowOK(q), Adds(c, d, r), r.kind = q.kind,
         r.schema = q.schema /\ r.owner = q.owner =>
           /\ r.ofView = q.ofView
           /\ q.kind = "constraints" /\ q.name # NoName /\ r.name = q.name => r.type = q.type
  PROVE  /\ q.kind \in {"indexes", "triggers"} /\ OwnersAgree(c, q) => OwnersAgree(d, q)
         /\ q.kind = "constraints" /\ TypesAgree(c, q) => TypesAgree(d, q)
<1>1. \A l \in DOMAIN c.slices : Path(d, l) = Path(c, l)
  BY HeldKept DEF Good, Shaped, Adds
<1>2. ASSUME NEW l \in DOMAIN d.slices, MapOf(l.kind) = q.kind, q.kind \in Ordered
      PROVE  l \in DOMAIN c.slices \/ IsFor(d, l, r)
  BY <1>2 DEF Adds, MapOf, Ordered
<1>3. ASSUME q.kind \in {"indexes", "triggers"}, OwnersAgree(c, q) PROVE OwnersAgree(d, q)
  <2>1. ASSUME NEW l \in DOMAIN d.slices, MapOf(l.kind) = q.kind, l.kind \in InOwner,
               Path(d, l) = <<q.schema, q.owner>>
        PROVE  q.ofView <=> l.kind \in OfViews
    <3>1. CASE l \in DOMAIN c.slices
      BY <1>1, <1>3, <2>1, <3>1 DEF OwnersAgree
    <3>2. CASE IsFor(d, l, r)
      <4>1. <<q.schema, q.owner>> = <<r.schema, r.owner>> /\ (r.ofView <=> l.kind \in OfViews)
        BY <2>1, <3>2 DEF IsFor
      <4>2. q.schema = r.schema /\ q.owner = r.owner
        BY <4>1
      <4>3. QED
        BY <4>1, <4>2
    <3>3. QED
      BY <1>2, <1>3, <2>1, <3>1, <3>2 DEF Ordered
  <2>2. QED
    BY <2>1 DEF OwnersAgree
<1>4. ASSUME q.kind = "constraints", TypesAgree(c, q) PROVE TypesAgree(d, q)
  <2>1. ASSUME NEW l \in DOMAIN d.slices, l.kind = "constraints", Path(d, l) = <<q.schema, q.owner>>,
               NEW i \in DOMAIN d.slices[l], q.name # NoName, d.slices[l][i].name = q.name
        PROVE  d.slices[l][i].type = q.type
    <3>1. CASE l \in DOMAIN c.slices /\ i \in DOMAIN c.slices[l] /\ d.slices[l][i] = c.slices[l][i]
      <4>1. Path(c, l) = <<q.schema, q.owner>>
        BY <1>1, <2>1, <3>1
      <4>2. QED
        BY <1>4, <2>1, <3>1, <4>1 DEF TypesAgree
    <3>2. CASE IsFor(d, l, r) /\ d.slices[l][i] = ObjectOf(r)
      <4>1. <<q.schema, q.owner>> = <<r.schema, r.owner>>
        BY <2>1, <3>2 DEF IsFor, InOwner
      <4>2. q.schema = r.schema /\ q.owner = r.owner
        BY <4>1
      <4>3. d.slices[l][i].name = r.name /\ d.slices[l][i].type = r.type
        BY <3>2, ObjectsOf DEF RowOK
      <4>4. QED
        BY <1>4, <2>1, <4>2, <4>3
    <3>3. QED
      BY <2>1, <3>1, <3>2 DEF Adds
  <2>2. QED
    BY <2>1 DEF TypesAgree
<1>5. QED
  BY <1>3, <1>4

LEMMA RowEnters ==
  ASSUME IInv, asked, NEW r \in rows, catalog' = AddRow(catalog, r)
  PROVE  Adds(catalog, catalog', r)
<1>1. RowOK(r) /\ r.kind = phase /\ Good(catalog)
  BY DEF IInv, Flow
<1>2. r.kind \in InSchema => \A l \in DOMAIN catalog.slices : Len(l.at) <= 1
  BY <1>1 DEF IInv, Stages, InSchema, ToTables
<1>3. r.kind = "columns" => OwnersAgree(catalog, r)
  BY <1>1 DEF RowOK, OwnersAgree, MapOf, OfViews
<1>4. /\ r.kind \in {"indexes", "triggers"} => OwnersAgree(catalog, r)
      /\ r.kind = "constraints" => TypesAgree(catalog, r)
  BY <1>1 DEF IInv, Sources
<1>5. QED
  BY <1>1, <1>2, <1>3, <1>4, RowAdds

LEMMA AddNextGood == IInv /\ AddNext => IInv'
<1> SUFFICES ASSUME IInv, AddNext PROVE IInv'
  OBVIOUS
<1>1. asked /\ phase \in RowKinds /\ IsIncluded(phase)
  BY DEF AddNext, IInv, Flow
<1>2. PICK r \in rows : catalog' = AddRow(catalog, r) /\ rows' = rows \ {r}
  BY DEF AddNext
<1>3. RowOK(r) /\ r.kind = phase
  BY <1>2 DEF IInv, Flow
<1>4. Adds(catalog, catalog', r)
  BY <1>1, <1>2, RowEnters
<1>5. Flow'
  BY <1>1, <1>2 DEF AddNext, unchanged, IInv, Flow, IsIncluded, IncludeObjectType
<1>6. Stages'
  <2>1. phase' = phase /\ asked' = asked
    BY DEF AddNext
  <2>2. ASSUME phase \in ToTables PROVE \A l \in DOMAIN catalog'.slices : Len(l.at) <= 1
    <3>1. \A l \in DOMAIN catalog.slices : Len(l.at) <= 1
      BY <2>2 DEF IInv, Stages
    <3>2. r.kind \in InSchema \cup {"extensions"}
      BY <1>1, <1>3, <2>2 DEF ToTables, InSchema, RowKinds
    <3>3. QED
      BY <1>3, <1>4, <3>1, <3>2, NewSlots
  <2>3. ASSUME NEW k \in Ordered, phase \in Before(k)
        PROVE  \A l \in DOMAIN catalog'.slices : MapOf(l.kind) # k
    <3>1. \A l \in DOMAIN catalog.slices : MapOf(l.kind) # k
      BY <2>3 DEF IInv, Stages
    <3>2. phase # k /\ k \notin {"schemas", "tables"}
      BY <2>3 DEF Ordered, Before, ToTables
    <3>3. QED
      BY <1>3, <1>4, <3>1, <3>2, NewSlots
  <2>4. QED
    BY <1>1, <2>1, <2>2, <2>3 DEF Stages
<1>7. Sources'
  <2>1. phase' = phase
    BY DEF AddNext
  <2>2. ASSUME NEW q \in rows'
        PROVE  /\ phase \in {"indexes", "triggers"} => OwnersAgree(catalog', q)
               /\ phase = "constraints" => TypesAgree(catalog', q)
    <3>1. q \in rows /\ RowOK(q) /\ q.kind = phase /\ Good(catalog)
      BY <1>2, <2>2 DEF IInv, Flow
    <3>2. /\ r.schema = q.schema /\ r.owner = q.owner =>
               /\ r.ofView = q.ofView
               /\ q.kind = "constraints" /\ q.name # NoName /\ r.name = q.name => r.type = q.type
          /\ phase \in {"indexes", "triggers"} => OwnersAgree(catalog, q)
          /\ phase = "constraints" => TypesAgree(catalog, q)
      BY <1>2, <3>1 DEF IInv, Sources
    <3>3. QED
      BY <1>3, <1>4, <3>1, <3>2, AgreesOn
  <2>3. QED
    BY <1>2, <2>1, <2>2 DEF IInv, Sources
<1>8. QED
  BY <1>4, <1>5, <1>6, <1>7 DEF IInv, Adds

\* The marks change nothing that anything is found by.
LEMMA MarkGood == IInv /\ Mark => IInv'
<1> SUFFICES ASSUME IInv, Mark PROVE IInv'
  OBVIOUS
<1>1. phase = "marks" /\ ~asked /\ rows = {}
  BY DEF Mark, IInv, Flow, RowKinds
<1>2. CASE Panics
  <2>1. result' = "panic" /\ UNCHANGED <<dialect, filter, database, changes, catalog, phase, rows, asked, broken>>
    BY <1>2 DEF Mark, unchanged
  <2>2. Flow'
    BY <1>1, <2>1 DEF IInv, Flow
  <2>3. QED
    BY <1>1, <2>1, <2>2 DEF IInv, Stages, Sources
<1>3. CASE ~Panics
  <2>1. /\ result' = "ok" /\ phase' = "end" /\ catalog' = [catalog EXCEPT !.slices = Marked]
        /\ UNCHANGED <<dialect, filter, database, changes, rows, asked, broken>>
    BY <1>3 DEF Mark, unchanged
  <2>2. Flow'
    BY <1>1, <2>1 DEF IInv, Flow
  <2>3. Stages'
    BY <1>1, <2>1 DEF Stages, ToTables, Ordered, Before
  <2>4. Sources'
    BY <1>1, <2>1 DEF Sources
  <2>5. Redone(catalog, catalog')
    <3>1. catalog'.slices = Marked /\ DOMAIN Marked = DOMAIN catalog.slices
      BY <2>1 DEF IInv, Good, IsCache, Marked
    <3>2. ASSUME NEW l \in DOMAIN catalog.slices
          PROVE  /\ Marked[l] \in Seq(Objects) /\ DOMAIN Marked[l] = DOMAIN catalog.slices[l]
                 /\ \A i \in DOMAIN catalog.slices[l] :
                      /\ Marked[l][i].name = catalog.slices[l][i].name
                      /\ Marked[l][i].args = catalog.slices[l][i].args
                      /\ Marked[l][i].type = catalog.slices[l][i].type
      <4>1. catalog.slices[l] \in Seq(Objects)
        BY DEF IInv, Good, Shaped
      <4> DEFINE marks(i) ==
                   {catalog.slices[p[1]][p[2]].type :
                      p \in {q \in OfOneColumn : l.kind = "columns" /\ q[1].at = l.at /\ ColumnAt(q) = i}}
      <4>2. Marked[l] = [i \in DOMAIN catalog.slices[l] |->
                           [catalog.slices[l][i] EXCEPT !.data.marks = @ \cup marks(i)]]
        BY DEF Marked
      <4>3. \A i : marks(i) \subseteq Types
        BY DEF OfOneColumn
      <4> HIDE DEF marks
      <4>4. ASSUME NEW i \in DOMAIN catalog.slices[l]
            PROVE  LET o == catalog.slices[l][i]
                       n == [o EXCEPT !.data.marks = @ \cup marks(i)]
                   IN n \in Objects /\ n.name = o.name /\ n.args = o.args /\ n.type = o.type
        <5>1. catalog.slices[l][i] \in Objects
          BY <4>1, <4>4
        <5>2. \A o \in Objects : \A M \in SUBSET Types :
                LET n == [o EXCEPT !.data.marks = @ \cup M]
                IN n \in Objects /\ n.name = o.name /\ n.args = o.args /\ n.type = o.type
          BY DEF Objects, Data
        <5>3. QED
          BY <4>3, <5>1, <5>2
      <4>5. DOMAIN Marked[l] = 1 .. Len(catalog.slices[l]) /\ Len(catalog.slices[l]) \in Nat
        BY <4>1, <4>2
      <4>6. \A i \in DOMAIN catalog.slices[l] :
              Marked[l][i] = [catalog.slices[l][i] EXCEPT !.data.marks = @ \cup marks(i)]
        BY <4>2
      <4>7. \A i \in DOMAIN catalog.slices[l] :
              /\ Marked[l][i] \in Objects
              /\ Marked[l][i].name = catalog.slices[l][i].name
              /\ Marked[l][i].args = catalog.slices[l][i].args
              /\ Marked[l][i].type = catalog.slices[l][i].type
        BY <4>4, <4>6
      <4>8. DOMAIN Marked[l] = DOMAIN catalog.slices[l] /\ IsMap(Marked[l])
        BY <4>2 DEF IsMap
      <4>9. Marked[l] \in Seq(Objects)
        <5>1. \A f : \A n \in Nat :
                IsMap(f) /\ DOMAIN f = 1 .. n /\ (\A i \in 1 .. n : f[i] \in Objects) => f \in Seq(Objects)
          BY DEF IsMap
        <5> HIDE DEF marks
        <5>2. QED
          BY <4>5, <4>7, <4>8, <5>1
      <4>10. QED
        BY <4>7, <4>8, <4>9
    <3>3. QED
      BY <3>1, <3>2 DEF Redone
  <2>6. /\ IsCache(catalog') /\ catalog'.index = catalog.index
        /\ catalog'.pkeys = catalog.pkeys /\ catalog'.fkeys = catalog.fkeys
    BY <2>1 DEF IInv, Good, IsCache
  <2>7. Good(catalog')
    BY <2>5, <2>6, RedoneGood DEF IInv
  <2>8. QED
    BY <2>2, <2>3, <2>4, <2>7 DEF IInv
<1>4. QED
  BY <1>2, <1>3

LEMMA StepGood == ASSUME NamesOnce PROVE IInv /\ [Next]_vars => IInv'
<1> SUFFICES ASSUME IInv, [Next]_vars PROVE IInv'
  OBVIOUS
<1>1. CASE Pass
  <2>1. phase \in RowKinds \cup {"settings"}
    BY <1>1 DEF Pass, IInv, Flow, IsIncluded
  <2>2. ~asked /\ rows = {}
    BY <1>1 DEF Pass, IInv, Flow, RowKinds
  <2>3. asked = FALSE
    BY <2>2 DEF IInv, Flow
  <2>4. QED
    BY <1>1, <2>1, <2>2, <2>3, MovesOn DEF Pass, unchanged
<1>2. CASE Ask
  BY <1>2, Answered DEF Ask, unchanged, IInv, Flow
<1>3. CASE QueryFails
  <2>1. result' = "error" /\ UNCHANGED <<dialect, filter, database, changes, catalog, phase, rows, asked, broken>>
    BY <1>3 DEF QueryFails, unchanged
  <2>2. phase # "end"
    BY <1>3 DEF QueryFails, Asks
  <2>3. Flow'
    BY <2>1, <2>2 DEF IInv, Flow, IsIncluded, IncludeObjectType
  <2>4. QED
    BY <2>1, <2>3 DEF IInv, Stages, Sources
<1>4. CASE BreakOff
  <2>1. CASE phase = "triggers"
    <3>1. PICK r \in Answer : rows' = {q \in Answer : Precedes(q, r)} /\ asked' = TRUE /\ broken' = TRUE
      BY <1>4, <2>1 DEF BreakOff
    <3>2. rows' \in SUBSET Answer
      BY <3>1
    <3>3. QED
      BY <1>4, <2>1, <3>1, <3>2, Answered DEF BreakOff, unchanged
  <2>2. CASE phase # "triggers"
    <3>1. result' = "error" /\ UNCHANGED <<dialect, filter, database, changes, catalog, phase, rows, asked, broken>>
      BY <1>4, <2>2 DEF BreakOff, unchanged
    <3>2. phase # "end"
      BY <1>4 DEF BreakOff, Asks
    <3>3. Flow'
      BY <3>1, <3>2 DEF IInv, Flow, IsIncluded, IncludeObjectType
    <3>4. QED
      BY <3>1, <3>3 DEF IInv, Stages, Sources
  <2>3. QED
    BY <2>1, <2>2
<1>5. CASE AddNext
  BY <1>5, AddNextGood
<1>6. CASE NextQuery
  <2>1. phase \in RowKinds
    BY <1>6 DEF NextQuery, IInv, Flow
  <2>2. QED
    BY <1>6, <2>1, MovesOn DEF NextQuery, unchanged
<1>7. CASE Mark
  BY <1>7, MarkGood
<1>8. CASE Change
  <2>1. /\ database' \in Databases[dialect] /\ changes' = changes + 1 /\ changes < MaxChanges
        /\ UNCHANGED <<dialect, filter, catalog, phase, rows, asked, broken, result>>
    BY <1>8 DEF Change
  <2>2. changes' \in 0 .. MaxChanges
    BY <2>1, IntrospectorAssumption DEF IInv, Flow
  <2>3. Flow'
    BY <2>1, <2>2 DEF IInv, Flow, IsIncluded, IncludeObjectType
  <2>4. QED
    BY <2>1, <2>3 DEF IInv, Stages, Sources
<1>9. CASE UNCHANGED vars
  BY <1>9 DEF vars, IInv, Flow, Stages, Sources, IsIncluded, IncludeObjectType
<1>10. QED
  BY <1>1, <1>2, <1>3, <1>4, <1>5, <1>6, <1>7, <1>8, <1>9 DEF Next

LEMMA Introspected == ASSUME NamesOnce PROVE Spec => []IInv
  BY InitGood, StepGood, PTL DEF Spec

(***************************************************************************)
(* What follows                                                            *)
(***************************************************************************)

LEMMA GoodTree == IInv => TypeOK
<1> SUFFICES ASSUME IInv PROVE TypeOK
  OBVIOUS
<1>1. phase \in {Phases[i] : i \in DOMAIN Phases}
  <2>1. /\ DOMAIN Phases = 1 .. 13
        /\ Phases[1] = "settings" /\ Phases[2] = "extensions" /\ Phases[3] = "enums"
        /\ Phases[4] = "domains" /\ Phases[5] = "routines" /\ Phases[6] = "views"
        /\ Phases[7] = "tables" /\ Phases[8] = "columns" /\ Phases[9] = "constraints"
        /\ Phases[10] = "indexes" /\ Phases[11] = "triggers" /\ Phases[12] = "marks"
        /\ Phases[13] = "end"
    BY DEF Phases
  <2>2. \A i \in {1, 2, 3, 4, 5, 6, 7, 8, 9, 10, 11, 12, 13} : Phases[i] \in {Phases[j] : j \in DOMAIN Phases}
    BY <2>1
  <2>3. phase \in {Phases[1], Phases[2], Phases[3], Phases[4], Phases[5], Phases[6], Phases[7], Phases[8],
                   Phases[9], Phases[10], Phases[11], Phases[12], Phases[13]}
    BY <2>1 DEF IInv, Flow, RowKinds
  <2>4. QED
    BY <2>2, <2>3
<1>2. ASSUME NEW slot \in DOMAIN catalog.slices
      PROVE  /\ slot.kind \in Kinds
             /\ Len(slot.at) > 0 => slot.at[1] \in DOMAIN Slice(catalog, Schemas)
             /\ Len(slot.at) > 1 => slot.at[2] \in DOMAIN Slice(catalog, Holder(slot))
  <2>1. Held(catalog, slot) /\ slot \in Slots
    BY DEF IInv, Good, Shaped, Held
  <2>2. CASE slot.kind \in {"extensions", "schemas"}
    <3>1. Len(slot.at) = 0 /\ slot.kind \in Kinds
      BY <2>1, <2>2, SlotKinds, PathOf
    <3>2. QED
      BY <3>1
  <2>3. CASE slot.kind \in InSchema
    <3>1. Len(slot.at) = 1 /\ slot.kind \in Kinds /\ slot.at[1] \in DOMAIN Slice(catalog, Schemas)
      BY <2>1, <2>3, SlotKinds, PathOf DEF Held
    <3>2. QED
      BY <3>1
  <2>4. CASE slot.kind \in InOwner
    BY <2>1, <2>4, SlotKinds DEF Held
  <2>5. QED
    BY <2>1, <2>2, <2>3, <2>4, SlotShapes
<1>3. \A id \in DOMAIN catalog.index :
        \E slot \in DOMAIN catalog.slices :
          MapOf(slot.kind) = id.map /\ catalog.index[id] \in DOMAIN catalog.slices[slot]
  BY DEF IInv, Good, Backed, IdOf, Id
<1>4. /\ result \in {"running", "ok", "error", "panic"}
      /\ asked \in BOOLEAN /\ broken \in BOOLEAN /\ changes \in 0 .. MaxChanges
      /\ rows # {} => asked /\ IsIncluded(phase)
      /\ result = "ok" <=> phase = "end"
  BY DEF IInv, Flow
<1>5. QED
  BY <1>1, <1>2, <1>3, <1>4 DEF TypeOK

LEMMA PlacesAre ==
  ASSUME NEW c
  PROVE  /\ \A p \in Places(c) : /\ p = <<p[1], p[2]>> /\ p[1] \in DOMAIN c.slices
                                 /\ p[2] \in DOMAIN c.slices[p[1]]
         /\ \A l \in DOMAIN c.slices : \A i \in DOMAIN c.slices[l] : <<l, i>> \in Places(c)
  BY DEF Places

\* The keys of a table are found by its path.
LEMMA KeysFound ==
  ASSUME NEW c, Good(c), NEW slot \in DOMAIN c.slices, slot.kind = "constraints"
  PROVE  /\ Constraints(slot.at[1], slot.at[2]) = slot /\ Slice(c, slot) = c.slices[slot]
         /\ GetOrNone(c.fkeys, Path(c, slot), {}) = OfType(c, slot, FOREIGN_KEY)
         /\ \/ /\ OfType(c, slot, PRIMARY_KEY) = {} /\ GetOrNone(c.pkeys, Path(c, slot), 0) = 0
            \/ GetOrNone(c.pkeys, Path(c, slot), 0) \in OfType(c, slot, PRIMARY_KEY)
<1>1. slot \in Slots /\ slot.kind \in InOwner
  BY DEF Good, Shaped, Held, InOwner
<1>2. Constraints(slot.at[1], slot.at[2]) = slot
  BY <1>1, SlotKinds DEF Constraints
<1>3. Slice(c, slot) = c.slices[slot]
  BY DEF Slice
<1>4. QED
  BY <1>2, <1>3 DEF Good, Keyed, GetOrNone

LEMMA GoodAgrees == IInv => CacheAgrees
<1> SUFFICES ASSUME IInv PROVE CacheAgrees
  OBVIOUS
<1>1. Good(catalog)
  BY DEF IInv
<1>2. ASSUME NEW p \in Places(catalog), p[1].kind # "extensions", catalog.slices[p[1]][p[2]].name # NoName
      PROVE  LET o == catalog.slices[p[1]][p[2]]
             IN Get(catalog, p[1], o.name, o.args) = p[2]
  <2>1. p[1] \in DOMAIN catalog.slices /\ p[2] \in DOMAIN catalog.slices[p[1]]
    BY PlacesAre
  <2>2. Held(catalog, p[1]) /\ ApartFrom(catalog, p[1])
    BY <1>1, <2>1 DEF Good, Shaped
  <2>3. HasName(p[1], catalog.slices[p[1]][p[2]])
    BY <1>2 DEF HasName
  <2>4. /\ IdOf(catalog, p[1], catalog.slices[p[1]][p[2]]) \in DOMAIN catalog.index
        /\ catalog.index[IdOf(catalog, p[1], catalog.slices[p[1]][p[2]])] = p[2]
    BY <1>1, <2>1, <2>3 DEF Good, Found
  <2>5. ASSUME NEW name, NEW args, Id(catalog, p[1], name, args) \in DOMAIN catalog.index
        PROVE  Get(catalog, p[1], name, args) = catalog.index[Id(catalog, p[1], name, args)]
    BY <1>1, <2>2, <2>5, GetFinds
  <2>6. QED
    BY <2>4, <2>5 DEF IdOf
<1>3. ASSUME NEW slot \in DOMAIN catalog.slices, slot.kind = "constraints"
      PROVE  /\ GetForeignKeys(catalog, slot.at[1], slot.at[2]) = OfType(catalog, slot, FOREIGN_KEY)
             /\ GetPrimaryKey(catalog, slot.at[1], slot.at[2]) \in
                  IF OfType(catalog, slot, PRIMARY_KEY) = {} THEN {0} ELSE OfType(catalog, slot, PRIMARY_KEY)
  <2>1. \A i \in DOMAIN catalog.slices[slot] : ~catalog.slices[slot][i].ignore /\ i # 0
    <3>1. Slice(catalog, slot) = catalog.slices[slot] /\ Shaped(catalog)
      BY <1>1 DEF Good, Slice
    <3>2. \A i \in DOMAIN catalog.slices[slot] : catalog.slices[slot][i] \in Objects /\ i \in Nat \ {0}
      BY <3>1, SliceShaped
    <3>3. QED
      BY <3>2 DEF Objects
  <2>2. OfType(catalog, slot, FOREIGN_KEY) \subseteq DOMAIN catalog.slices[slot]
    BY DEF OfType
  <2>3. OfType(catalog, slot, PRIMARY_KEY) \subseteq DOMAIN catalog.slices[slot]
    BY DEF OfType
  <2>4. GetForeignKeys(catalog, slot.at[1], slot.at[2]) = OfType(catalog, slot, FOREIGN_KEY)
    BY <1>1, <1>3, <2>1, <2>2, KeysFound DEF GetForeignKeys
  <2>5. GetPrimaryKey(catalog, slot.at[1], slot.at[2]) \in
          IF OfType(catalog, slot, PRIMARY_KEY) = {} THEN {0} ELSE OfType(catalog, slot, PRIMARY_KEY)
    BY <1>1, <1>3, <2>1, <2>3, KeysFound DEF GetPrimaryKey
  <2>6. QED
    BY <2>4, <2>5
<1>4. ASSUME NEW slot \in {l \in DOMAIN catalog.slices : l.kind = "constraints"}
      PROVE  /\ GetForeignKeys(catalog, slot.at[1], slot.at[2]) =
                  {i \in DOMAIN catalog.slices[slot] : catalog.slices[slot][i].type = FOREIGN_KEY}
             /\ GetPrimaryKey(catalog, slot.at[1], slot.at[2]) \in
                  IF {i \in DOMAIN catalog.slices[slot] : catalog.slices[slot][i].type = PRIMARY_KEY} = {}
                  THEN {0}
                  ELSE {i \in DOMAIN catalog.slices[slot] : catalog.slices[slot][i].type = PRIMARY_KEY}
  <2>1. slot \in DOMAIN catalog.slices /\ slot.kind = "constraints"
    OBVIOUS
  <2>2. QED
    BY <1>3, <2>1, Zenon DEF OfType
<1>5. QED
  BY <1>2, <1>4 DEF CacheAgrees

LEMMA LatestIs ==
  ASSUME NEW S, S \subseteq Nat, NEW m \in S, \A i \in S : i <= m
  PROVE  Latest(S) = m
<1>1. ASSUME NEW x \in S, \A y \in S : y <= x PROVE x = m
  <2>1. x <= m /\ m <= x /\ x \in Nat /\ m \in Nat
    BY <1>1
  <2>2. QED
    BY <2>1
<1>2. QED
  BY <1>1, Zenon DEF Latest

\* The parts of a cache that is made for a catalog.
IdAt(c, p) == Id(c, p[1], c.slices[p[1]][p[2]].name, c.slices[p[1]][p[2]].args)
NamedPlaces(c) == {p \in Places(c) : IsInNewCache(c, p[1], p[2])}
NamedAt(c, id) == {p[2] : p \in {q \in NamedPlaces(c) : IdAt(c, q) = id}}
KeyPlaces(c, type) == {p \in Places(c) : p[1].kind = "constraints" /\ c.slices[p[1]][p[2]].type = type}
PathsOf(c, type) == {Path(c, p[1]) : p \in KeyPlaces(c, type)}
KeysAt(c, type, path) == {p[2] : p \in {q \in KeyPlaces(c, type) : Path(c, q[1]) = path}}

LEMMA Remade ==
  ASSUME NEW c
  PROVE  LET new == NewCatalogCache(c)
         IN /\ new.index = [id \in {IdAt(c, p) : p \in NamedPlaces(c)} |-> Latest(NamedAt(c, id))]
            /\ new.pkeys = [path \in PathsOf(c, PRIMARY_KEY) |-> Latest(KeysAt(c, PRIMARY_KEY, path))]
            /\ new.fkeys = [path \in PathsOf(c, FOREIGN_KEY) |-> KeysAt(c, FOREIGN_KEY, path)]
  BY DEF NewCatalogCache, IdAt, NamedPlaces, NamedAt, KeyPlaces, PathsOf, KeysAt

\* The one slot of constraints with a path has all of those with the path.
LEMMA KeysOfPath ==
  ASSUME NEW c, Good(c), NEW slot \in DOMAIN c.slices, slot.kind = "constraints", NEW type
  PROVE  /\ KeysAt(c, type, Path(c, slot)) = OfType(c, slot, type)
         /\ Path(c, slot) \in PathsOf(c, type) <=> OfType(c, slot, type) # {}
<1>1. ASSUME NEW p \in KeyPlaces(c, type), Path(c, p[1]) = Path(c, slot)
      PROVE  p[1] = slot /\ p[2] \in OfType(c, slot, type)
  <2>1. /\ p[1] \in DOMAIN c.slices /\ p[2] \in DOMAIN c.slices[p[1]]
        /\ p[1].kind = "constraints" /\ c.slices[p[1]][p[2]].type = type
    BY PlacesAre DEF KeyPlaces
  <2>2. p[1] = slot
    BY <1>1, <2>1, PathsDiffer DEF Good, Shaped
  <2>3. QED
    BY <2>1, <2>2 DEF OfType
<1>2. ASSUME NEW i \in OfType(c, slot, type)
      PROVE  <<slot, i>> \in KeyPlaces(c, type)
  <2>1. i \in DOMAIN c.slices[slot] /\ c.slices[slot][i].type = type
    BY DEF OfType
  <2>2. <<slot, i>>[1] = slot /\ <<slot, i>>[2] = i
    OBVIOUS
  <2>3. QED
    BY <2>1, <2>2, PlacesAre DEF KeyPlaces
<1>3. \A i \in OfType(c, slot, type) : i \in KeysAt(c, type, Path(c, slot)) /\ Path(c, slot) \in PathsOf(c, type)
  <2>1. \A i : <<slot, i>>[1] = slot /\ <<slot, i>>[2] = i
    OBVIOUS
  <2>2. QED
    BY <1>2, <2>1 DEF KeysAt, PathsOf
<1>4. \A i \in KeysAt(c, type, Path(c, slot)) : i \in OfType(c, slot, type)
  BY <1>1 DEF KeysAt
<1>5. Path(c, slot) \in PathsOf(c, type) => OfType(c, slot, type) # {}
  BY <1>1 DEF PathsOf
<1>6. QED
  BY <1>3, <1>4, <1>5

LEMMA PathsOfKeys ==
  ASSUME NEW c, Good(c), NEW type, NEW path \in PathsOf(c, type)
  PROVE  \E slot \in DOMAIN c.slices :
           slot.kind = "constraints" /\ Path(c, slot) = path /\ OfType(c, slot, type) # {}
<1>1. PICK p \in KeyPlaces(c, type) : path = Path(c, p[1])
  BY DEF PathsOf
<1>2. p[1] \in DOMAIN c.slices /\ p[1].kind = "constraints"
  BY PlacesAre DEF KeyPlaces
<1>3. OfType(c, p[1], type) # {}
  BY <1>1, <1>2, KeysOfPath
<1>4. QED
  BY <1>1, <1>2, <1>3

LEMMA KeysRemade ==
  ASSUME NEW c, Good(c)
  PROVE  NewCatalogCache(c).pkeys = c.pkeys /\ NewCatalogCache(c).fkeys = c.fkeys
<1>1. /\ PathsOf(c, PRIMARY_KEY) = DOMAIN c.pkeys
      /\ \A path \in DOMAIN c.pkeys : Latest(KeysAt(c, PRIMARY_KEY, path)) = c.pkeys[path]
  <2>1. \A path \in PathsOf(c, PRIMARY_KEY) : path \in DOMAIN c.pkeys
    BY PathsOfKeys DEF Good, Keyed
  <2>2. ASSUME NEW path \in DOMAIN c.pkeys
        PROVE  path \in PathsOf(c, PRIMARY_KEY) /\ Latest(KeysAt(c, PRIMARY_KEY, path)) = c.pkeys[path]
    <3>1. PICK slot \in DOMAIN c.slices : slot.kind = "constraints" /\ Path(c, slot) = path
      BY DEF Good, Keyed
    <3>2. /\ c.pkeys[path] \in OfType(c, slot, PRIMARY_KEY)
          /\ \A i \in OfType(c, slot, PRIMARY_KEY) : i <= c.pkeys[path]
      BY <3>1 DEF Good, Keyed
    <3>3. OfType(c, slot, PRIMARY_KEY) \subseteq Nat
      <4>1. Slice(c, slot) = c.slices[slot] /\ Shaped(c)
        BY DEF Good, Slice
      <4>2. \A i \in DOMAIN c.slices[slot] : i \in Nat
        BY <4>1, SliceShaped
      <4>3. QED
        BY <4>2 DEF OfType
    <3>4. KeysAt(c, PRIMARY_KEY, path) = OfType(c, slot, PRIMARY_KEY) /\ path \in PathsOf(c, PRIMARY_KEY)
      BY <3>1, <3>2, KeysOfPath
    <3>5. QED
      BY <3>2, <3>3, <3>4, LatestIs
  <2>3. QED
    BY <2>1, <2>2
<1>2. /\ PathsOf(c, FOREIGN_KEY) = DOMAIN c.fkeys
      /\ \A path \in DOMAIN c.fkeys : KeysAt(c, FOREIGN_KEY, path) = c.fkeys[path]
  <2>1. \A path \in PathsOf(c, FOREIGN_KEY) : path \in DOMAIN c.fkeys
    BY PathsOfKeys DEF Good, Keyed
  <2>2. ASSUME NEW path \in DOMAIN c.fkeys
        PROVE  path \in PathsOf(c, FOREIGN_KEY) /\ KeysAt(c, FOREIGN_KEY, path) = c.fkeys[path]
    <3>1. PICK slot \in DOMAIN c.slices : slot.kind = "constraints" /\ Path(c, slot) = path
      BY DEF Good, Keyed
    <3>2. c.fkeys[path] = OfType(c, slot, FOREIGN_KEY) /\ OfType(c, slot, FOREIGN_KEY) # {}
      BY <3>1 DEF Good, Keyed
    <3>3. QED
      BY <3>1, <3>2, KeysOfPath
  <2>3. QED
    BY <2>1, <2>2
<1>3. IsMap(c.pkeys) /\ IsMap(c.fkeys)
  BY DEF Good
<1>4. NewCatalogCache(c).pkeys = [path \in DOMAIN c.pkeys |-> c.pkeys[path]]
  <2>1. NewCatalogCache(c).pkeys =
          [path \in PathsOf(c, PRIMARY_KEY) |-> Latest(KeysAt(c, PRIMARY_KEY, path))]
    BY Remade
  <2>2. QED
    BY <1>1, <2>1
<1>5. NewCatalogCache(c).fkeys = [path \in DOMAIN c.fkeys |-> c.fkeys[path]]
  <2>1. NewCatalogCache(c).fkeys = [path \in PathsOf(c, FOREIGN_KEY) |-> KeysAt(c, FOREIGN_KEY, path)]
    BY Remade
  <2>2. QED
    BY <1>2, <2>1
<1>6. QED
  BY <1>3, <1>4, <1>5 DEF IsMap

LEMMA IndexRemade ==
  ASSUME NEW c, Good(c)
  PROVE  LET new == NewCatalogCache(c)
         IN /\ \A id \in DOMAIN new.index : id \in DOMAIN c.index /\ new.index[id] = c.index[id]
            /\ \A id \in DOMAIN c.index \ DOMAIN new.index :
                 \E slot \in DOMAIN c.slices : /\ slot.kind \in {"view_indexes", "view_triggers"}
                                             /\ MapOf(slot.kind) = id.map /\ Path(c, slot) = id.path
<1> DEFINE new == NewCatalogCache(c)
<1>1. new.index = [id \in {IdAt(c, p) : p \in NamedPlaces(c)} |-> Latest(NamedAt(c, id))]
  BY Remade
<1> HIDE DEF new
<1>2. ASSUME NEW p \in NamedPlaces(c)
      PROVE  IdAt(c, p) \in DOMAIN c.index /\ c.index[IdAt(c, p)] = p[2] /\ p[2] \in Nat
  <2>1. p[1] \in DOMAIN c.slices /\ p[2] \in DOMAIN c.slices[p[1]] /\ IsInNewCache(c, p[1], p[2])
    BY PlacesAre DEF NamedPlaces
  <2>2. HasName(p[1], c.slices[p[1]][p[2]])
    BY <2>1 DEF IsInNewCache, HasName
  <2>3. p[2] \in Nat
    <3>1. Slice(c, p[1]) = c.slices[p[1]] /\ Shaped(c)
      BY <2>1 DEF Good, Slice
    <3>2. QED
      BY <2>1, <3>1, SliceShaped
  <2>4. QED
    BY <2>1, <2>2, <2>3 DEF Good, Found, IdOf, IdAt
<1>3. ASSUME NEW id \in DOMAIN new.index PROVE id \in DOMAIN c.index /\ new.index[id] = c.index[id]
  <2>1. PICK p \in NamedPlaces(c) : id = IdAt(c, p)
    BY <1>1, <1>3
  <2>2. id \in DOMAIN c.index /\ c.index[id] = p[2] /\ p[2] \in Nat
    BY <1>2, <2>1
  <2>3. NamedAt(c, id) = {p[2]}
    BY <1>2, <2>1, <2>2 DEF NamedAt
  <2>4. Latest(NamedAt(c, id)) = p[2]
    BY <2>2, <2>3, LatestIs
  <2>5. QED
    BY <1>1, <1>3, <2>2, <2>4
<1>4. ASSUME NEW id \in DOMAIN c.index \ DOMAIN new.index
      PROVE  \E slot \in DOMAIN c.slices : /\ slot.kind \in {"view_indexes", "view_triggers"}
                                         /\ MapOf(slot.kind) = id.map /\ Path(c, slot) = id.path
  <2>1. PICK slot \in DOMAIN c.slices : \E i \in DOMAIN c.slices[slot] :
          HasName(slot, c.slices[slot][i]) /\ IdOf(c, slot, c.slices[slot][i]) = id
    BY <1>4 DEF Good, Backed
  <2>2. PICK i \in DOMAIN c.slices[slot] :
          HasName(slot, c.slices[slot][i]) /\ IdOf(c, slot, c.slices[slot][i]) = id
    BY <2>1
  <2>3. <<slot, i>> \in Places(c) /\ <<slot, i>>[1] = slot /\ <<slot, i>>[2] = i
    BY PlacesAre
  <2>4. IdAt(c, <<slot, i>>) = id
    BY <2>2, <2>3 DEF IdAt, IdOf
  <2>5. ~IsInNewCache(c, slot, i)
    BY <1>1, <1>4, <2>3, <2>4 DEF NamedPlaces
  <2>6. slot.kind \in {"view_indexes", "view_triggers"}
    BY <2>2, <2>5 DEF IsInNewCache, HasName
  <2>7. MapOf(slot.kind) = id.map /\ Path(c, slot) = id.path
    BY <2>2 DEF IdOf, Id
  <2>8. QED
    BY <2>6, <2>7
<1>5. QED
  BY <1>3, <1>4 DEF new

LEMMA GoodRemade == IInv => RemadeAlike
  BY KeysRemade, IndexRemade DEF IInv, RemadeAlike

(***************************************************************************)
(* Without changes, the columns of the constraints are there               *)
(***************************************************************************)

\* A constraint of one column is of a column of a table.
Referring ==
  \A d \in Dialects : \A D \in Databases[d] : \A k \in D :
    k.kind = "constraints" /\ Len(k.columns) = 1 /\ k.type \in Types =>
      /\ \E u \in D : u.kind = "tables" /\ u.schema = k.schema /\ u.name = k.owner
      /\ \E x \in D : /\ x.kind = "columns" /\ x.schema = k.schema /\ x.owner = k.owner
                      /\ x.name = k.columns[1]

\* There is an object without arguments.
Has(c, kind, path, name) ==
  \E l \in DOMAIN c.slices :
    /\ l.kind = kind /\ Path(c, l) = path
    /\ \E i \in DOMAIN c.slices[l] : c.slices[l][i].name = name /\ c.slices[l][i].args = Blank

Past(kind) ==
  IF kind = "tables" THEN {"columns", "constraints", "indexes", "triggers", "marks", "end"}
  ELSE {"constraints", "indexes", "triggers", "marks", "end"}

\* The row has been added, if it was to be.
Done(r) == phase \in Past(r.kind) \/ (phase = r.kind /\ asked /\ r \notin rows)

HasTable(r) == \E u \in GetTables : u.schema = r.schema /\ u.name = r.owner

TablesRead ==
  \A r \in GetTables : IsIncluded("tables") /\ Done(r) => Has(catalog, "tables", <<r.schema>>, r.name)

ColumnsRead ==
  \A r \in GetColumns :
    IsIncluded("tables") /\ Done(r) /\ HasTable(r) =>
      Has(catalog, "columns", <<r.schema, r.owner>>, r.name)

KeysRead ==
  /\ phase = "constraints" => rows \subseteq GetConstraints
  /\ \A l \in DOMAIN catalog.slices : l.kind = "constraints" =>
       \A i \in DOMAIN catalog.slices[l] :
         \E r \in GetConstraints :
           /\ IsIncluded("tables") /\ Path(catalog, l) = <<r.schema, r.owner>>
           /\ catalog.slices[l][i] = ObjectOf(r)

Complete ==
  /\ changes = 0 /\ result = "running" => TablesRead /\ ColumnsRead /\ KeysRead
  /\ PanicsAreKnown

LEMMA GetIs ==
  ASSUME NEW c, Good(c), NEW l \in DOMAIN c.slices, NEW i \in DOMAIN c.slices[l],
         HasName(l, c.slices[l][i]), NEW name, NEW args,
         c.slices[l][i].name = name, c.slices[l][i].args = args
  PROVE  Get(c, l, name, args) = i /\ i # 0
<1>1. Id(c, l, name, args) \in DOMAIN c.index /\ c.index[Id(c, l, name, args)] = i
  BY DEF Good, Found, IdOf
<1>2. Held(c, l) /\ ApartFrom(c, l)
  BY DEF Good, Shaped
<1>3. Get(c, l, name, args) = c.index[Id(c, l, name, args)] /\ Get(c, l, name, args) \in Nat \ {0}
  BY <1>1, <1>2, GetFinds
<1>4. QED
  BY <1>1, <1>3

LEMMA SchemaGet ==
  ASSUME NEW c, Good(c), NEW s \in DOMAIN Slice(c, Schemas), NEW name, Slice(c, Schemas)[s].name = name
  PROVE  Get(c, Schemas, name, Blank) = s /\ s # 0
<1>1. /\ Schemas \in DOMAIN c.slices /\ s \in DOMAIN c.slices[Schemas]
      /\ Slice(c, Schemas)[s] = c.slices[Schemas][s]
  BY SliceShaped DEF Good
<1>2. c.slices[Schemas][s].args = Blank /\ HasName(Schemas, c.slices[Schemas][s])
  BY <1>1, SchemasIs DEF Good, Shaped, Plain, HasName
<1>3. QED
  BY <1>1, <1>2, GetIs

LEMMA TableGet ==
  ASSUME NEW c, Good(c), NEW schema, NEW name, Has(c, "tables", <<schema>>, name)
  PROVE  LET s == Get(c, Schemas, schema, Blank)
         IN s # 0 /\ Get(c, Slot("tables", <<s>>), name, Blank) # 0
<1>1. PICK l \in DOMAIN c.slices :
        /\ l.kind = "tables" /\ Path(c, l) = <<schema>>
        /\ \E i \in DOMAIN c.slices[l] : c.slices[l][i].name = name /\ c.slices[l][i].args = Blank
  BY DEF Has
<1>2. l \in Slots /\ Held(c, l) /\ l.kind \in InSchema
  BY <1>1 DEF Good, Shaped, Held, InSchema
<1>3. /\ l.at[1] \in DOMAIN Slice(c, Schemas) /\ l = Slot("tables", <<l.at[1]>>)
      /\ Path(c, l) = <<Slice(c, Schemas)[l.at[1]].name>>
  BY <1>1, <1>2, SlotKinds, PathOf DEF Held
<1>4. Slice(c, Schemas)[l.at[1]].name = schema
  BY <1>1, <1>3
<1>5. Get(c, Schemas, schema, Blank) = l.at[1] /\ l.at[1] # 0
  BY <1>3, <1>4, SchemaGet
<1>6. PICK i \in DOMAIN c.slices[l] : c.slices[l][i].name = name /\ c.slices[l][i].args = Blank
  BY <1>1
<1>7. HasName(l, c.slices[l][i])
  BY <1>1 DEF HasName
<1>8. Get(c, l, name, Blank) # 0
  BY <1>6, <1>7, GetIs
<1>9. QED
  BY <1>3, <1>5, <1>8

\* The column of a constraint is in the slice that the loop looks at.
LEMMA ColumnGet ==
  ASSUME NEW c, Good(c), NEW k \in DOMAIN c.slices, k.kind = "constraints", NEW name,
         Has(c, "columns", Path(c, k), name)
  PROVE  Get(c, Columns(k.at[1], k.at[2]), name, Blank) # 0
<1>1. PICK l \in DOMAIN c.slices :
        /\ l.kind = "columns" /\ Path(c, l) = Path(c, k)
        /\ \E i \in DOMAIN c.slices[l] : c.slices[l][i].name = name /\ c.slices[l][i].args = Blank
  BY DEF Has
<1> DEFINE slot == Columns(k.at[1], k.at[2])
<1>2. Held(c, k) /\ Held(c, l) /\ k \in Slots /\ k.kind \in InOwner /\ k.kind \notin OfViews
  BY DEF Good, Shaped, Held, InOwner, OfViews
<1>3. k.at[1] \in Nat /\ k.at[2] \in Nat
  BY <1>2, SlotKinds
<1>4. slot \in Slots /\ slot.kind = "columns" /\ slot.at[1] = k.at[1] /\ slot.at[2] = k.at[2]
  <2>1. slot = Slot("columns", <<k.at[1], k.at[2]>>)
    BY DEF Columns
  <2>2. slot \in Slots
    BY <1>3, <2>1 DEF Slots, InOwner
  <2>3. QED
    BY <2>1, <2>2, SlotOf
<1>5. Holder(slot) = Holder(k)
  BY <1>2, <1>4 DEF Holder, OfViews
<1> HIDE DEF slot
<1>6. Held(c, slot) /\ Path(c, slot) = Path(c, k)
  <2>1. slot.kind \in InOwner
    BY <1>4 DEF InOwner
  <2>2. QED
    BY <1>2, <1>4, <1>5, <2>1, PathOf DEF Held
<1>7. l = slot
  BY <1>1, <1>2, <1>4, <1>6, PathsDiffer DEF Good
<1>8. PICK i \in DOMAIN c.slices[l] : c.slices[l][i].name = name /\ c.slices[l][i].args = Blank
  BY <1>1
<1>9. HasName(l, c.slices[l][i])
  BY <1>1 DEF HasName
<1>10. QED
  BY <1>7, <1>8, <1>9, GetIs DEF slot

LEMMA TableHolds ==
  ASSUME NEW c, Good(c), NEW r, RowOK(r), r.kind = "tables", \A l \in DOMAIN c.slices : Len(l.at) <= 1
  PROVE  Holds(AddRow(c, r), r)
<1>1. AddRow(c, r) = AddToSchema(c, r) /\ r.kind \in InSchema
  BY DEF AddRow, InSchema
<1>2. QED
  BY <1>1, SchemaAdds

LEMMA ColumnHolds ==
  ASSUME NEW c, Good(c), NEW r, RowOK(r), r.kind = "columns", Has(c, "tables", <<r.schema>>, r.owner)
  PROVE  Holds(AddRow(c, r), r)
<1>1. AddRow(c, r) = AddToOwner(c, r) /\ ~r.ofView
  BY DEF AddRow, RowOK
<1>2. OwnersAgree(c, r)
  BY DEF RowOK, OwnersAgree, MapOf, OfViews
<1> DEFINE s == Get(c, Schemas, r.schema, Blank)
<1>3. s # 0 /\ Get(c, Slot("tables", <<s>>), r.owner, Blank) # 0
  BY TableGet
<1>4. ~r.ofView /\ s # 0 /\ Get(c, Slot("tables", <<s>>), r.owner, Blank) # 0 => Holds(AddToOwner(c, r), r)
  BY <1>2, OwnerAdds
<1>5. QED
  BY <1>1, <1>3, <1>4

LEMMA HasKept ==
  ASSUME NEW c, NEW d, NEW r, Good(c), Adds(c, d, r), NEW kind, NEW path, NEW name, Has(c, kind, path, name)
  PROVE  Has(d, kind, path, name)
<1>1. PICK l \in DOMAIN c.slices :
        /\ l.kind = kind /\ Path(c, l) = path
        /\ \E i \in DOMAIN c.slices[l] : c.slices[l][i].name = name /\ c.slices[l][i].args = Blank
  BY DEF Has
<1>2. PICK i \in DOMAIN c.slices[l] : c.slices[l][i].name = name /\ c.slices[l][i].args = Blank
  BY <1>1
<1>3. Held(c, l) /\ Kept(c, d) /\ l \in DOMAIN d.slices
  BY DEF Good, Shaped, Adds
<1>4. Path(d, l) = path
  BY <1>1, <1>3, HeldKept
<1>5. Slice(c, l) = c.slices[l] /\ Slice(d, l) = d.slices[l]
  BY <1>3 DEF Slice
<1>6. i \in DOMAIN d.slices[l] /\ d.slices[l][i].name = name /\ d.slices[l][i].args = Blank
  BY <1>2, <1>3, <1>5 DEF Kept
<1>7. QED
  BY <1>1, <1>3, <1>4, <1>6 DEF Has

LEMMA HoldsHas ==
  ASSUME NEW d, NEW r, RowOK(r), Holds(d, r)
  PROVE  /\ r.kind = "tables" => Has(d, "tables", <<r.schema>>, r.name)
         /\ r.kind = "columns" => Has(d, "columns", <<r.schema, r.owner>>, r.name)
<1>1. PICK l \in DOMAIN d.slices : IsFor(d, l, r) /\ \E i \in DOMAIN d.slices[l] : d.slices[l][i] = ObjectOf(r)
  BY DEF Holds
<1>2. PICK i \in DOMAIN d.slices[l] : d.slices[l][i] = ObjectOf(r)
  BY <1>1
<1>3. r.kind \in {"tables", "columns"} => ObjectOf(r).name = r.name /\ ObjectOf(r).args = Blank
  BY ObjectsOf DEF RowOK
<1>4. r.kind = "tables" => l.kind = "tables" /\ Path(d, l) = <<r.schema>>
  BY <1>1 DEF IsFor, MapOf, InSchema
<1>5. r.kind = "columns" => l.kind = "columns" /\ Path(d, l) = <<r.schema, r.owner>>
  BY <1>1 DEF IsFor, MapOf, InOwner
<1>6. QED
  BY <1>2, <1>3, <1>4, <1>5 DEF Has

LEMMA PastSuccessor ==
  ASSUME NEW p \in RowKinds \cup {"settings"}, NEW k \in {"tables", "columns"}, Successor(p) \in Past(k)
  PROVE  p \in Past(k) \cup {k}
  BY Successors DEF RowKinds, Past

LEMMA KindsRead ==
  /\ \A r \in GetTables : r.kind = "tables"
  /\ \A r \in GetColumns : r.kind = "columns"
  /\ IsIncluded("columns") <=> IsIncluded("tables")
  /\ IsIncluded("constraints") <=> IsIncluded("tables")
  BY DEF GetTables, GetColumns, Rows, IsIncluded

\* From one kind to the next.
LEMMA CompleteOn ==
  ASSUME IInv, Complete, result = "running", phase \in RowKinds \cup {"settings"}, rows = {},
         asked \/ ~IsIncluded(phase) \/ phase = "settings",
         phase' = Successor(phase), asked' = FALSE,
         UNCHANGED <<dialect, filter, database, changes, catalog, rows, broken, result>>
  PROVE  Complete'
<1> SUFFICES ASSUME changes = 0 PROVE TablesRead' /\ ColumnsRead' /\ KeysRead'
  BY DEF Complete, PanicsAreKnown
<1>1. TablesRead /\ ColumnsRead /\ KeysRead
  BY DEF Complete
<1>2. GetTables' = GetTables /\ GetColumns' = GetColumns /\ GetConstraints' = GetConstraints
  BY DEF GetTables, GetColumns, GetConstraints, Rows, InFilter
<1>3. IsIncluded("tables")' = IsIncluded("tables")
  BY DEF IsIncluded, IncludeObjectType
<1>4. ASSUME NEW r, r.kind \in {"tables", "columns"}, IsIncluded("tables"), Done(r)' PROVE Done(r)
  <2>1. phase' \in Past(r.kind)
    BY <1>4 DEF Done
  <2>2. phase \in Past(r.kind) \cup {r.kind}
    BY <1>4, <2>1, PastSuccessor
  <2>3. phase = r.kind => asked
    BY <1>4, KindsRead
  <2>4. QED
    BY <2>2, <2>3 DEF Done
<1>5. TablesRead'
  BY <1>1, <1>2, <1>3, <1>4, KindsRead DEF TablesRead
<1>6. ColumnsRead'
  BY <1>1, <1>2, <1>3, <1>4, KindsRead DEF ColumnsRead, HasTable
<1>7. KeysRead'
  BY <1>1, <1>2, <1>3 DEF KeysRead
<1>8. QED
  BY <1>5, <1>6, <1>7

\* Rows are there to be added.
LEMMA CompleteAnswered ==
  ASSUME IInv, Complete, Asks, rows' \in SUBSET Answer, rows' = Answer \/ phase = "triggers", asked',
         UNCHANGED <<dialect, filter, database, changes, catalog, phase, result>>
  PROVE  Complete'
<1> SUFFICES ASSUME changes = 0, result = "running" PROVE TablesRead' /\ ColumnsRead' /\ KeysRead'
  BY DEF Complete, PanicsAreKnown, Asks
<1>1. TablesRead /\ ColumnsRead /\ KeysRead
  BY DEF Complete
<1>2. GetTables' = GetTables /\ GetColumns' = GetColumns /\ GetConstraints' = GetConstraints
  BY DEF GetTables, GetColumns, GetConstraints, Rows, InFilter
<1>3. IsIncluded("tables")' = IsIncluded("tables")
  BY DEF IsIncluded, IncludeObjectType
<1>4. /\ phase = "tables" => rows' = GetTables
      /\ phase = "columns" => rows' = GetColumns
      /\ phase = "constraints" => rows' = GetConstraints
  BY DEF Answer
<1>5. /\ \A r \in GetTables : Done(r)' => Done(r)
      /\ \A r \in GetColumns : Done(r)' => Done(r)
  BY <1>4, KindsRead DEF Done
<1>6. TablesRead'
  BY <1>1, <1>2, <1>3, <1>5 DEF TablesRead
<1>7. ColumnsRead'
  BY <1>1, <1>2, <1>3, <1>5 DEF ColumnsRead, HasTable
<1>8. KeysRead'
  BY <1>1, <1>2, <1>3, <1>4 DEF KeysRead
<1>9. QED
  BY <1>6, <1>7, <1>8

\* A row is added.
LEMMA CompleteAdd ==
  ASSUME IInv, Complete, AddNext PROVE Complete'
<1> SUFFICES ASSUME changes = 0, result = "running" PROVE TablesRead' /\ ColumnsRead' /\ KeysRead'
  BY DEF AddNext, unchanged, Complete, PanicsAreKnown
<1>1. TablesRead /\ ColumnsRead /\ KeysRead
  BY DEF Complete
<1>2. /\ asked /\ phase \in RowKinds /\ IsIncluded(phase)
      /\ UNCHANGED <<dialect, filter, database, changes, phase, asked, broken, result>>
  BY DEF AddNext, unchanged, IInv, Flow
<1>3. GetTables' = GetTables /\ GetColumns' = GetColumns /\ GetConstraints' = GetConstraints
  BY <1>2 DEF GetTables, GetColumns, GetConstraints, Rows, InFilter
<1>4. IsIncluded("tables")' = IsIncluded("tables")
  BY <1>2 DEF IsIncluded, IncludeObjectType
<1>5. PICK r \in rows : catalog' = AddRow(catalog, r) /\ rows' = rows \ {r}
  BY DEF AddNext
<1>6. Good(catalog) /\ RowOK(r) /\ r.kind = phase /\ Adds(catalog, catalog', r)
  BY <1>2, <1>5, RowEnters DEF IInv, Flow
<1>7. \A q : Done(q)' => Done(q) \/ q = r
  BY <1>2, <1>5 DEF Done
<1>8. TablesRead'
  <2>1. ASSUME NEW q \in GetTables, IsIncluded("tables"), Done(q)'
        PROVE  Has(catalog', "tables", <<q.schema>>, q.name)
    <3>1. CASE Done(q)
      <4>1. Has(catalog, "tables", <<q.schema>>, q.name)
        BY <1>1, <2>1, <3>1 DEF TablesRead
      <4>2. QED
        BY <1>6, <4>1, HasKept
    <3>2. CASE q = r
      <4>1. r.kind = "tables"
        BY <2>1, <3>2, KindsRead
      <4>2. Holds(catalog', r)
        BY <1>5, <1>6, <4>1, TableHolds DEF IInv, Stages, ToTables
      <4>3. QED
        BY <1>6, <3>2, <4>1, <4>2, HoldsHas
    <3>3. QED
      BY <1>7, <2>1, <3>1, <3>2
  <2>2. QED
    BY <1>3, <1>4, <2>1 DEF TablesRead
<1>9. ColumnsRead'
  <2>1. ASSUME NEW q \in GetColumns, IsIncluded("tables"), Done(q)', HasTable(q)
        PROVE  Has(catalog', "columns", <<q.schema, q.owner>>, q.name)
    <3>1. CASE Done(q)
      <4>1. Has(catalog, "columns", <<q.schema, q.owner>>, q.name)
        BY <1>1, <2>1, <3>1 DEF ColumnsRead
      <4>2. QED
        BY <1>6, <4>1, HasKept
    <3>2. CASE q = r
      <4>1. r.kind = "columns" /\ phase = "columns"
        BY <1>6, <2>1, <3>2, KindsRead
      <4>2. PICK u \in GetTables : u.schema = r.schema /\ u.name = r.owner
        BY <2>1, <3>2 DEF HasTable
      <4>3. Done(u)
        BY <4>1, <4>2, KindsRead DEF Done, Past
      <4>4. Has(catalog, "tables", <<r.schema>>, r.owner)
        BY <1>1, <2>1, <4>2, <4>3 DEF TablesRead
      <4>5. Holds(catalog', r)
        BY <1>5, <1>6, <4>1, <4>4, ColumnHolds
      <4>6. QED
        BY <1>6, <3>2, <4>1, <4>5, HoldsHas
    <3>3. QED
      BY <1>7, <2>1, <3>1, <3>2
  <2>2. \A q : HasTable(q)' <=> HasTable(q)
    BY <1>3 DEF HasTable
  <2>3. QED
    BY <1>3, <1>4, <2>1, <2>2 DEF ColumnsRead
<1>10. KeysRead'
  <2>1. phase' = "constraints" => rows' \subseteq GetConstraints'
    BY <1>1, <1>2, <1>3, <1>5 DEF KeysRead
  <2>2. ASSUME NEW l \in DOMAIN catalog'.slices, l.kind = "constraints", NEW i \in DOMAIN catalog'.slices[l]
        PROVE  \E q \in GetConstraints :
                 /\ IsIncluded("tables") /\ Path(catalog', l) = <<q.schema, q.owner>>
                 /\ catalog'.slices[l][i] = ObjectOf(q)
    <3>1. CASE /\ l \in DOMAIN catalog.slices /\ i \in DOMAIN catalog.slices[l]
               /\ catalog'.slices[l][i] = catalog.slices[l][i]
      <4>1. Path(catalog', l) = Path(catalog, l)
        BY <1>6, <3>1, HeldKept DEF Good, Shaped, Adds
      <4>2. QED
        BY <1>1, <2>2, <3>1, <4>1 DEF KeysRead
    <3>2. CASE IsFor(catalog', l, r) /\ catalog'.slices[l][i] = ObjectOf(r)
      <4>1. phase = "constraints" /\ Path(catalog', l) = <<r.schema, r.owner>>
        BY <1>6, <2>2, <3>2 DEF IsFor, MapOf, InOwner
      <4>2. r \in GetConstraints /\ IsIncluded("tables")
        BY <1>1, <1>2, <1>5, <4>1, KindsRead DEF KeysRead
      <4>3. QED
        BY <3>2, <4>1, <4>2
    <3>3. QED
      BY <1>6, <2>2, <3>1, <3>2 DEF Adds
  <2>3. QED
    BY <1>3, <1>4, <2>1, <2>2 DEF KeysRead
<1>11. QED
  BY <1>8, <1>9, <1>10

LEMMA PanicKnown ==
  ASSUME Referring, IInv, Complete, changes = 0, result = "running", phase = "marks", Panics
  PROVE  \E k \in database : IsTooMuch(k)
<1>1. TablesRead /\ ColumnsRead /\ KeysRead /\ Good(catalog)
  BY DEF Complete, IInv
<1>2. PICK p \in OfOneColumn :
        \/ ColumnAt(p) = 0
        \/ catalog.slices[p[1]][p[2]].type = FOREIGN_KEY /\ ~catalog.slices[p[1]][p[2]].data.refs
  BY DEF Panics
<1> DEFINE o == catalog.slices[p[1]][p[2]]
<1>3. /\ p[1] \in DOMAIN catalog.slices /\ p[2] \in DOMAIN catalog.slices[p[1]]
      /\ p[1].kind = "constraints" /\ Len(o.data.columns) = 1 /\ o.type \in Types
  BY PlacesAre DEF OfOneColumn
<1>4. PICK r \in GetConstraints :
        /\ IsIncluded("tables") /\ Path(catalog, p[1]) = <<r.schema, r.owner>>
        /\ o = ObjectOf(r)
  BY <1>1, <1>3 DEF KeysRead
<1>5. o.data.columns = r.columns /\ o.data.refs = r.refs /\ o.type = r.type
  BY <1>4 DEF ObjectOf, Object
<1>6. /\ ColumnAt(p) = Get(catalog, Columns(p[1].at[1], p[1].at[2]), o.data.columns[1], Blank)
      /\ ColumnAt(p) = 0 \/ (o.type = FOREIGN_KEY /\ ~o.data.refs)
  BY <1>2 DEF ColumnAt
<1> HIDE DEF o
<1>7. PICK k \in database :
        /\ k.kind = "constraints" /\ InFilter(k.owner) /\ k.form # "quoted"
        /\ r = [k EXCEPT !.name = IF dialect = "sqlite" THEN NoName ELSE @]
  BY <1>4 DEF GetConstraints, Rows
<1>8. k \in DatabaseRow
  BY IntrospectorAssumption DEF IInv, Flow
<1>9. /\ r.schema = k.schema /\ r.owner = k.owner /\ r.columns = k.columns
      /\ r.type = k.type /\ r.refs = k.refs
  BY <1>7, <1>8 DEF DatabaseRow
<1>10. Len(k.columns) = 1 /\ k.type \in Types
  BY <1>3, <1>5, <1>9
<1>11. CASE o.type = FOREIGN_KEY /\ ~o.data.refs
  BY <1>5, <1>7, <1>9, <1>10, <1>11 DEF IsTooMuch
<1>12. CASE k.form = "special"
  BY <1>7, <1>10, <1>12 DEF IsTooMuch
<1>13. ASSUME k.form # "special" PROVE ColumnAt(p) # 0
  <2>1. PICK u \in database : u.kind = "tables" /\ u.schema = k.schema /\ u.name = k.owner
    BY <1>7, <1>10 DEF Referring, IInv, Flow
  <2>2. PICK x \in database : /\ x.kind = "columns" /\ x.schema = k.schema /\ x.owner = k.owner
                             /\ x.name = k.columns[1]
    BY <1>7, <1>10 DEF Referring, IInv, Flow
  <2>3. u.form = k.form /\ x.form = k.form
    <3>1. ~u.ofView /\ ~x.ofView /\ ~k.ofView
      BY <1>7, <2>1, <2>2, IntrospectorAssumption DEF IInv, Flow
    <3>2. IsOfTable(u) /\ IsOfTable(x) /\ IsOfTable(k)
      BY <1>7, <2>1, <2>2, <3>1 DEF IsOfTable
    <3>3. OwnerOf(u) = k.owner /\ OwnerOf(x) = k.owner /\ OwnerOf(k) = k.owner
      BY <1>7, <2>1, <2>2 DEF OwnerOf
    <3>4. QED
      BY <2>1, <2>2, <3>2, <3>3, IntrospectorAssumption DEF IInv, Flow
  <2>4. x \in GetColumns
    BY <1>7, <1>13, <2>2, <2>3 DEF GetColumns, Rows
  <2>5. HasTable(x)
    BY <1>7, <1>13, <2>1, <2>2, <2>3 DEF HasTable, GetTables, Rows
  <2>6. Done(x)
    BY <2>2 DEF Done, Past
  <2>7. Has(catalog, "columns", <<x.schema, x.owner>>, x.name)
    BY <1>1, <1>4, <2>4, <2>5, <2>6 DEF ColumnsRead
  <2>8. Has(catalog, "columns", Path(catalog, p[1]), o.data.columns[1])
    BY <1>4, <1>5, <1>9, <2>2, <2>7
  <2>9. QED
    BY <1>1, <1>3, <1>6, <2>8, ColumnGet
<1>14. QED
  BY <1>6, <1>11, <1>12, <1>13

LEMMA StepComplete == ASSUME NamesOnce, Referring PROVE IInv /\ Complete /\ [Next]_vars => Complete'
<1> SUFFICES ASSUME IInv, Complete, [Next]_vars PROVE Complete'
  OBVIOUS
<1>1. CASE Pass
  <2>1. phase \in RowKinds \cup {"settings"}
    BY <1>1 DEF Pass, IInv, Flow, IsIncluded
  <2>2. ~asked /\ rows = {}
    BY <1>1 DEF Pass, IInv, Flow, RowKinds
  <2>3. asked = FALSE
    BY <2>2 DEF IInv, Flow
  <2>4. QED
    BY <1>1, <2>1, <2>2, <2>3, CompleteOn DEF Pass, unchanged
<1>2. CASE Ask
  BY <1>2, CompleteAnswered DEF Ask, unchanged
<1>3. CASE QueryFails
  BY <1>3 DEF QueryFails, unchanged, Complete, PanicsAreKnown
<1>4. CASE BreakOff
  <2>1. CASE phase = "triggers"
    <3>1. PICK r \in Answer : rows' = {q \in Answer : Precedes(q, r)} /\ asked' = TRUE /\ broken' = TRUE
      BY <1>4, <2>1 DEF BreakOff
    <3>2. rows' \in SUBSET Answer
      BY <3>1
    <3>3. QED
      BY <1>4, <2>1, <3>1, <3>2, CompleteAnswered DEF BreakOff, unchanged
  <2>2. CASE phase # "triggers"
    <3>1. result' = "error"
      BY <1>4, <2>2 DEF BreakOff
    <3>2. QED
      BY <3>1 DEF Complete, PanicsAreKnown
  <2>3. QED
    BY <2>1, <2>2
<1>5. CASE AddNext
  BY <1>5, CompleteAdd
<1>6. CASE NextQuery
  <2>1. phase \in RowKinds
    BY <1>6 DEF NextQuery, IInv, Flow
  <2>2. QED
    BY <1>6, <2>1, CompleteOn DEF NextQuery, unchanged
<1>7. CASE Mark
  <2>1. result' = "panic" => Panics
    BY <1>7 DEF Mark
  <2>2. result' # "running" /\ changes' = changes /\ changes \in Nat /\ result = "running" /\ phase = "marks"
    BY <1>7, IntrospectorAssumption DEF Mark, unchanged, IInv, Flow
  <2>3. result' = "panic" => changes > 0 \/ \E k \in database : IsTooMuch(k)
    BY <2>1, <2>2, PanicKnown
  <2>4. database' = database /\ filter' = filter
    BY <1>7 DEF Mark, unchanged
  <2>5. \A k : IsTooMuch(k)' <=> IsTooMuch(k)
    BY <2>4 DEF IsTooMuch, InFilter
  <2>6. QED
    BY <2>2, <2>3, <2>4, <2>5 DEF Complete, PanicsAreKnown
<1>8. CASE Change
  <2>1. changes' # 0 /\ result' = "running"
    BY <1>8, IntrospectorAssumption DEF Change, IInv, Flow
  <2>2. QED
    BY <2>1 DEF Complete, PanicsAreKnown
<1>9. CASE UNCHANGED vars
  <2>1. UNCHANGED <<dialect, filter, database, changes, catalog, phase, rows, asked, result>>
    BY <1>9 DEF vars
  <2>2. GetTables' = GetTables /\ GetColumns' = GetColumns /\ GetConstraints' = GetConstraints
    BY <2>1 DEF GetTables, GetColumns, GetConstraints, Rows, InFilter
  <2>3. IsIncluded("tables")' = IsIncluded("tables")
    BY <2>1 DEF IsIncluded, IncludeObjectType
  <2>4. \A k : IsTooMuch(k)' <=> IsTooMuch(k)
    BY <2>1 DEF IsTooMuch, InFilter
  <2>5. PanicsAreKnown' <=> PanicsAreKnown
    BY <2>1, <2>4 DEF PanicsAreKnown
  <2>6. QED
    BY <2>1, <2>2, <2>3, <2>5 DEF Complete, TablesRead, ColumnsRead, KeysRead, HasTable, Done
<1>10. QED
  BY <1>1, <1>2, <1>3, <1>4, <1>5, <1>6, <1>7, <1>8, <1>9 DEF Next

LEMMA InitComplete == Init => Complete
<1> SUFFICES ASSUME Init PROVE Complete
  OBVIOUS
<1>1. rows = {} /\ ~asked /\ phase = "settings" /\ result = "running" /\ DOMAIN catalog.slices = {}
  BY DEF Init, EmptyCache
<1>2. \A r : ~Done(r)
  BY <1>1 DEF Done, Past
<1>3. QED
  BY <1>1, <1>2 DEF Complete, PanicsAreKnown, TablesRead, ColumnsRead, KeysRead

(***************************************************************************)
(* Theorems                                                                *)
(***************************************************************************)

\* The catalog is a tree that its cache points into, and the introspection is where its
\* variables say, whatever the databases are (DatabaseIntrospector.WriteCatalog).
THEOREM IntrospectionTypes == ASSUME NamesOnce PROVE Spec => []TypeOK
  BY Introspected, GoodTree, PTL

\* The cache finds every object that the introspection has added, under its name and as a
\* key of its table, however the database changes between the queries.
THEOREM CacheFindsAll == ASSUME NamesOnce PROVE Spec => []CacheAgrees
  BY Introspected, GoodAgrees, PTL

\* A cache that is made for the catalog of an introspection (NewCatalogCache) finds what
\* the one does that it was written with, but for what it passes over of views.
THEOREM RemadeIsAlike == ASSUME NamesOnce PROVE Spec => []RemadeAlike
  BY Introspected, GoodRemade, PTL

\* The loop at the end, which follows pointers without a look, does so in a database that
\* does not change meanwhile, in which the columns of constraints exist, for a constraint of
\* one column of a table that the scripts for tables and columns leave out, or for a foreign
\* key that names no columns, and for nothing else.
THEOREM PanicsKnown == ASSUME NamesOnce, Referring PROVE Spec => []PanicsAreKnown
<1>1. Init => IInv /\ Complete
  BY InitGood, InitComplete
<1>2. IInv /\ Complete /\ [Next]_vars => (IInv /\ Complete)'
  BY StepGood, StepComplete
<1>3. Complete => PanicsAreKnown
  BY DEF Complete
<1>4. QED
  BY <1>1, <1>2, <1>3, PTL DEF Spec

=============================================================================
