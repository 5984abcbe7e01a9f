--------------------------- MODULE DocumentsProofs ---------------------------
(***************************************************************************)
(* Proofs of the properties of Documents, for any specification and any    *)
(* documents that DocumentsAssumption admits.  A valid document sets       *)
(* disjoint parts of the message, so that what is set first is never       *)
(* overwritten and the order does not matter; a packed message has leaves  *)
(* of the specification and unknown tags, no two of them one within the    *)
(* other, and so the document made of it is valid again.  Of its paths     *)
(* only the unknown tags inside of another have no place in a message.     *)
(***************************************************************************)
EXTENDS Documents, SequenceTheorems, FiniteSetTheorems, TLAPS

Path == Seq([name : STRING, style : Styles])

Packing == phase \in {"text", "binary", "tlv", "packed"}

Disjoint(E) == \A e, f \in E : e # f => Carried(e) \cap Carried(f) = {}

\* The message m is what the entries E say.
Carries(m, E) ==
  /\ m = [l \in DOMAIN m |-> m[l]]
  /\ DOMAIN m = UNION {Carried(e) : e \in E}
  /\ \A e \in E : \A l \in Carried(e) : m[l] = Wire(l, e.value)

-----------------------------------------------------------------------------
(* Paths *)

LEMMA PathFacts ==
  ASSUME NEW path \in Path
  PROVE  /\ Target(path) \in Seq(STRING) /\ Len(Target(path)) = Len(path)
         /\ CanonicalPath(path) \in Seq(Seq(STRING))
         /\ Len(CanonicalPath(path)) = Len(path)
         /\ \A i \in 1..Len(path) :
              Target(path)[i] = path[i].name /\ CanonicalPath(path)[i] = <<path[i].name>>
<1> DEFINE n == Len(path)
           R == [name : STRING, style : Styles]
<1>1. path \in Seq(R) /\ n \in Nat /\ DOMAIN path = 1..n
  BY DEF Path
<1>2. \A i \in 1..n : path[i] \in R
  <2> HIDE DEF R
  <2> QED BY <1>1
<1>3. \A i \in 1..n : path[i].name \in STRING
  BY <1>2
<1>4. Target(path) = [i \in 1..n |-> path[i].name]
  BY <1>1 DEF Target
<1>5. CanonicalPath(path) = [i \in 1..n |-> <<path[i].name>>]
  BY <1>1 DEF CanonicalPath
<1>6. \A i \in 1..n : <<path[i].name>> \in Seq(STRING)
  BY <1>3
<1> HIDE DEF n, R
<1>7. Target(path) \in Seq(STRING) /\ Len(Target(path)) = n
  BY <1>1, <1>3, <1>4
<1>8. CanonicalPath(path) \in Seq(Seq(STRING)) /\ Len(CanonicalPath(path)) = n
  BY <1>1, <1>5, <1>6
<1> QED BY <1>4, <1>5, <1>7, <1>8 DEF n

LEMMA PrefixMeans ==
  ASSUME NEW S, NEW s \in Seq(S), NEW t \in Seq(S)
  PROVE  IsPrefix(s, t) <=> Len(s) <= Len(t) /\ \A i \in 1..Len(s) : s[i] = t[i]
<1>1. ASSUME Len(s) <= Len(t)
      PROVE  SubSeq(s, 1, Len(s)) = SubSeq(t, 1, Len(s))
               <=> \A i \in 1..Len(s) : s[i] = t[i]
  <2>1. /\ SubSeq(s, 1, Len(s)) \in Seq(S) /\ SubSeq(t, 1, Len(s)) \in Seq(S)
        /\ Len(SubSeq(s, 1, Len(s))) = Len(s) /\ Len(SubSeq(t, 1, Len(s))) = Len(s)
        /\ \A i \in 1..Len(s) : /\ SubSeq(s, 1, Len(s))[i] = s[i]
                                /\ SubSeq(t, 1, Len(s))[i] = t[i]
    BY <1>1
  <2> QED BY <2>1
<1> QED BY <1>1 DEF IsPrefix

\* Two paths clash exactly if what they address does.
LEMMA ClashMeans ==
  ASSUME NEW p \in Path, NEW q \in Path
  PROVE  /\ Clash(p, q) <=> IsPrefix(Target(p), Target(q))
         /\ Clash(p, q) <=> Len(p) <= Len(q) /\ \A i \in 1..Len(p) : p[i].name = q[i].name
<1>1. \A x, y : <<x>> = <<y>> <=> x = y
  OBVIOUS
<1>4. Len(p) \in Nat /\ Len(q) \in Nat
  BY DEF Path
<1>2. Clash(p, q) <=> Len(p) <= Len(q) /\ \A i \in 1..Len(p) : p[i].name = q[i].name
  <2>1. Clash(p, q) <=>
          Len(p) <= Len(q)
          /\ \A i \in 1..Len(p) : CanonicalPath(p)[i] = CanonicalPath(q)[i]
    BY PathFacts, PrefixMeans DEF Clash
  <2>2. ASSUME Len(p) <= Len(q), NEW i \in 1..Len(p)
        PROVE  CanonicalPath(p)[i] = CanonicalPath(q)[i] <=> p[i].name = q[i].name
    <3>1. i \in 1..Len(q)
      BY <1>4, <2>2
    <3>2. CanonicalPath(p)[i] = <<p[i].name>> /\ CanonicalPath(q)[i] = <<q[i].name>>
      BY <3>1, PathFacts
    <3> QED BY <1>1, <3>2
  <2> QED BY <2>1, <2>2
<1>3. IsPrefix(Target(p), Target(q)) <=>
        Len(p) <= Len(q) /\ \A i \in 1..Len(p) : p[i].name = q[i].name
  <2>1. IsPrefix(Target(p), Target(q)) <=>
          Len(p) <= Len(q) /\ \A i \in 1..Len(p) : Target(p)[i] = Target(q)[i]
    BY PathFacts, PrefixMeans
  <2> QED BY <1>4, <2>1, PathFacts
<1> QED BY <1>2, <1>3

\* What the entries of a document are.
IsValue(v) == v = [data |-> v.data, full |-> v.full]

EntryOK(e) ==
  /\ e.path \in Path /\ e.path # <<>> /\ IsValue(e.value)
  /\ \A u \in e.brings : UnknownTag(u) /\ IsPrefix(Target(e.path), u)
  /\ Apart(e.brings \cup {l \in DOMAIN Layout : ~IsComposite(l)})
  /\ Carried(e) # {}

\* Whatever an entry sets lies under its path.
LEMMA CarriedIsUnder ==
  ASSUME NEW e, EntryOK(e), NEW l \in Carried(e)
  PROVE  l \in Seq(STRING) /\ IsPrefix(Target(e.path), l)
<1> DEFINE p == Target(e.path)
<1>1. p \in Seq(STRING)
  BY PathFacts DEF EntryOK
<1>2. CASE l \in e.brings
  BY <1>2 DEF EntryOK, UnknownTag
<1>3. CASE l \in DOMAIN Layout /\ IsStrictPrefix(p, l)
  BY <1>3, DocumentsAssumption DEF IsStrictPrefix
<1>4. CASE l = p
  BY <1>1, <1>4, PrefixMeans
<1> QED BY <1>2, <1>3, <1>4 DEF Carried

\* Paths below which there is a leaf in common clash.
LEMMA CommonLeaf ==
  ASSUME NEW p \in Path, NEW q \in Path, NEW l \in Seq(STRING),
         IsPrefix(Target(p), l), IsPrefix(Target(q), l)
  PROVE  Clash(p, q) \/ Clash(q, p)
<1>1. /\ Target(p) \in Seq(STRING) /\ Target(q) \in Seq(STRING)
      /\ Len(Target(p)) = Len(p) /\ Len(Target(q)) = Len(q) /\ Len(p) \in Nat /\ Len(q) \in Nat
  <2>1. Len(p) \in Nat /\ Len(q) \in Nat
    BY DEF Path
  <2> QED BY <2>1, PathFacts
<1>2. CASE Len(p) <= Len(q)
  BY <1>1, <1>2, PrefixMeans, ClashMeans
<1>3. CASE Len(q) <= Len(p)
  BY <1>1, <1>3, PrefixMeans, ClashMeans
<1> QED BY <1>1, <1>2, <1>3

\* A prefix of a prefix.
LEMMA PrefixTransitive ==
  ASSUME NEW s \in Seq(STRING), NEW t \in Seq(STRING), NEW u \in Seq(STRING),
         IsPrefix(s, t), IsPrefix(t, u)
  PROVE  IsPrefix(s, u)
<1>1. /\ Len(s) \in Nat /\ Len(t) \in Nat /\ Len(u) \in Nat
      /\ Len(s) <= Len(t) /\ \A i \in 1..Len(s) : s[i] = t[i]
      /\ Len(t) <= Len(u) /\ \A i \in 1..Len(t) : t[i] = u[i]
  BY PrefixMeans
<1>2. Len(s) <= Len(u) /\ \A i \in 1..Len(s) : i \in 1..Len(t)
  BY <1>1
<1>3. \A i \in 1..Len(s) : s[i] = u[i]
  BY <1>1, <1>2
<1> QED BY <1>2, <1>3, PrefixMeans

LEMMA ValidIsDisjoint ==
  ASSUME NEW d, Valid(d), \A e \in d.entries : EntryOK(e)
  PROVE  Disjoint(d.entries)
<1>1. ASSUME NEW e \in d.entries, NEW f \in d.entries, e # f,
             NEW l \in Carried(e), l \in Carried(f)
      PROVE  FALSE
  <2>1. EntryOK(e) /\ EntryOK(f) /\ e.path \in Path /\ f.path \in Path
    BY DEF EntryOK
  <2>2. l \in Seq(STRING) /\ IsPrefix(Target(e.path), l) /\ IsPrefix(Target(f.path), l)
    BY <1>1, <2>1, CarriedIsUnder
  <2> QED BY <1>1, <2>1, <2>2, CommonLeaf DEF Valid
<1> QED BY <1>1 DEF Disjoint

\* A leaf is in the field that the path names.
LEMMA LeafField ==
  ASSUME NEW e, EntryOK(e), NEW l \in Carried(e)
  PROVE  l[1] = TopLevel(e.path)
<1>1. /\ e.path \in Path /\ e.path # <<>> /\ l \in Seq(STRING) /\ Target(e.path) \in Seq(STRING)
      /\ IsPrefix(Target(e.path), l)
  BY PathFacts, CarriedIsUnder DEF EntryOK
<1>2. 1 \in 1..Len(e.path)
  BY <1>1 DEF Path
<1> QED BY <1>1, <1>2, PathFacts, PrefixMeans DEF TopLevel

-----------------------------------------------------------------------------
(* Messages *)

LEMMA ContentCarries ==
  ASSUME NEW E, Disjoint(E) PROVE Carries(Content(E), E)
<1>1. Content(E) = [l \in UNION {Carried(e) : e \in E} |->
                      Wire(l, (CHOOSE e \in E : l \in Carried(e)).value)]
  BY DEF Content, Carried
<1>2. ASSUME NEW e \in E, NEW l \in Carried(e)
      PROVE  (CHOOSE f \in E : l \in Carried(f)) = e
  BY <1>2 DEF Disjoint
<1> QED BY <1>1, <1>2 DEF Carries

LEMMA OverCarries ==
  ASSUME NEW m, NEW c, NEW E, NEW D, Carries(m, D), Carries(c, E), Disjoint(D \cup E)
  PROVE  Carries(Over(c, m), D \cup E)
<1>1. Over(c, m) = [l \in DOMAIN c \cup DOMAIN m |-> IF l \in DOMAIN c THEN c[l] ELSE m[l]]
  BY DEF Over
<1>2. DOMAIN Over(c, m) = UNION {Carried(e) : e \in D \cup E}
  BY <1>1 DEF Carries
<1>3. ASSUME NEW e \in D \cup E, NEW l \in Carried(e)
      PROVE  Over(c, m)[l] = Wire(l, e.value)
  <2>1. CASE l \in DOMAIN c
    <3>1. PICK f \in E : l \in Carried(f)
      BY <2>1 DEF Carries
    <3>2. f = e
      BY <1>3, <3>1 DEF Disjoint
    <3> QED BY <1>1, <2>1, <3>1, <3>2 DEF Carries
  <2>2. CASE l \notin DOMAIN c
    <3>1. e \in D
      BY <1>3, <2>2 DEF Carries
    <3> QED BY <1>1, <1>3, <2>2, <3>1 DEF Carries
  <2> QED BY <2>1, <2>2
<1> QED BY <1>1, <1>2, <1>3 DEF Carries

\* Merging tags into a field leaves the others of its tags as they are.
LEMMA MergeIsOver ==
  ASSUME NEW m, NEW c, NEW id, m = [l \in DOMAIN m |-> m[l]]
  PROVE  SetField(m, id, Merged(FieldContent(m, id), c)) = Over(c, m)
<1>1. /\ DOMAIN Merged(FieldContent(m, id), c) = DOMAIN c \cup {k \in DOMAIN m : k[1] = id}
      /\ \A l \in DOMAIN c \cup {k \in DOMAIN m : k[1] = id} :
           Merged(FieldContent(m, id), c)[l] = IF l \in DOMAIN c THEN c[l] ELSE m[l]
  BY DEF Merged, Over, FieldContent
<1> QED BY <1>1 DEF SetField, Over

\* Replacing a field that the message does not have is adding it.
LEMMA SetIsOver ==
  ASSUME NEW m, NEW c, NEW id, m = [l \in DOMAIN m |-> m[l]],
         \A k \in DOMAIN m : k[1] # id
  PROVE  SetField(m, id, c) = Over(c, m)
<1>1. {k \in DOMAIN m : k[1] # id} = DOMAIN m
  OBVIOUS
<1> QED BY <1>1 DEF SetField

-----------------------------------------------------------------------------
(* Leaves and values *)

\* What a message may carry: leaves of the specification, and tags of a TLV
\* composite that it does not define.
Leaf(l) == (l \in DOMAIN Layout /\ ~IsComposite(l)) \/ UnknownTag(l)

\* A value as packing puts it on the wire.
OnWire(l, w) == IsValue(w) /\ (l \in Fixed => w.full = TRUE)

LEMMA ChangeFull ==
  ASSUME NEW v, IsValue(v), NEW b
  PROVE  [v EXCEPT !.full = b] = [data |-> v.data, full |-> b]
<1>1. ASSUME NEW a, NEW c, v = [data |-> a, full |-> c]
      PROVE  [v EXCEPT !.full = b] = [data |-> a, full |-> b]
  BY <1>1
<1> QED BY <1>1 DEF IsValue

LEMMA WireIsOnWire ==
  ASSUME NEW l, NEW v, IsValue(v) PROVE OnWire(l, Wire(l, v))
<1>1. Pad(v) = [data |-> v.data, full |-> TRUE]
  BY ChangeFull DEF Pad
<1>2. IsValue(Pad(v)) /\ Pad(v).full = TRUE
  BY <1>1 DEF IsValue
<1> QED BY <1>2 DEF OnWire, Wire

\* What is on the wire stays what it is, by way of a document too.
LEMMA OnWireStays ==
  ASSUME NEW l, NEW w, OnWire(l, w)
  PROVE  Wire(l, w) = w /\ CanonicalFieldValue(l, FieldString(l, w)) = w
<1>1. CASE l \in Fixed
  <2>1. w = [data |-> w.data, full |-> TRUE]
    BY <1>1 DEF OnWire, IsValue
  <2>2. Pad(w) = w
    BY <2>1, ChangeFull DEF Pad, OnWire
  <2>3. Unpad(w) = [data |-> w.data, full |-> FALSE]
    BY ChangeFull DEF Unpad, OnWire
  <2>4. IsValue(Unpad(w)) /\ Unpad(w).data = w.data
    BY <2>3 DEF IsValue
  <2>5. Pad(Unpad(w)) = w
    BY <2>1, <2>4, ChangeFull DEF Pad
  <2> QED BY <1>1, <2>2, <2>5 DEF Wire, CanonicalFieldValue, FieldString
<1>2. CASE l \notin Fixed
  BY <1>2 DEF Wire, CanonicalFieldValue, FieldString
<1> QED BY <1>1, <1>2

LEMMA LeafFacts ==
  ASSUME NEW l, Leaf(l)
  PROVE  /\ l \in Seq(STRING) /\ l # <<>> /\ Len(l) \in Nat /\ Len(l) > 0
         /\ l[1] \in FieldIds /\ (\A i \in 1..Len(l) : l[i] # "")
         /\ ~IsComposite(l)
<1>1. CASE l \in DOMAIN Layout
  <2>1. l \in Seq(STRING) /\ l # <<>> /\ l[1] \in FieldIds
    BY <1>1, DocumentsAssumption
  <2>2. \A i \in DOMAIN l : l[i] # ""
    BY <1>1, DocumentsAssumption
  <2>3. DOMAIN l = 1..Len(l) /\ Len(l) \in Nat /\ Len(l) > 0
    BY <2>1
  <2> QED BY <1>1, <2>1, <2>2, <2>3 DEF Leaf, UnknownTag
<1>2. CASE l \notin DOMAIN Layout
  <2>1. /\ l \in Seq(STRING) /\ Len(l) > 1 /\ l[1] \in FieldIds
        /\ \A i \in DOMAIN l : l[i] # ""
    BY <1>2 DEF Leaf, UnknownTag
  <2>2. l # <<>> /\ Len(l) \in Nat /\ Len(l) > 0 /\ DOMAIN l = 1..Len(l)
    <3>1. l \in Seq(STRING) /\ Len(l) > 1
      BY <2>1
    <3> QED BY <3>1
  <2> QED BY <1>2, <2>1, <2>2 DEF IsComposite
<1> QED BY <1>1, <1>2

\* The first segments of a path of the specification are composites.
LEMMA ParentIsComposite ==
  ASSUME NEW p \in Seq(STRING), NEW q \in DOMAIN Layout, IsPrefix(p, q), p # q, p # <<>>
  PROVE  IsComposite(p)
<1>1. q \in Seq(STRING) /\ Len(q) \in Nat /\ Len(p) \in Nat /\ Len(p) > 0
  <2>1. q \in Seq(STRING)
    BY DocumentsAssumption
  <2> QED BY <2>1
<1>2. Len(p) <= Len(q) /\ \A i \in 1..Len(p) : p[i] = q[i]
  BY <1>1, PrefixMeans
<1>3. Len(p) < Len(q)
  <2>1. Len(p) = Len(q) => p = q
    BY <1>1, <1>2, SeqEqual
  <2> QED BY <1>1, <1>2, <2>1
<1>4. p = SubSeq(q, 1, Len(p))
  BY <1>1, <1>2, <1>3
<1>5. Len(p) \in 1..(Len(q) - 1)
  BY <1>1, <1>3
<1> QED BY <1>4, <1>5, DocumentsAssumption DEF IsComposite

\* So the leaves of the specification are apart.
LEMMA LayoutIsApart == Apart({l \in DOMAIN Layout : ~IsComposite(l)})
<1>1. ASSUME NEW p \in DOMAIN Layout, NEW q \in DOMAIN Layout, ~IsComposite(p), IsPrefix(p, q)
      PROVE  p = q
  <2>1. p \in Seq(STRING) /\ p # <<>>
    BY DocumentsAssumption
  <2> QED BY <1>1, <2>1, ParentIsComposite
<1> QED BY <1>1 DEF Apart

\* The leaves of one entry are apart.
LEMMA CarriedIsApart ==
  ASSUME NEW e, EntryOK(e) PROVE Apart(Carried(e))
<1>1. CASE Carried(e) = {Target(e.path)}
  BY <1>1 DEF Apart
<1>2. CASE Carried(e) # {Target(e.path)}
  <2>1. Carried(e) \subseteq e.brings \cup {l \in DOMAIN Layout : ~IsComposite(l)}
    BY <1>2 DEF Carried
  <2> QED BY <2>1 DEF EntryOK, Apart
<1> QED BY <1>1, <1>2

\* The leaves of a valid document are apart.
LEMMA LeavesAreApart ==
  ASSUME NEW d, Valid(d), \A e \in d.entries : EntryOK(e)
  PROVE  Apart(UNION {Carried(e) : e \in d.entries})
<1>1. ASSUME NEW e \in d.entries, NEW f \in d.entries,
             NEW k \in Carried(e), NEW l \in Carried(f), IsPrefix(k, l)
      PROVE  k = l
  <2>1. EntryOK(e) /\ EntryOK(f) /\ e.path \in Path /\ f.path \in Path
    BY DEF EntryOK
  <2>2. /\ k \in Seq(STRING) /\ l \in Seq(STRING)
        /\ IsPrefix(Target(e.path), k) /\ IsPrefix(Target(f.path), l)
    BY <2>1, CarriedIsUnder
  <2>3. Target(e.path) \in Seq(STRING)
    BY <2>1, PathFacts
  <2>4. IsPrefix(Target(e.path), l)
    BY <1>1, <2>2, <2>3, PrefixTransitive
  <2>5. e = f
    BY <2>1, <2>2, <2>4, CommonLeaf DEF Valid
  <2> QED BY <1>1, <2>1, <2>5, CarriedIsApart DEF Apart
<1> QED BY <1>1 DEF Apart

\* What an entry sets that has a place in the message are leaves.
LEMMA CarriesLeaves ==
  ASSUME NEW e, EntryOK(e), TopLevel(e.path) \in FieldIds, ~Malformed(e.path),
         \/ Target(e.path) \in DOMAIN Layout
         \/ Flat(e) /\ e.path[2].name \in HexTags,
         NEW l \in Carried(e)
  PROVE  Leaf(l)
<1>1. CASE l \in e.brings
  BY <1>1 DEF EntryOK, Leaf
<1>2. CASE l \in DOMAIN Layout /\ ~IsComposite(l)
  BY <1>2 DEF Leaf
<1>3. CASE l = Target(e.path) /\ ~IsComposite(l)
  <2>1. CASE l \in DOMAIN Layout
    BY <1>3, <2>1 DEF Leaf
  <2>2. CASE l \notin DOMAIN Layout
    <3>1. Flat(e) /\ e.path[2].name \in HexTags /\ Len(e.path) = 2 /\ e.path \in Path
      BY <1>3, <2>2 DEF Flat, EntryOK
    <3>2. 1 \in 1..Len(e.path) /\ 2 \in 1..Len(e.path) /\ DOMAIN e.path = 1..Len(e.path)
      BY <3>1 DEF Path
    <3>3. l \in Seq(STRING) /\ Len(l) = 2 /\ l[1] = e.path[1].name /\ l[2] = e.path[2].name
      BY <1>3, <3>1, <3>2, PathFacts
    <3>4. \A i \in DOMAIN l : l[i] # ""
      <4>1. DOMAIN l = 1..Len(e.path) /\ \A i \in 1..Len(e.path) : l[i] = e.path[i].name
        BY <1>3, <3>1, <3>3, PathFacts
      <4>2. \A i \in DOMAIN e.path : e.path[i].name # ""
        BY Zenon DEF Malformed
      <4> QED BY <3>2, <4>1, <4>2, Zenon
    <3>5. IsTLVComposite(l[1]) /\ l[1] \in FieldIds /\ l[2] \in HexTags /\ Len(l) > 1
      BY <3>1, <3>3 DEF Flat, TopLevel
    <3>6. UnknownTag(l)
      BY <2>2, <3>3, <3>4, <3>5, Zenon DEF UnknownTag
    <3> QED BY <3>6 DEF Leaf
  <2> QED BY <2>1, <2>2
<1> QED BY <1>1, <1>2, <1>3 DEF Carried

-----------------------------------------------------------------------------
(* The document made of a message *)

\* What MessageToDocument makes of a leaf is what is there and, unless it is an
\* unknown tag inside of another, can be set again.
EntryIsGood(e, p, w) ==
  /\ e.path \in Path /\ e.path # <<>> /\ Target(e.path) = p
  /\ e.brings = {} /\ Carried(e) = {p} /\ e.value = w
  /\ ~Malformed(e.path)
  /\ ~Flat(e) /\ ~Settable(e) => p \notin DOMAIN Layout /\ Len(p) > 2
  /\ Flat(e) => e.path[2].name \in HexTags

LEMMA PlainFacts ==
  ASSUME NEW p \in Seq(STRING), p # <<>>
  PROVE  /\ Plain(p) \in Path /\ Plain(p) # <<>> /\ Len(Plain(p)) = Len(p)
         /\ Target(Plain(p)) = p
         /\ \A i \in 1..Len(p) : Plain(p)[i].name = p[i] /\ Plain(p)[i].style = "plain"
<1> DEFINE n == Len(p)
<1>1. n \in Nat /\ DOMAIN p = 1..n /\ n > 0 /\ p = [i \in 1..n |-> p[i]]
  OBVIOUS
<1>2. Plain(p) = [i \in 1..n |-> [name |-> p[i], style |-> "plain"]]
  BY <1>1 DEF Plain
<1>3. \A i \in 1..n : [name |-> p[i], style |-> "plain"] \in [name : STRING, style : Styles]
  BY DEF Styles
<1> HIDE DEF n
<1>4. Plain(p) \in Seq([name : STRING, style : Styles]) /\ Len(Plain(p)) = n
  <2> DEFINE R == [name : STRING, style : Styles]
  <2>1. \A i \in 1..n : [name |-> p[i], style |-> "plain"] \in R
    BY <1>3
  <2> HIDE DEF R
  <2>2. Plain(p) \in Seq(R) /\ Len(Plain(p)) = n
    BY <1>1, <1>2, <2>1
  <2> QED BY <2>2 DEF R
<1>5. Target(Plain(p)) = [i \in 1..n |-> p[i]]
  <2>1. DOMAIN Plain(p) = 1..n /\ \A i \in 1..n : Plain(p)[i].name = p[i]
    BY <1>2
  <2> QED BY <2>1 DEF Target
<1>6. Plain(p) # <<>>
  BY <1>1, <1>4
<1> QED BY <1>1, <1>2, <1>4, <1>5, <1>6, SMTT(20) DEF Path, n

LEMMA EntryFacts ==
  ASSUME NEW m, NEW p \in DOMAIN m, Leaf(p), OnWire(p, m[p])
  PROVE  EntryIsGood(EntryOf(m, p), p, m[p])
<1> DEFINE e == EntryOf(m, p)
<1>1. /\ e.path = Plain(p)
      /\ e.where = IF IsBinary(p) THEN "binary_fields" ELSE "fields"
      /\ e.value = IF IsBinary(p) THEN m[p] ELSE CanonicalFieldValue(p, FieldString(p, m[p]))
      /\ e.brings = {}
  BY DEF EntryOf
<1> HIDE DEF e
<1>2. e.value = m[p]
  BY <1>1, OnWireStays
<1>3. /\ p \in Seq(STRING) /\ p # <<>> /\ Len(p) \in Nat /\ Len(p) > 0 /\ ~IsComposite(p)
      /\ p[1] \in FieldIds /\ \A i \in 1..Len(p) : p[i] # ""
  BY LeafFacts
<1>4. /\ e.path \in Path /\ e.path # <<>> /\ Len(e.path) = Len(p) /\ Target(e.path) = p
      /\ DOMAIN e.path = 1..Len(p)
      /\ \A i \in 1..Len(p) : e.path[i].name = p[i] /\ e.path[i].style = "plain"
  <2>1. /\ e.path \in Path /\ e.path # <<>> /\ Len(e.path) = Len(p)
        /\ Target(e.path) = p
        /\ \A i \in 1..Len(p) : e.path[i].name = p[i] /\ e.path[i].style = "plain"
    <3>1. p \in Seq(STRING) /\ p # <<>>
      BY <1>3
    <3>2. /\ Plain(p) \in Path /\ Plain(p) # <<>> /\ Len(Plain(p)) = Len(p)
          /\ Target(Plain(p)) = p
          /\ \A i \in 1..Len(p) : Plain(p)[i].name = p[i] /\ Plain(p)[i].style = "plain"
      BY <3>1, PlainFacts
    <3> QED BY <1>1, <3>2, Zenon
  <2>2. DOMAIN e.path = 1..Len(e.path)
    BY <2>1 DEF Path
  <2> QED BY <2>1, <2>2
<1>5. Carried(e) = {p}
  BY <1>1, <1>3, <1>4 DEF Carried
<1>6. TopLevel(e.path) = p[1]
  <2>1. 1 \in 1..Len(p)
    <3>1. \A n \in Nat : n > 0 => 1 \in 1..n
      OBVIOUS
    <3> QED BY <1>3, <3>1
  <2> QED BY <1>4, <2>1 DEF TopLevel
<1>7. ~Malformed(e.path)
  BY <1>3, <1>4, <1>6, ZenonT(40) DEF Malformed
<1>8. ASSUME p \in DOMAIN Layout, ~Flat(e) PROVE Settable(e)
  <2>1. CASE Len(p) > 1
    <3>1. IsComposite(<<p[1]>>)
      <4>1. 1 \in 1..(Len(p) - 1)
        <5>1. \A n \in Nat : n > 1 => 1 \in 1..(n - 1)
          OBVIOUS
        <5> QED BY <1>3, <2>1, <5>1
      <4>2. SubSeq(p, 1, 1) = <<p[1]>>
        <5>1. p \in Seq(STRING) /\ Len(p) \in Nat /\ Len(p) > 1
          BY <1>3, <2>1
        <5>2. SubSeq(p, 1, 1) = [i \in 1..1 |-> p[i]]
          BY <5>1
        <5>3. <<p[1]>> = [i \in 1..1 |-> p[i]]
          <6>1. \A x : <<x>> = [i \in 1..1 |-> x]
            OBVIOUS
          <6>2. \A i \in 1..1 : i = 1
            OBVIOUS
          <6>3. [i \in 1..1 |-> p[i]] = [i \in 1..1 |-> p[1]]
            BY <6>2
          <6> QED BY <6>1, <6>3
        <5> QED BY <5>2, <5>3
      <4> QED BY <1>8, <4>1, <4>2, DocumentsAssumption DEF IsComposite
    <3> QED BY <1>4, <1>6, <1>8, <2>1, <3>1 DEF Settable, CanMarshal
  <2>2. CASE ~(Len(p) > 1)
    <3>1. e.where = "binary_fields" => Layout[p] # "text"
      <4>1. ~InTLV(p)
        <5>1. \A n \in Nat : ~(n > 1) => 1..(n - 1) = {}
          OBVIOUS
        <5>2. 1..(Len(p) - 1) = {}
          BY <1>3, <2>2, <5>1
        <5> QED BY <5>2 DEF InTLV
      <4> QED BY <1>1, <1>8, <4>1 DEF IsBinary
    <3> QED BY <1>4, <1>8, <2>2, <3>1 DEF Settable
  <2> QED BY <2>1, <2>2
<1>9. ASSUME p \notin DOMAIN Layout
      PROVE  Flat(e) \/ Len(p) > 2
  <2>1. Len(p) > 1 /\ IsTLVComposite(p[1])
    BY <1>9 DEF Leaf, UnknownTag
  <2>2. e.where = "binary_fields"
    BY <1>1, <1>9 DEF IsBinary
  <2>3. \A n \in Nat : n > 1 => n = 2 \/ n > 2
    OBVIOUS
  <2>4. Len(p) = 2 \/ Len(p) > 2
    BY <1>3, <2>1, <2>3
  <2> QED BY <1>4, <1>6, <2>1, <2>2, <2>4 DEF Flat
<1>10. ASSUME Flat(e) PROVE e.path[2].name \in HexTags
  <2>1. Len(p) = 2 /\ Layout[<<p[1]>>] = "tlv"
    BY <1>4, <1>6, <1>10 DEF Flat, IsTLVComposite
  <2>2. CASE p \in DOMAIN Layout
    <3>1. p[2] \in HexTags
      BY <2>1, <2>2, DocumentsAssumption
    <3> QED BY <1>4, <2>1, <3>1
  <2>3. CASE p \notin DOMAIN Layout
    <3>1. p[2] \in HexTags
      BY <2>3 DEF Leaf, UnknownTag
    <3> QED BY <1>4, <2>1, <3>1
  <2> QED BY <2>2, <2>3
<1> QED BY <1>1, <1>2, <1>4, <1>5, <1>7, <1>8, <1>9, <1>10 DEF EntryIsGood, e

\* The document made of a message of leaves, each apart, is valid.
LEMMA RoundValid ==
  ASSUME NEW m, \A l \in DOMAIN m : Leaf(l) /\ OnWire(l, m[l]), Apart(DOMAIN m),
         NEW d, d.mti = "four-digits", d.entries = {EntryOf(m, p) : p \in DOMAIN m}
  PROVE  Valid(d)
<1>1. ASSUME NEW p \in DOMAIN m PROVE EntryIsGood(EntryOf(m, p), p, m[p])
  BY EntryFacts
<1>2. \A e \in d.entries : ~Malformed(e.path)
  BY <1>1 DEF EntryIsGood
<1>3. ASSUME NEW e \in d.entries, NEW f \in d.entries, e # f, Clash(e.path, f.path)
      PROVE  FALSE
  <2>1. PICK p \in DOMAIN m : e = EntryOf(m, p)
    OBVIOUS
  <2>2. PICK q \in DOMAIN m : f = EntryOf(m, q)
    OBVIOUS
  <2>3. e.path \in Path /\ f.path \in Path /\ Target(e.path) = p /\ Target(f.path) = q
    BY <1>1, <2>1, <2>2 DEF EntryIsGood
  <2>4. IsPrefix(p, q)
    BY <1>3, <2>3, ClashMeans
  <2>5. p = q
    BY <2>4 DEF Apart
  <2> QED BY <1>3, <2>1, <2>2, <2>5
<1> QED BY <1>2, <1>3 DEF Valid

-----------------------------------------------------------------------------
(* The inductive invariant *)

\* What has been set.
Done == doc.entries \ (todo \cup groups)

\* The entry has a place in the message.
Placed(e) == Target(e.path) \in DOMAIN Layout \/ (Flat(e) /\ e.path[2].name \in HexTags)

DocInv == \A e \in doc.entries : EntryOK(e)

ParseInv == phase = "parse" => msg = <<>> /\ todo = {} /\ groups = {}

\* The message carries what has been set so far, and nothing else.
PackInv ==
  Packing =>
    /\ Valid(doc)
    /\ todo \subseteq doc.entries /\ groups \subseteq doc.entries
    /\ todo \cap groups = {}
    /\ \A e \in groups : Flat(e)
    /\ Carries(msg, Done)
    /\ \A e \in Done : Placed(e)
    /\ phase \in {"tlv", "packed"} => todo = {}
    /\ phase = "packed" => groups = {}

\* A message of leaves, each apart, as they are on the wire.
Unpacked(m) ==
  /\ m = [l \in DOMAIN m |-> m[l]]
  /\ \A l \in DOMAIN m : Leaf(l) /\ OnWire(l, m[l])
  /\ Apart(DOMAIN m)

RoundInv ==
  /\ round \in {1, 2}
  /\ round = 2 => /\ doc.mti = "four-digits"
                  /\ doc.entries = {EntryOf(first, p) : p \in DOMAIN first}
                  /\ Unpacked(first)
                  /\ err \in {"", "library"} \/ (err = "path" /\ NestedUnknown(first))

ErrInv == phase # "refused" => err = ""

IInv == DocInv /\ ParseInv /\ PackInv /\ RoundInv /\ ErrInv

LEMMA InitIInv == Init => IInv
<1> SUFFICES ASSUME Init PROVE IInv
  OBVIOUS
<1>1. ASSUME NEW e \in doc.entries PROVE EntryOK(e)
  <2>1. doc \in Documents
    BY DEF Init
  <2>2. e.path \in Path /\ e.path # <<>>
    BY <2>1, DocumentsAssumption DEF Path
  <2>3. IsValue(e.value)
    BY <2>1, DocumentsAssumption DEF IsValue
  <2> QED BY <2>1, <2>2, <2>3, EntriesAssumption DEF EntryOK
<1>2. ParseInv /\ PackInv /\ RoundInv /\ ErrInv
  <2>1. phase = "parse" /\ msg = <<>> /\ todo = {} /\ groups = {}
    BY DEF Init
  <2>5. round = 1
    BY DEF Init
  <2>6. ErrInv
    BY DEF Init, ErrInv
  <2>2. ~Packing
    BY <2>1 DEF Packing
  <2>3. ParseInv /\ PackInv
    BY <2>1, <2>2 DEF ParseInv, PackInv
  <2>4. RoundInv
    <3>1. round \in {1, 2} /\ round # 2
      BY <2>5
    <3> QED BY <3>1 DEF RoundInv
  <2> QED BY <2>3, <2>4, <2>6
<1> QED BY <1>1, <1>2 DEF IInv, DocInv

\* Whatever refuses keeps the invariant, if the second round is only refused for
\* an unknown tag inside of another.
LEMMA RefuseKeeps ==
  ASSUME IInv, NEW why, Refuse(why),
         round = 2 => why = "library" \/ (why = "path" /\ NestedUnknown(first))
  PROVE  IInv'
<1>1. DocInv' /\ ParseInv' /\ PackInv' /\ ErrInv'
  BY DEF IInv, DocInv, ParseInv, PackInv, ErrInv, Packing, Refuse
<1>2. RoundInv'
  BY DEF IInv, RoundInv, Refuse, NestedUnknown
<1> QED BY <1>1, <1>2 DEF IInv

\* The entries of the second round have a place in the message, all but unknown
\* tags inside of others.
LEMMA SecondRound ==
  ASSUME IInv, round = 2
  PROVE  /\ Valid(doc)
         /\ \A e \in doc.entries : /\ ~Flat(e) /\ ~Settable(e) => NestedUnknown(first)
                                   /\ Flat(e) => e.path[2].name \in HexTags
<1>1. /\ doc.mti = "four-digits" /\ doc.entries = {EntryOf(first, p) : p \in DOMAIN first}
      /\ \A l \in DOMAIN first : Leaf(l) /\ OnWire(l, first[l])
      /\ Apart(DOMAIN first)
  BY DEF IInv, RoundInv, Unpacked
<1>2. \A p \in DOMAIN first : EntryIsGood(EntryOf(first, p), p, first[p])
  BY <1>1, EntryFacts
<1>3. Valid(doc)
  BY <1>1, RoundValid
<1>4. ASSUME NEW p \in DOMAIN first, ~Flat(EntryOf(first, p)), ~Settable(EntryOf(first, p))
      PROVE  NestedUnknown(first)
  BY <1>2, <1>4 DEF EntryIsGood, NestedUnknown
<1> QED BY <1>1, <1>2, <1>3, <1>4 DEF EntryIsGood

LEMMA ValidateKeeps ==
  ASSUME IInv, Validate PROVE IInv'
<1>1. DocInv' /\ ParseInv' /\ RoundInv' /\ ErrInv'
  BY DEF IInv, DocInv, ParseInv, RoundInv, ErrInv, Validate
<1>2. PackInv'
  <2>1. Done' = {} /\ msg' = <<>> /\ groups' = {} /\ todo' = doc.entries
    BY DEF Validate, Done, IInv, ParseInv
  <2>2. Carries(<<>>, {})
    BY DEF Carries
  <2> QED BY <2>1, <2>2 DEF PackInv, Validate
<1> QED BY <1>1, <1>2 DEF IInv

\* A field or a path of its own is set beside all that is there.
LEMMA SetKeeps ==
  ASSUME IInv, NEW e \in todo, Set(e) PROVE IInv'
<1>1. /\ Packing /\ PackInv /\ DocInv /\ e \in doc.entries /\ phase' = phase /\ doc' = doc
      /\ groups' = groups /\ todo' = todo \ {e} /\ phase \in {"text", "binary"}
  BY DEF IInv, Set, Packing, PackInv
<1>2. Disjoint(doc.entries)
  BY <1>1, ValidIsDisjoint DEF PackInv, DocInv
<1>3. Done' = Done \cup {e} /\ e \notin Done
  BY <1>1 DEF Done, PackInv
<1>4. Carries(Content({e}), {e})
  BY ContentCarries DEF Disjoint
<1>5. Disjoint(Done \cup {e})
  BY <1>1, <1>2 DEF Disjoint, Done
<1>6. msg' = Over(Content({e}), msg)
  <2>1. CASE Len(e.path) > 1
    BY <2>1 DEF Set
  <2>2. CASE ~(Len(e.path) > 1)
    <3>1. e.path \in Path /\ e.path # <<>> /\ Len(e.path) = 1
      <4>1. e.path \in Path /\ e.path # <<>>
        BY <1>1 DEF DocInv, EntryOK
      <4>2. Len(e.path) \in Nat /\ Len(e.path) # 0
        BY <4>1 DEF Path
      <4>3. \A n \in Nat : n # 0 /\ ~(n > 1) => n = 1
        OBVIOUS
      <4> QED BY <2>2, <4>1, <4>2, <4>3
    <3>2. ASSUME NEW k \in DOMAIN msg, k[1] = TopLevel(e.path) PROVE FALSE
      <4>1. PICK f \in Done : k \in Carried(f)
        BY <1>1 DEF PackInv, Carries
      <4>2. f \in doc.entries /\ f # e /\ f.path \in Path /\ f.path # <<>> /\ EntryOK(f)
        BY <1>1, <1>3, <4>1 DEF Done, DocInv, EntryOK
      <4>3. TopLevel(f.path) = TopLevel(e.path)
        BY <3>2, <4>1, <4>2, LeafField
      <4>4. Len(f.path) \in Nat /\ Len(f.path) > 0
        BY <4>2 DEF Path
      <4>5. Len(e.path) <= Len(f.path)
        BY <3>1, <4>4
      <4>6. \A i \in 1..Len(e.path) : i = 1
        BY <3>1
      <4>7. Clash(e.path, f.path)
        BY <3>1, <4>2, <4>3, <4>5, <4>6, ClashMeans DEF TopLevel
      <4> QED BY <1>1, <4>2, <4>7 DEF PackInv, Valid
    <3>3. msg' = SetField(msg, TopLevel(e.path), Content({e}))
      BY <2>2 DEF Set
    <3>4. msg = [l \in DOMAIN msg |-> msg[l]]
      BY <1>1 DEF PackInv, Carries
    <3> QED BY <3>2, <3>3, <3>4, SetIsOver
  <2> QED BY <2>1, <2>2
<1>7. Carries(msg', Done')
  BY <1>1, <1>3, <1>4, <1>5, <1>6, OverCarries DEF PackInv
<1>8. Placed(e)
  BY DEF Set, Settable, CanMarshal, Placed
<1>9. PackInv'
  <2>1. \A f \in Done' : Placed(f)
    BY <1>1, <1>3, <1>8 DEF PackInv
  <2>2. todo' \subseteq doc'.entries /\ groups' \subseteq doc'.entries /\ todo' \cap groups' = {}
    BY <1>1 DEF PackInv
  <2> QED BY <1>1, <1>7, <2>1, <2>2 DEF PackInv
<1>10. DocInv' /\ ParseInv' /\ RoundInv' /\ ErrInv'
  BY <1>1 DEF IInv, DocInv, ParseInv, RoundInv, ErrInv, Set
<1> QED BY <1>9, <1>10 DEF IInv

\* A flat tag only changes from waiting to gathered.
LEMMA GatherKeeps ==
  ASSUME IInv, NEW e \in todo, Gather(e) PROVE IInv'
<1>1. /\ Packing /\ PackInv /\ e \in doc.entries /\ phase' = phase /\ doc' = doc /\ msg' = msg
      /\ groups' = groups \cup {e} /\ todo' = todo \ {e} /\ phase = "binary" /\ Flat(e)
  BY DEF IInv, Gather, Packing, PackInv
<1>2. Done' = Done
  BY <1>1 DEF Done
<1>3. PackInv'
  BY <1>1, <1>2 DEF PackInv
<1>4. DocInv' /\ ParseInv' /\ RoundInv' /\ ErrInv'
  BY <1>1 DEF IInv, DocInv, ParseInv, RoundInv, ErrInv, Gather
<1> QED BY <1>3, <1>4 DEF IInv

\* The steps that only change the phase.
LEMMA PhaseKeeps ==
  ASSUME IInv, TextDone \/ BinaryDone \/ PackMessage PROVE IInv'
<1>1. /\ PackInv /\ Packing /\ Packing' /\ UNCHANGED <<doc, round, todo, groups, msg, first, err>>
      /\ phase' \in {"tlv", "packed"} => todo = {}
      /\ phase' = "packed" => groups = {}
      /\ phase # "refused" /\ phase' # "parse"
  BY DEF IInv, PackInv, TextDone, BinaryDone, PackMessage, Packing
<1>2. Done' = Done
  BY <1>1 DEF Done
<1>3. PackInv'
  BY <1>1, <1>2 DEF PackInv
<1>4. DocInv' /\ ParseInv' /\ RoundInv' /\ ErrInv'
  BY <1>1 DEF IInv, DocInv, ParseInv, RoundInv, ErrInv
<1> QED BY <1>3, <1>4 DEF IInv

\* The flat tags join what their composite has.
LEMMA MergeKeeps ==
  ASSUME IInv, NEW id, MergeTags(id) PROVE IInv'
<1> DEFINE G == GroupOf(id)
<1>1. /\ Packing /\ PackInv /\ DocInv /\ phase' = phase /\ doc' = doc /\ todo' = todo
      /\ phase = "tlv" /\ groups' = groups \ G /\ G \subseteq groups
      /\ \A e \in G : e.path[2].name \in HexTags
      /\ msg' = SetField(msg, id, Merged(FieldContent(msg, id), Content(G)))
  BY DEF IInv, MergeTags, Packing, GroupOf
<1> HIDE DEF G
<1>2. Disjoint(doc.entries)
  BY <1>1, ValidIsDisjoint DEF PackInv, DocInv
<1>3. Done' = Done \cup G /\ Done' \subseteq doc.entries
  BY <1>1 DEF Done, PackInv
<1>4. Disjoint(G) /\ Disjoint(Done \cup G)
  BY <1>1, <1>2, <1>3 DEF Disjoint, PackInv
<1>5. Carries(Content(G), G)
  BY <1>4, ContentCarries
<1>6. msg' = Over(Content(G), msg)
  BY <1>1, MergeIsOver DEF PackInv, Carries
<1>7. Carries(msg', Done')
  BY <1>1, <1>3, <1>4, <1>5, <1>6, OverCarries DEF PackInv
<1>8. \A e \in Done' : Placed(e)
  BY <1>1, <1>3 DEF PackInv, Placed
<1>9. PackInv'
  BY <1>1, <1>7, <1>8 DEF PackInv
<1>10. DocInv' /\ ParseInv' /\ RoundInv' /\ ErrInv'
  BY <1>1 DEF IInv, DocInv, ParseInv, RoundInv, ErrInv, MergeTags
<1> QED BY <1>9, <1>10 DEF IInv

\* What has been packed is a message of leaves.
LEMMA PackedIsUnpacked ==
  ASSUME IInv, phase = "packed"
  PROVE  Unpacked(msg) /\ Done = doc.entries
<1>1. /\ Done = doc.entries /\ Carries(msg, Done) /\ Valid(doc) /\ DocInv
      /\ \A e \in Done : Placed(e)
  BY DEF IInv, PackInv, Packing, Done
<1>2. ASSUME NEW l \in DOMAIN msg PROVE Leaf(l) /\ OnWire(l, msg[l])
  <2>1. PICK e \in Done : l \in Carried(e)
    BY <1>1 DEF Carries
  <2>2. e \in doc.entries /\ EntryOK(e) /\ ~Malformed(e.path) /\ Placed(e)
    BY <1>1, <2>1 DEF DocInv, Valid
  <2>3. Leaf(l)
    BY <2>1, <2>2, CarriesLeaves DEF Malformed, Placed
  <2>4. msg[l] = Wire(l, e.value)
    BY <1>1, <2>1 DEF Carries
  <2> QED BY <2>2, <2>3, <2>4, WireIsOnWire DEF EntryOK
<1>3. Apart(DOMAIN msg)
  BY <1>1, LeavesAreApart DEF Carries, DocInv
<1> QED BY <1>1, <1>2, <1>3 DEF Unpacked, Carries

LEMMA RoundKeeps ==
  ASSUME IInv, MessageToDocument PROVE IInv'
<1>1. /\ phase = "packed" /\ phase' = "parse" /\ round' = 2 /\ first' = msg /\ msg' = <<>>
      /\ doc'.mti = doc.mti /\ doc'.entries = {EntryOf(msg, p) : p \in DOMAIN msg}
      /\ UNCHANGED <<todo, groups, err>>
  BY DEF MessageToDocument, Emitted
<1>2. Unpacked(msg) /\ doc.mti = "four-digits" /\ todo = {} /\ groups = {}
  BY <1>1, PackedIsUnpacked DEF IInv, PackInv, Packing, Valid
<1>3. ASSUME NEW e \in doc'.entries PROVE EntryOK(e)
  <2>1. PICK p \in DOMAIN msg : e = EntryOf(msg, p)
    BY <1>1
  <2>2. EntryIsGood(e, p, msg[p]) /\ OnWire(p, msg[p])
    BY <1>2, <2>1, EntryFacts DEF Unpacked
  <2>3. e.brings \cup {l \in DOMAIN Layout : ~IsComposite(l)} = {l \in DOMAIN Layout : ~IsComposite(l)}
    BY <2>2 DEF EntryIsGood
  <2> QED BY <2>2, <2>3, LayoutIsApart DEF EntryIsGood, EntryOK, OnWire
<1>4. DocInv' /\ ParseInv' /\ PackInv' /\ ErrInv'
  BY <1>1, <1>2, <1>3 DEF IInv, DocInv, ParseInv, PackInv, Packing, ErrInv
<1>5. err \in {"", "library"}
  BY <1>1 DEF IInv, ErrInv
<1>6. RoundInv'
  BY <1>1, <1>2, <1>5 DEF RoundInv
<1> QED BY <1>4, <1>6 DEF IInv

LEMMA StepIInv == IInv /\ [Next]_vars => IInv'
<1> SUFFICES ASSUME IInv, [Next]_vars PROVE IInv'
  OBVIOUS
<1>1. CASE Validate
  BY <1>1, ValidateKeeps
<1>2. CASE ValidateFails
  <2>1. ~Valid(doc) /\ Refuse("document")
    BY <1>2 DEF ValidateFails
  <2> QED BY <2>1, SecondRound, RefuseKeeps
<1>3. ASSUME NEW e \in todo, Set(e) PROVE IInv'
  BY <1>3, SetKeeps
<1>4. ASSUME NEW e \in todo, SetFails(e) PROVE IInv'
  <2>1. ~Flat(e) /\ ~Settable(e) /\ Refuse("path") /\ phase \in {"text", "binary"}
    BY <1>4 DEF SetFails
  <2>2. e \in doc.entries
    BY <1>4, <2>1 DEF IInv, PackInv, Packing
  <2> QED BY <2>1, <2>2, SecondRound, RefuseKeeps
<1>5. ASSUME NEW e \in todo, Gather(e) PROVE IInv'
  BY <1>5, GatherKeeps
<1>6. CASE TextDone \/ BinaryDone \/ PackMessage
  BY <1>6, PhaseKeeps
<1>7. ASSUME NEW id, MergeTags(id) PROVE IInv'
  BY <1>7, MergeKeeps
<1>8. ASSUME NEW id, MergeFails(id) PROVE IInv'
  <2>1. phase = "tlv" /\ Refuse("path")
    BY <1>8 DEF MergeFails
  <2>2. PICK e \in groups : e.path[2].name \notin HexTags
    BY <1>8 DEF MergeFails, GroupOf
  <2>3. e \in doc.entries /\ Flat(e)
    BY <2>1, <2>2 DEF IInv, PackInv, Packing
  <2> QED BY <2>1, <2>2, <2>3, SecondRound, RefuseKeeps
<1>9. CASE LibraryRefuses
  <2>1. Refuse("library")
    BY <1>9 DEF LibraryRefuses
  <2> QED BY <2>1, RefuseKeeps
<1>10. CASE MessageToDocument
  BY <1>10, RoundKeeps
<1>11. CASE Finished \/ UNCHANGED vars
  <2>1. UNCHANGED vars
    BY <1>11 DEF Finished
  <2> QED BY <2>1 DEF vars, IInv, DocInv, ParseInv, PackInv, RoundInv, ErrInv, Packing, Done
<1> QED BY <1>1, <1>2, <1>3, <1>4, <1>5, <1>6, <1>7, <1>8, <1>9, <1>10, <1>11 DEF Next

\* The inductive invariant holds in every reachable state, for every
\* specification and every set of documents.
THEOREM Invariance == Spec => []IInv
<1>1. Init => IInv
  BY InitIInv
<1>2. IInv /\ [Next]_vars => IInv'
  BY StepIInv
<1> QED BY <1>1, <1>2, PTL DEF Spec

-----------------------------------------------------------------------------
(* The properties *)

\* No two entries of a document that Document.Validate lets through set the same
\* part of the message (messageio/document.go).
THEOREM AmbiguityIsRefusedHolds == Spec => []AmbiguityIsRefused
<1>1. IInv => AmbiguityIsRefused
  <2>1. ASSUME IInv, Packing PROVE Disjoint(doc.entries)
    BY <2>1, ValidIsDisjoint DEF IInv, PackInv, DocInv
  <2> QED BY <2>1 DEF AmbiguityIsRefused, Disjoint, Carried, Packing
<1> QED BY <1>1, Invariance, PTL

\* A packed message carries all of its document and nothing else, in whatever
\* order WriteMessage sets the paths (service/write.go).
THEOREM PacksWhatWasWrittenHolds == Spec => []PacksWhatWasWritten
<1>1. ASSUME IInv, phase = "packed"
      PROVE  Carries(msg, doc.entries)
  BY <1>1, PackedIsUnpacked DEF IInv, PackInv, Packing
<1>2. IInv => PacksWhatWasWritten
  BY <1>1 DEF PacksWhatWasWritten, Carries, Carried
<1> QED BY <1>2, Invariance, PTL

\* WriteMessage takes every path that MessageToDocument makes (convert.go), unless
\* the library refuses its value, but no unknown tag inside of another.
THEOREM ConvertedDocumentIsAcceptedHolds == Spec => []ConvertedDocumentIsAccepted
<1>1. ASSUME IInv, round = 2, phase = "packed", NestedUnknown(first) PROVE FALSE
  <2>1. PICK l \in DOMAIN first : l \notin DOMAIN Layout /\ Len(l) > 2
    BY <1>1 DEF NestedUnknown
  <2>2. EntryOf(first, l) \in doc.entries /\ Leaf(l) /\ OnWire(l, first[l])
    BY <1>1 DEF IInv, RoundInv, Unpacked
  <2>3. /\ EntryOf(first, l).path \in Path /\ Target(EntryOf(first, l).path) = l
    BY <2>2, EntryFacts DEF EntryIsGood
  <2>4. Len(EntryOf(first, l).path) = Len(l)
    BY <2>3, PathFacts
  <2>5. Placed(EntryOf(first, l))
    BY <1>1, <2>2, PackedIsUnpacked DEF IInv, PackInv, Packing
  <2>6. Len(l) # 2
    <3>1. Len(l) \in Nat /\ Len(l) > 2
      BY <2>1, <2>2, LeafFacts
    <3>2. \A n \in Nat : n > 2 => n # 2
      OBVIOUS
    <3> QED BY <3>1, <3>2
  <2> QED BY <2>1, <2>3, <2>4, <2>5, <2>6 DEF Placed, Flat
<1>2. IInv => ConvertedDocumentIsAccepted
  BY <1>1 DEF IInv, RoundInv, ConvertedDocumentIsAccepted
<1> QED BY <1>2, Invariance, PTL

\* A message that goes through a document comes back as it was.
THEOREM RoundTripHolds == Spec => []RoundTrip
<1>1. ASSUME IInv, round = 2 PROVE RoundTrip
  <2>1. doc.entries = {EntryOf(first, p) : p \in DOMAIN first} /\ Unpacked(first)
    BY <1>1 DEF IInv, RoundInv
  <2>2. ASSUME NEW p \in DOMAIN first
        PROVE  /\ EntryIsGood(EntryOf(first, p), p, first[p])
               /\ Wire(p, first[p]) = first[p]
    BY <2>1, <2>2, EntryFacts, OnWireStays DEF Unpacked
  <2>3. \A e \in doc.entries : Target(e.path) \in DOMAIN first
                               /\ e.value = first[Target(e.path)]
    BY <2>1, <2>2 DEF EntryIsGood
  <2>4. ASSUME phase = "packed" PROVE msg = first
    <3>1. Carries(msg, doc.entries)
      BY <1>1, <2>4, PackedIsUnpacked DEF IInv, PackInv, Packing
    <3>2. \A p \in DOMAIN first : /\ EntryOf(first, p) \in doc.entries
                                  /\ Carried(EntryOf(first, p)) = {p}
                                  /\ EntryOf(first, p).value = first[p]
      BY <2>1, <2>2 DEF EntryIsGood
    <3>3. DOMAIN msg = DOMAIN first
      <4>1. DOMAIN msg = UNION {Carried(e) : e \in doc.entries}
        BY <3>1 DEF Carries
      <4>2. \A l \in DOMAIN msg : l \in DOMAIN first
        BY <2>1, <3>2, <4>1
      <4>3. \A l \in DOMAIN first : l \in DOMAIN msg
        BY <3>2, <4>1
      <4> QED BY <4>2, <4>3
    <3>4. \A p \in DOMAIN first : msg[p] = first[p]
      BY <2>2, <3>1, <3>2 DEF Carries
    <3>5. msg = [l \in DOMAIN msg |-> msg[l]] /\ first = [l \in DOMAIN first |-> first[l]]
      BY <2>1, <3>1 DEF Carries, Unpacked
    <3> QED BY <3>3, <3>4, <3>5
  <2> QED BY <2>3, <2>4 DEF RoundTrip
<1>2. IInv => RoundTrip
  BY <1>1 DEF RoundTrip
<1> QED BY <1>2, Invariance, PTL

-----------------------------------------------------------------------------
(* Counting *)

\* The top-level ids as the entries spell them, and those of a message.
Heads(E) == {<<e.path[1].name, e.path[1].style>> : e \in E}

Ids(m) == {l[1] : l \in DOMAIN m}

CountInv ==
  /\ IsFiniteSet(Heads(doc.entries))
  /\ phase = "packed" => count = Cardinality(Heads(doc.entries))

\* A packed message has the fields that its document names.
LEMMA PackedIds ==
  ASSUME IInv, phase = "packed"
  PROVE  Ids(msg) = {e.path[1].name : e \in doc.entries}
<1>1. /\ DOMAIN msg = UNION {Carried(e) : e \in doc.entries}
      /\ \A e \in doc.entries : EntryOK(e)
  BY PackedIsUnpacked DEF IInv, PackInv, Packing, Carries, DocInv
<1>2. ASSUME NEW e \in doc.entries, NEW l \in Carried(e) PROVE l[1] = e.path[1].name
  BY <1>1, LeafField DEF TopLevel
<1>3. ASSUME NEW e \in doc.entries PROVE Carried(e) # {}
  BY <1>1 DEF EntryOK
<1>4. ASSUME NEW id \in Ids(msg) PROVE id \in {e.path[1].name : e \in doc.entries}
  <2>1. PICK l \in DOMAIN msg : id = l[1]
    BY DEF Ids
  <2>2. PICK e \in doc.entries : l \in Carried(e)
    BY <1>1
  <2> QED BY <1>2, <2>1, <2>2
<1>5. ASSUME NEW e \in doc.entries PROVE e.path[1].name \in Ids(msg)
  <2>1. PICK l : l \in Carried(e)
    BY <1>3
  <2>2. l \in DOMAIN msg
    BY <1>1, <2>1
  <2> QED BY <1>2, <2>1, <2>2 DEF Ids
<1> QED BY <1>4, <1>5

\* Each id is spelled in one way.
OneSpelling(E) ==
  \A e, f \in E : TopLevel(e.path) = TopLevel(f.path) => e.path[1].style = f.path[1].style

\* There are no more ids than spellings of them, and as many exactly if each has
\* one: a spelling that could be left out would make the ids fewer.
LEMMA IdsAndHeads ==
  ASSUME IInv, CountInv, phase = "packed"
  PROVE  /\ IsFiniteSet(Ids(msg))
         /\ Cardinality(Ids(msg)) \in Nat /\ Cardinality(Heads(doc.entries)) \in Nat
         /\ Cardinality(Ids(msg)) <= Cardinality(Heads(doc.entries))
         /\ OneSpelling(doc.entries) <=> Cardinality(Heads(doc.entries)) = Cardinality(Ids(msg))
<1> DEFINE H == Heads(doc.entries)
           I == Ids(msg)
           f == [h \in H |-> h[1]]
<1>1. I = {e.path[1].name : e \in doc.entries}
      /\ H = {<<e.path[1].name, e.path[1].style>> : e \in doc.entries} /\ IsFiniteSet(H)
  BY PackedIds DEF Heads, CountInv
<1>2. \A h \in H : h[1] \in I
  <2>1. ASSUME NEW h \in H PROVE h[1] \in I
    <3>1. PICK e \in doc.entries : h = <<e.path[1].name, e.path[1].style>>
      BY <1>1
    <3> QED BY <1>1, <3>1
  <2> QED BY <2>1
<1>3. \A i \in I : \E h \in H : h[1] = i
  <2>1. ASSUME NEW i \in I PROVE \E h \in H : h[1] = i
    <3>1. PICK e \in doc.entries : i = e.path[1].name
      BY <1>1
    <3>2. <<e.path[1].name, e.path[1].style>> \in H /\ <<e.path[1].name, e.path[1].style>>[1] = i
      BY <1>1, <3>1
    <3> QED BY <3>2
  <2> QED BY <2>1
<1>4. OneSpelling(doc.entries) <=> \A h, k \in H : h[1] = k[1] => h = k
  <2>1. ASSUME OneSpelling(doc.entries), NEW h \in H, NEW k \in H, h[1] = k[1] PROVE h = k
    <3>1. PICK e \in doc.entries : h = <<e.path[1].name, e.path[1].style>>
      BY <1>1
    <3>2. PICK g \in doc.entries : k = <<g.path[1].name, g.path[1].style>>
      BY <1>1
    <3> QED BY <2>1, <3>1, <3>2 DEF OneSpelling, TopLevel
  <2>2. ASSUME \A h, k \in H : h[1] = k[1] => h = k,
               NEW e \in doc.entries, NEW g \in doc.entries,
               TopLevel(e.path) = TopLevel(g.path)
        PROVE  e.path[1].style = g.path[1].style
    <3>1. /\ <<e.path[1].name, e.path[1].style>> \in H
          /\ <<g.path[1].name, g.path[1].style>> \in H
      BY <1>1
    <3>2. <<e.path[1].name, e.path[1].style>> = <<g.path[1].name, g.path[1].style>>
      BY <2>2, <3>1 DEF TopLevel
    <3> QED BY <3>2
  <2> QED BY <2>1, <2>2 DEF OneSpelling
<1> HIDE DEF H, I
<1>5. f \in Surjection(H, I)
  BY <1>2, <1>3 DEF Surjection
<1>6. IsFiniteSet(I) /\ Cardinality(I) <= Cardinality(H)
  <2> HIDE DEF f
  <2> QED BY <1>1, <1>5, FS_Surjection
<1>7. Cardinality(I) \in Nat /\ Cardinality(H) \in Nat
  BY <1>1, <1>6, FS_CardinalityType
<1>8. ASSUME \A h, k \in H : h[1] = k[1] => h = k PROVE Cardinality(H) = Cardinality(I)
  <2>1. f \in Injection(H, I)
    BY <1>2, <1>8 DEF Injection, IsInjective
  <2> HIDE DEF f
  <2>2. Cardinality(H) <= Cardinality(I)
    BY <1>6, <2>1, FS_Injection
  <2> QED BY <1>6, <1>7, <2>2
<1>9. ASSUME NEW h \in H, NEW k \in H, h[1] = k[1], h # k PROVE Cardinality(H) # Cardinality(I)
  <2> DEFINE G == H \ {k}
             g == [x \in G |-> x[1]]
  <2>1. IsFiniteSet(G) /\ Cardinality(G) = Cardinality(H) - 1
    BY <1>1, FS_RemoveElement
  <2>2. \A i \in I : \E x \in G : x[1] = i
    <3>1. ASSUME NEW i \in I PROVE \E x \in G : x[1] = i
      <4>1. PICK x \in H : x[1] = i
        BY <1>3
      <4>2. CASE x = k
        BY <1>9, <4>1, <4>2
      <4>3. CASE x # k
        BY <4>1, <4>3
      <4> QED BY <4>2, <4>3
    <3> QED BY <3>1
  <2> HIDE DEF G
  <2>3. \A x \in G : x[1] \in I
    BY <1>2 DEF G
  <2>4. g \in Surjection(G, I)
    BY <2>2, <2>3 DEF Surjection
  <2>5. Cardinality(I) <= Cardinality(G)
    <3> HIDE DEF g
    <3> QED BY <2>1, <2>4, FS_Surjection
  <2> QED BY <1>7, <2>1, <2>5
<1>10. OneSpelling(doc.entries) <=> Cardinality(H) = Cardinality(I)
  BY <1>4, <1>8, <1>9
<1> QED BY <1>6, <1>7, <1>10 DEF H, I

\* The ids of the document made of a message are those of the message, each
\* spelled in one way.
LEMMA RoundHeads ==
  ASSUME IInv, CountInv, MessageToDocument
  PROVE  IsFiniteSet(Heads(doc'.entries))
<1> DEFINE I == Ids(msg)
           H == Heads(doc'.entries)
           f == [i \in I |-> <<i, "plain">>]
<1>1. phase = "packed" /\ doc'.entries = {EntryOf(msg, p) : p \in DOMAIN msg}
  BY DEF MessageToDocument, Emitted
<1>2. IsFiniteSet(I) /\ \A p \in DOMAIN msg : p \in Seq(STRING) /\ p # <<>> /\ Len(p) > 0
  BY <1>1, IdsAndHeads, PackedIsUnpacked, LeafFacts DEF Unpacked
<1>3. ASSUME NEW p \in DOMAIN msg
      PROVE  /\ EntryOf(msg, p).path[1].name = p[1]
             /\ EntryOf(msg, p).path[1].style = "plain"
  <2>1. EntryOf(msg, p).path = Plain(p)
    BY DEF EntryOf
  <2>2. 1 \in 1..Len(p)
    BY <1>2
  <2> QED BY <1>2, <2>1, <2>2, PlainFacts
<1>4. H = {<<i, "plain">> : i \in I}
  <2>1. H = {<<EntryOf(msg, p).path[1].name, EntryOf(msg, p).path[1].style>> : p \in DOMAIN msg}
    BY <1>1 DEF Heads
  <2>2. H = {<<p[1], "plain">> : p \in DOMAIN msg}
    BY <1>3, <2>1
  <2> QED BY <2>2 DEF Ids
<1> HIDE DEF H, I
<1>5. f \in Surjection(I, H)
  BY <1>4 DEF Surjection
<1> HIDE DEF f
<1>6. IsFiniteSet(H)
  BY <1>2, <1>5, FS_Surjection
<1> QED BY <1>6 DEF H

LEMMA InitCountInv == Init => CountInv
<1> SUFFICES ASSUME Init PROVE CountInv
  OBVIOUS
<1> DEFINE E == doc.entries
           f == [e \in E |-> <<e.path[1].name, e.path[1].style>>]
<1>1. IsFiniteSet(E) /\ phase # "packed"
  BY EntriesAssumption DEF Init
<1>2. Heads(E) = {<<e.path[1].name, e.path[1].style>> : e \in E}
  BY DEF Heads
<1> HIDE DEF E
<1>3. f \in Surjection(E, Heads(E))
  BY <1>2 DEF Surjection
<1> HIDE DEF f
<1>4. IsFiniteSet(Heads(E))
  BY <1>1, <1>3, FS_Surjection
<1> QED BY <1>1, <1>4 DEF CountInv, E

LEMMA StepCountInv == IInv /\ CountInv /\ [Next]_vars => CountInv'
<1> SUFFICES ASSUME IInv, CountInv, [Next]_vars PROVE CountInv'
  OBVIOUS
<1>1. CASE MessageToDocument
  <2>1. phase' # "packed"
    BY <1>1 DEF MessageToDocument
  <2> QED BY <1>1, <2>1, RoundHeads DEF CountInv
<1>2. CASE PackMessage
  BY <1>2 DEF PackMessage, CountInv, TopLevelFieldCount, Heads
<1>3. ASSUME NEW why, Refuse(why) PROVE CountInv'
  BY <1>3 DEF Refuse, CountInv
<1>4. ASSUME UNCHANGED <<doc, count>>, phase' = phase \/ phase' # "packed" PROVE CountInv'
  BY <1>4 DEF CountInv
<1>5. CASE Validate \/ TextDone \/ BinaryDone \/ Finished \/ UNCHANGED vars
  BY <1>4, <1>5 DEF Validate, TextDone, BinaryDone, Finished, vars
<1>6. CASE ValidateFails \/ LibraryRefuses
  BY <1>3, <1>6 DEF ValidateFails, LibraryRefuses
<1>7. ASSUME NEW e \in todo, Set(e) \/ SetFails(e) \/ Gather(e) PROVE CountInv'
  BY <1>3, <1>4, <1>7 DEF Set, SetFails, Gather
<1>8. ASSUME NEW id, MergeTags(id) \/ MergeFails(id) PROVE CountInv'
  BY <1>3, <1>4, <1>8 DEF MergeTags, MergeFails
<1> QED BY <1>1, <1>2, <1>5, <1>6, <1>7, <1>8 DEF Next

\* The count that WriteMessage reports (service/write.go) is the number of the
\* message's fields exactly if the document spells each id in one way, and else
\* larger.
THEOREM CountIsOfTheMessageHolds == Spec => []CountIsOfTheMessage
<1>1. Init => CountInv
  BY InitCountInv
<1>2. IInv /\ CountInv /\ [Next]_vars => CountInv'
  BY StepCountInv
<1>3. ASSUME IInv, CountInv PROVE CountIsOfTheMessage
  <2>1. ASSUME phase = "packed"
        PROVE  /\ count \in Nat /\ Cardinality(Ids(msg)) \in Nat
               /\ Cardinality(Ids(msg)) <= count
               /\ OneSpelling(doc.entries) <=> count = Cardinality(Ids(msg))
    BY <1>3, <2>1, IdsAndHeads DEF CountInv
  <2>2. \A m, n \in Nat : m <= n => n >= m
    OBVIOUS
  <2>3. ASSUME phase = "packed" PROVE count >= Cardinality(Ids(msg))
    BY <2>1, <2>2, <2>3
  <2> QED BY <2>1, <2>3 DEF CountIsOfTheMessage, Ids, OneSpelling
<1> QED BY <1>1, <1>2, <1>3, Invariance, PTL DEF Spec
=============================================================================
