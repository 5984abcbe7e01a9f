----------------------------- MODULE Documents -----------------------------
(***************************************************************************)
(* Message documents: what `convert` does in its two directions.           *)
(* A document is checked (Document.Validate in internal/messageio), set    *)
(* path by path on an empty message and packed (WriteMessage in            *)
(* internal/service/write.go); a packed message becomes a document again   *)
(* (MessageToDocument in convert.go), which is then packed once more.      *)
(*                                                                         *)
(* The maps of a document have no order, and the order in which its paths  *)
(* are set is left open too: the properties hold for the sorted order of   *)
(* the code and for any other.  JSON, hexadecimal digits, the bytes of a   *)
(* value and the file that convert writes are left out.  Setting a path,   *)
(* packing and unpacking are calls of the ISO 8583 library, which may      *)
(* refuse any value; empty values are not modelled.  A value given for a   *)
(* whole TLV composite, or for a constructed tag, may hold tags that the   *)
(* specification does not know; an entry says which ones unpacking finds.  *)
(***************************************************************************)
EXTENDS Integers, Sequences, FiniteSets, SequencesExt

CONSTANTS
  FieldIds,   \* the names of the data fields, "2" to "128"
  HexTags,    \* the tags that hex.DecodeString accepts
  Layout,     \* from the paths that the specification defines to their kind
  Fixed,      \* the leaves of a fixed length that declare a padder
  Documents   \* the documents to convert

Kinds == {"text", "bytes", "positional", "tlv"}

\* A segment is spelled as the specification spells it, or otherwise ("02" for
\* "2", "9f02" for "9F02"), or has blanks around it; the empty one is no name.
Styles == {"plain", "respelled", "blanks"}

Wheres == {"fields", "binary_fields"}

\* The parents of a path of the specification are composites; the tags of a TLV
\* composite are hexadecimal.
ASSUME DocumentsAssumption ==
  /\ "" \notin FieldIds \cup HexTags
  /\ \A p \in DOMAIN Layout :
       /\ p \in Seq(STRING) /\ p # <<>> /\ Layout[p] \in Kinds
       /\ p[1] \in FieldIds /\ \A i \in DOMAIN p : p[i] # ""
       /\ \A k \in 1..(Len(p) - 1) :
            /\ SubSeq(p, 1, k) \in DOMAIN Layout
            /\ Layout[SubSeq(p, 1, k)] \in {"positional", "tlv"}
       /\ Len(p) = 2 /\ Layout[<<p[1]>>] = "tlv" => p[2] \in HexTags
  /\ Fixed \subseteq {p \in DOMAIN Layout : Layout[p] = "text"}
  /\ \A d \in Documents : \A e \in d.entries :
       /\ e.path \in Seq([name : STRING, style : Styles]) /\ e.path # <<>>
       /\ e.where \in Wheres
       /\ e.value = [data |-> e.value.data, full |-> e.value.full]

VARIABLES
  doc,      \* the document being packed
  round,    \* 1: the document given; 2: the one made of the first message
  phase,    \* "parse", "text", "binary", "tlv", "packed" or "refused"
  todo,     \* the entries that are not set yet
  groups,   \* tlvGroups, as a set of entries
  msg,      \* what the message carries: from leaves to values
  count,    \* WriteResult.FieldCount
  first,    \* the message packed in the first round
  err       \* "" or why it was refused: "document", "path" or "library"

vars == <<doc, round, phase, todo, groups, msg, count, first, err>>

-----------------------------------------------------------------------------
(* Paths *)

\* What a path addresses, however it is spelled.
Target(path) == [i \in DOMAIN path |-> path[i].name]

TopLevel(path) == path[1].name

\* canonicalPath rejects blanks around a segment, an empty segment, and a field
\* id that is reserved ("0", "1"), no number or out of range.
Malformed(path) ==
  \/ \E i \in DOMAIN path : path[i].style = "blanks" \/ path[i].name = ""
  \/ TopLevel(path) \notin FieldIds

\* The tags keep the spelling of the document.
CanonicalPath_Wrong(path) ==
  [i \in DOMAIN path |-> IF i = 1 THEN <<path[i].name>> ELSE <<path[i].name, path[i].style>>]

\* Leading zeros of the field id go, tags become upper case.
CanonicalPath(path) == [i \in DOMAIN path |-> <<path[i].name>>]

IsComposite(p) == p \in DOMAIN Layout /\ Layout[p] \in {"positional", "tlv"}

\* isTLVComposite: the top-level field is a BER-TLV composite.
IsTLVComposite(id) == <<id>> \in DOMAIN Layout /\ Layout[<<id>>] = "tlv"

\* The leaves that an entry sets: all those of a composite and the unknown tags
\* that its value brings, else what its path addresses.
Carried(e) ==
  LET p == Target(e.path) IN
  IF IsComposite(p) \/ e.brings # {}
  THEN {l \in DOMAIN Layout : IsStrictPrefix(p, l) /\ ~IsComposite(l)} \cup e.brings
  ELSE {p}

\* A tag of a TLV composite, at any depth, that the specification does not have.
UnknownTag(u) ==
  /\ u \in Seq(STRING) /\ u \notin DOMAIN Layout
  /\ Len(u) > 1 /\ \A i \in DOMAIN u : u[i] # ""
  /\ u[1] \in FieldIds /\ IsTLVComposite(u[1]) /\ u[2] \in HexTags

\* No leaf is a part of another one.
Apart(leaves) == \A k, l \in leaves : IsPrefix(k, l) => k = l

\* Unknown tags lie in the value that brings them.  A document is finite, and
\* empty values are not modelled: what is set at a composite has a subfield.
ASSUME EntriesAssumption ==
  \A d \in Documents :
    /\ IsFiniteSet(d.entries)
    /\ \A e \in d.entries :
         /\ \A u \in e.brings : UnknownTag(u) /\ IsPrefix(Target(e.path), u)
         /\ Apart(e.brings \cup {l \in DOMAIN Layout : ~IsComposite(l)})
         /\ Carried(e) # {}

-----------------------------------------------------------------------------
(* Values and messages *)

\* A value is some data, at its full width or without its padding.
Pad(v) == [v EXCEPT !.full = TRUE]
Unpad(v) == [v EXCEPT !.full = FALSE]

\* What packing puts on the wire for a leaf.
Wire(l, v) == IF l \in Fixed THEN Pad(v) ELSE v

\* field.String() of a leaf that has been unpacked.
FieldString(l, w) == IF l \in Fixed THEN Unpad(w) ELSE w

\* The value as the field gives it.
CanonicalFieldValue_Wrong(l, s) == s

\* canonicalFieldValue pads a fixed-length field again.
CanonicalFieldValue(l, s) == IF l \in Fixed THEN Pad(s) ELSE s

\* f, and g where f is silent.
Over(f, g) ==
  [l \in DOMAIN f \cup DOMAIN g |-> IF l \in DOMAIN f THEN f[l] ELSE g[l]]

\* What a set of entries sets.
Content(entries) ==
  [l \in UNION {Carried(e) : e \in entries} |->
     Wire(l, (CHOOSE e \in entries : l \in Carried(e)).value)]

\* Message.GetBytes.
FieldContent(m, id) == [l \in {k \in DOMAIN m : k[1] = id} |-> m[l]]

\* Message.Field and Message.BinaryField replace the whole field.
SetField(m, id, content) ==
  Over(content, [l \in {k \in DOMAIN m : k[1] # id} |-> m[l]])

-----------------------------------------------------------------------------
(* From a document to a message *)

\* Two spellings of one path, or a parent and one of its children.
Clash(p, q) == IsPrefix(CanonicalPath(p), CanonicalPath(q))

\* Document.Validate: the MTI is four digits, and no path is malformed or
\* clashes with another, in one map or across the two.
Valid(d) ==
  /\ d.mti = "four-digits"
  /\ \A e \in d.entries : ~Malformed(e.path)
  /\ \A e, f \in d.entries : e # f => ~Clash(e.path, f.path)

Refuse(why) ==
  /\ phase' = "refused"
  /\ err' = why
  /\ UNCHANGED <<doc, round, todo, groups, msg, count, first>>

Init ==
  /\ doc \in Documents
  /\ round = 1 /\ phase = "parse"
  /\ todo = {} /\ groups = {}
  /\ msg = <<>> /\ count = 0 /\ first = <<>>
  /\ err = ""

\* The maps are checked before anything is set.
Validate ==
  /\ phase = "parse" /\ Valid(doc)
  /\ phase' = "text"
  /\ todo' = doc.entries
  /\ UNCHANGED <<doc, round, groups, msg, count, first, err>>

ValidateFails == phase = "parse" /\ ~Valid(doc) /\ Refuse("document")

\* Message.MarshalPath finds subfields by the name that the specification gives
\* them, and the field by its number.
CanMarshal(path) ==
  /\ Target(path) \in DOMAIN Layout
  /\ IsComposite(<<TopLevel(path)>>)
  /\ \A i \in DOMAIN path : i > 1 => path[i].style = "plain"

\* The flat TLV paths, which are gathered until the other paths are set.
Flat(e) ==
  e.where = "binary_fields" /\ Len(e.path) = 2 /\ IsTLVComposite(TopLevel(e.path))

\* A dotted path of its own needs a subfield; a field needs to be defined and,
\* for binary_fields, not to be text.
Settable(e) ==
  IF Len(e.path) > 1 THEN CanMarshal(e.path)
  ELSE /\ Target(e.path) \in DOMAIN Layout
       /\ e.where = "binary_fields" => Layout[Target(e.path)] # "text"

\* One path of the loop over the text fields or, except for the flat TLV paths,
\* of the loop over the binary fields.
Set(e) ==
  /\ e \in todo
  /\ e.where = (IF phase = "text" THEN "fields" ELSE "binary_fields")
  /\ phase \in {"text", "binary"}
  /\ ~Flat(e) /\ Settable(e)
  /\ msg' = IF Len(e.path) > 1 THEN Over(Content({e}), msg)
            ELSE SetField(msg, TopLevel(e.path), Content({e}))
  /\ todo' = todo \ {e}
  /\ UNCHANGED <<doc, round, phase, groups, count, first, err>>

\* A path that the message has no place for.
SetFails(e) ==
  /\ e \in todo
  /\ e.where = (IF phase = "text" THEN "fields" ELSE "binary_fields")
  /\ phase \in {"text", "binary"}
  /\ ~Flat(e) /\ ~Settable(e)
  /\ Refuse("path")

\* tlvGroups[topID][tag] = data.
Gather(e) ==
  /\ phase = "binary"
  /\ e \in todo /\ Flat(e)
  /\ groups' = groups \cup {e}
  /\ todo' = todo \ {e}
  /\ UNCHANGED <<doc, round, phase, msg, count, first, err>>

TextDone ==
  /\ phase = "text"
  /\ \A e \in todo : e.where # "fields"
  /\ phase' = "binary"
  /\ UNCHANGED <<doc, round, todo, groups, msg, count, first, err>>

BinaryDone ==
  /\ phase = "binary" /\ todo = {}
  /\ phase' = "tlv"
  /\ UNCHANGED <<doc, round, todo, groups, msg, count, first, err>>

\* The flat tags take the place of what the composite had.
Merged_Wrong(existing, tags) == tags

\* The existing TLV stream, and the flat tags after it.
Merged(existing, tags) == Over(tags, existing)

GroupOf(id) == {e \in groups : TopLevel(e.path) = id}

\* The last loop of WriteMessage, for one composite.
MergeTags(id) ==
  /\ phase = "tlv" /\ GroupOf(id) # {}
  /\ \A e \in GroupOf(id) : e.path[2].name \in HexTags
  /\ msg' = SetField(msg, id, Merged(FieldContent(msg, id), Content(GroupOf(id))))
  /\ groups' = groups \ GroupOf(id)
  /\ UNCHANGED <<doc, round, phase, todo, count, first, err>>

\* encodeTLV: a tag that is not hexadecimal.
MergeFails(id) ==
  /\ phase = "tlv"
  /\ \E e \in GroupOf(id) : e.path[2].name \notin HexTags
  /\ Refuse("path")

\* One for every path.
TopLevelFieldCount_Wrong(entries) == Cardinality(entries)

\* The ids are counted as they are spelled.
TopLevelFieldCount(entries) ==
  Cardinality({<<e.path[1].name, e.path[1].style>> : e \in entries})

PackMessage ==
  /\ phase = "tlv" /\ groups = {}
  /\ phase' = "packed"
  /\ count' = TopLevelFieldCount(doc.entries)
  /\ UNCHANGED <<doc, round, todo, groups, msg, first, err>>

\* A value that is too long or not of the kind its field takes; a packed message
\* that does not unpack.
LibraryRefuses ==
  /\ phase \in {"text", "binary", "tlv", "packed"}
  /\ phase = "packed" => round = 1
  /\ Refuse("library")

-----------------------------------------------------------------------------
(* From a message to a document *)

\* A path as MessageToDocument spells it.
Plain(l) == [i \in DOMAIN l |-> [name |-> l[i], style |-> "plain"]]

InTLV(l) == \E k \in 1..(Len(l) - 1) : Layout[SubSeq(l, 1, k)] = "tlv"

\* Tags of a TLV composite, tags that the specification does not know and fields
\* of bytes are binary_fields.
IsBinary(l) == l \notin DOMAIN Layout \/ Layout[l] = "bytes" \/ InTLV(l)

\* A constructed tag is also kept as a whole.
Emitted_Wrong(m) ==
  DOMAIN m \cup {p \in DOMAIN Layout : Len(p) = 2 /\ Layout[p] = "tlv"
                                       /\ \E l \in DOMAIN m : IsStrictPrefix(p, l)}

\* appendFieldToDocument recurses into every composite, so only leaves have a
\* path; the unknown tags follow.
Emitted(m) == DOMAIN m

\* The entry for one path; a whole composite would be given as one value.
EntryOf(m, p) ==
  LET l == IF p \in DOMAIN m THEN p
           ELSE CHOOSE k \in DOMAIN m : IsStrictPrefix(p, k)
  IN  [path |-> Plain(p),
       where |-> IF IsBinary(p) THEN "binary_fields" ELSE "fields",
       value |-> IF IsBinary(p) THEN m[l]
                 ELSE CanonicalFieldValue(p, FieldString(p, m[l])),
       brings |-> {}]

MessageToDocument ==
  /\ phase = "packed" /\ round = 1
  /\ doc' = [mti |-> doc.mti, entries |-> {EntryOf(msg, p) : p \in Emitted(msg)}]
  /\ first' = msg
  /\ msg' = <<>>
  /\ round' = 2
  /\ phase' = "parse"
  /\ UNCHANGED <<todo, groups, count, err>>

Finished ==
  /\ phase = "refused" \/ (phase = "packed" /\ round = 2)
  /\ UNCHANGED vars

Next ==
  \/ Validate \/ ValidateFails
  \/ \E e \in todo : Set(e) \/ SetFails(e) \/ Gather(e)
  \/ TextDone \/ BinaryDone
  \/ \E id \in {TopLevel(e.path) : e \in groups} : MergeTags(id) \/ MergeFails(id)
  \/ PackMessage \/ LibraryRefuses
  \/ MessageToDocument
  \/ Finished

Spec == Init /\ [][Next]_vars

-----------------------------------------------------------------------------
(* What converting promises *)

\* A document that gets past its validation says one thing of every leaf of the
\* message: no two of its entries, however spelled and whichever map they are
\* in, set the same part of it ("so the document must not pack at all",
\* document.go:99).
AmbiguityIsRefused ==
  phase \in {"text", "binary", "tlv", "packed"} =>
    \A e, f \in doc.entries :
      e # f => Carried(e) \cap Carried(f) = {}

\* A packed message carries what the document says, all of it and nothing else,
\* whatever the order in which text, nested and flat TLV paths were set.
PacksWhatWasWritten ==
  phase = "packed" =>
    /\ DOMAIN msg = UNION {Carried(e) : e \in doc.entries}
    /\ \A e \in doc.entries : \A l \in Carried(e) :
         msg[l] = Wire(l, e.value)

\* A tag that the specification does not know, inside of another tag.
NestedUnknown(m) == \E l \in DOMAIN m : l \notin DOMAIN Layout /\ Len(l) > 2

\* The document made of a packed message is valid, and has a place in the message
\* for each of its paths, except exactly the unknown tags inside of constructed
\* ones: they are kept "so they survive a round trip" (convert.go:60), but
\* MarshalPath knows no such path.
ConvertedDocumentIsAccepted ==
  round = 2 =>
    /\ err # "document"
    /\ err = "path" => NestedUnknown(first)
    /\ phase = "packed" => ~NestedUnknown(first)

\* It shows every leaf as it is on the wire, and if it packs at all, to the same
\* message.
RoundTrip ==
  round = 2 =>
    /\ \A e \in doc.entries : Target(e.path) \in DOMAIN first
                              /\ e.value = first[Target(e.path)]
    /\ phase = "packed" => msg = first

\* The reported count is never less than the number of fields that the message
\* has, and it is that number exactly if the document spells each id in one way
\* (the ids are counted as spelled, write.go:132).
CountIsOfTheMessage ==
  phase = "packed" =>
    LET ids == {l[1] : l \in DOMAIN msg} IN
    /\ count >= Cardinality(ids)
    /\ count = Cardinality(ids)
         <=> \A e, f \in doc.entries : TopLevel(e.path) = TopLevel(f.path)
                                           => e.path[1].style = f.path[1].style
=============================================================================
