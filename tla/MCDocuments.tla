---------------------------- MODULE MCDocuments ----------------------------
(***************************************************************************)
(* A specification with a plain field, a fixed-length one, a positional    *)
(* composite and a TLV composite with a constructed tag; documents of up   *)
(* to four entries taken from every spelling, map and kind of path.        *)
(***************************************************************************)
EXTENDS Documents, TLC

MCLayout ==
     <<"4">> :> "text" @@ <<"52">> :> "bytes"
  @@ <<"48">> :> "positional" @@ <<"48", "1">> :> "text" @@ <<"48", "2">> :> "text"
  @@ <<"55">> :> "tlv" @@ <<"55", "8A">> :> "bytes"
  @@ <<"55", "70">> :> "tlv" @@ <<"55", "70", "9F02">> :> "bytes"

MCFixed == {<<"4">>}

Seg(name, style) == [name |-> name, style |-> style]
P(name) == Seg(name, "plain")
R(name) == Seg(name, "respelled")

TextPaths == {
  <<P("4")>>, <<R("4")>>, <<Seg("4", "blanks")>>, <<P("0")>>,
  <<P("48")>>, <<P("48"), P("1")>>, <<R("48"), P("2")>>, <<P("48"), P("")>>,
  <<P("55"), P("8A")>> }

BinaryPaths == {
  <<P("4")>>, <<P("52")>>, <<R("52")>>,
  <<P("55")>>, <<P("55"), P("8A")>>, <<P("55"), R("8A")>>, <<R("55"), P("DF8129")>>,
  <<P("55"), P("X")>>, <<P("55"), P("70"), P("9F02")>>, <<P("55"), P("70")>>,
  <<P("55"), P("70"), R("9F02")>> }

\* Each path has a value of its own, so that no value is lost unnoticed.  The
\* text of field 4 comes with and without its padding.
Entry(path, where, full, brings) ==
  [path |-> path, where |-> where, brings |-> brings,
   value |-> [data |-> <<path, where>>, full |-> full]]

\* Unknown tags: beside the known ones, inside of a known constructed tag, and a
\* constructed one that the library keeps whole or opens (fuzz_test.go:101).
WithUnknownTags ==
     {Entry(<<P("55")>>, "binary_fields", TRUE, {<<"55", "DF8129">>}),
      Entry(<<P("55")>>, "binary_fields", TRUE, {<<"55", "70", "DF8129">>}),
      Entry(<<P("55"), P("70")>>, "binary_fields", TRUE, {<<"55", "70", "DF8129">>}),
      Entry(<<P("55"), P("E1")>>, "binary_fields", TRUE, {}),
      Entry(<<P("55"), P("E1")>>, "binary_fields", TRUE, {<<"55", "E1", "DF8129">>})}

Pool ==
  {Entry(p, "fields", TRUE, {}) : p \in TextPaths \ {<<P("4")>>}}
  \cup {Entry(<<P("4")>>, "fields", FALSE, {})}
  \cup {Entry(p, "binary_fields", TRUE, {}) : p \in BinaryPaths}
  \cup WithUnknownTags

\* A map has a path once.
IsMap(es) == \A e, f \in es : e.path = f.path /\ e.where = f.where => e = f

\* The sets of up to n entries that the two maps of a document can hold.
EntrySets[n \in Nat] ==
  IF n = 0 THEN {{}}
  ELSE EntrySets[n - 1]
       \cup {s \in {t \cup {e} : t \in EntrySets[n - 1], e \in Pool} : IsMap(s)}

MCDocumentSet ==
  {[mti |-> "four-digits", entries |-> es] : es \in EntrySets[4]}
  \cup {[mti |-> "other", entries |-> {e}] : e \in Pool}
=============================================================================
