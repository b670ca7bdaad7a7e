-------------------------------- MODULE Fields --------------------------------
(* The fields of messages, as the generated codecs treat them. *)

(* An entry of a table: the tag is the key byte that Marshal writes, the     *)
(* length of the key that Size counts, or the number and wire type that      *)
(* Unmarshal looks for.                                                      *)
Entry(kind, tag, field, type) == [kind |-> kind, tag |-> tag, field |-> field, type |-> type]

Text(tag, field)          == Entry("text", tag, field, "bytes")
Texts(tag, field)         == Entry("texts", tag, field, "bytes")
Number(tag, field)        == Entry("number", tag, field, "uint64")
Signed(tag, field)        == Entry("number", tag, field, "int64")
Part(tag, field, type)    == Entry("part", tag, field, type)
Pointer(tag, field, type) == Entry("pointer", tag, field, type)
Parts(tag, field, type)   == Entry("parts", tag, field, type)

Codec(marshal, size, unmarshal) ==
    [marshal |-> marshal, size |-> size, unmarshal |-> unmarshal]
===============================================================================
