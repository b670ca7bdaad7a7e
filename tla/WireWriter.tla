------------------------------ MODULE WireWriter ------------------------------
(***************************************************************************)
(* Marshal: a buffer of the size Size has found is filled from its end, the  *)
(* messages inside a message by their own MarshalToSizedBuffer.              *)
(***************************************************************************)
EXTENDS Wire

VARIABLES buffer,          \* dAtA of the writer
          i,               \* where the writer is: everything from here on is written
          writing,         \* the calls of MarshalToSizedBuffer, the innermost last
          starts           \* history: where the fields of the outermost message begin

writerVars == <<buffer, i, writing, starts>>

(* What an entry of a table has to write, one after the other. *)
Items(m, e) ==
    IF e.field \notin DOMAIN m THEN <<>>
    ELSE LET v == m[e.field]
         IN  CASE e.kind \in {"texts", "parts"}   -> v
               [] e.kind \in {"part", "pointer"} -> <<v>>
               [] e.kind = "text"   -> IF Len(v) > 0 THEN <<v>> ELSE <<>>
               [] e.kind = "number" -> IF v # 0 THEN <<v>> ELSE <<>>

IsMessage(t, e) == e.kind \in {"part", "pointer", "parts"} /\ Known(TypeOf(t, e))

RECURSIVE Size(_, _)
Size(t, m) ==
    LET SizeOf(e, v) ==
            LET l == IF IsMessage(t, e) THEN Size(TypeOf(t, e), v) ELSE Len(v)
            IN  IF e.kind = "number" THEN e.tag + sov(uint(v)) ELSE e.tag + l + sov(l)
    IN  FoldLeft(LAMBDA n, e : n + FoldLeft(LAMBDA k, v : k + SizeOf(e, v), 0, Items(m, e)),
                 0, CodecOf(t).size)

(* The bytes in their place; what would lie outside the buffer is lost. *)
Put(d, at, bytes) ==
    [k \in DOMAIN d |-> IF k - at \in 1..Len(bytes) THEN bytes[k - at] ELSE d[k]]

(* A number before `offset'. *)
encodeVarint(d, offset, v) == Put(d, offset - sov(v), VarintBytes(v))

Call(t, m, at) == [type |-> t, msg |-> m, todo |-> CodecOf(t).marshal, entry |-> <<>>,
                   items |-> <<>>, from |-> at]

Writer == Last(writing)

SetWriter(w) == Append(Front(writing), w)

WriterInit(t, m) ==
    LET size == Size(t, m)
    IN  /\ buffer = [k \in 1..size |-> 0]
        /\ i = size
        /\ writing = <<Call(t, m, size)>>
        /\ starts = {size}

(* The next field of the innermost message, if it is set *)
NextEntry ==
    /\ writing # <<>> /\ Writer.items = <<>> /\ Writer.todo # <<>>
    /\ LET e == Head(Writer.todo)
       IN  writing' = SetWriter([Writer EXCEPT !.entry = e, !.items = Items(Writer.msg, e),
                                               !.todo = Tail(@)])
    /\ UNCHANGED <<buffer, i, starts>>

(* The number n and the key of an entry before `at', in d *)
Headed(d, at, n, e, depth) ==
    /\ buffer' = Put(encodeVarint(d, at, n), at - sov(n) - 1, <<e.tag>>)
    /\ i' = at - sov(n) - 1
    /\ starts' = IF depth = 1 THEN starts \cup {i'} ELSE starts

WriteItem ==
    /\ writing # <<>> /\ Writer.items # <<>>
    /\ ~IsMessage(Writer.type, Writer.entry)
    /\ LET v == Last(Writer.items)
       IN  IF Writer.entry.kind = "number"
           THEN Headed(buffer, i, uint(v), Writer.entry, Len(writing))
           ELSE Headed(Put(buffer, i - Len(v), v), i - Len(v), Len(v), Writer.entry, Len(writing))
    /\ writing' = SetWriter([Writer EXCEPT !.items = Front(@)])

BeginPart ==
    /\ writing # <<>> /\ Writer.items # <<>>
    /\ IsMessage(Writer.type, Writer.entry)
    /\ writing' = Append(writing, Call(TypeOf(Writer.type, Writer.entry), Last(Writer.items), i))
    /\ UNCHANGED <<buffer, i, starts>>

EndPart ==
    /\ Len(writing) > 1 /\ Writer.items = <<>> /\ Writer.todo = <<>>
    /\ LET outer == Last(Front(writing))
       IN  /\ Headed(buffer, i, Writer.from - i, outer.entry, Len(writing) - 1)
           /\ writing' = Append(Front(Front(writing)), [outer EXCEPT !.items = Front(@)])

Write == NextEntry \/ WriteItem \/ BeginPart \/ EndPart

Written == Len(writing) = 1 /\ Writer.items = <<>> /\ Writer.todo = <<>>

(* dAtA[:n], where n is what MarshalToSizedBuffer returns *)
Marshalled == SubSeq(buffer, 1, Len(buffer) - i)
===============================================================================
