------------------------------ MODULE WireReader ------------------------------
(***************************************************************************)
(* Unmarshal: field after field, the messages inside a message by their own  *)
(* Unmarshal on a slice.  Fields the type does not have are skipped.         *)
(***************************************************************************)
EXTENDS Wire

VARIABLES dAtA,            \* the bytes
          reading,         \* the calls of Unmarshal, the innermost last
          skipping,        \* the call of skip, if there is one
          answer           \* what the outermost call has returned, "none" until it has

readerVars == <<dAtA, reading, skipping, answer>>

(* A call has the slice of l bytes that begins at `start', and is at iNdEx   *)
(* of it; `entry' is the field it fills in the message that contains it.     *)
Slice(t, m, start, l, e) ==
    [type |-> t, msg |-> m, start |-> start, l |-> l, iNdEx |-> 0, entry |-> e]

NotSkipping == [on |-> FALSE, n |-> 0, depth |-> 0]

Reader == Last(reading)

SetReader(r) == Append(Front(reading), r)

ReaderInit ==
    /\ dAtA = <<>> /\ reading = <<>>
    /\ skipping = NotSkipping
    /\ answer = "unread"

(* Somebody calls Unmarshal with the bytes d. *)
Unmarshal(t, d) ==
    /\ answer # "none"
    /\ dAtA' = d
    /\ reading' = <<Slice(t, <<>>, 0, Len(d), <<>>)>>
    /\ skipping' = NotSkipping
    /\ answer' = "none"

(* A number at offset `at' of a slice *)
VarintAt(r, at) ==
    LET v == Varint(dAtA, r.start + at, r.start + r.l)
    IN  IF v.err = "nil" THEN [v EXCEPT !.next = @ - r.start] ELSE v

(* An error of an inner call is an error of the outer ones. *)
Return(err) == /\ answer' = err
               /\ reading' = <<>>
               /\ skipping' = NotSkipping
               /\ UNCHANGED dAtA

(* The message with a field set, or with one more item in a repeated one *)
Assign(m, e, v) ==
    LET old == IF e.field \in DOMAIN m THEN m[e.field] ELSE <<>>
        new == IF e.kind \in {"texts", "parts"} THEN Append(old, v) ELSE v
    IN  [f \in DOMAIN m \cup {e.field} |-> IF f = e.field THEN new ELSE m[f]]

(* What a message inside another one begins with: a repeated one is new. *)
Existing(m, e) ==
    IF e.kind # "parts" /\ e.field \in DOMAIN m THEN m[e.field] ELSE <<>>

(* The entry of a table for a field number, if there is one *)
Cases(t, num) == {e \in Range(CodecOf(t).unmarshal) : e.tag[1] = num}

Converted(e, x) == IF e.type = "int64" THEN int(x) ELSE x

(* Mutant: a length may go beyond the slice, which then ends the field. *)
ReadBytesToTheEnd(r, e, n, at) ==
    LET postIndex == IF at + n > r.l THEN r.l ELSE at + n
    IN  IF n < 0 THEN Return("length")
        ELSE /\ reading' = SetReader([r EXCEPT
                              !.msg = Assign(@, e, SubSeq(dAtA, r.start + at + 1, r.start + postIndex)),
                              !.iNdEx = postIndex])
             /\ UNCHANGED <<dAtA, skipping, answer>>

(* The n bytes at offset `at' are the field, or the message in it. *)
ReadBytes(r, e, n, at) ==
    LET postIndex == int(uint(at + n))
    IN  IF n < 0 \/ postIndex < 0 THEN Return("length")
        ELSE IF postIndex > r.l THEN Return("eof")
        ELSE /\ IF e.kind \in {"part", "pointer", "parts"} /\ Known(TypeOf(r.type, e))
                THEN reading' = Append(SetReader([r EXCEPT !.iNdEx = postIndex]),
                                       Slice(TypeOf(r.type, e), Existing(r.msg, e),
                                             r.start + at, n, e))
                ELSE reading' = SetReader([r EXCEPT
                        !.msg = Assign(@, e, SubSeq(dAtA, r.start + at + 1, r.start + postIndex)),
                        !.iNdEx = postIndex])
             /\ UNCHANGED <<dAtA, skipping, answer>>

(* The field whose key ends before offset `at' *)
ReadField(r, e, wireType, at) ==
    \E v \in {VarintAt(r, at)} :
        IF wireType # e.tag[2] THEN Return("wiretype")
        ELSE IF v.err # "nil" THEN Return(v.err)
        ELSE IF e.kind = "number"
        THEN /\ reading' = SetReader([r EXCEPT !.msg = Assign(@, e, Converted(e, v.value)),
                                               !.iNdEx = v.next])
             /\ UNCHANGED <<dAtA, skipping, answer>>
        ELSE ReadBytes(r, e, int(v.value), v.next)

Skip == /\ skipping' = [NotSkipping EXCEPT !.on = TRUE]
        /\ UNCHANGED <<dAtA, reading, answer>>

ReadKey ==
    /\ answer = "none" /\ ~skipping.on
    /\ Reader.iNdEx < Reader.l
    /\ \E r \in {Reader} : \E key \in {VarintAt(r, r.iNdEx)} :
        LET fieldNum == int32(key.value \div 8)
            wireType == key.value % 8
            cases == Cases(r.type, fieldNum)
        IN  IF key.err # "nil" THEN Return(key.err)
            ELSE IF wireType = 4 THEN Return("group")
            ELSE IF fieldNum <= 0 THEN Return("tag")
            ELSE IF cases = {} THEN Skip
            ELSE \E e \in cases : ReadField(r, e, wireType, key.next)

(* The slice is read: the message goes into the one that contains it.  Were    *)
(* the index past the end, Unmarshal would return an error; ReadWithin says it  *)
(* never is.                                                                  *)
EndSlice ==
    /\ answer = "none" /\ ~skipping.on
    /\ Reader.iNdEx >= Reader.l
    /\ IF Len(reading) = 1
       THEN /\ answer' = "nil"
            /\ UNCHANGED reading
       ELSE LET outer == Last(Front(reading))
            IN  /\ reading' = Append(Front(Front(reading)),
                                     [outer EXCEPT !.msg = Assign(@, Reader.entry, Reader.msg)])
                /\ UNCHANGED answer
    /\ UNCHANGED <<dAtA, skipping>>
-------------------------------------------------------------------------------
(* Skipping: one item of the wire at a time, more of them in a group *)

(* Mutant: the field may go beyond the slice. *)
SkippedUnchecked(r, n, depth) ==
    IF n < 0 THEN Return("length")
    ELSE IF depth > 0
    THEN /\ skipping' = [skipping EXCEPT !.n = n, !.depth = depth]
         /\ UNCHANGED <<dAtA, reading, answer>>
    ELSE /\ skipping' = NotSkipping
         /\ reading' = SetReader([r EXCEPT !.iNdEx = @ + n])
         /\ UNCHANGED <<dAtA, answer>>

(* Mutant: the loop goes on where the field began. *)
SkippedInPlace(r, n, depth) ==
    IF n < 0 THEN Return("length")
    ELSE /\ skipping' = IF depth > 0 THEN [skipping EXCEPT !.n = n, !.depth = depth]
                        ELSE NotSkipping
         /\ UNCHANGED <<dAtA, reading, answer>>

(* After n bytes of the field, at some depth of groups *)
Skipped(r, n, depth) ==
    LET iNdEx == int(uint(r.iNdEx + n))
    IN  IF n < 0 THEN Return("length")
        ELSE IF depth > 0
        THEN /\ skipping' = [skipping EXCEPT !.n = n, !.depth = depth]
             /\ UNCHANGED <<dAtA, reading, answer>>
        ELSE IF iNdEx < 0 THEN Return("length")
        ELSE IF iNdEx > r.l THEN Return("eof")
        ELSE /\ skipping' = NotSkipping
             /\ reading' = SetReader([r EXCEPT !.iNdEx = iNdEx])
             /\ UNCHANGED <<dAtA, answer>>

SkipItem ==
    /\ answer = "none" /\ skipping.on
    /\ \E r \in {Reader} : \E key \in {VarintAt(r, r.iNdEx + skipping.n)} :
           LET depth == skipping.depth
               wireType == key.value % 8
               v == VarintAt(r, key.next)
               n == key.next - r.iNdEx
               Past(k) == int(uint(n + k))
           IN  IF key.err # "nil" THEN Return(key.err)
               ELSE CASE wireType = 0 -> IF v.err # "nil" THEN Return(v.err)
                                         ELSE Skipped(r, v.next - r.iNdEx, depth)
                      [] wireType = 1 -> Skipped(r, Past(8), depth)
                      [] wireType = 2 -> IF v.err # "nil" THEN Return(v.err)
                                         ELSE IF int(v.value) < 0 THEN Return("length")
                                         ELSE Skipped(r, int(uint(v.next - r.iNdEx + v.value)), depth)
                      [] wireType = 3 -> Skipped(r, n, depth + 1)
                      [] wireType = 4 -> IF depth = 0 THEN Return("group")
                                         ELSE Skipped(r, n, depth - 1)
                      [] wireType = 5 -> Skipped(r, Past(4), depth)
                      [] OTHER -> Return("wiretype")

Read == ReadKey \/ EndSlice \/ SkipItem
-------------------------------------------------------------------------------
(***************************************************************************)
(* Whatever the bytes, no call of Unmarshal is ever outside its slice, and   *)
(* each slice ends where the call that made it will go on, so that nothing   *)
(* outside dAtA is read (x/market/types/tx.pb.go:660-806, and so on).        *)
(***************************************************************************)
ReadWithin ==
    \A k \in DOMAIN reading :
        /\ reading[k].iNdEx \in 0..reading[k].l
        /\ IF k = 1 THEN reading[1].start = 0 /\ reading[1].l = Len(dAtA)
           ELSE /\ reading[k].start >= reading[k - 1].start
                /\ reading[k].start + reading[k].l = reading[k - 1].start + reading[k - 1].iNdEx
===============================================================================
