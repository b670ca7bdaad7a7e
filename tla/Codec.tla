--------------------------------- MODULE Codec --------------------------------
(***************************************************************************)
(* A message is written by one node and read by another, or written to a    *)
(* store and read from it: whole, cut off, with one byte of it changed, or   *)
(* with a field of a newer version of its type.                             *)
(***************************************************************************)
EXTENDS WireWriter, WireReader

CONSTANTS Samples,         \* pairs of a type and a message of that type
          NewFields,       \* fields that no type has yet, as bytes
          BadBytes         \* what a byte may become

VARIABLES type, message,   \* what is written
          delivery         \* how it arrived

vars == <<writerVars, readerVars, type, message, delivery>>

Init == /\ \E s \in Samples : type = s[1] /\ message = s[2]
        /\ WriterInit(type, message)
        /\ ReaderInit
        /\ delivery = "none"

Writes == Write /\ UNCHANGED <<readerVars, type, message, delivery>>

Deliver(how, d) ==
    /\ Written /\ answer = "unread"
    /\ Unmarshal(type, d)
    /\ delivery' = how
    /\ UNCHANGED <<writerVars, type, message>>

Whole == Deliver("whole", Marshalled)

CutOff == \E n \in 0..Len(Marshalled) - 1 : Deliver("cut off", SubSeq(Marshalled, 1, n))

Damaged == \E n \in DOMAIN Marshalled, b \in BadBytes :
            Deliver("damaged", [Marshalled EXCEPT ![n] = b])

Newer == \E at \in starts, f \in NewFields :
            Deliver("newer", SubSeq(Marshalled, 1, at) \o f
                             \o SubSeq(Marshalled, at + 1, Len(Marshalled)))

Reads == Read /\ UNCHANGED <<writerVars, type, message, delivery>>

Next == Writes \/ Whole \/ CutOff \/ Damaged \/ Newer \/ Reads

Spec == Init /\ [][Next]_vars

(* A call of Unmarshal that has begun goes on. *)
FairSpec == Spec /\ WF_vars(Reads)

-------------------------------------------------------------------------------
(* Properties. *)

Repeated(t, f) ==
    \E e \in Range(CodecOf(t).unmarshal) : e.field = f /\ e.kind \in {"texts", "parts"}

(***************************************************************************)
(* What was written is what is read, also by a node that does not know a     *)
(* field the writer has added.  Size is exact for every message:             *)
(* MarshalToSizedBuffer, which writes from the end, neither runs out of the  *)
(* buffer nor leaves any of it unwritten (x/market/types/tx.pb.go:388-434,   *)
(* 586-604, 660-806 and 1218-1293, and so on).                               *)
(***************************************************************************)
RoundTrip ==
    /\ i >= 0 /\ (Written => i = 0)
    /\ answer \notin {"unread", "none"} /\ delivery \in {"whole", "newer"} =>
           answer = "nil" /\ Reader.msg = message

(***************************************************************************)
(* A message that was cut off ends in io.ErrUnexpectedEOF, or was cut between *)
(* two fields: then each field read is the one written, and of a repeated    *)
(* field the first items.                                                    *)
(***************************************************************************)
CutOffShows ==
    answer \notin {"unread", "none"} /\ delivery = "cut off" =>
        \/ answer = "eof"
        \/ /\ answer = "nil"
           /\ \A f \in DOMAIN Reader.msg :
                /\ f \in DOMAIN message
                /\ IF Repeated(type, f) THEN IsPrefix(Reader.msg[f], message[f])
                   ELSE Reader.msg[f] = message[f]

(***************************************************************************)
(* Unmarshal ends, whatever it was given: every turn of its loop, and of     *)
(* that of skip, consumes a byte (x/market/types/tx.pb.go:663 and 1222).     *)
(***************************************************************************)
ReadEnds == answer = "none" ~> answer # "none"
===============================================================================
