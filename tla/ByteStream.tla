------------------------------ MODULE ByteStream ------------------------------
(***************************************************************************)
(* What MediaSourceHandler's data path promises to the stream consumers:   *)
(* the payloads handed over by the producers form one stream of bytes, and *)
(* that stream is posted in chunks of a fixed size, byte for byte and in   *)
(* order.                                                                  *)
(***************************************************************************)
EXTENDS Naturals, Sequences

CONSTANT ChunkSize  \* the size of a chunk

VARIABLES
  stream,   \* the bytes handed over and not yet posted
  posted    \* the last chunk posted

vars == <<stream, posted>>

Init == stream = <<>> /\ posted = <<>>

(* A producer's payload joins the stream as a whole.                       *)
Write ==
  /\ \E n \in 0..Len(stream') : stream = SubSeq(stream', 1, n)
  /\ UNCHANGED posted

(* One chunk leaves the stream.                                            *)
Post ==
  /\ Len(stream) >= ChunkSize
  /\ posted' = SubSeq(stream, 1, ChunkSize)
  /\ stream' = SubSeq(stream, ChunkSize + 1, Len(stream))

Next == Write \/ Post

Spec == Init /\ [][Next]_vars

=============================================================================
