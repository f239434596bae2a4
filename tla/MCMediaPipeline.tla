--------------------------- MODULE MCMediaPipeline ---------------------------
(* MediaPipeline on a small instance: two or three buffers, one demuxer    *)
(* thread and the data monitor.  The payloads are shorter than, as long as *)
(* and longer than a chunk, one is empty, and their bytes differ so that a *)
(* reordering shows.                                                       *)
EXTENDS MediaPipeline

CONSTANT Reader

MCProducers == {Reader, Monitor}

MCBytes == {"0", "a", "b"}

MCPayloads == {<<>>, <<"a">>, <<"a", "b">>, <<"b", "a", "b">>}
=============================================================================
