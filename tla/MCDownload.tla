----------------------------- MODULE MCDownload -----------------------------
(* Media for TLC, in parts of two units: a video of a part and a half, a   *)
(* secret photo of the same size, which the server stores in whole blocks, *)
(* and a secret document whose sender said that it is longer than it is.   *)
EXTENDS Download

MCMedia == {"video", "secret", "liar"}
MCsize == [m \in MCMedia |-> IF m = "liar" THEN 4 ELSE 3]
MClength == [m \in MCMedia |-> CASE m = "video" -> 3 [] m = "secret" -> 4 [] OTHER -> 2]

=============================================================================
