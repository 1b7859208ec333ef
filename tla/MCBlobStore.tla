---------------------------- MODULE MCBlobStore ----------------------------
(* Two or three uploads; the first two carry the same bytes for two jobs. *)
EXTENDS BlobStore

MCDigestOf == [u \in Uploads |-> IF u = 3 THEN "b" ELSE "a"]
MCJobOf == [u \in Uploads |-> IF u = 1 THEN "j" ELSE "k"]
MCSize == [d \in Digests |-> IF d = "a" THEN 2 ELSE 1]
=============================================================================
