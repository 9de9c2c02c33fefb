--------------------------- MODULE MCHttpDownload ---------------------------
(***************************************************************************)
(* Instances of HttpDownload.  The unit of length is half a megabyte or    *)
(* so: a file of 5 units is cut into at most MaxThreads ranges, and        *)
(* SaveInterval and MaxChunk are chosen per run.                           *)
(***************************************************************************)
EXTENDS HttpInvariant

\* a and a2 are two versions of one file, b is another file of a's length.
MCContents == {"a", "a2", "b"}
MCUrlOf    == [c \in MCContents |-> IF c = "b" THEN "url2" ELSE "url1"]
MCSizeOf   == [c \in MCContents |-> IF c = "a2" THEN 4 ELSE 5]

OneContent == {"a"}
OneUrlOf   == [c \in OneContent |-> "url1"]
OneSizeOf  == [c \in OneContent |-> 7]
=============================================================================
