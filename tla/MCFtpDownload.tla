---------------------------- MODULE MCFtpDownload ----------------------------
(***************************************************************************)
(* Instances of FtpDownload, with an empty file among the contents.        *)
(***************************************************************************)
EXTENDS FtpDownload

\* a and a2 are two versions of one file, b another file of a's length, e empty.
MCContents == {"a", "a2", "b", "e"}
MCUrlOf == [c \in MCContents |-> CASE c = "b" -> "url2" [] c = "e" -> "url3" [] OTHER -> "url1"]
MCSizeOf == [c \in MCContents |-> CASE c = "a2" -> 5 [] c = "e" -> 0 [] OTHER -> 7]

\* The environment the code copes with, one where data may end early, and one
\* that does everything.
MCFaultSets ==
    {{"net", "kill", "save"}, {"net", "kill", "save", "short"},
     {"net", "kill", "save", "write", "killInFlight", "openGap", "nosize", "short", "debug"}}
=============================================================================
