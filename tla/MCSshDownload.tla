---------------------------- MODULE MCSshDownload ----------------------------
(***************************************************************************)
(* Instances of SshDownload: one remote file, or two that are downloaded   *)
(* to one output path.                                                     *)
(***************************************************************************)
EXTENDS SshDownload

OneFile == {"a"}
OneSize == [c \in OneFile |-> 6]

TwoFiles == {"a", "b"}
TwoSizes == [c \in TwoFiles |-> IF c = "a" THEN 2 ELSE 3]
=============================================================================
