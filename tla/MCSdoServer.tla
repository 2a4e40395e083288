----------------------------- MODULE MCSdoServer ---------------------------
(* The instance of SdoServer that TLC checks: a number of four bytes, a    *)
(* text of fourteen and an object that is only read.                       *)
EXTENDS SdoServer
MCDict ==
  [ o \in {"number", "text", "fixed"} |->
      CASE o = "number" -> [size |-> 4, string |-> FALSE, read |-> TRUE, write |-> TRUE]
        [] o = "text"   -> [size |-> 14, string |-> TRUE, read |-> TRUE, write |-> TRUE]
        [] o = "fixed"  -> [size |-> 2, string |-> FALSE, read |-> TRUE, write |-> FALSE] ]

Download(o, n, ind, valid) ==
  [kind |-> "download", obj |-> o, len |-> n, ind |-> ind, valid |-> valid]
Upload(o) == [kind |-> "upload", obj |-> o, len |-> 1, ind |-> FALSE, valid |-> TRUE]

MCJobs ==
  { Download("number", 4, FALSE, TRUE), Download("number", 4, TRUE, FALSE),
    Download("text", 14, TRUE, TRUE), Download("text", 7, FALSE, TRUE),
    Download("text", 16, FALSE, TRUE), Download("number", 2, TRUE, TRUE),
    Download("fixed", 2, TRUE, TRUE), Upload("text"), Upload("number"), Upload("none") }
=============================================================================
