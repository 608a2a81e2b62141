------------------------------ MODULE Protocol ------------------------------
(***************************************************************************)
(* The commands a block may return to its host and the event the host      *)
(* answers each with.  Stage answers by this table; the interpreter of     *)
(* Replay must take whatever it gets from it.                              *)
(***************************************************************************)

\* What run_stage feeds back for each command it carries out.  Fetch is
\* answered like Open, DocumentText like PageText, ImageOp like PageImage.
Reply ==
  [ Infer |-> "InferDone",        Embed |-> "Embedded",
    Open |-> "Opened",            Fetch |-> "Opened",
    Slice |-> "Sliced",           SliceBytes |-> "SlicedBytes",
    PageText |-> "PageTexted",    DocumentText |-> "PageTexted",
    PageTextOpt |-> "PageTextAttempted",
    PageImage |-> "PageImaged",   ImageOp |-> "PageImaged",
    Emit |-> "Emitted" ]

HostCommands == DOMAIN Reply
=============================================================================
