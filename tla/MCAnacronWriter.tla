--------------------------- MODULE MCAnacronWriter ---------------------------
EXTENDS AnacronWriter

L(job, period, delay, mark) == [job |-> job, period |-> period, delay |-> delay, mark |-> mark]

(* A job as cronie ships it, one disabled here, three edited by hand (a    *)
(* period only the writer takes, a delay only the reader takes, blanks     *)
(* before the marker, a marker without its blank), and a comment.          *)
MCOthersLines == {
  L("backup", "@daily", "10", "none"), L("report", "1", "5", "ours"),
  L("report", "@hourly", "5", "none"), L("report", "1", Wide, "none"),
  L("backup", "1", "10", "indented"), L("report", "@annually", "10", "tight"),
  L(NoJob, "1", "5", "none")}
=============================================================================
