--------------------------- MODULE MCOutputLadder ---------------------------
(***************************************************************************)
(* Settings and environments for the TLC instance of OutputLadder: each    *)
(* file differs from a plain one in a way that config.go handles.          *)
(***************************************************************************)
EXTENDS OutputLadder

Plain == Settings("3drush-fwh", "landscape", "device", "cam", "mic", "", <<>>, TRUE)

Stream(level, name, audioOnly, codec, rate, size, acodec) ==
  [level |-> level, name |-> name, audioOnly |-> audioOnly, codec |-> codec,
   rate |-> rate, size |-> size, acodec |-> acodec]

MCNames == {"3drush-fwh", "3drush-fwv", "custom"}

MCStreams ==
  {<<Stream("economic", "", FALSE, "hevc", "own", "", "opus")>>,
   <<Stream("economic", "custom", FALSE, "", "", "", "")>>,
   <<Stream("economic", "_site", FALSE, "", "", "", "")>>,
   <<Stream("high", "_big", FALSE, "", "", "own", "mp3")>>,
   <<Stream("standard", "", FALSE, "", "bad", "", "")>>,
   <<Stream("other", "", FALSE, "", "", "odd", ""), Stream("bottom", "_low", FALSE, "", "", "", "")>>,
   <<Stream("standard_hevc", "", TRUE, "", "", "", ""), Stream("high", "", TRUE, "", "", "odd", "")>>,
   <<Stream("high", "", FALSE, "", "", "odd", ""), Stream("high", "", FALSE, "", "own", "own", "")>>}

MCFiles ==
  {Plain}
  \cup {[Plain EXCEPT !.streams = s] : s \in MCStreams}
  \cup {[Plain EXCEPT !.site = s] : s \in {"custom", "not safe"}}
  \cup {[Plain EXCEPT !.layout = "", !.audio = ""],
        [Plain EXCEPT !.mode = "file", !.file = "mp4"],
        [Plain EXCEPT !.mode = "file", !.file = "avi"],
        [Plain EXCEPT !.secrets = FALSE],
        [Plain EXCEPT !.site = "", !.oldSite = "custom", !.layout = "", !.oldLayout = "landscape",
                      !.video = "", !.audio = "", !.oldInput = "mp4"],
        [Plain EXCEPT !.mode = "", !.video = "", !.audio = "", !.oldInput = "cam:mic"]}

NoEnv == [site |-> "", layout |-> "", secrets |-> FALSE]
MCEnvs == {NoEnv, [site |-> "3drush-fwh", layout |-> "portrait", secrets |-> TRUE]}

MCHardware == {{}, {"h264_qsv"}, {"h264_nvenc"}, {"h264_nvenc", "hevc_nvenc"}}
=============================================================================
