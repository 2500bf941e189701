---------------------------- MODULE OutputLadder ----------------------------
(***************************************************************************)
(* From the settings to the ffmpeg command: multipusher/conf/config.go, the *)
(* form of multipusher/main.go that reads and writes them, and the command *)
(* line of multipusher/ws/ffmpeg_worker.go that pairs the targets with the *)
(* profiles of the levels.                                                 *)
(*                                                                         *)
(* A stream of the settings has one rate and one size here, for its two    *)
(* bitrates and its four dimensions.  The publisher runs one process for   *)
(* all its targets: there are four or five of them, or two or three that a *)
(* capture device on Windows without audio leaves.                         *)
(***************************************************************************)
EXTENDS Naturals, Sequences, FiniteSets, TLC

CONSTANTS
  Files,      \* the settings that pusher.local.yml may hold at first
  Envs,       \* what the environment may override
  Names,      \* the stream names that may be selected
  Hardware,   \* the sets of encoders that may work on a Windows machine
  MaxEdits, MaxStarts, MaxPauses   \* bounds

\* StreamConfig and Config, whatever the file says in them.
StreamConfig ==
  [level : STRING, name : STRING, audioOnly : BOOLEAN, codec : STRING, rate : STRING,
   size : STRING, acodec : STRING]
Config ==
  [oldSite : STRING, oldLayout : STRING, oldInput : STRING, site : STRING, layout : STRING,
   mode : STRING, video : STRING, audio : STRING, file : STRING, streams : Seq(StreamConfig),
   secrets : BOOLEAN]

ASSUME SettingsAreTyped ==
  /\ Files \subseteq Config
  /\ Envs \subseteq [site : STRING, layout : STRING, secrets : BOOLEAN]

ASSUME BoundsAreNumbers == MaxEdits \in Nat /\ MaxStarts \in Nat /\ MaxPauses \in Nat

VARIABLES
  disk,       \* pusher.local.yml
  form,       \* the widgets, with ui.streams and ui.secrets
  pub,        \* publisherMgr.cfg
  paused,     \* publisherMgr.paused
  running,    \* ui.running
  worker,     \* the shared worker: its targetURLs, whether its loop runs or was told to end
  copied,     \* the targets the loop has copied, for the command it is about to build
  cmd,        \* the command of the process that runs, and the input set when it was built
  chosen,     \* windowsEncoderConfig, and (history) what worked when it was chosen
  edits, starts, pauses

vars == <<disk, form, pub, paused, running, worker, copied, cmd, chosen, edits, starts, pauses>>
counters == <<edits, starts, pauses>>

NoAudioOption == "(No audio)"

(***************************************************************************)
(* Streams.                                                                *)
(***************************************************************************)

\* conf.DefaultStreams.
Default(level, name, audioOnly, codec, rate, size) ==
  [level |-> level, name |-> name, audioOnly |-> audioOnly, codec |-> codec,
   rate |-> rate, size |-> size, acodec |-> "aac"]

DefaultStreams ==
  <<Default("bottom", "_audio", TRUE, "", "", ""),
    Default("economic", "_economic", FALSE, "h264", "400k", "360"),
    Default("standard_hevc", "_standard_hevc", FALSE, "hevc", "600k", "720"),
    Default("standard", "_standard", FALSE, "h264", "1000k", "720"),
    Default("high", "_site", FALSE, "h264", "2000k", "1080")>>

\* buildVideoRenditions and the profiles normalizeOutputProfiles makes of none.
Renditions == <<<<"400k", "360">>, <<"1000k", "720">>, <<"2000k", "1080">>>>

Profile(level, audioOnly, codec, rate, size) ==
  [level |-> level, audioOnly |-> audioOnly, codec |-> codec, rate |-> rate, size |-> size, acodec |-> "aac"]

DefaultOutputs ==
  <<Profile("bottom", TRUE, "", "", ""),
    Profile("economic", FALSE, "h264", Renditions[1][1], "360"),
    Profile("standard_hevc", FALSE, "hevc", "600k", "720"),
    Profile("standard", FALSE, "h264", Renditions[2][1], "720"),
    Profile("high", FALSE, "h264", Renditions[3][1], "1080")>>

Or(v, default) == IF v = "" THEN default ELSE v

\* A profile with what is missing taken from the default of its level.
Filled(p, def) ==
  [p EXCEPT !.codec = Or(@, def.codec), !.rate = Or(@, def.rate), !.size = Or(@, def.size),
            !.acodec = Or(@, def.acodec), !.audioOnly = @ \/ def.audioOnly]

normalizeAudioCodec(c) == IF c = "opus" THEN "aac" ELSE c

\* The last stream of a level counts; an unknown level does not.
NormalizeStreams(streams) ==
  [i \in 1..Len(DefaultStreams) |->
     LET def == DefaultStreams[i]
         same == {j \in 1..Len(streams) : streams[j].level = def.level} IN
     IF same = {} THEN def
     ELSE LET s == streams[CHOOSE j \in same : \A k \in same : k <= j] IN
          Filled([s EXCEPT !.name = Or(@, def.name), !.acodec = normalizeAudioCodec(@)], def)]

\* A file may mark other levels than the default one as audio alone (config.go:358, 420).
\* Left out are files whose streams without audio would be a single target, which has a
\* worker of its own, or none (ffmpeg_worker.go:1706).
ASSUME TwoLevelsOfVideo ==
  \A f \in Files : \E i, j \in 1..5 :
    /\ i # j
    /\ ~NormalizeStreams(f.streams)[i].audioOnly /\ ~NormalizeStreams(f.streams)[j].audioOnly

\* A fixed name does not depend on the site.
ResolveStreamName(site, name) ==
  IF name \in Names THEN <<name, "_site">> ELSE <<site, name>>

UsableVideo(s) == s.codec \in {"h264", "hevc"} /\ s.rate # "bad" /\ s.size # "odd"

validateStreams_NotUnique(site, streams) ==
  \A i \in 1..Len(streams) : LET s == streams[i] IN
     s.acodec = "aac" /\ (s.audioOnly \/ UsableVideo(s))

validateStreams(site, streams) ==
  /\ \A i, j \in 1..Len(streams) : i # j =>
       ResolveStreamName(site, streams[i].name) # ResolveStreamName(site, streams[j].name)
  /\ \A i \in 1..Len(streams) : LET s == streams[i] IN
       /\ s.acodec = "aac"
       /\ s.audioOnly \/ UsableVideo(s)

(***************************************************************************)
(* Settings.                                                               *)
(***************************************************************************)

\* inputFile, publishUrl and videoLayout of older files are oldInput, oldSite and
\* oldLayout; Save writes none of them.
Settings(site, layout, mode, video, audio, file, streams, secrets) ==
  [oldSite |-> "", oldLayout |-> "", oldInput |-> "none", site |-> site, layout |-> layout,
   mode |-> mode, video |-> video, audio |-> audio, file |-> file, streams |-> streams,
   secrets |-> secrets]
Saved_NoLayout(c) == Settings(c.site, "", c.mode, c.video, c.audio, c.file, c.streams, c.secrets)
Saved(c) == Settings(c.site, c.layout, c.mode, c.video, c.audio, c.file, c.streams, c.secrets)

applyLegacyFields(c) ==
  LET d == [c EXCEPT !.site = Or(@, c.oldSite), !.layout = Or(@, c.oldLayout)] IN
  IF c.video # "" \/ c.oldInput = "none" THEN d
  ELSE IF c.oldInput = "mp4" THEN [d EXCEPT !.mode = "file", !.file = "mp4"]
  ELSE [d EXCEPT !.video = "cam", !.audio = IF c.oldInput = "cam:mic" THEN "mic" ELSE ""]

overrideByEnv(c, e) ==
  [c EXCEPT !.site = Or(e.site, @), !.layout = Or(e.layout, @), !.secrets = @ \/ e.secrets]

\* Validate: what it fills in, and what it refuses.
Completed(c) ==
  [c EXCEPT !.mode = Or(@, "device"), !.layout = Or(@, "portrait"), !.streams = NormalizeStreams(@)]

Validate(c) ==
  /\ c.site # "" /\ c.site # "not safe"
  /\ c.mode = "file" => c.file = "mp4"
  /\ c.mode = "device" => c.video # ""
  /\ c.mode \in {"device", "file"} /\ c.layout \in {"portrait", "landscape"}
  /\ validateStreams(c.site, c.streams)
  /\ c.secrets

\* Load, and defaultConfig where it fails.
Load(file, e) ==
  LET c == Completed(overrideByEnv(applyLegacyFields(file), e)) IN
  IF Validate(c) THEN c
  ELSE Settings("3drush-fwh", "portrait", "device", "", "", "", <<>>, FALSE)

inputHasAudio(c) == c.mode = "device" => c.audio # ""

\* What s has at the places of I, in its order.
Picked(s, I) ==
  [k \in 1..Cardinality(I) |-> s[CHOOSE i \in I : Cardinality({j \in I : j <= i}) = k]]

activeStreamsForInput_All(c) == NormalizeStreams(c.streams)
activeStreamsForInput(c) ==
  LET streams == NormalizeStreams(c.streams) IN
  IF inputHasAudio(c) THEN streams
  ELSE Picked(streams, {i \in 1..Len(streams) : ~streams[i].audioOnly})

InputSpec(c) == IF c.mode = "file" THEN <<"file", c.file>> ELSE <<"device", c.video, c.audio>>

\* The targets of a configuration: a URL names the stream and the time it expires.
buildPublishTargets(c, time) ==
  LET active == activeStreamsForInput(c) IN
  [i \in 1..Len(active) |-> [name |-> ResolveStreamName(c.site, active[i].name), txTime |-> time]]

streamOutputs(streams) ==
  [i \in 1..Len(streams) |-> LET s == streams[i] IN
     [level |-> s.level, audioOnly |-> s.audioOnly, codec |-> s.codec, rate |-> s.rate,
      size |-> s.size, acodec |-> s.acodec]]

Outputs_All(c) == streamOutputs(NormalizeStreams(c.streams))
Outputs(c) == streamOutputs(activeStreamsForInput(c))

(***************************************************************************)
(* The form.                                                               *)
(***************************************************************************)

streamNamesBySiteName(site) ==
  CASE site = "studio_3drush" -> <<"3drush-fwh", "3drush-fwv">>
    [] site = "studio_gsp2w" -> <<"gsp2w-fwv", "gsp2w-fwh">>
    [] OTHER -> <<>>

siteNameForStreamName(name) ==
  CASE name \in {"3drush-fwh", "3drush-fwv"} -> "studio_3drush"
    [] name \in {"gsp2w-fwv", "gsp2w-fwh"} -> "studio_gsp2w"
    [] OTHER -> name

defaultStreamNameForSite(site) ==
  IF streamNamesBySiteName(site) = <<>> THEN "" ELSE streamNamesBySiteName(site)[1]

layoutForStreamName(name) ==
  CASE name \in {"3drush-fwh", "gsp2w-fwh"} -> "landscape"
    [] name \in {"3drush-fwv", "gsp2w-fwv"} -> "portrait"
    [] OTHER -> ""

\* Selecting a stream name selects its layout.
WithStream(f, name) == [f EXCEPT !.stream = name, !.layout = Or(layoutForStreamName(name), @)]

applyConfig(c) ==
  WithStream([site |-> siteNameForStreamName(c.site), stream |-> c.site, layout |-> c.layout,
              mode |-> c.mode, video |-> c.video, audio |-> Or(c.audio, NoAudioOption),
              file |-> c.file, streams |-> c.streams, secrets |-> c.secrets],
             c.site)

selectedStreamName(f) == Or(f.stream, defaultStreamNameForSite(f.site))

selectedVideoLayout_OfForm(f) == f.layout
selectedVideoLayout(f) == Or(layoutForStreamName(selectedStreamName(f)), f.layout)

\* readConfig, where the entries of numbers hold numbers.
readConfig(f) ==
  Completed(Settings(selectedStreamName(f), selectedVideoLayout(f), f.mode, f.video,
                     IF f.audio = NoAudioOption THEN "" ELSE f.audio, f.file, f.streams, f.secrets))

\* What the form can be changed to.  A site selects its first stream.
Edited(f) ==
  {WithStream([f EXCEPT !.site = s], defaultStreamNameForSite(s)) : s \in {siteNameForStreamName(n) : n \in Names}}
  \cup {WithStream(f, n) : n \in {m \in Names : siteNameForStreamName(m) = f.site}}
  \cup {[f EXCEPT !.layout = l] : l \in {"portrait", "landscape"}}
  \cup {[f EXCEPT !.mode = m] : m \in {"device", "file"}}
  \cup {[f EXCEPT !.audio = a] : a \in {NoAudioOption, "mic"}}
  \cup {[f EXCEPT !.video = "cam"], [f EXCEPT !.file = "mp4", !.mode = "file"], [f EXCEPT !.file = "avi"]}

LinkedStreams_Default(f) ==
  {ResolveStreamName(selectedStreamName(f), DefaultStreams[i].name) : i \in 1..5}

\* resolvedStreamNames: the streams the link of the player names.
LinkedStreams(f) ==
  LET c == readConfig(f) IN {ResolveStreamName(c.site, s.name) : s \in {c.streams[i] : i \in 1..Len(c.streams)}}

(***************************************************************************)
(* The command.                                                            *)
(***************************************************************************)

\* detectWindowsEncoderConfig, for the hardware encoders hw that work; elsewhere, and
\* without any, the encoders are software.  That HEVC works with QSV is not looked at.
Software == [h264 |-> "libx264", hevc |-> "libx265"]
detect_NotHevc(hw) ==
  IF "h264_qsv" \in hw THEN [h264 |-> "h264_qsv", hevc |-> "hevc_qsv"]
  ELSE IF "h264_nvenc" \in hw THEN [h264 |-> "h264_nvenc", hevc |-> "hevc_nvenc"]
  ELSE Software
detect(hw) ==
  IF "h264_qsv" \in hw THEN [h264 |-> "h264_qsv", hevc |-> "hevc_qsv"]
  ELSE IF "h264_nvenc" \in hw
    THEN [h264 |-> "h264_nvenc", hevc |-> IF "hevc_nvenc" \in hw THEN "hevc_nvenc" ELSE ""]
  ELSE Software

\* The first command of a program chooses the encoders for all of them (windowsEncoderOnce),
\* whatever works on the machine later on.
NotChosen == [encoders |-> [h264 |-> "", hevc |-> ""], of |-> {}]

selectFFmpegEncoderConfig_Anew(hw) ==
  [encoders |-> detect(hw), of |-> IF chosen = NotChosen THEN hw ELSE chosen.of]
selectFFmpegEncoderConfig(hw) ==
  IF chosen = NotChosen THEN [encoders |-> detect(hw), of |-> hw] ELSE chosen

resolveVideoEncoder(codec, enc) == IF codec = "hevc" THEN Or(enc.hevc, enc.h264) ELSE enc.h264

\* A level that is not known takes the default of its place.
normalizeOutputProfiles_ByPlace(outputs) ==
  [i \in 1..Len(outputs) |-> Filled(outputs[i], DefaultOutputs[i])]

normalizeOutputProfiles(outputs) ==
  IF outputs = <<>> THEN DefaultOutputs
  ELSE [i \in 1..Len(outputs) |->
    LET same == {j \in 1..5 : DefaultOutputs[j].level = outputs[i].level} IN
    IF same # {} THEN Filled(outputs[i], DefaultOutputs[CHOOSE j \in same : TRUE])
    ELSE IF i <= 5 THEN Filled(outputs[i], DefaultOutputs[i])
    ELSE outputs[i]]

\* The audio a capture or a file is found to have: resolveDShowDeviceName keeps a name
\* that is not among the devices, unless there are none.  The devices are listed for each
\* command; what was found of a file is kept (fileAudioProbeCache), which is one of the
\* courses here.
effectiveAudio(input, found) ==
  IF input[1] = "file" THEN IF found THEN "sound" ELSE ""
  ELSE IF found THEN input[3] ELSE ""

ffmpegAudioMap(audio) == IF audio # "" THEN "0:a:0" ELSE "0:a:0?"

appendFourLevelOutputs(targets, outputs, layout, enc, map) ==
  LET ps == normalizeOutputProfiles(outputs) IN
  [i \in 1..(IF Len(ps) <= Len(targets) THEN Len(ps) ELSE Len(targets)) |->
     [target |-> targets[i], level |-> ps[i].level,
      video |-> IF ps[i].audioOnly THEN "none" ELSE resolveVideoEncoder(ps[i].codec, enc),
      rate |-> ps[i].rate, size |-> ps[i].size, layout |-> layout, map |-> map]]

\* All the renditions to every target, where fewer than four are left.
appendVideoRenditions(targets, layout, enc, map) ==
  [i \in 1..Len(targets) |->
     [target |-> targets[i], level |-> "all", video |-> enc.h264,
      rate |-> "all", size |-> "all", layout |-> layout, map |-> map]]

buildFFmpegCommand(targets, enc, audio) ==
  LET map == ffmpegAudioMap(audio) IN
  IF Len(targets) >= 4 /\ pub.outputs # <<>>
    THEN appendFourLevelOutputs(targets, pub.outputs, pub.layout, enc, map)
    ELSE appendVideoRenditions(targets, pub.layout, enc, map)

(***************************************************************************)
(* Actions.                                                                *)
(***************************************************************************)

NoPub == [input |-> <<"none">>, targets |-> <<>>, layout |-> "", outputs |-> <<>>]
NoCmd == [outputs |-> <<>>, audio |-> "", input |-> <<"none">>, set |-> <<"none">>]
Stopped == [targets |-> <<>>, input |-> <<"none">>, run |-> "off"]

Init ==
  /\ disk \in Files
  /\ \E env \in Envs : form = applyConfig(Load(disk, env))
  /\ pub = NoPub /\ paused = {} /\ running = FALSE /\ worker = Stopped /\ copied = <<>>
  /\ cmd = NoCmd /\ chosen = NotChosen
  /\ edits = 0 /\ starts = 0 /\ pauses = 0

Edit ==
  /\ edits < MaxEdits
  /\ form' \in Edited(form) \ {form}
  /\ edits' = edits + 1
  /\ UNCHANGED <<disk, pub, paused, running, worker, copied, cmd, chosen, starts, pauses>>

\* startPublisher: the settings are read, saved, and given to the publisher, which is
\* started.  InitFFmpegPublisher gives a worker that still runs its new targets, and the
\* start of it is ignored.  A start whose numbers or settings are refused, or that cannot
\* write the file, changes nothing.
StartPublisher == LET c == readConfig(form) IN
  /\ starts < MaxStarts /\ Validate(c) /\ ~running
  /\ running' = TRUE
  /\ disk' = Saved(c)
  /\ starts' = starts + 1
  /\ LET targets == buildPublishTargets(c, starts + 1) IN
     /\ pub' = [input |-> InputSpec(c), targets |-> targets, layout |-> c.layout,
                outputs |-> Outputs(c)]
     /\ worker' = IF worker.run = "off"
                    THEN [targets |-> targets, input |-> InputSpec(c), run |-> "on"]
                  ELSE [worker EXCEPT !.targets = targets]
  /\ UNCHANGED <<form, paused, copied, cmd, chosen, edits, pauses>>

\* StopFFmpegPublisher kills the process; it does not wait for the loop for ever.  A loop
\* that was told to end once is not told again: that panics.
StopPublisher ==
  /\ running /\ worker.run # "ending"
  /\ running' = FALSE /\ cmd' = NoCmd
  /\ \/ worker' = [worker EXCEPT !.run = "off"] /\ copied' = <<>>
     \/ worker.run = "on" /\ worker' = [worker EXCEPT !.run = "ending"] /\ UNCHANGED copied
  /\ UNCHANGED <<disk, form, pub, paused, chosen, counters>>

\* The loop that was told to end does, at the latest after one more launch.
LoopEnds ==
  /\ worker.run = "ending"
  /\ worker' = [worker EXCEPT !.run = "off"] /\ copied' = <<>> /\ cmd' = NoCmd
  /\ UNCHANGED <<disk, form, pub, paused, running, chosen, counters>>

\* resolveTargetsLocked: the target itself, else all that have its address: those of a
\* configuration all do.
Configured == {pub.targets[i] : i \in 1..Len(pub.targets)}
OldURL == [name |-> <<"", "_site">>, txTime |-> 0]   \* a URL of an earlier run of the program

Matching(t) == IF t \in Configured THEN {t} ELSE Configured

\* PauseFFmpegPublisherByURL and ResumeFFmpegPublisherByURL: a stop of the process, and a
\* start with the targets that are left, which a loop that is still ending ignores.
PauseOrResume(t) ==
  /\ pub # NoPub /\ pauses < MaxPauses /\ pauses' = pauses + 1
  /\ paused' \in {paused \cup Matching(t), paused \ Matching(t)} \ {paused}
  /\ LET left == Picked(pub.targets, {i \in 1..Len(pub.targets) : pub.targets[i] \notin paused'})
         targets == IF left = <<>> THEN worker.targets ELSE left IN
     \/ /\ worker.run # "ending"
        /\ worker' = [targets |-> targets, input |-> IF left = <<>> THEN worker.input ELSE pub.input,
                      run |-> IF left = <<>> THEN "off" ELSE "on"]
        /\ copied' = <<>>
     \/ /\ worker.run # "off"
        /\ worker' = [worker EXCEPT !.targets = targets, !.run = "ending"]
        /\ UNCHANGED copied
  /\ cmd' = NoCmd
  /\ UNCHANGED <<disk, form, pub, running, chosen, edits, starts>>

\* The loop copies its targets, then reads layout and outputs, and launches a process.
CopyTargets ==
  /\ worker.run # "off" /\ cmd = NoCmd /\ copied = <<>>
  /\ copied' = worker.targets
  /\ UNCHANGED <<disk, form, pub, paused, running, worker, cmd, chosen, counters>>

Launch ==
  /\ worker.run # "off" /\ copied # <<>>
  /\ \E hw \in Hardware, found \in BOOLEAN :
       LET audio == effectiveAudio(worker.input, found) IN
       /\ chosen' = selectFFmpegEncoderConfig(hw)
       /\ cmd' = [outputs |-> buildFFmpegCommand(copied, chosen'.encoders, audio),
                  audio |-> audio, input |-> worker.input, set |-> pub.input]
  /\ copied' = <<>>
  /\ UNCHANGED <<disk, form, pub, paused, running, worker, counters>>

ProcessExits ==
  /\ cmd # NoCmd
  /\ cmd' = NoCmd
  /\ UNCHANGED <<disk, form, pub, paused, running, worker, copied, chosen, counters>>

\* The program is closed and started again, in another environment maybe.
Restart ==
  /\ \E env \in Envs : form' = applyConfig(Load(disk, env))
  /\ pub' = NoPub /\ paused' = {} /\ running' = FALSE /\ worker' = Stopped /\ copied' = <<>>
  /\ cmd' = NoCmd /\ chosen' = NotChosen
  /\ UNCHANGED <<disk, counters>>

Next ==
  \/ Edit \/ StartPublisher \/ StopPublisher \/ LoopEnds
  \/ CopyTargets \/ Launch \/ ProcessExits \/ Restart
  \/ \E t \in Configured \cup {OldURL} : PauseOrResume(t)

Spec == Init /\ [][Next]_vars

(***************************************************************************)
(* Properties.                                                             *)
(***************************************************************************)

Served == {cmd.outputs[i].target : i \in 1..Len(cmd.outputs)}

\* The level whose stream the settings give this name.
HasLevel(t, level) ==
  \E i \in 1..5 : LET s == Completed(disk).streams[i] IN
    s.level = level /\ t.name = ResolveStreamName(disk.site, s.name)

\* A command that serves every configured target, four at least, sends each the profile of
\* its own level, with or without audio, with whatever streams the settings define
\* (ffmpeg_worker.go:982, main.go:1041, 1082).  Fewer get all renditions each.
LevelsArePaired ==
  Len(pub.targets) >= 4 /\ Configured \subseteq Served =>
    \A i \in 1..Len(cmd.outputs) : HasLevel(cmd.outputs[i].target, cmd.outputs[i].level)

\* A command for the input that was configured when it was built, without audio, has no
\* output of audio alone, which ffmpeg would refuse (main.go:1041, ffmpeg_worker.go:982).
OutputsAreFed ==
  cmd # NoCmd /\ cmd.input = cmd.set /\ cmd.input[1] = "device" /\ cmd.input[3] = "" =>
    \A i \in 1..Len(cmd.outputs) : cmd.outputs[i].video # "none"

\* Every encoder of a command is one that worked when the program chose, at its first
\* command, except HEVC where QSV was found, which is taken for granted: at a later command
\* it works unless the machine has changed (ffmpeg_worker.go:1199-1283).
EncodersWork ==
  \A i \in 1..Len(cmd.outputs) :
    cmd.outputs[i].video \in {"none", "libx264", "libx265", "hevc_qsv"} \cup chosen.of

\* The publisher fills in nothing that the settings did not: the defaults of the two
\* packages agree (config.go:210, ffmpeg_worker.go:1364).
ProfilesAgree == normalizeOutputProfiles(pub.outputs) = pub.outputs \/ pub = NoPub

\* No two targets are one stream (config.go:394, ffmpeg_worker.go:833).
TargetsAreDistinct ==
  \A i, j \in 1..Len(pub.targets) : i # j => pub.targets[i].name # pub.targets[j].name

\* What was saved at a start and loaded again without the environment is published in the
\* same way: same input, layout, streams and profiles (config.go:79, main.go:684, 722).
SavedIsWhatIsPublished ==
  pub # NoPub =>
    LET c == readConfig(applyConfig(Load(disk, [site |-> "", layout |-> "", secrets |-> FALSE])))
        targets == buildPublishTargets(c, 1) IN
    /\ InputSpec(c) = pub.input /\ c.layout = pub.layout
    /\ Outputs(c) = pub.outputs
    /\ [i \in 1..Len(targets) |-> targets[i].name] = [i \in 1..Len(pub.targets) |-> pub.targets[i].name]

\* A stream name that stands for a layout is published in it, whatever the form, the file
\* and the environment say of the layout (main.go:404, 934).
LayoutIsOfTheStream ==
  pub # NoPub /\ layoutForStreamName(disk.site) # "" => pub.layout = layoutForStreamName(disk.site)

\* The link to the player names only streams that are published, while the form is as it
\* was started and has audio (player_link.go:55).
LinkedIsPublished ==
  pub # NoPub /\ Saved(readConfig(form)) = disk /\ inputHasAudio(disk) =>
    LinkedStreams(form) \subseteq {t.name : t \in Configured}

\* Each target is a stream of its own and gets the profile of its level.
TargetsGetTheirLevel == LevelsArePaired /\ TargetsAreDistinct

\* The command is one that ffmpeg can run, as far as the program has looked: every output has
\* a source, and an encoder that was found to work.
CommandIsUsable == OutputsAreFed /\ EncodersWork

\* The settings, the form, the publisher and the link to the player say the same, however
\* a value came into one of them.
PublishedIsWhatIsSet ==
  ProfilesAgree /\ SavedIsWhatIsPublished /\ LayoutIsOfTheStream /\ LinkedIsPublished

=============================================================================
