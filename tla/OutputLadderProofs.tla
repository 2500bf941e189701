------------------------- MODULE OutputLadderProofs -------------------------
(***************************************************************************)
(* Proofs about the way from the settings to the ffmpeg command, for any   *)
(* settings file, environment, encoders and bounds.                        *)
(***************************************************************************)
EXTENDS OutputLadder, FiniteSetTheorems, WellFoundedInduction, TLAPS

\* A set of places in a sequence that is not empty has a last one.
LEMMA HasLast ==
  ASSUME NEW n \in Nat, NEW S \in SUBSET (1..n), S # {}
  PROVE  \E j \in S : \A k \in S : k <= j
<1> DEFINE Up(j) == {k \in S : j <= k}
           ups == {Up(j) : j \in S}
<1>1. IsFiniteSet(1..n)
  BY FS_Interval
<1>2. ups \subseteq FiniteSubsetsOf(1..n) /\ ups # {}
  <2>1. ASSUME NEW j \in S PROVE Up(j) \subseteq 1..n /\ IsFiniteSet(Up(j))
    <3>1. Up(j) \in SUBSET (1..n)
      OBVIOUS
    <3> QED
      BY <1>1, <3>1, FS_Subset
  <2> HIDE DEF Up
  <2> QED
    BY <2>1 DEF FiniteSubsetsOf
<1>3. PICK u \in ups : \A v \in ups : <<v, u>> \notin StrictSubsetOrdering(1..n)
  <2> HIDE DEF ups
  <2> QED
    BY ONLY <1>2, WFMin, FS_StrictSubsetOrderingWellFounded
<1>4. PICK j \in S : u = Up(j)
  OBVIOUS
<1>5. ASSUME NEW k \in S, ~(k <= j) PROVE FALSE
  <2>1. Up(k) \in ups /\ Up(j) \in SUBSET (1..n)
    OBVIOUS
  <2>3. Up(k) \subseteq Up(j) /\ j \in Up(j) /\ j \notin Up(k)
    <3>1. j \in Int /\ k \in Int /\ \A l \in S : l \in Int
      OBVIOUS
    <3>2. j < k
      BY <1>5, <3>1
    <3>3. Up(k) \subseteq Up(j)
      <4>1. \A l \in S : k <= l => j <= l
        BY <3>1, <3>2
      <4> QED
        BY ONLY <4>1
    <3>4. j \in Up(j) /\ j \notin Up(k)
      BY <3>1, <3>2
    <3> QED
      BY <3>3, <3>4
  <2>2. <<Up(k), u>> \in StrictSubsetOrdering(1..n)
    BY <2>1, <2>3, <1>4 DEF StrictSubsetOrdering
  <2> QED
    BY <1>3, <2>1, <2>2
<1> QED
  BY <1>5

-----------------------------------------------------------------------------
(* Streams.                                                                *)

\* A stream has its fields.  What the values of them are does not matter, but for the flag.
IsStream(s) ==
  s \in [level : {s.level}, name : {s.name}, audioOnly : BOOLEAN, codec : {s.codec},
         rate : {s.rate}, size : {s.size}, acodec : {s.acodec}]

AreStreams(streams) ==
  /\ Len(streams) \in Nat
  /\ \A i \in 1..Len(streams) : IsStream(streams[i])

\* Two levels at least are not of audio alone, once the streams are normalized.
HaveVideo(streams) ==
  \E i, j \in 1..5 :
    i # j /\ ~NormalizeStreams(streams)[i].audioOnly /\ ~NormalizeStreams(streams)[j].audioOnly

LEMMA DefaultsAre ==
  /\ Len(DefaultStreams) = 5
  /\ \A i \in 1..5 : /\ IsStream(DefaultStreams[i])
                     /\ DefaultStreams[i].acodec = "aac"
                     /\ DefaultStreams[i].audioOnly <=> i = 1
  /\ \A i, j \in 1..5 : DefaultStreams[i].level = DefaultStreams[j].level => i = j
<1> DEFINE Fits(i, level) == /\ DefaultStreams[i].acodec = "aac"
                             /\ DefaultStreams[i].audioOnly <=> i = 1
                             /\ DefaultStreams[i].level = level
<1>1. Fits(1, "bottom")
  BY DEF DefaultStreams, Default
<1>2. Fits(2, "economic")
  BY DEF DefaultStreams, Default
<1>3. Fits(3, "standard_hevc")
  BY DEF DefaultStreams, Default
<1>4. Fits(4, "standard")
  BY DEF DefaultStreams, Default
<1>5. Fits(5, "high")
  BY DEF DefaultStreams, Default
<1>6. \A i \in 1..5 : i = 1 \/ i = 2 \/ i = 3 \/ i = 4 \/ i = 5
  OBVIOUS
<1>7. Len(DefaultStreams) = 5
  BY DEF DefaultStreams
<1>8. \A i \in 1..5 : IsStream(DefaultStreams[i])
  <2>1. IsStream(DefaultStreams[1])
    BY DEF DefaultStreams, Default, IsStream
  <2>2. IsStream(DefaultStreams[2])
    BY DEF DefaultStreams, Default, IsStream
  <2>3. IsStream(DefaultStreams[3])
    BY DEF DefaultStreams, Default, IsStream
  <2>4. IsStream(DefaultStreams[4])
    BY DEF DefaultStreams, Default, IsStream
  <2>5. IsStream(DefaultStreams[5])
    BY DEF DefaultStreams, Default, IsStream
  <2> QED
    BY <1>6, <2>1, <2>2, <2>3, <2>4, <2>5
<1> QED
  BY <1>1, <1>2, <1>3, <1>4, <1>5, <1>6, <1>7, <1>8

\* Filled changes four fields and the flag.
LEMMA FilledStream ==
  ASSUME NEW s, IsStream(s), NEW def, IsStream(def)
  PROVE  /\ IsStream(Filled(s, def))
         /\ Filled(s, def).level = s.level /\ Filled(s, def).name = s.name
         /\ Filled(s, def).audioOnly = (s.audioOnly \/ def.audioOnly)
         /\ Filled(s, def).codec = Or(s.codec, def.codec)
         /\ Filled(s, def).rate = Or(s.rate, def.rate)
         /\ Filled(s, def).size = Or(s.size, def.size)
         /\ Filled(s, def).acodec = Or(s.acodec, def.acodec)
<1>1. Filled(s, def) \in
        [level : {s.level}, name : {s.name}, audioOnly : {s.audioOnly \/ def.audioOnly},
         codec : {Or(s.codec, def.codec)}, rate : {Or(s.rate, def.rate)},
         size : {Or(s.size, def.size)}, acodec : {Or(s.acodec, def.acodec)}]
  BY DEF Filled, IsStream
<1> QED
  BY <1>1 DEF IsStream

LEMMA SameStream ==
  ASSUME NEW s, IsStream(s), NEW t, IsStream(t),
         s.level = t.level, s.name = t.name, s.audioOnly = t.audioOnly, s.codec = t.codec,
         s.rate = t.rate, s.size = t.size, s.acodec = t.acodec
  PROVE  s = t
BY DEF IsStream

LEMMA FilledTwice ==
  ASSUME NEW s, IsStream(s), NEW def, IsStream(def)
  PROVE  Filled(Filled(s, def), def) = Filled(s, def)
<1> DEFINE full == Filled(s, def)
<1>1. IsStream(full) /\ full.audioOnly = (s.audioOnly \/ def.audioOnly)
  BY FilledStream
<1>2. /\ full.codec = Or(s.codec, def.codec) /\ full.rate = Or(s.rate, def.rate)
      /\ full.size = Or(s.size, def.size) /\ full.acodec = Or(s.acodec, def.acodec)
  BY FilledStream
<1>3. \A v, d : Or(Or(v, d), d) = Or(v, d)
  BY DEF Or
<1> HIDE DEF full
<1>4. /\ full.codec = Or(full.codec, def.codec) /\ full.rate = Or(full.rate, def.rate)
      /\ full.size = Or(full.size, def.size) /\ full.acodec = Or(full.acodec, def.acodec)
  BY <1>2, <1>3
<1>5. full.audioOnly = (full.audioOnly \/ def.audioOnly)
  BY <1>1
<1>6. Filled(full, def) = full
  <2> DEFINE twice == Filled(full, def)
  <2>1. IsStream(twice) /\ twice.level = full.level /\ twice.name = full.name
    BY <1>1, FilledStream
  <2>2. twice.audioOnly = (full.audioOnly \/ def.audioOnly)
    BY <1>1, FilledStream
  <2>3. /\ twice.codec = Or(full.codec, def.codec) /\ twice.rate = Or(full.rate, def.rate)
        /\ twice.size = Or(full.size, def.size) /\ twice.acodec = Or(full.acodec, def.acodec)
    BY <1>1, FilledStream
  <2> HIDE DEF twice
  <2>4. twice = full
    BY <1>1, <1>4, <1>5, <2>1, <2>2, <2>3, SameStream
  <2> QED
    BY <2>4 DEF twice
<1> QED
  BY <1>6 DEF full

\* What NormalizeStreams returns: five streams, one of each level in the order of the
\* defaults, with nothing missing that a default has.
LEMMA NormalStreams ==
  ASSUME NEW s, AreStreams(s), NEW i \in 1..5
  PROVE  /\ IsStream(NormalizeStreams(s)[i])
         /\ NormalizeStreams(s)[i].level = DefaultStreams[i].level
         /\ NormalizeStreams(s)[i].name = Or(NormalizeStreams(s)[i].name, DefaultStreams[i].name)
         /\ NormalizeStreams(s)[i].acodec \notin {"", "opus"}
         /\ Filled(NormalizeStreams(s)[i], DefaultStreams[i]) = NormalizeStreams(s)[i]
<1> DEFINE def == DefaultStreams[i]
           same == {j \in 1..Len(s) : s[j].level = def.level}
           last == s[CHOOSE j \in same : \A k \in same : k <= j]
           named == [last EXCEPT !.name = Or(@, def.name), !.acodec = normalizeAudioCodec(@)]
<1>1. NormalizeStreams(s)[i] = IF same = {} THEN def ELSE Filled(named, def)
  BY DefaultsAre DEF NormalizeStreams
<1>2. IsStream(def) /\ def.acodec = "aac"
  BY DefaultsAre
<1>3. Filled(def, def) = def
  BY <1>2 DEF Filled, Or, IsStream
<1>4. CASE same = {}
  BY <1>1, <1>2, <1>3, <1>4 DEF Or
<1>5. CASE same # {}
  <2>1. \E j \in same : \A k \in same : k <= j
    <3> QED
      BY <1>5, HasLast DEF AreStreams
  <2>2. (CHOOSE j \in same : \A k \in same : k <= j) \in same
    BY <2>1
  <2>3. IsStream(last) /\ last.level = def.level
    BY <2>2, <1>2 DEF AreStreams
  <2>4. /\ IsStream(named) /\ named.level = def.level
        /\ named.name = Or(named.name, def.name) /\ named.acodec # "opus"
    <3> HIDE DEF last, def
    <3>1. named \in [level : {last.level}, name : {Or(last.name, def.name)}, audioOnly : BOOLEAN,
                     codec : {last.codec}, rate : {last.rate}, size : {last.size},
                     acodec : {normalizeAudioCodec(last.acodec)}]
      BY <2>3 DEF IsStream
    <3>2. /\ named.name = Or(last.name, def.name) /\ named.level = last.level
          /\ named.acodec = normalizeAudioCodec(last.acodec) /\ IsStream(named)
      <4> HIDE DEF named
      <4> QED
        BY <3>1, <2>3 DEF IsStream
    <3> QED
      <4>2. named.name = Or(named.name, def.name) /\ named.acodec # "opus"
        <5> HIDE DEF named
        <5>1. named.name = Or(named.name, def.name)
          BY <3>2 DEF Or
        <5>2. named.acodec # "opus"
          BY <3>2 DEF normalizeAudioCodec
        <5> QED
          BY <5>1, <5>2
      <4>3. named.level = def.level
        BY <2>3, <3>2
      <4> QED
        BY ONLY <3>2, <4>2, <4>3
  <2> HIDE DEF named, def
  <2>5. /\ IsStream(Filled(named, def)) /\ Filled(named, def).level = def.level
        /\ Filled(named, def).name = named.name
        /\ Filled(named, def).acodec \notin {"", "opus"}
    <3>1. /\ IsStream(Filled(named, def)) /\ Filled(named, def).level = def.level
          /\ Filled(named, def).name = named.name
      BY <2>4, <1>2, FilledStream
    <3>3. Filled(named, def).acodec \notin {"", "opus"}
      <4>1. Filled(named, def).acodec = Or(named.acodec, "aac")
        BY <2>4, <1>2, FilledStream
      <4> QED
        BY <4>1, <2>4 DEF Or
    <3> QED
      BY <3>1, <3>3
  <2>6. Filled(Filled(named, def), def) = Filled(named, def)
    BY <2>4, <1>2, FilledTwice
  <2> QED
    BY <1>1, <1>5, <2>4, <2>5, <2>6 DEF def
<1> QED
  BY <1>4, <1>5

LEMMA NormalSequence ==
  ASSUME NEW s, AreStreams(s)
  PROVE  /\ AreStreams(NormalizeStreams(s))
         /\ Len(NormalizeStreams(s)) = 5
         /\ NormalizeStreams(s) = [i \in 1..5 |-> NormalizeStreams(s)[i]]
<1>1. /\ NormalizeStreams(s) = [i \in 1..5 |-> NormalizeStreams(s)[i]]
      /\ Len(NormalizeStreams(s)) = 5
  BY DefaultsAre DEF NormalizeStreams
<1>2. ASSUME NEW i \in 1..5 PROVE IsStream(NormalizeStreams(s)[i])
  BY NormalStreams
<1> QED
  BY <1>1, <1>2 DEF AreStreams

\* What is normalized stays as it is: Validate completes what Load gave once more.
LEMMA NormalizedIsKept ==
  ASSUME NEW s, AreStreams(s)
  PROVE  NormalizeStreams(NormalizeStreams(s)) = NormalizeStreams(s)
<1> DEFINE n == NormalizeStreams(s)
<1>1. AreStreams(n) /\ Len(n) = 5 /\ n = [i \in 1..5 |-> n[i]]
  BY NormalSequence
<1> HIDE DEF n
<1>2. ASSUME NEW i \in 1..5 PROVE NormalizeStreams(n)[i] = n[i]
  <2> DEFINE def == DefaultStreams[i]
             same == {j \in 1..Len(n) : n[j].level = def.level}
             last == n[CHOOSE j \in same : \A k \in same : k <= j]
             named == [last EXCEPT !.name = Or(@, def.name), !.acodec = normalizeAudioCodec(@)]
  <2>1. NormalizeStreams(n)[i] = IF same = {} THEN def ELSE Filled(named, def)
    BY DefaultsAre DEF NormalizeStreams
  <2>2. same = {i}
    <3>1. \A j \in 1..5 : n[j].level = DefaultStreams[j].level
      BY NormalStreams DEF n
    <3> QED
      BY <1>1, <3>1, DefaultsAre
  <2>3. last = n[i]
    BY <2>2
  <2>4. IsStream(n[i]) /\ n[i].name = Or(n[i].name, def.name) /\ n[i].acodec # "opus"
        /\ Filled(n[i], def) = n[i]
    BY NormalStreams DEF n
  <2>5. named = n[i]
    BY <2>3, <2>4 DEF normalizeAudioCodec, IsStream
  <2> HIDE DEF named, def
  <2> QED
    BY <2>1, <2>2, <2>4, <2>5 DEF def
<1>3. NormalizeStreams(n) = [i \in 1..5 |-> NormalizeStreams(n)[i]]
  BY <1>1, NormalSequence
<1> QED
  BY <1>1, <1>2, <1>3 DEF n

LEMMA NormalHaveVideo ==
  ASSUME NEW s, AreStreams(s), HaveVideo(s)
  PROVE  HaveVideo(NormalizeStreams(s))
BY NormalizedIsKept DEF HaveVideo

LEMMA NoneHaveVideo == AreStreams(<<>>) /\ HaveVideo(<<>>)
<1>1. \A i \in 1..5 : NormalizeStreams(<<>>)[i] = DefaultStreams[i]
  BY DefaultsAre DEF NormalizeStreams
<1>2. 2 \in 1..5 /\ 3 \in 1..5 /\ ~DefaultStreams[2].audioOnly /\ ~DefaultStreams[3].audioOnly
  BY DefaultsAre
<1>3. HaveVideo(<<>>)
  BY <1>1, <1>2 DEF HaveVideo
<1> QED
  BY <1>3 DEF AreStreams

-----------------------------------------------------------------------------
(* Settings and the form.                                                  *)

IsConfig(c) ==
  /\ c \in [oldSite : {c.oldSite}, oldLayout : {c.oldLayout}, oldInput : {c.oldInput},
             site : {c.site}, layout : {c.layout}, mode : {c.mode}, video : {c.video},
             audio : {c.audio}, file : {c.file}, streams : {c.streams},
             secrets : {c.secrets}]
  /\ AreStreams(c.streams) /\ HaveVideo(c.streams)

IsForm(f) ==
  /\ f \in [site : {f.site}, stream : {f.stream}, layout : {f.layout}, mode : {f.mode},
             video : {f.video}, audio : {f.audio}, file : {f.file},
             streams : {f.streams}, secrets : {f.secrets}]
  /\ AreStreams(f.streams) /\ HaveVideo(f.streams)

LEMMA SameConfig ==
  ASSUME NEW c, IsConfig(c), NEW d, IsConfig(d),
         c.oldSite = d.oldSite, c.oldLayout = d.oldLayout, c.oldInput = d.oldInput,
         c.site = d.site, c.layout = d.layout, c.mode = d.mode, c.video = d.video,
         c.audio = d.audio, c.file = d.file, c.streams = d.streams, c.secrets = d.secrets
  PROVE  c = d
BY DEF IsConfig

LEMMA FilesAreConfigs ==
  ASSUME NEW f \in Files
  PROVE  IsConfig(f)
<1>1. f \in Config
  BY SettingsAreTyped
<1>2. /\ f.streams \in Seq(StreamConfig)
      /\ f \in [oldSite : {f.oldSite}, oldLayout : {f.oldLayout},
                 oldInput : {f.oldInput}, site : {f.site}, layout : {f.layout},
                 mode : {f.mode}, video : {f.video}, audio : {f.audio}, file : {f.file},
                 streams : {f.streams}, secrets : {f.secrets}]
  BY <1>1 DEF Config
<1>3. ASSUME NEW i \in 1..Len(f.streams) PROVE IsStream(f.streams[i])
  <2>1. f.streams[i] \in StreamConfig
    BY <1>2
  <2> QED
    BY <2>1 DEF IsStream, StreamConfig
<1>4. HaveVideo(f.streams)
  BY TwoLevelsOfVideo DEF HaveVideo
<1> QED
  BY <1>2, <1>3, <1>4 DEF IsConfig, AreStreams

LEMMA CompletedConfig ==
  ASSUME NEW c, IsConfig(c)
  PROVE  /\ IsConfig(Completed(c))
         /\ Completed(c).oldSite = c.oldSite /\ Completed(c).oldLayout = c.oldLayout
         /\ Completed(c).oldInput = c.oldInput /\ Completed(c).site = c.site
         /\ Completed(c).layout = Or(c.layout, "portrait")
         /\ Completed(c).mode = Or(c.mode, "device")
         /\ Completed(c).video = c.video /\ Completed(c).audio = c.audio
         /\ Completed(c).file = c.file /\ Completed(c).secrets = c.secrets
         /\ Completed(c).streams = NormalizeStreams(c.streams)
<1> DEFINE d == Completed(c)
<1>1. d \in
        [oldSite : {c.oldSite}, oldLayout : {c.oldLayout}, oldInput : {c.oldInput},
         site : {c.site}, layout : {Or(c.layout, "portrait")}, mode : {Or(c.mode, "device")},
         video : {c.video}, audio : {c.audio}, file : {c.file},
         streams : {NormalizeStreams(c.streams)}, secrets : {c.secrets}]
  BY DEF Completed, IsConfig
<1>2. AreStreams(NormalizeStreams(c.streams)) /\ HaveVideo(NormalizeStreams(c.streams))
  BY NormalSequence, NormalHaveVideo DEF IsConfig
<1> HIDE DEF d
<1>3. IsConfig(d)
  BY <1>1, <1>2 DEF IsConfig
<1> QED
  BY <1>1, <1>3 DEF d

LEMMA SettingsConfig ==
  ASSUME NEW site, NEW layout, NEW mode, NEW video, NEW audio, NEW file,
         NEW streams, AreStreams(streams), HaveVideo(streams), NEW secrets
  PROVE  LET c == Settings(site, layout, mode, video, audio, file, streams, secrets)
         IN  /\ IsConfig(c)
             /\ c.oldSite = "" /\ c.oldLayout = "" /\ c.oldInput = "none"
             /\ c.site = site /\ c.layout = layout /\ c.mode = mode /\ c.video = video
             /\ c.audio = audio /\ c.file = file /\ c.streams = streams /\ c.secrets = secrets
BY DEF Settings, IsConfig

\* Whatever the file and the environment say, what Load gives has its fields.
LEMMA LoadedConfig ==
  ASSUME NEW c, IsConfig(c), NEW e
  PROVE  IsConfig(Load(c, e))
<1> DEFINE old == [c EXCEPT !.site = Or(@, c.oldSite), !.layout = Or(@, c.oldLayout)]
           legacy == applyLegacyFields(c)
           over == overrideByEnv(legacy, e)
           plain == Settings("3drush-fwh", "portrait", "device", "", "", "", <<>>, FALSE)
<1>1. IsConfig(old)
  BY DEF IsConfig
<1>2. IsConfig(legacy)
  <2>1. \/ legacy = old
        \/ legacy = [old EXCEPT !.mode = "file", !.file = "mp4"]
        \/ legacy = [old EXCEPT !.video = "cam",
                                !.audio = IF c.oldInput = "cam:mic" THEN "mic" ELSE ""]
    BY DEF applyLegacyFields
  <2> HIDE DEF old
  <2>2. IsConfig([old EXCEPT !.mode = "file", !.file = "mp4"])
    BY <1>1 DEF IsConfig
  <2>3. IsConfig([old EXCEPT !.video = "cam",
                             !.audio = IF c.oldInput = "cam:mic" THEN "mic" ELSE ""])
    BY <1>1 DEF IsConfig
  <2> QED
    BY <1>1, <2>1, <2>2, <2>3
<1> HIDE DEF legacy
<1>3. IsConfig(over)
  BY <1>2 DEF overrideByEnv, IsConfig
<1> HIDE DEF over
<1>4. IsConfig(Completed(over))
  BY <1>3, CompletedConfig
<1>5. IsConfig(plain)
  BY NoneHaveVideo, SettingsConfig
<1> HIDE DEF plain
<1>6. Load(c, e) = IF Validate(Completed(over)) THEN Completed(over) ELSE plain
  BY DEF Load, over, legacy, plain
<1> QED
  BY <1>4, <1>5, <1>6


LEMMA SelectedStream ==
  ASSUME NEW f, IsForm(f), NEW name
  PROVE  /\ IsForm(WithStream(f, name))
         /\ WithStream(f, name).site = f.site /\ WithStream(f, name).stream = name
         /\ WithStream(f, name).layout = Or(layoutForStreamName(name), f.layout)
         /\ WithStream(f, name).mode = f.mode /\ WithStream(f, name).video = f.video
         /\ WithStream(f, name).audio = f.audio /\ WithStream(f, name).file = f.file
         /\ WithStream(f, name).streams = f.streams /\ WithStream(f, name).secrets = f.secrets
<1> DEFINE g == WithStream(f, name)
<1>1. g \in [site : {f.site}, stream : {name},
             layout : {Or(layoutForStreamName(name), f.layout)}, mode : {f.mode},
             video : {f.video}, audio : {f.audio}, file : {f.file}, streams : {f.streams},
             secrets : {f.secrets}]
  BY DEF WithStream, IsForm
<1> HIDE DEF g
<1>2. IsForm(g)
  BY <1>1 DEF IsForm
<1> QED
  BY <1>1, <1>2 DEF g

LEMMA AppliedForm ==
  ASSUME NEW c, IsConfig(c)
  PROVE  /\ IsForm(applyConfig(c))
         /\ applyConfig(c).stream = c.site
         /\ applyConfig(c).layout = Or(layoutForStreamName(c.site), c.layout)
         /\ applyConfig(c).mode = c.mode /\ applyConfig(c).video = c.video
         /\ applyConfig(c).audio = Or(c.audio, NoAudioOption) /\ applyConfig(c).file = c.file
         /\ applyConfig(c).streams = c.streams /\ applyConfig(c).secrets = c.secrets
<1> DEFINE f == [site |-> siteNameForStreamName(c.site), stream |-> c.site,
                 layout |-> c.layout, mode |-> c.mode, video |-> c.video,
                 audio |-> Or(c.audio, NoAudioOption), file |-> c.file,
                 streams |-> c.streams, secrets |-> c.secrets]
<1>1. IsForm(f)
  BY DEF IsForm, IsConfig
<1>2. /\ f.layout = c.layout /\ f.mode = c.mode /\ f.video = c.video
      /\ f.audio = Or(c.audio, NoAudioOption) /\ f.file = c.file
      /\ f.streams = c.streams /\ f.secrets = c.secrets
  OBVIOUS
<1>3. applyConfig(c) = WithStream(f, c.site)
  BY DEF applyConfig
<1> HIDE DEF f
<1> QED
  BY <1>1, <1>2, <1>3, SelectedStream

LEMMA EditedForm ==
  ASSUME NEW f, IsForm(f), NEW g \in Edited(f)
  PROVE  IsForm(g)
<1>1. ASSUME NEW s PROVE IsForm([f EXCEPT !.site = s])
  BY DEF IsForm
<1>2. ASSUME NEW s, NEW n PROVE IsForm(WithStream([f EXCEPT !.site = s], n))
  <2> DEFINE h == [f EXCEPT !.site = s]
  <2>1. IsForm(h)
    BY <1>1
  <2> HIDE DEF h
  <2>2. IsForm(WithStream(h, n))
    BY <2>1, SelectedStream
  <2> QED
    BY <2>2 DEF h
<1>3. ASSUME NEW n PROVE IsForm(WithStream(f, n))
  BY SelectedStream
<1>4. ASSUME NEW l PROVE IsForm([f EXCEPT !.layout = l])
  BY DEF IsForm
<1>5. ASSUME NEW m PROVE IsForm([f EXCEPT !.mode = m])
  BY DEF IsForm
<1>6. ASSUME NEW a PROVE IsForm([f EXCEPT !.audio = a])
  BY DEF IsForm
<1>7. /\ IsForm([f EXCEPT !.video = "cam"])
      /\ IsForm([f EXCEPT !.file = "mp4", !.mode = "file"])
      /\ IsForm([f EXCEPT !.file = "avi"])
  BY DEF IsForm
<1>8. CASE g \in {WithStream([f EXCEPT !.site = s], defaultStreamNameForSite(s)) :
                       s \in {siteNameForStreamName(n) : n \in Names}}
  <2>1. PICK s \in {siteNameForStreamName(n) : n \in Names} :
          g = WithStream([f EXCEPT !.site = s], defaultStreamNameForSite(s))
    BY <1>8
  <2> QED
    BY <2>1, <1>2
<1>9. CASE g \in {WithStream(f, n) : n \in {m \in Names : siteNameForStreamName(m) = f.site}}
  BY <1>9, <1>3
<1>10. CASE g \in {[f EXCEPT !.layout = l] : l \in {"portrait", "landscape"}}
  BY <1>10, <1>4
<1>11. CASE g \in {[f EXCEPT !.mode = m] : m \in {"device", "file"}}
  BY <1>11, <1>5
<1>12. CASE g \in {[f EXCEPT !.audio = a] : a \in {NoAudioOption, "mic"}}
  BY <1>12, <1>6
<1>13. CASE g \in {[f EXCEPT !.video = "cam"], [f EXCEPT !.file = "mp4", !.mode = "file"],
                   [f EXCEPT !.file = "avi"]}
  BY <1>13, <1>7
<1> QED
  BY <1>8, <1>9, <1>10, <1>11, <1>12, <1>13 DEF Edited

\* What the form is read as has no field of older files.
LEMMA ReadForm ==
  ASSUME NEW f, IsForm(f)
  PROVE  /\ IsConfig(readConfig(f))
         /\ readConfig(f).oldSite = "" /\ readConfig(f).oldLayout = ""
         /\ readConfig(f).oldInput = "none"
         /\ readConfig(f).site = selectedStreamName(f)
         /\ readConfig(f).layout = Or(selectedVideoLayout(f), "portrait")
         /\ readConfig(f).mode = Or(f.mode, "device")
         /\ readConfig(f).video = f.video
         /\ readConfig(f).audio = IF f.audio = NoAudioOption THEN "" ELSE f.audio
         /\ readConfig(f).file = f.file
         /\ readConfig(f).streams = NormalizeStreams(f.streams)
         /\ readConfig(f).secrets = f.secrets
<1> DEFINE audio == IF f.audio = NoAudioOption THEN "" ELSE f.audio
           c == Settings(selectedStreamName(f), selectedVideoLayout(f), f.mode, f.video,
                         audio, f.file, f.streams, f.secrets)
<1>1. readConfig(f) = Completed(c)
  BY DEF readConfig
<1> HIDE DEF audio
<1>2. AreStreams(f.streams) /\ HaveVideo(f.streams)
  BY DEF IsForm
<1>3. /\ IsConfig(c) /\ c.oldSite = "" /\ c.oldLayout = "" /\ c.oldInput = "none"
      /\ c.site = selectedStreamName(f) /\ c.layout = selectedVideoLayout(f)
      /\ c.mode = f.mode /\ c.video = f.video
      /\ c.audio = audio
      /\ c.file = f.file /\ c.streams = f.streams /\ c.secrets = f.secrets
  BY <1>2 DEF Settings, IsConfig
<1> HIDE DEF c
<1>4. /\ IsConfig(Completed(c)) /\ Completed(c).oldSite = c.oldSite
      /\ Completed(c).oldLayout = c.oldLayout /\ Completed(c).oldInput = c.oldInput
      /\ Completed(c).site = c.site /\ Completed(c).layout = Or(c.layout, "portrait")
      /\ Completed(c).mode = Or(c.mode, "device") /\ Completed(c).video = c.video
      /\ Completed(c).audio = c.audio /\ Completed(c).file = c.file
      /\ Completed(c).secrets = c.secrets /\ Completed(c).streams = NormalizeStreams(c.streams)
  BY <1>3, CompletedConfig
<1> QED
  BY <1>1, <1>3, <1>4 DEF audio

\* Settings the publisher can be started with, as startPublisher saves them.
Ready(c) ==
  /\ IsConfig(c)
  /\ c.oldSite = "" /\ c.oldLayout = "" /\ c.oldInput = "none"
  /\ Validate(c)
  /\ c.streams = NormalizeStreams(c.streams)
  /\ c.layout = Or(layoutForStreamName(c.site), c.layout)
  /\ c.audio # NoAudioOption

LEMMA ReadIsReady ==
  ASSUME NEW f, IsForm(f), Validate(readConfig(f))
  PROVE  Ready(readConfig(f))
<1> DEFINE c == readConfig(f)
<1>1. /\ IsConfig(c) /\ c.oldSite = "" /\ c.oldLayout = "" /\ c.oldInput = "none"
      /\ c.site = selectedStreamName(f) /\ c.layout = Or(selectedVideoLayout(f), "portrait")
      /\ c.streams = NormalizeStreams(f.streams)
  BY ReadForm
<1>2. c.audio = IF f.audio = NoAudioOption THEN "" ELSE f.audio
  BY ReadForm
<1>3. c.audio # NoAudioOption
  BY <1>2 DEF NoAudioOption
<1>4. c.streams = NormalizeStreams(c.streams)
  BY <1>1, NormalizedIsKept DEF IsForm
<1>5. c.layout = Or(layoutForStreamName(c.site), c.layout)
  BY <1>1 DEF selectedVideoLayout, Or
<1> QED
  BY <1>1, <1>3, <1>4, <1>5 DEF Ready

LEMMA SavedIsSame ==
  ASSUME NEW c, Ready(c)
  PROVE  Saved(c) = c
<1> DEFINE d == Saved(c)
<1>1. /\ IsConfig(d) /\ d.oldSite = "" /\ d.oldLayout = "" /\ d.oldInput = "none"
      /\ d.site = c.site /\ d.layout = c.layout /\ d.mode = c.mode /\ d.video = c.video
      /\ d.audio = c.audio /\ d.file = c.file /\ d.streams = c.streams
      /\ d.secrets = c.secrets
  BY DEF Saved, Settings, IsConfig, Ready
<1> HIDE DEF d
<1>2. d = c
  BY <1>1, SameConfig DEF Ready
<1> QED
  BY <1>2 DEF d

LEMMA CompletedIsSame ==
  ASSUME NEW c, Ready(c)
  PROVE  Completed(c) = c
<1> DEFINE d == Completed(c)
<1>1. /\ IsConfig(d) /\ d.oldSite = c.oldSite /\ d.oldLayout = c.oldLayout
      /\ d.oldInput = c.oldInput /\ d.site = c.site /\ d.layout = Or(c.layout, "portrait")
      /\ d.mode = Or(c.mode, "device") /\ d.video = c.video /\ d.audio = c.audio
      /\ d.file = c.file /\ d.secrets = c.secrets /\ d.streams = NormalizeStreams(c.streams)
  BY CompletedConfig DEF Ready
<1> HIDE DEF d
<1>2. d.layout = c.layout /\ d.mode = c.mode
  BY <1>1 DEF Ready, Validate, Or
<1>3. d = c
  BY <1>1, <1>2, SameConfig DEF Ready
<1> QED
  BY <1>3 DEF d

NoEnv == [site |-> "", layout |-> "", secrets |-> FALSE]

\* What was saved at a start is loaded as it was.
LEMMA LoadedIsSame ==
  ASSUME NEW c, Ready(c)
  PROVE  Load(c, NoEnv) = c
<1> DEFINE legacy == applyLegacyFields(c)
           over == overrideByEnv(c, NoEnv)
<1>1. legacy = [c EXCEPT !.site = Or(@, c.oldSite), !.layout = Or(@, c.oldLayout)]
  BY DEF applyLegacyFields, Ready
<1>2. /\ IsConfig(legacy) /\ legacy.oldSite = c.oldSite /\ legacy.oldLayout = c.oldLayout
      /\ legacy.oldInput = c.oldInput /\ legacy.site = Or(c.site, c.oldSite)
      /\ legacy.layout = Or(c.layout, c.oldLayout) /\ legacy.mode = c.mode
      /\ legacy.video = c.video /\ legacy.audio = c.audio /\ legacy.file = c.file
      /\ legacy.streams = c.streams /\ legacy.secrets = c.secrets
  BY <1>1 DEF Ready, IsConfig
<1> HIDE DEF legacy
<1>3. legacy.site = c.site /\ legacy.layout = c.layout
  BY <1>2 DEF Ready, Or
<1>4. legacy = c
  BY <1>2, <1>3, SameConfig DEF Ready
<1>5. /\ IsConfig(over) /\ over.oldSite = c.oldSite /\ over.oldLayout = c.oldLayout
      /\ over.oldInput = c.oldInput /\ over.site = Or("", c.site)
      /\ over.layout = Or("", c.layout) /\ over.mode = c.mode
      /\ over.video = c.video /\ over.audio = c.audio /\ over.file = c.file
      /\ over.streams = c.streams
  BY DEF overrideByEnv, NoEnv, Ready, IsConfig
<1>6. over.secrets = (c.secrets \/ FALSE)
  BY DEF overrideByEnv, NoEnv, Ready, IsConfig
<1> HIDE DEF over
<1>7. over.secrets = c.secrets
  BY <1>6 DEF Ready, Validate
<1>8. over = c
  BY <1>5, <1>7, SameConfig DEF Ready, Or
<1>9. Load(c, NoEnv) = IF Validate(Completed(c)) THEN Completed(c)
                     ELSE Settings("3drush-fwh", "portrait", "device", "", "", "", <<>>, FALSE)
  BY <1>4, <1>8 DEF Load, legacy, over
<1> QED
  BY <1>9, CompletedIsSame DEF Ready

\* What is shown in the form is read from it as it was.
LEMMA ReadAgain ==
  ASSUME NEW c, Ready(c)
  PROVE  readConfig(applyConfig(c)) = c
<1> DEFINE f == applyConfig(c)
           d == readConfig(f)
<1>1. /\ IsForm(f) /\ f.stream = c.site
      /\ f.layout = Or(layoutForStreamName(c.site), c.layout)
      /\ f.mode = c.mode /\ f.video = c.video /\ f.audio = Or(c.audio, NoAudioOption)
      /\ f.file = c.file /\ f.streams = c.streams /\ f.secrets = c.secrets
  BY AppliedForm DEF Ready
<1>2. c.site # "" /\ c.layout # "" /\ c.mode # ""
  BY DEF Ready, Validate
<1> HIDE DEF f
<1>3. selectedStreamName(f) = c.site
  BY <1>1, <1>2 DEF selectedStreamName, Or
<1>4. selectedVideoLayout(f) = c.layout
  BY <1>1, <1>3 DEF selectedVideoLayout, Ready, Or
<1>5. /\ IsConfig(d) /\ d.oldSite = "" /\ d.oldLayout = "" /\ d.oldInput = "none"
      /\ d.site = c.site /\ d.layout = Or(c.layout, "portrait")
      /\ d.mode = Or(f.mode, "device") /\ d.video = f.video
      /\ d.file = f.file /\ d.streams = NormalizeStreams(f.streams) /\ d.secrets = f.secrets
  BY <1>1, <1>3, <1>4, ReadForm
<1>6. d.audio = IF f.audio = NoAudioOption THEN "" ELSE f.audio
  BY <1>1, ReadForm
<1> HIDE DEF d
<1>7. d.audio = c.audio
  BY <1>6, <1>1 DEF Ready, Or, NoAudioOption
<1>8. d.layout = c.layout /\ d.mode = c.mode /\ d.streams = c.streams
  BY <1>5, <1>1, <1>2 DEF Ready, Or
<1>9. d = c
  BY <1>1, <1>5, <1>7, <1>8, SameConfig DEF Ready
<1> QED
  BY <1>9 DEF d, f

-----------------------------------------------------------------------------
(* What is picked from a sequence, in its order.                           *)

LEMMA PlacesAreFinite ==
  ASSUME NEW n \in Nat, NEW I \in SUBSET (1..n)
  PROVE  IsFiniteSet(I) /\ Cardinality(I) \in Nat
<1>1. IsFiniteSet(1..n)
  BY FS_Interval
<1>2. IsFiniteSet(I)
  BY ONLY <1>1, FS_Subset
<1> QED
  BY <1>2, FS_CardinalityType

\* Of the places in I, each number up to how many they are is the rank of one.
LEMMA HasRank ==
  ASSUME NEW n \in Nat, NEW I \in SUBSET (1..n), NEW k \in 1..Cardinality(I)
  PROVE  \E i \in I : Cardinality({j \in I : j <= i}) = k
<1> DEFINE upTo(i) == {j \in I : j <= i}
           rank(i) == Cardinality(upTo(i))
           below == {i \in 1..n : rank(i - 1) < k}
<1>0. \A j \in I : j \in Int /\ 1 <= j /\ j <= n
  OBVIOUS
<1>1. IsFiniteSet(I) /\ Cardinality(I) \in Nat
  BY PlacesAreFinite
<1>2. ASSUME NEW i \in Int
      PROVE  IsFiniteSet(upTo(i)) /\ rank(i) \in Nat
  <2>1. upTo(i) \in SUBSET I
    OBVIOUS
  <2> QED
    BY <1>1, <2>1, FS_Subset, FS_CardinalityType
<1>3. rank(0) = 0
  <2>1. upTo(0) = {}
    <3>1. \A j \in I : ~(j <= 0)
      BY <1>0
    <3> QED
      BY ONLY <3>1
  <2> QED
    BY <2>1, FS_EmptySet
<1>4. rank(n) = Cardinality(I)
  <2>1. upTo(n) = I
    BY <1>0
  <2> QED
    BY <2>1
<1>5. ASSUME NEW i \in 1..n
      PROVE  rank(i) = IF i \in I THEN rank(i - 1) + 1 ELSE rank(i - 1)
  <2>1. CASE i \in I
    <3>1. upTo(i) = upTo(i - 1) \cup {i} /\ i \notin upTo(i - 1)
      <4>1. \A j \in I : j <= i <=> j <= i - 1 \/ j = i
        BY <1>0
      <4>2. ~(i <= i - 1)
        OBVIOUS
      <4> QED
        BY ONLY <2>1, <4>1, <4>2
    <3>2. IsFiniteSet(upTo(i - 1))
      <4>1. i - 1 \in Int
        OBVIOUS
      <4> HIDE DEF upTo
      <4> QED
        BY <4>1, <1>2
    <3> HIDE DEF upTo
    <3> QED
      BY <2>1, <3>1, <3>2, FS_AddElement
  <2>2. CASE i \notin I
    <3>1. upTo(i) = upTo(i - 1)
      <4>1. \A j \in I : j <= i <=> j <= i - 1
        BY <1>0, <2>2
      <4> QED
        BY ONLY <4>1
    <3> QED
      BY <2>2, <3>1
  <2> QED
    BY <2>1, <2>2
<1>6. k \in Nat /\ 1 <= k /\ k <= Cardinality(I)
  BY <1>1
<1> HIDE DEF rank, upTo
<1>7. n # 0
  BY <1>3, <1>4, <1>6
<1>8. 1 \in below
  BY <1>3, <1>6, <1>7
<1>9. PICK i \in below : \A j \in below : j <= i
  <2>1. below \in SUBSET (1..n) /\ below # {}
    BY <1>8
  <2> HIDE DEF below
  <2> QED
    BY <2>1, HasLast
<1>10. i \in 1..n /\ rank(i - 1) < k /\ rank(i) \in Nat /\ rank(i - 1) \in Nat
  BY <1>2
<1>11. rank(i) >= k
  <2>1. CASE i = n
    BY <2>1, <1>4, <1>6
  <2>2. CASE i # n
    <3>1. i + 1 \in 1..n /\ i + 1 \notin below
      BY <1>9, <1>10, <2>2
    <3>2. ~(rank((i + 1) - 1) < k) /\ (i + 1) - 1 = i
      BY <3>1, <1>10
    <3> QED
      BY <3>2, <1>10, <1>6
  <2> QED
    BY <2>1, <2>2
<1>12. i \in I /\ rank(i) = k
  BY <1>5, <1>6, <1>10, <1>11
<1> QED
  BY <1>12 DEF rank, upTo

\* The k-th place of I.
InOrder(I, k) == CHOOSE i \in I : Cardinality({j \in I : j <= i}) = k

LEMMA PickedIs ==
  ASSUME NEW s, NEW I
  PROVE  Picked(s, I) = [k \in 1..Cardinality(I) |-> s[InOrder(I, k)]]
BY DEF Picked, InOrder

\* It is a place that was asked for, another one for each k.
LEMMA OrderIs ==
  ASSUME NEW n \in Nat, NEW I \in SUBSET (1..n), NEW k \in 1..Cardinality(I)
  PROVE  InOrder(I, k) \in I /\ Cardinality({j \in I : j <= InOrder(I, k)}) = k
<1>1. \E i \in I : Cardinality({j \in I : j <= i}) = k
  BY HasRank
<1> QED
  BY <1>1 DEF InOrder

LEMMA OrderDiffers ==
  ASSUME NEW n \in Nat, NEW I \in SUBSET (1..n),
         NEW k \in 1..Cardinality(I), NEW l \in 1..Cardinality(I), k # l
  PROVE  InOrder(I, k) # InOrder(I, l)
<1>1. /\ Cardinality({j \in I : j <= InOrder(I, k)}) = k
      /\ Cardinality({j \in I : j <= InOrder(I, l)}) = l
  BY OrderIs
<1> QED
  BY <1>1

LEMMA PickedLength ==
  ASSUME NEW n \in Nat, NEW s, NEW I \in SUBSET (1..n)
  PROVE  Len(Picked(s, I)) = Cardinality(I) /\ Cardinality(I) \in Nat
<1>1. Cardinality(I) \in Nat
  BY PlacesAreFinite
<1>2. Picked(s, I) = [k \in 1..Cardinality(I) |-> s[InOrder(I, k)]]
  BY PickedIs
<1> QED
  BY <1>1, <1>2

LEMMA PickedIsThere ==
  ASSUME NEW n \in Nat, NEW s, NEW I \in SUBSET (1..n), NEW k \in 1..Cardinality(I)
  PROVE  \E i \in I : Picked(s, I)[k] = s[i]
BY PickedIs, OrderIs

\* All the places pick the sequence itself.
LEMMA AllInOrder ==
  ASSUME NEW n \in Nat
  PROVE  Cardinality(1..n) = n /\ \A k \in 1..n : InOrder(1..n, k) = k
<1>1. Cardinality(1..n) = n
  BY FS_Interval
<1>2. ASSUME NEW k \in 1..n PROVE InOrder(1..n, k) = k
  <2>1. ASSUME NEW i \in 1..n PROVE Cardinality({j \in 1..n : j <= i}) = i
    <3>1. {j \in 1..n : j <= i} = 1..i
      OBVIOUS
    <3>2. Cardinality(1..i) = i
      BY FS_Interval
    <3> QED
      BY <3>1, <3>2
  <2>2. \A i \in 1..n : Cardinality({j \in 1..n : j <= i}) = k <=> i = k
    BY <2>1
  <2> QED
    BY <2>2 DEF InOrder
<1> QED
  BY <1>1, <1>2

LEMMA PickedAll ==
  ASSUME NEW n \in Nat, NEW s, s = [i \in 1..n |-> s[i]]
  PROVE  Picked(s, 1..n) = s
<1>1. Picked(s, 1..n) = [k \in 1..n |-> s[InOrder(1..n, k)]]
  BY AllInOrder, PickedIs
<1> QED
  BY <1>1, AllInOrder

-----------------------------------------------------------------------------
(* Targets and profiles.                                                   *)

LEMMA ReadyStreams ==
  ASSUME NEW c, Ready(c)
  PROVE  /\ Len(c.streams) = 5
         /\ c.streams = [i \in 1..5 |-> c.streams[i]]
         /\ \A i \in 1..5 :
              /\ IsStream(c.streams[i])
              /\ c.streams[i].level = DefaultStreams[i].level
              /\ Filled(c.streams[i], DefaultStreams[i]) = c.streams[i]
<1>1. AreStreams(c.streams) /\ c.streams = NormalizeStreams(c.streams)
  BY DEF Ready, IsConfig
<1>2. /\ Len(NormalizeStreams(c.streams)) = 5
      /\ NormalizeStreams(c.streams) = [i \in 1..5 |-> NormalizeStreams(c.streams)[i]]
  BY <1>1, NormalSequence
<1>3. ASSUME NEW i \in 1..5
      PROVE  LET t == NormalizeStreams(c.streams)[i]
             IN  /\ IsStream(t) /\ t.level = DefaultStreams[i].level
                 /\ Filled(t, DefaultStreams[i]) = t
  BY <1>1, NormalStreams
<1> QED
  BY <1>1, <1>2, <1>3

\* The places of the streams that are published: all five, or, without audio, those with video.
Actives(c) == {i \in 1..5 : inputHasAudio(c) \/ ~c.streams[i].audioOnly}
Count(c) == Cardinality(Actives(c))
Place(c, k) == InOrder(Actives(c), k)

LEMMA CountIs ==
  ASSUME NEW c, Ready(c)
  PROVE  Count(c) \in Nat /\ Count(c) >= 2 /\ (inputHasAudio(c) => Count(c) = 5)
<1>1. PICK i, j \in 1..5 : i # j /\ ~c.streams[i].audioOnly /\ ~c.streams[j].audioOnly
  BY DEF Ready, IsConfig, HaveVideo
<1>2. Actives(c) \in SUBSET (1..5) /\ {i, j} \in SUBSET Actives(c)
  BY <1>1 DEF Actives
<1>3. IsFiniteSet(Actives(c)) /\ Count(c) \in Nat
  <2>1. 5 \in Nat
    OBVIOUS
  <2> QED
    BY <1>2, <2>1, PlacesAreFinite DEF Count
<1>4. Cardinality({i, j}) = 2
  <2>1. IsFiniteSet({j}) /\ Cardinality({j}) = 1
    BY FS_Singleton
  <2>2. Cardinality({j} \cup {i}) = Cardinality({j}) + 1
    BY <1>1, <2>1, FS_AddElement
  <2>3. {j} \cup {i} = {i, j}
    OBVIOUS
  <2> QED
    BY <2>1, <2>2, <2>3
<1>5. Cardinality({i, j}) <= Count(c)
  BY <1>2, <1>3, FS_Subset DEF Count
<1>6. ASSUME inputHasAudio(c) PROVE Count(c) = 5
  <2>1. Actives(c) = 1..5
    BY <1>6 DEF Actives
  <2> QED
    BY <2>1, AllInOrder DEF Count
<1> QED
  BY <1>3, <1>4, <1>5, <1>6

LEMMA PlaceIs ==
  ASSUME NEW c, NEW k \in 1..Count(c)
  PROVE  /\ Place(c, k) \in 1..5
         /\ inputHasAudio(c) \/ ~c.streams[Place(c, k)].audioOnly
         /\ \A l \in 1..Count(c) : k # l => Place(c, k) # Place(c, l)
         /\ inputHasAudio(c) => Place(c, k) = k
<1>1. Actives(c) \in SUBSET (1..5) /\ 5 \in Nat
  BY DEF Actives
<1>2. Place(c, k) \in Actives(c)
  BY <1>1, OrderIs DEF Count, Place
<1>3. ASSUME NEW l \in 1..Count(c), k # l PROVE Place(c, k) # Place(c, l)
  BY <1>1, <1>3, OrderDiffers DEF Count, Place
<1>4. ASSUME inputHasAudio(c) PROVE Place(c, k) = k
  <2>1. Actives(c) = 1..5
    BY <1>4 DEF Actives
  <2> QED
    BY <2>1, AllInOrder DEF Count, Place
<1> QED
  BY <1>2, <1>3, <1>4 DEF Actives

LEMMA ActiveStreams ==
  ASSUME NEW c, Ready(c)
  PROVE  activeStreamsForInput(c) = [k \in 1..Count(c) |-> c.streams[Place(c, k)]]
<1>1. NormalizeStreams(c.streams) = c.streams
  BY DEF Ready
<1>2. CASE inputHasAudio(c)
  <2>1. Count(c) = 5 /\ \A k \in 1..5 : Place(c, k) = k
    BY <1>2, CountIs, PlaceIs
  <2>2. activeStreamsForInput(c) = c.streams
    BY <1>1, <1>2 DEF activeStreamsForInput
  <2> QED
    BY <2>1, <2>2, ReadyStreams
<1>3. CASE ~inputHasAudio(c)
  <2>1. {i \in 1..Len(c.streams) : ~c.streams[i].audioOnly} = Actives(c)
    BY <1>3, ReadyStreams DEF Actives
  <2>2. activeStreamsForInput(c) = Picked(c.streams, Actives(c))
    BY <1>1, <1>3, <2>1 DEF activeStreamsForInput
  <2> QED
    BY <2>2, PickedIs DEF Count, Place
<1> QED
  BY <1>2, <1>3

LEMMA DefaultsAgree ==
  ASSUME NEW i \in 1..5
  PROVE  /\ DefaultOutputs[i].level = DefaultStreams[i].level
         /\ DefaultOutputs[i].audioOnly = DefaultStreams[i].audioOnly
         /\ DefaultOutputs[i].codec = DefaultStreams[i].codec
         /\ DefaultOutputs[i].rate = DefaultStreams[i].rate
         /\ DefaultOutputs[i].size = DefaultStreams[i].size
         /\ DefaultOutputs[i].acodec = DefaultStreams[i].acodec
<1> DEFINE Agree(k) == /\ DefaultOutputs[k].level = DefaultStreams[k].level
                       /\ DefaultOutputs[k].audioOnly = DefaultStreams[k].audioOnly
                       /\ DefaultOutputs[k].codec = DefaultStreams[k].codec
                       /\ DefaultOutputs[k].rate = DefaultStreams[k].rate
                       /\ DefaultOutputs[k].size = DefaultStreams[k].size
                       /\ DefaultOutputs[k].acodec = DefaultStreams[k].acodec
<1>1. Agree(1)
  BY DEF DefaultOutputs, DefaultStreams, Default, Profile, Renditions
<1>2. Agree(2)
  BY DEF DefaultOutputs, DefaultStreams, Default, Profile, Renditions
<1>3. Agree(3)
  BY DEF DefaultOutputs, DefaultStreams, Default, Profile, Renditions
<1>4. Agree(4)
  BY DEF DefaultOutputs, DefaultStreams, Default, Profile, Renditions
<1>5. Agree(5)
  BY DEF DefaultOutputs, DefaultStreams, Default, Profile, Renditions
<1> HIDE DEF Agree
<1>6. Agree(i)
  BY <1>1, <1>2, <1>3, <1>4, <1>5
<1> QED
  BY <1>6 DEF Agree

IsProfile(p) ==
  p \in [level : {p.level}, audioOnly : BOOLEAN, codec : {p.codec}, rate : {p.rate},
         size : {p.size}, acodec : {p.acodec}]

\* The profile of a stream.
ProfileOf(s) ==
  [level |-> s.level, audioOnly |-> s.audioOnly, codec |-> s.codec, rate |-> s.rate,
   size |-> s.size, acodec |-> s.acodec]

\* What nothing of a stream's default is missing in lacks nothing of the publisher's.
LEMMA FilledProfile ==
  ASSUME NEW s, IsStream(s), NEW i \in 1..5, Filled(s, DefaultStreams[i]) = s
  PROVE  Filled(ProfileOf(s), DefaultOutputs[i]) = ProfileOf(s)
<1> DEFINE def == DefaultStreams[i]
           out == DefaultOutputs[i]
           p == ProfileOf(s)
           q == Filled(p, out)
<1>1. /\ s.audioOnly = (s.audioOnly \/ def.audioOnly) /\ s.codec = Or(s.codec, def.codec)
      /\ s.rate = Or(s.rate, def.rate) /\ s.size = Or(s.size, def.size)
      /\ s.acodec = Or(s.acodec, def.acodec)
  <2>1. IsStream(def) /\ Filled(s, def) = s
    BY DefaultsAre
  <2> HIDE DEF def
  <2>2. s.audioOnly = (s.audioOnly \/ def.audioOnly)
    BY <2>1, FilledStream
  <2>3. /\ s.codec = Or(s.codec, def.codec) /\ s.rate = Or(s.rate, def.rate)
        /\ s.size = Or(s.size, def.size) /\ s.acodec = Or(s.acodec, def.acodec)
    BY <2>1, FilledStream
  <2> QED
    BY <2>2, <2>3
<1>2. /\ IsProfile(p) /\ p.level = s.level /\ p.audioOnly = s.audioOnly /\ p.codec = s.codec
      /\ p.rate = s.rate /\ p.size = s.size /\ p.acodec = s.acodec
  BY DEF ProfileOf, IsProfile, IsStream
<1>3. /\ out.audioOnly = def.audioOnly /\ out.codec = def.codec /\ out.rate = def.rate
      /\ out.size = def.size /\ out.acodec = def.acodec
  BY DefaultsAgree
<1> HIDE DEF def, out, p
<1>4. q \in [level : {p.level}, audioOnly : {p.audioOnly \/ out.audioOnly},
             codec : {Or(p.codec, out.codec)}, rate : {Or(p.rate, out.rate)},
             size : {Or(p.size, out.size)}, acodec : {Or(p.acodec, out.acodec)}]
  BY <1>2 DEF Filled, IsProfile
<1> HIDE DEF q
<1>5. (p.audioOnly \/ out.audioOnly) = p.audioOnly
  BY <1>1, <1>2, <1>3
<1>6. q \in [level : {p.level}, audioOnly : {p.audioOnly}, codec : {p.codec}, rate : {p.rate},
             size : {p.size}, acodec : {p.acodec}]
  BY <1>1, <1>2, <1>3, <1>4, <1>5
<1>7. q = p
  BY <1>2, <1>6 DEF IsProfile
<1> QED
  BY <1>7 DEF q, p, out

LEMMA ReadyOutputs ==
  ASSUME NEW c, Ready(c)
  PROVE  /\ Len(Outputs(c)) = Count(c)
         /\ Outputs(c) = [k \in 1..Count(c) |-> ProfileOf(c.streams[Place(c, k)])]
<1> DEFINE active == activeStreamsForInput(c)
           n == Count(c)
<1>1. n \in Nat
  BY CountIs
<1>2. active = [k \in 1..n |-> c.streams[Place(c, k)]]
  BY ActiveStreams
<1>3. Len(active) = n /\ \A k \in 1..n : active[k] = c.streams[Place(c, k)]
  BY <1>1, <1>2
<1>4. Outputs(c) = [k \in 1..Len(active) |-> ProfileOf(active[k])]
  BY DEF Outputs, streamOutputs, ProfileOf
<1> HIDE DEF active, n
<1>5. Outputs(c) = [k \in 1..n |-> ProfileOf(c.streams[Place(c, k)])]
  BY <1>3, <1>4
<1>6. Len(Outputs(c)) = n
  BY <1>1, <1>5
<1> QED
  BY <1>5, <1>6 DEF n

LEMMA ReadyTargets ==
  ASSUME NEW c, Ready(c), NEW time
  PROVE  /\ Len(buildPublishTargets(c, time)) = Count(c)
         /\ buildPublishTargets(c, time) =
              [k \in 1..Count(c) |->
                 [name |-> ResolveStreamName(c.site, c.streams[Place(c, k)].name),
                  txTime |-> time]]
<1> DEFINE active == activeStreamsForInput(c)
           n == Count(c)
           ts == buildPublishTargets(c, time)
<1>1. n \in Nat
  BY CountIs
<1>2. active = [k \in 1..n |-> c.streams[Place(c, k)]]
  BY ActiveStreams
<1>3. Len(active) = n /\ \A k \in 1..n : active[k] = c.streams[Place(c, k)]
  BY <1>1, <1>2
<1>4. ts = [k \in 1..Len(active) |-> [name |-> ResolveStreamName(c.site, active[k].name),
                                     txTime |-> time]]
  BY DEF buildPublishTargets
<1> HIDE DEF active, n, ts
<1>5. ts = [k \in 1..n |-> [name |-> ResolveStreamName(c.site, c.streams[Place(c, k)].name),
                           txTime |-> time]]
  BY <1>3, <1>4
<1>6. Len(ts) = n
  BY <1>1, <1>5
<1> QED
  BY <1>5, <1>6 DEF n, ts

\* Validate lets no two streams have one name.
LEMMA ReadyTargetsDiffer ==
  ASSUME NEW c, Ready(c), NEW time,
         NEW i \in 1..Len(buildPublishTargets(c, time)),
         NEW j \in 1..Len(buildPublishTargets(c, time)), i # j
  PROVE  buildPublishTargets(c, time)[i].name # buildPublishTargets(c, time)[j].name
<1>1. i \in 1..Count(c) /\ j \in 1..Count(c)
  BY ReadyTargets
<1>2. /\ buildPublishTargets(c, time)[i].name = ResolveStreamName(c.site, c.streams[Place(c, i)].name)
      /\ buildPublishTargets(c, time)[j].name = ResolveStreamName(c.site, c.streams[Place(c, j)].name)
  BY <1>1, ReadyTargets
<1>3. Place(c, i) \in 1..5 /\ Place(c, j) \in 1..5 /\ Place(c, i) # Place(c, j)
  BY <1>1, PlaceIs
<1>4. \A k, l \in 1..5 : k # l => ResolveStreamName(c.site, c.streams[k].name)
                                 # ResolveStreamName(c.site, c.streams[l].name)
  <2>1. validateStreams(c.site, c.streams) /\ Len(c.streams) = 5
    BY ReadyStreams DEF Ready, Validate
  <2> QED
    BY ONLY <2>1 DEF validateStreams
<1> QED
  BY <1>2, <1>3, <1>4

\* The publisher finds nothing to fill in.
LEMMA ReadyProfiles ==
  ASSUME NEW c, Ready(c)
  PROVE  normalizeOutputProfiles(Outputs(c)) = Outputs(c)
<1> DEFINE n == Count(c)
           outs == Outputs(c)
<1>1. n \in Nat /\ n >= 2
  BY CountIs
<1>2. /\ Len(outs) = n
      /\ outs = [k \in 1..n |-> ProfileOf(c.streams[Place(c, k)])]
  BY ReadyOutputs
<1>3. outs # <<>>
  BY <1>1, <1>2
<1> HIDE DEF outs, n
<1>4. ASSUME NEW k \in 1..n
      PROVE  LET same == {j \in 1..5 : DefaultOutputs[j].level = outs[k].level}
             IN  same # {} /\ Filled(outs[k], DefaultOutputs[CHOOSE j \in same : TRUE]) = outs[k]
  <2> DEFINE i == Place(c, k)
             same == {j \in 1..5 : DefaultOutputs[j].level = outs[k].level}
  <2>1. i \in 1..5
    BY PlaceIs DEF n
  <2> HIDE DEF i
  <2>2. /\ IsStream(c.streams[i]) /\ c.streams[i].level = DefaultStreams[i].level
        /\ Filled(c.streams[i], DefaultStreams[i]) = c.streams[i]
    BY <2>1, ReadyStreams
  <2>3. outs[k] = ProfileOf(c.streams[i])
    BY <1>2 DEF i
  <2>4. outs[k].level = DefaultStreams[i].level
    BY <2>2, <2>3 DEF ProfileOf
  <2>5. same = {i}
    <3>1. \A j \in 1..5 : DefaultOutputs[j].level = DefaultStreams[j].level
      BY DefaultsAgree
    <3> QED
      BY <2>1, <2>4, <3>1, DefaultsAre
  <2>6. Filled(outs[k], DefaultOutputs[i]) = outs[k]
    BY <2>1, <2>2, <2>3, FilledProfile
  <2>7. (CHOOSE j \in same : TRUE) = i
    BY <2>5
  <2> QED
    BY <2>5, <2>6, <2>7
<1>5. normalizeOutputProfiles(outs) = [k \in 1..n |-> outs[k]]
  BY <1>2, <1>3, <1>4 DEF normalizeOutputProfiles
<1>6. outs = [k \in 1..n |-> outs[k]]
  BY <1>2
<1> QED
  BY <1>5, <1>6 DEF outs

-----------------------------------------------------------------------------
(* The command.                                                            *)

\* Whatever encoders work, the one of a codec works or is taken for granted.
LEMMA EncoderWorks ==
  ASSUME NEW hw, NEW codec
  PROVE  /\ resolveVideoEncoder(codec, detect(hw))
              \in {"libx264", "libx265", "hevc_qsv"} \cup hw
         /\ resolveVideoEncoder(codec, detect(hw)) # "none"
         /\ detect(hw).h264 \in {"libx264"} \cup hw
         /\ detect(hw).h264 # "none"
<1>1. CASE "h264_qsv" \in hw
  <2>1. detect(hw) = [h264 |-> "h264_qsv", hevc |-> "hevc_qsv"]
    BY <1>1 DEF detect
  <2> QED
    BY <1>1, <2>1 DEF resolveVideoEncoder, Or
<1>2. CASE "h264_qsv" \notin hw /\ "h264_nvenc" \in hw
  <2> DEFINE hevc == IF "hevc_nvenc" \in hw THEN "hevc_nvenc" ELSE ""
  <2>1. detect(hw) = [h264 |-> "h264_nvenc", hevc |-> hevc]
    BY <1>2 DEF detect
  <2>2. detect(hw).h264 = "h264_nvenc" /\ detect(hw).hevc = hevc
    <3> HIDE DEF hevc
    <3> QED
      BY <2>1
  <2> QED
    BY <1>2, <2>2 DEF resolveVideoEncoder, Or
<1>3. CASE "h264_qsv" \notin hw /\ "h264_nvenc" \notin hw
  <2>1. detect(hw) = [h264 |-> "libx264", hevc |-> "libx265"]
    BY <1>3 DEF detect, Software
  <2> QED
    BY <2>1 DEF resolveVideoEncoder, Or
<1> QED
  BY <1>1, <1>2, <1>3

-----------------------------------------------------------------------------
(* The inductive invariant.                                                *)

\* The publisher has the targets and profiles of the settings that were saved last.
PubFits ==
  pub # NoPub =>
    /\ Ready(disk)
    /\ pub = [input |-> InputSpec(disk), targets |-> buildPublishTargets(disk, starts),
              layout |-> disk.layout, outputs |-> Outputs(disk)]

\* A list of targets names no later start than the last one ...
Recent(ts, time) ==
  /\ Len(ts) \in Nat
  /\ \A i \in 1..Len(ts) : ts[i].txTime \in Nat /\ ts[i].txTime <= time

\* ... and has every configured target only if it is the configured list itself: there
\* is no other order, and nothing besides.
Whole(ts, p) ==
  p # NoPub /\ {p.targets[i] : i \in 1..Len(p.targets)} \subseteq {ts[i] : i \in 1..Len(ts)}
    => ts = p.targets

IsWorker == worker \in [targets : {worker.targets}, input : {worker.input}, run : {worker.run}]

CmdFits ==
  /\ Len(cmd.outputs) \in Nat
  /\ \A i \in 1..Len(cmd.outputs) : /\ cmd.outputs[i].target.txTime \in Nat
                                    /\ cmd.outputs[i].target.txTime <= starts
  /\ LevelsArePaired /\ OutputsAreFed /\ EncodersWork

\* The encoders are those that were found when the program chose.
ChosenFits == chosen = NotChosen \/ chosen.encoders = detect(chosen.of)

LadderFits ==
  /\ IsForm(form) /\ IsConfig(disk) /\ IsWorker /\ starts \in Nat
  /\ PubFits
  /\ Recent(worker.targets, starts) /\ Whole(worker.targets, pub)
  /\ Recent(copied, starts) /\ Whole(copied, pub)
  /\ CmdFits /\ ChosenFits

\* What the configured targets are.
LEMMA Targets ==
  ASSUME LadderFits, pub # NoPub
  PROVE  /\ Ready(disk)
         /\ pub.input = InputSpec(disk) /\ pub.layout = disk.layout
         /\ pub.outputs = Outputs(disk)
         /\ pub.targets = buildPublishTargets(disk, starts)
         /\ Len(pub.targets) = Count(disk) /\ Len(pub.outputs) = Count(disk)
         /\ pub.targets = [i \in 1..Count(disk) |-> pub.targets[i]]
         /\ \A i \in 1..Count(disk) : pub.targets[i].txTime = starts
         /\ \A i, j \in 1..Count(disk) : i # j => pub.targets[i].name # pub.targets[j].name
<1>1. /\ Ready(disk) /\ pub.input = InputSpec(disk) /\ pub.layout = disk.layout
      /\ pub.outputs = Outputs(disk) /\ pub.targets = buildPublishTargets(disk, starts)
  BY DEF LadderFits, PubFits
<1>2. /\ Len(pub.targets) = Count(disk) /\ Len(pub.outputs) = Count(disk)
      /\ pub.targets = [i \in 1..Count(disk) |-> pub.targets[i]]
      /\ \A i \in 1..Count(disk) : pub.targets[i].txTime = starts
  BY <1>1, ReadyTargets, ReadyOutputs
<1>3. ASSUME NEW i \in 1..Count(disk), NEW j \in 1..Count(disk), i # j
      PROVE  pub.targets[i].name # pub.targets[j].name
  <2>1. i \in 1..Len(buildPublishTargets(disk, starts)) /\ j \in 1..Len(buildPublishTargets(disk, starts))
    BY <1>1, <1>2
  <2>2. buildPublishTargets(disk, starts)[i].name # buildPublishTargets(disk, starts)[j].name
    BY <1>1, <1>3, <2>1, ReadyTargetsDiffer
  <2> QED
    BY <1>1, <2>2
<1> QED
  BY <1>1, <1>2, <1>3

\* No list of earlier targets has the targets of a new start.
LEMMA NewTargets ==
  ASSUME NEW c, Ready(c), starts \in Nat, NEW ts, Recent(ts, starts)
  PROVE  LET new == buildPublishTargets(c, starts + 1)
         IN  ~({new[i] : i \in 1..Len(new)} \subseteq {ts[i] : i \in 1..Len(ts)})
<1> DEFINE new == buildPublishTargets(c, starts + 1)
<1>1. 1 \in 1..Len(new) /\ new[1].txTime = starts + 1
  BY ReadyTargets, CountIs
<1>2. \A i \in 1..Len(ts) : ts[i].txTime # starts + 1
  BY DEF Recent
<1> HIDE DEF new
<1>3. new[1] \in {new[i] : i \in 1..Len(new)} /\ new[1] \notin {ts[i] : i \in 1..Len(ts)}
  BY <1>1, <1>2
<1> QED
  BY <1>3 DEF new

\* The targets that are left when some are paused.
LEMMA LeftFits ==
  ASSUME LadderFits, pub # NoPub, NEW I \in SUBSET (1..Len(pub.targets))
  PROVE  Recent(Picked(pub.targets, I), starts) /\ Whole(Picked(pub.targets, I), pub)
<1> DEFINE n == Count(disk)
           ts == pub.targets
           left == Picked(ts, I)
<1>1. /\ n \in Nat /\ Len(ts) = n /\ ts = [i \in 1..n |-> ts[i]] /\ starts \in Nat
      /\ \A i \in 1..n : ts[i].txTime = starts
      /\ \A i, j \in 1..n : i # j => ts[i].name # ts[j].name
  BY Targets, CountIs DEF LadderFits
<1> HIDE DEF n, ts
<1>2. I \in SUBSET (1..n)
  BY <1>1 DEF ts
<1>3. /\ Len(left) = Cardinality(I) /\ Cardinality(I) \in Nat
      /\ \A k \in 1..Cardinality(I) : \E i \in I : left[k] = ts[i]
  <2>1. n \in Nat
    BY <1>1
  <2>2. Len(left) = Cardinality(I) /\ Cardinality(I) \in Nat
    BY <2>1, <1>2, PickedLength
  <2>3. ASSUME NEW k \in 1..Cardinality(I) PROVE \E i \in I : left[k] = ts[i]
    BY <2>1, <1>2, PickedIsThere
  <2> QED
    BY <2>2, <2>3
<1> HIDE DEF left
<1>4. Recent(left, starts)
  BY <1>1, <1>2, <1>3 DEF Recent
<1>5. ASSUME Configured \subseteq {left[i] : i \in 1..Len(left)} PROVE left = ts
  <2>1. ASSUME NEW i \in 1..n PROVE i \in I
    <3>1. ts[i] \in {left[k] : k \in 1..Len(left)}
      BY <1>1, <1>5 DEF Configured, ts
    <3>2. PICK k \in 1..Len(left) : ts[i] = left[k]
      BY <3>1
    <3>3. PICK j \in I : left[k] = ts[j]
      BY <1>3
    <3>4. j \in 1..n /\ ts[i].name = ts[j].name
      BY <1>2, <3>2, <3>3
    <3> QED
      BY <1>1, <3>3, <3>4
  <2>2. I = 1..n
    BY <1>2, <2>1
  <2> QED
    BY <1>1, <2>2, PickedAll DEF left
<1>6. Whole(left, pub)
  BY <1>5 DEF Whole, Configured, ts
<1> QED
  BY <1>4, <1>6 DEF left, ts

\* A command has the first of the targets it is built for, each once and in order.
LEMMA CommandTargets ==
  ASSUME LadderFits, NEW ts, Len(ts) \in Nat, NEW enc, NEW audio
  PROVE  LET out == buildFFmpegCommand(ts, enc, audio)
         IN  /\ Len(out) \in Nat /\ Len(out) <= Len(ts)
             /\ \A i \in 1..Len(out) : out[i].target = ts[i]
<1> DEFINE ps == normalizeOutputProfiles(pub.outputs)
           out == buildFFmpegCommand(ts, enc, audio)
           map == ffmpegAudioMap(audio)
           len == IF Len(ps) <= Len(ts) THEN Len(ps) ELSE Len(ts)
<1>1. CASE Len(ts) >= 4 /\ pub.outputs # <<>>
  <2>1. pub # NoPub
    <3>1. NoPub.outputs = <<>>
      BY DEF NoPub
    <3> QED
      BY <1>1, <3>1
  <2>2. Len(ps) \in Nat
    BY <2>1, Targets, ReadyProfiles, CountIs
  <2>3. out = [i \in 1..len |->
                 [target |-> ts[i], level |-> ps[i].level,
                  video |-> IF ps[i].audioOnly THEN "none" ELSE resolveVideoEncoder(ps[i].codec, enc),
                  rate |-> ps[i].rate, size |-> ps[i].size, layout |-> pub.layout, map |-> map]]
    BY <1>1 DEF buildFFmpegCommand, appendFourLevelOutputs
  <2>4. len \in Nat /\ len <= Len(ts)
    BY <2>2
  <2> HIDE DEF len, out, ps
  <2>5. Len(out) = len /\ \A i \in 1..len : out[i].target = ts[i]
    BY <2>3, <2>4
  <2> QED
    BY <2>4, <2>5 DEF out
<1>2. CASE ~(Len(ts) >= 4 /\ pub.outputs # <<>>)
  <2>1. out = [i \in 1..Len(ts) |->
                 [target |-> ts[i], level |-> "all", video |-> enc.h264,
                  rate |-> "all", size |-> "all", layout |-> pub.layout, map |-> map]]
    BY <1>2 DEF buildFFmpegCommand, appendVideoRenditions
  <2> HIDE DEF out
  <2>2. Len(out) = Len(ts) /\ \A i \in 1..Len(ts) : out[i].target = ts[i]
    BY <2>1
  <2> QED
    BY <2>2 DEF out
<1> QED
  BY <1>1, <1>2

\* Whatever it is built for, every encoder of a command works.
LEMMA CommandEncoders ==
  ASSUME LadderFits, NEW ts, Len(ts) \in Nat, NEW hw, NEW audio
  PROVE  LET out == buildFFmpegCommand(ts, detect(hw), audio)
         IN  \A i \in 1..Len(out) :
               out[i].video \in {"none", "libx264", "libx265", "hevc_qsv"} \cup hw
<1> DEFINE ps == normalizeOutputProfiles(pub.outputs)
           enc == detect(hw)
           out == buildFFmpegCommand(ts, enc, audio)
           map == ffmpegAudioMap(audio)
           len == IF Len(ps) <= Len(ts) THEN Len(ps) ELSE Len(ts)
<1>1. CASE Len(ts) >= 4 /\ pub.outputs # <<>>
  <2>1. pub # NoPub
    <3>1. NoPub.outputs = <<>>
      BY DEF NoPub
    <3> QED
      BY <1>1, <3>1
  <2>2. Len(ps) \in Nat
    BY <2>1, Targets, ReadyProfiles, CountIs
  <2>3. out = [i \in 1..len |->
                 [target |-> ts[i], level |-> ps[i].level,
                  video |-> IF ps[i].audioOnly THEN "none" ELSE resolveVideoEncoder(ps[i].codec, enc),
                  rate |-> ps[i].rate, size |-> ps[i].size, layout |-> pub.layout, map |-> map]]
    BY <1>1 DEF buildFFmpegCommand, appendFourLevelOutputs
  <2>4. len \in Nat
    BY <2>2
  <2> HIDE DEF len, out, ps
  <2>5. Len(out) = len
    BY <2>3, <2>4
  <2>6. ASSUME NEW i \in 1..len
        PROVE  out[i].video \in {"none", "libx264", "libx265", "hevc_qsv"} \cup hw
    <3>1. out[i].video = IF ps[i].audioOnly THEN "none" ELSE resolveVideoEncoder(ps[i].codec, enc)
      BY <2>3
    <3>2. resolveVideoEncoder(ps[i].codec, enc) \in {"libx264", "libx265", "hevc_qsv"} \cup hw
      BY EncoderWorks
    <3> QED
      BY <3>1, <3>2
  <2> QED
    BY <2>5, <2>6 DEF out
<1>2. CASE ~(Len(ts) >= 4 /\ pub.outputs # <<>>)
  <2>1. out = [i \in 1..Len(ts) |->
                 [target |-> ts[i], level |-> "all", video |-> enc.h264,
                  rate |-> "all", size |-> "all", layout |-> pub.layout, map |-> map]]
    BY <1>2 DEF buildFFmpegCommand, appendVideoRenditions
  <2>2. enc.h264 \in {"libx264"} \cup hw
    BY EncoderWorks
  <2> HIDE DEF out, enc
  <2>3. Len(out) = Len(ts) /\ \A i \in 1..Len(ts) : out[i].video = enc.h264
    BY <2>1
  <2> QED
    BY <2>2, <2>3 DEF out, enc
<1> QED
  BY <1>1, <1>2

\* A command for all the configured targets gives each the level the settings give it.
LEMMA CommandLevels ==
  ASSUME LadderFits, Len(pub.targets) >= 4, NEW ts, Len(ts) \in Nat, Whole(ts, pub), NEW enc, NEW audio
  PROVE  LET out == buildFFmpegCommand(ts, enc, audio)
         IN  Configured \subseteq {out[i].target : i \in 1..Len(out)} =>
               \A i \in 1..Len(out) : HasLevel(out[i].target, out[i].level)
<1> DEFINE out == buildFFmpegCommand(ts, enc, audio)
           map == ffmpegAudioMap(audio)
           n == Count(disk)
<1>1. pub # NoPub /\ Ready(disk) /\ Len(pub.targets) = n /\ n \in Nat /\ n >= 4
  <2>1. pub # NoPub
    <3>1. Len(NoPub.targets) = 0
      BY DEF NoPub
    <3> QED
      BY <3>1
  <2> QED
    BY <2>1, Targets, CountIs
<1>2. Len(out) \in Nat /\ Len(out) <= Len(ts) /\ \A i \in 1..Len(out) : out[i].target = ts[i]
  BY CommandTargets
<1> SUFFICES ASSUME Configured \subseteq {out[i].target : i \in 1..Len(out)},
                    NEW i \in 1..Len(out)
             PROVE  HasLevel(out[i].target, out[i].level)
  OBVIOUS
<1> HIDE DEF n
<1>3. ts = pub.targets
  <2> HIDE DEF out
  <2>1. {out[k].target : k \in 1..Len(out)} \subseteq {ts[k] : k \in 1..Len(ts)}
    BY <1>2
  <2> QED
    BY <1>1, <2>1 DEF Whole, Configured
<1>4. Ready(disk) /\ Len(ts) = n /\ Len(pub.outputs) = n /\ pub.outputs = Outputs(disk)
  BY <1>1, <1>3, Targets DEF n
<1>5. /\ \A k \in 1..n : ts[k].name = ResolveStreamName(disk.site, disk.streams[Place(disk, k)].name)
      /\ pub.outputs = [k \in 1..n |-> ProfileOf(disk.streams[Place(disk, k)])]
  <2>1. Outputs(disk) = [k \in 1..Count(disk) |-> ProfileOf(disk.streams[Place(disk, k)])]
    BY <1>1, ReadyOutputs, Zenon
  <2>2. pub.targets = buildPublishTargets(disk, starts)
    BY <1>1, Targets
  <2>3. ASSUME NEW k \in 1..n
        PROVE  pub.targets[k].name = ResolveStreamName(disk.site, disk.streams[Place(disk, k)].name)
    BY <1>1, <2>2, ReadyTargets DEF n
  <2> QED
    BY <1>3, <1>4, <2>1, <2>3 DEF n
<1>6. normalizeOutputProfiles(pub.outputs) = pub.outputs
  BY <1>4, ReadyProfiles
<1>7. Len(ts) >= 4 /\ pub.outputs # <<>>
  BY <1>1, <1>4
<1>8. out = [k \in 1..n |->
               [target |-> ts[k], level |-> pub.outputs[k].level,
                video |-> IF pub.outputs[k].audioOnly THEN "none"
                          ELSE resolveVideoEncoder(pub.outputs[k].codec, enc),
                rate |-> pub.outputs[k].rate, size |-> pub.outputs[k].size,
                layout |-> pub.layout, map |-> map]]
  BY <1>1, <1>4, <1>6, <1>7 DEF buildFFmpegCommand, appendFourLevelOutputs
<1> HIDE DEF out
<1>9. i \in 1..n
  BY <1>1, <1>2, <1>4
<1>10. out[i].target = ts[i] /\ out[i].level = disk.streams[Place(disk, i)].level
  <2>1. out[i].target = ts[i] /\ out[i].level = pub.outputs[i].level
    BY <1>8, <1>9
  <2>2. pub.outputs[i] = ProfileOf(disk.streams[Place(disk, i)])
    BY <1>5, <1>9
  <2>3. pub.outputs[i].level = disk.streams[Place(disk, i)].level
    BY <2>2 DEF ProfileOf
  <2> QED
    BY <2>1, <2>3
<1>11. out[i].target.name = ResolveStreamName(disk.site, disk.streams[Place(disk, i)].name)
  BY <1>5, <1>9, <1>10
<1>12. Place(disk, i) \in 1..5 /\ Completed(disk) = disk
  BY <1>1, <1>9, PlaceIs, CompletedIsSame DEF n
<1>13. \E j \in 1..5 : /\ Completed(disk).streams[j].level = out[i].level
                       /\ out[i].target.name = ResolveStreamName(disk.site, Completed(disk).streams[j].name)
  BY <1>10, <1>11, <1>12
<1> QED
  BY <1>13 DEF HasLevel

\* An input without audio.
Silent(input) == input[1] = "device" /\ input[3] = ""

LEMMA SilentInput ==
  ASSUME NEW c, c.mode \in {"device", "file"}, Silent(InputSpec(c))
  PROVE  ~inputHasAudio(c)
<1>1. CASE c.mode = "file"
  <2>1. InputSpec(c) = <<"file", c.file>>
    BY <1>1 DEF InputSpec
  <2>2. <<"file", c.file>>[1] = "file"
    OBVIOUS
  <2> QED
    BY <2>1, <2>2 DEF Silent
<1>2. CASE c.mode = "device"
  <2>1. InputSpec(c) = <<"device", c.video, c.audio>>
    BY <1>2 DEF InputSpec
  <2>2. <<"device", c.video, c.audio>>[3] = c.audio
    OBVIOUS
  <2> QED
    BY <1>2, <2>1, <2>2 DEF Silent, inputHasAudio
<1> QED
  BY <1>1, <1>2

\* A command for settings without audio has no output of audio alone.
LEMMA CommandFed ==
  ASSUME LadderFits, NEW ts, Len(ts) \in Nat, NEW hw, NEW audio,
         Silent(pub.input)
  PROVE  LET out == buildFFmpegCommand(ts, detect(hw), audio)
         IN  \A i \in 1..Len(out) : out[i].video # "none"
<1> DEFINE enc == detect(hw)
           out == buildFFmpegCommand(ts, enc, audio)
           map == ffmpegAudioMap(audio)
           len == IF Len(pub.outputs) <= Len(ts) THEN Len(pub.outputs) ELSE Len(ts)
<1>1. CASE Len(ts) >= 4 /\ pub.outputs # <<>>
  <2>1. pub # NoPub
    <3>1. NoPub.outputs = <<>>
      BY DEF NoPub
    <3> QED
      BY <1>1, <3>1
  <2>2. Ready(disk) /\ pub.outputs = Outputs(disk) /\ pub.input = InputSpec(disk)
    BY <2>1, Targets
  <2>3. disk.mode \in {"device", "file"}
    BY <2>2 DEF Ready, Validate
  <2>4. ~inputHasAudio(disk)
    BY <2>2, <2>3, SilentInput
  <2> DEFINE n == Count(disk)
  <2>5. n \in Nat /\ Len(pub.outputs) = n
        /\ pub.outputs = [k \in 1..n |-> ProfileOf(disk.streams[Place(disk, k)])]
    BY <2>2, CountIs, ReadyOutputs
  <2>6. \A k \in 1..n : ~disk.streams[Place(disk, k)].audioOnly
    BY <2>4, PlaceIs
  <2> HIDE DEF n
  <2>7. ASSUME NEW k \in 1..n PROVE ~pub.outputs[k].audioOnly
    <3>1. pub.outputs[k] = ProfileOf(disk.streams[Place(disk, k)])
      BY <2>5
    <3> QED
      BY <2>6, <3>1 DEF ProfileOf
  <2>8. normalizeOutputProfiles(pub.outputs) = pub.outputs
    BY <2>2, ReadyProfiles
  <2>9. out = [i \in 1..len |->
                 [target |-> ts[i], level |-> pub.outputs[i].level,
                  video |-> IF pub.outputs[i].audioOnly THEN "none"
                            ELSE resolveVideoEncoder(pub.outputs[i].codec, enc),
                  rate |-> pub.outputs[i].rate, size |-> pub.outputs[i].size,
                  layout |-> pub.layout, map |-> map]]
    BY <1>1, <2>8 DEF buildFFmpegCommand, appendFourLevelOutputs
  <2>10. len \in Nat /\ len <= n
    BY <2>5
  <2> HIDE DEF len, out
  <2>11. Len(out) = len
    BY <2>9, <2>10
  <2>12. ASSUME NEW i \in 1..len PROVE out[i].video # "none"
    <3>1. i \in 1..n
      BY <2>5, <2>10
    <3>2. out[i].video = resolveVideoEncoder(pub.outputs[i].codec, enc)
      BY <2>7, <2>9, <3>1
    <3> QED
      BY <3>2, EncoderWorks
  <2> QED
    BY <2>11, <2>12 DEF out
<1>2. CASE ~(Len(ts) >= 4 /\ pub.outputs # <<>>)
  <2>1. out = [i \in 1..Len(ts) |->
                 [target |-> ts[i], level |-> "all", video |-> enc.h264,
                  rate |-> "all", size |-> "all", layout |-> pub.layout, map |-> map]]
    BY <1>2 DEF buildFFmpegCommand, appendVideoRenditions
  <2>2. enc.h264 # "none"
    BY EncoderWorks
  <2> HIDE DEF out, enc
  <2>3. Len(out) = Len(ts) /\ \A i \in 1..Len(ts) : out[i].video = enc.h264
    BY <2>1
  <2> QED
    BY <2>2, <2>3 DEF out, enc
<1> QED
  BY <1>1, <1>2

-----------------------------------------------------------------------------
(* Without a command, or without settings, there is nothing to be wrong.   *)

LEMMA NoCommand ==
  ASSUME cmd = NoCmd, starts \in Nat
  PROVE  CmdFits
<1>1. cmd.outputs = <<>> /\ Len(cmd.outputs) = 0
  BY DEF NoCmd
<1> QED
  BY <1>1 DEF CmdFits, LevelsArePaired, OutputsAreFed, EncodersWork

LEMMA NoTargets == starts \in Nat => Recent(<<>>, starts)
BY DEF Recent

\* No targets are not all the configured ones.
LEMMA NoneIsNotWhole ==
  ASSUME PubFits
  PROVE  Whole(<<>>, pub)
<1> SUFFICES ASSUME pub # NoPub, Configured \subseteq {<<>>[i] : i \in 1..Len(<<>>)} PROVE FALSE
  BY DEF Whole, Configured
<1>1. Len(pub.targets) \in Nat /\ Len(pub.targets) >= 2
  <2>1. Ready(disk) /\ pub.targets = buildPublishTargets(disk, starts)
    BY DEF PubFits
  <2>2. Len(pub.targets) = Count(disk)
    BY <2>1, ReadyTargets
  <2> QED
    BY <2>1, <2>2, CountIs
<1>2. pub.targets[1] \in Configured
  BY <1>1 DEF Configured
<1>3. {<<>>[i] : i \in 1..Len(<<>>)} = {}
  OBVIOUS
<1> QED
  BY <1>2, <1>3

LEMMA LadderInit == Init => LadderFits
<1> SUFFICES ASSUME Init PROVE LadderFits
  OBVIOUS
<1>1. IsConfig(disk) /\ starts = 0 /\ starts \in Nat /\ pub = NoPub /\ copied = <<>>
      /\ cmd = NoCmd /\ worker = Stopped /\ chosen = NotChosen
  BY FilesAreConfigs DEF Init
<1>2. IsForm(form)
  <2>1. PICK env \in Envs : form = applyConfig(Load(disk, env))
    BY DEF Init
  <2>2. IsConfig(Load(disk, env))
    BY <1>1, LoadedConfig
  <2> QED
    BY <2>1, <2>2, AppliedForm
<1>3. IsWorker /\ worker.targets = <<>>
  BY <1>1 DEF IsWorker, Stopped
<1>4. PubFits
  BY <1>1 DEF PubFits
<1>5. Recent(<<>>, starts) /\ Whole(<<>>, pub) /\ CmdFits
  BY <1>1, <1>4, NoTargets, NoneIsNotWhole, NoCommand
<1> QED
  BY <1>1, <1>2, <1>3, <1>4, <1>5 DEF LadderFits, ChosenFits

-----------------------------------------------------------------------------
(* The steps.                                                              *)

LEMMA NoCommandNext ==
  ASSUME cmd' = NoCmd, starts' \in Nat
  PROVE  CmdFits'
<1>1. cmd'.outputs = <<>> /\ Len(cmd'.outputs) = 0
  BY DEF NoCmd
<1> QED
  BY <1>1 DEF CmdFits, LevelsArePaired, OutputsAreFed, EncodersWork

\* What a step that leaves the settings, the form and the publisher alone has to show.
LEMMA KeptSettings ==
  ASSUME LadderFits, UNCHANGED <<disk, pub, starts>>, IsForm(form'), IsWorker',
         Recent(worker'.targets, starts), Whole(worker'.targets, pub),
         Recent(copied', starts), Whole(copied', pub), CmdFits', ChosenFits'
  PROVE  LadderFits'
<1>1. IsConfig(disk)' /\ (starts \in Nat)' /\ PubFits'
  BY DEF LadderFits, PubFits
<1>2. (Recent(worker.targets, starts) /\ Whole(worker.targets, pub))'
  OBVIOUS
<1>3. (Recent(copied, starts) /\ Whole(copied, pub))'
  OBVIOUS
<1>4. IsForm(form)'
  OBVIOUS
<1> QED
  BY <1>1, <1>2, <1>3, <1>4 DEF LadderFits

LEMMA KeptChoice ==
  ASSUME LadderFits, UNCHANGED chosen
  PROVE  ChosenFits'
BY DEF LadderFits, ChosenFits

\* HasLevel of the next state.
LevelNext(t, level) ==
  \E i \in 1..5 : LET s == Completed(disk').streams[i] IN
    s.level = level /\ t.name = ResolveStreamName(disk'.site, s.name)

LEMMA LevelIsKept ==
  ASSUME disk' = disk, NEW t, NEW level
  PROVE  HasLevel(t, level) <=> LevelNext(t, level)
BY DEF HasLevel, LevelNext

\* What was true of the command stays true while it and the settings stay.
LEMMA KeptCommand ==
  ASSUME LadderFits, UNCHANGED <<disk, pub, starts, cmd, chosen>>
  PROVE  CmdFits'
<1>1. CmdFits
  BY DEF LadderFits
<1>2. LevelsArePaired'
  <2>1. Configured' = Configured /\ Served' = Served /\ pub' = pub /\ cmd' = cmd
    BY DEF Configured, Served
  <2>2. ASSUME Len(pub.targets) >= 4, Configured \subseteq Served, NEW i \in 1..Len(cmd.outputs)
        PROVE  LevelNext(cmd.outputs[i].target, cmd.outputs[i].level)
    <3>1. HasLevel(cmd.outputs[i].target, cmd.outputs[i].level)
      BY <1>1, <2>2 DEF CmdFits, LevelsArePaired
    <3> QED
      BY <3>1, LevelIsKept
  <2>3. LevelsArePaired' <=>
          (Len(pub'.targets) >= 4 /\ Configured' \subseteq Served' =>
             \A i \in 1..Len(cmd'.outputs) : LevelNext(cmd'.outputs[i].target, cmd'.outputs[i].level))
    BY DEF LevelsArePaired, HasLevel, LevelNext
  <2> QED
    BY <2>1, <2>2, <2>3
<1>3. OutputsAreFed' /\ EncodersWork'
  BY <1>1 DEF CmdFits, OutputsAreFed, EncodersWork
<1> QED
  BY <1>1, <1>2, <1>3 DEF CmdFits

LEMMA EditFits ==
  ASSUME LadderFits, Edit
  PROVE  LadderFits'
<1>1. IsForm(form')
  BY EditedForm DEF Edit, LadderFits
<1>2. UNCHANGED <<disk, pub, starts, cmd, chosen>> /\ UNCHANGED <<worker, copied>>
  BY DEF Edit, vars
<1>3. CmdFits' /\ ChosenFits' /\ IsWorker'
  BY <1>2, KeptCommand, KeptChoice DEF LadderFits, IsWorker
<1> QED
  BY <1>1, <1>2, <1>3, KeptSettings DEF LadderFits

\* A new list of targets, given to a worker that runs or does not.
LEMMA StartFits ==
  ASSUME LadderFits, StartPublisher
  PROVE  LadderFits'
<1> DEFINE c == readConfig(form)
           targets == buildPublishTargets(c, starts + 1)
<1>1. IsForm(form) /\ starts \in Nat /\ starts + 1 \in Nat /\ Ready(c)
  BY ReadIsReady DEF LadderFits, StartPublisher
<1>2. /\ disk' = c
      /\ IsConfig(c)
  BY <1>1, SavedIsSame DEF StartPublisher, Ready
<1>3. /\ starts' = starts + 1 /\ form' = form /\ copied' = copied /\ cmd' = cmd /\ chosen' = chosen
      /\ pub' = [input |-> InputSpec(c), targets |-> targets, layout |-> c.layout,
                 outputs |-> Outputs(c)]
  BY DEF StartPublisher
<1>4. IsWorker' /\ worker'.targets = targets
  <2>1. CASE worker.run = "off"
    BY <2>1 DEF StartPublisher, IsWorker
  <2>2. CASE worker.run # "off"
    <3> HIDE DEF targets
    <3>1. worker' = [worker EXCEPT !.targets = targets]
      BY <2>2 DEF StartPublisher, targets, c
    <3>2. worker \in [targets : {worker.targets}, input : {worker.input}, run : {worker.run}]
      BY DEF LadderFits, IsWorker
    <3>3. worker' \in [targets : {targets}, input : {worker.input}, run : {worker.run}]
      BY <3>1, <3>2
    <3> QED
      BY <3>3 DEF IsWorker
  <2> QED
    BY <2>1, <2>2
<1> HIDE DEF c, targets
<1>5. PubFits'
  BY <1>1, <1>2, <1>3 DEF PubFits, targets
<1>6. pub'.targets = targets
  BY <1>3
<1>7. /\ Len(targets) \in Nat
      /\ \A i \in 1..Len(targets) : targets[i].txTime = starts + 1
  <2>1. /\ Len(targets) = Count(c)
        /\ \A i \in 1..Count(c) : targets[i].txTime = starts + 1
    BY <1>1, ReadyTargets DEF targets
  <2> QED
    BY <2>1, CountIs
<1>8. Recent(worker'.targets, starts') /\ Whole(worker'.targets, pub')
  BY <1>1, <1>3, <1>4, <1>6, <1>7 DEF Recent, Whole
<1>9. Recent(copied, starts) /\ CmdFits
  BY DEF LadderFits
<1>10. Recent(copied', starts')
  BY <1>1, <1>3, <1>9 DEF Recent
<1>11. Whole(copied', pub')
  <2>1. ~({targets[i] : i \in 1..Len(targets)} \subseteq {copied[i] : i \in 1..Len(copied)})
    BY <1>1, <1>9, NewTargets DEF targets
  <2> QED
    BY <1>3, <1>6, <2>1 DEF Whole
<1>12. CmdFits'
  <2> DEFINE served == [i \in 1..Len(cmd.outputs) |-> cmd.outputs[i].target]
  <2>1. Len(cmd.outputs) \in Nat
    BY <1>9 DEF CmdFits
  <2>2. Len(served) = Len(cmd.outputs) /\ \A i \in 1..Len(cmd.outputs) : served[i] = cmd.outputs[i].target
    BY <2>1
  <2> HIDE DEF served
  <2>3. Recent(served, starts)
    BY <2>1, <2>2, <1>9 DEF CmdFits, Recent
  <2>4. ~({targets[i] : i \in 1..Len(targets)} \subseteq {served[i] : i \in 1..Len(served)})
    BY <1>1, <2>3, NewTargets DEF targets
  <2>5. {served[i] : i \in 1..Len(served)} = Served
    BY <2>2 DEF Served
  <2>6. Configured' = {targets[i] : i \in 1..Len(targets)} /\ Served' = Served
    BY <1>3, <1>6 DEF Configured, Served
  <2>7. LevelsArePaired'
    BY <2>4, <2>5, <2>6 DEF LevelsArePaired
  <2>8. OutputsAreFed' /\ EncodersWork'
    BY <1>3, <1>9 DEF CmdFits, OutputsAreFed, EncodersWork
  <2>9. \A i \in 1..Len(cmd.outputs) : /\ cmd.outputs[i].target.txTime \in Nat
                                       /\ cmd.outputs[i].target.txTime <= starts + 1
    BY <1>1, <1>9 DEF CmdFits
  <2> QED
    BY <2>1, <2>7, <2>8, <2>9, <1>3 DEF CmdFits
<1>13. IsForm(form') /\ IsConfig(disk') /\ starts' \in Nat /\ ChosenFits'
  BY <1>1, <1>2, <1>3, KeptChoice
<1> QED
  BY <1>4, <1>5, <1>8, <1>10, <1>11, <1>12, <1>13 DEF LadderFits

\* Another state of the worker alone.
LEMMA RunIsChanged ==
  ASSUME LadderFits, NEW run, worker' = [worker EXCEPT !.run = run]
  PROVE  IsWorker' /\ worker'.targets = worker.targets
<1>1. worker' \in [targets : {worker.targets}, input : {worker.input}, run : {run}]
  BY DEF LadderFits, IsWorker
<1> QED
  BY <1>1 DEF IsWorker

LEMMA StopFits ==
  ASSUME LadderFits, StopPublisher
  PROVE  LadderFits'
<1>1. UNCHANGED <<disk, form, pub, starts, chosen>> /\ cmd' = NoCmd
  BY DEF StopPublisher, counters
<1>2. IsWorker' /\ worker'.targets = worker.targets
  BY RunIsChanged DEF StopPublisher
<1>3. copied' \in {<<>>, copied}
  BY DEF StopPublisher
<1>4. Recent(<<>>, starts) /\ Whole(<<>>, pub)
  BY NoTargets, NoneIsNotWhole DEF LadderFits
<1>5. CmdFits' /\ ChosenFits'
  BY <1>1, NoCommandNext, KeptChoice DEF LadderFits
<1>6. Recent(copied', starts) /\ Whole(copied', pub)
  BY <1>3, <1>4 DEF LadderFits
<1>7. IsForm(form') /\ Recent(worker.targets, starts) /\ Whole(worker.targets, pub)
  BY <1>1 DEF LadderFits
<1> QED
  BY <1>1, <1>2, <1>5, <1>6, <1>7, KeptSettings

LEMMA LoopEndsFits ==
  ASSUME LadderFits, LoopEnds
  PROVE  LadderFits'
<1>1. UNCHANGED <<disk, form, pub, starts, chosen>> /\ cmd' = NoCmd /\ copied' = <<>>
  BY DEF LoopEnds, counters
<1>2. IsWorker' /\ worker'.targets = worker.targets
  BY RunIsChanged DEF LoopEnds
<1>3. Recent(<<>>, starts) /\ Whole(<<>>, pub)
  BY NoTargets, NoneIsNotWhole DEF LadderFits
<1>4. CmdFits' /\ ChosenFits'
  BY <1>1, NoCommandNext, KeptChoice DEF LadderFits
<1>5. IsForm(form') /\ Recent(worker.targets, starts) /\ Whole(worker.targets, pub)
  BY <1>1 DEF LadderFits
<1> QED
  BY <1>1, <1>2, <1>3, <1>4, <1>5, KeptSettings

LEMMA PauseFits ==
  ASSUME LadderFits, NEW t, PauseOrResume(t)
  PROVE  LadderFits'
<1> DEFINE places == {i \in 1..Len(pub.targets) : pub.targets[i] \notin paused'}
           left == Picked(pub.targets, places)
           targets == IF left = <<>> THEN worker.targets ELSE left
           input == IF left = <<>> THEN worker.input ELSE pub.input
           run == IF left = <<>> THEN "off" ELSE "on"
<1>1. pub # NoPub /\ UNCHANGED <<disk, form, pub, starts, chosen>> /\ cmd' = NoCmd
  BY DEF PauseOrResume
<1>2. Recent(left, starts) /\ Whole(left, pub)
  BY <1>1, LeftFits
<1>3. Recent(targets, starts) /\ Whole(targets, pub)
  BY <1>2 DEF LadderFits
<1>4. \/ worker' = [targets |-> targets, input |-> input, run |-> run] /\ copied' = <<>>
      \/ worker' = [worker EXCEPT !.targets = targets, !.run = "ending"] /\ UNCHANGED copied
  BY DEF PauseOrResume
<1> HIDE DEF targets, input, run
<1>5. IsWorker' /\ worker'.targets = targets
  <2>1. CASE worker' = [targets |-> targets, input |-> input, run |-> run]
    BY <2>1 DEF IsWorker
  <2>2. CASE worker' = [worker EXCEPT !.targets = targets, !.run = "ending"]
    <3>1. worker' \in [targets : {targets}, input : {worker.input}, run : {"ending"}]
      BY <2>2 DEF LadderFits, IsWorker
    <3> QED
      BY <3>1 DEF IsWorker
  <2> QED
    BY <1>4, <2>1, <2>2
<1>6. copied' \in {<<>>, copied}
  BY <1>4
<1>7. Recent(<<>>, starts) /\ Whole(<<>>, pub)
  BY NoTargets, NoneIsNotWhole DEF LadderFits
<1>8. Recent(copied', starts) /\ Whole(copied', pub)
  BY <1>6, <1>7 DEF LadderFits
<1>9. CmdFits' /\ ChosenFits'
  BY <1>1, NoCommandNext, KeptChoice DEF LadderFits
<1>10. IsForm(form')
  BY <1>1 DEF LadderFits
<1> QED
  BY <1>1, <1>3, <1>5, <1>8, <1>9, <1>10, KeptSettings

LEMMA CopyFits ==
  ASSUME LadderFits, CopyTargets
  PROVE  LadderFits'
<1>1. /\ UNCHANGED <<disk, pub, starts, cmd, chosen>> /\ UNCHANGED <<form, worker>>
      /\ copied' = worker.targets
  BY DEF CopyTargets, counters
<1>2. CmdFits' /\ ChosenFits' /\ IsWorker'
  BY <1>1, KeptCommand, KeptChoice DEF LadderFits, IsWorker
<1> QED
  BY <1>1, <1>2, KeptSettings DEF LadderFits

\* The command that is launched is for the targets that were copied, with the profiles of now.
LEMMA LaunchFits ==
  ASSUME LadderFits, Launch
  PROVE  LadderFits'
<1>1. UNCHANGED <<disk, form, pub, starts>> /\ UNCHANGED worker /\ copied' = <<>>
  BY DEF Launch, counters
<1>2. PICK hw \in Hardware, found \in BOOLEAN :
        /\ chosen' = selectFFmpegEncoderConfig(hw)
        /\ cmd' = [outputs |-> buildFFmpegCommand(copied, chosen'.encoders,
                                                 effectiveAudio(worker.input, found)),
                   audio |-> effectiveAudio(worker.input, found),
                   input |-> worker.input, set |-> pub.input]
  BY DEF Launch
<1> DEFINE audio == effectiveAudio(worker.input, found)
<1>18. PICK then : chosen'.encoders = detect(then) /\ chosen'.of = then
  <2>1. CASE chosen = NotChosen
    <3>1. chosen' = [encoders |-> detect(hw), of |-> hw]
      BY <1>2, <2>1 DEF selectFFmpegEncoderConfig
    <3>2. chosen'.encoders = detect(hw) /\ chosen'.of = hw
      BY <3>1
    <3> QED
      BY <3>2
  <2>2. CASE chosen # NotChosen
    <3>1. chosen' = chosen
      BY <1>2, <2>2 DEF selectFFmpegEncoderConfig
    <3>2. chosen.encoders = detect(chosen.of)
      BY <2>2 DEF LadderFits, ChosenFits
    <3> QED
      BY <3>1, <3>2
  <2> QED
    BY <2>1, <2>2
<1>19. ChosenFits'
  BY <1>18 DEF ChosenFits
<1> DEFINE out == buildFFmpegCommand(copied, detect(then), audio)
<1>3. Recent(copied, starts) /\ Whole(copied, pub) /\ Len(copied) \in Nat
  BY DEF LadderFits, Recent
<1>4. /\ Len(out) \in Nat /\ Len(out) <= Len(copied)
      /\ \A i \in 1..Len(out) : out[i].target = copied[i]
  BY <1>3, CommandTargets
<1>5. \A i \in 1..Len(out) : out[i].video \in {"none", "libx264", "libx265", "hevc_qsv"} \cup then
  BY <1>3, CommandEncoders
<1>6. Len(pub.targets) >= 4 => (Configured \subseteq {out[i].target : i \in 1..Len(out)} =>
                        \A i \in 1..Len(out) : HasLevel(out[i].target, out[i].level))
  BY <1>3, CommandLevels
<1>7. Silent(pub.input) => \A i \in 1..Len(out) : out[i].video # "none"
  BY <1>3, CommandFed
<1>8. cmd' = [outputs |-> out, audio |-> audio, input |-> worker.input, set |-> pub.input]
  BY <1>2, <1>18
<1> HIDE DEF out, audio
<1>9. cmd'.outputs = out /\ cmd'.input = worker.input /\ cmd'.set = pub.input
  BY <1>8
<1>10. \A i \in 1..Len(out) : out[i].target.txTime \in Nat /\ out[i].target.txTime <= starts
  BY <1>3, <1>4 DEF Recent
<1>11. LevelsArePaired'
  <2>1. /\ Configured' = Configured /\ Served' = {out[i].target : i \in 1..Len(out)}
        /\ pub' = pub /\ disk' = disk
    BY <1>1, <1>9 DEF Configured, Served
  <2>2. ASSUME Len(pub.targets) >= 4, Configured \subseteq {out[i].target : i \in 1..Len(out)},
               NEW i \in 1..Len(out)
        PROVE  LevelNext(out[i].target, out[i].level)
    BY <1>6, <2>1, <2>2, LevelIsKept
  <2>3. LevelsArePaired' <=>
          (Len(pub'.targets) >= 4 /\ Configured' \subseteq Served' =>
             \A i \in 1..Len(cmd'.outputs) : LevelNext(cmd'.outputs[i].target, cmd'.outputs[i].level))
    BY DEF LevelsArePaired, HasLevel, LevelNext
  <2> QED
    BY <2>1, <2>2, <2>3, <1>9
<1>12. OutputsAreFed'
  <2>1. ASSUME cmd'.input = cmd'.set, Silent(cmd'.input) PROVE Silent(pub.input)
    BY <1>9, <2>1
  <2>2. OutputsAreFed' <=>
          (cmd' # NoCmd /\ cmd'.input = cmd'.set /\ Silent(cmd'.input) =>
             \A i \in 1..Len(cmd'.outputs) : cmd'.outputs[i].video # "none")
    BY DEF OutputsAreFed, Silent
  <2> QED
    BY <1>7, <1>9, <2>1, <2>2
<1>13. EncodersWork'
  BY <1>5, <1>9, <1>18 DEF EncodersWork
<1>14. CmdFits'
  BY <1>1, <1>4, <1>9, <1>10, <1>11, <1>12, <1>13 DEF CmdFits
<1>15. Recent(<<>>, starts) /\ Whole(<<>>, pub)
  BY NoTargets, NoneIsNotWhole DEF LadderFits
<1>16. IsForm(form') /\ IsWorker'
  BY <1>1 DEF LadderFits, IsWorker
<1>17. Recent(worker.targets, starts) /\ Whole(worker.targets, pub)
  BY DEF LadderFits
<1> QED
  BY <1>1, <1>14, <1>15, <1>16, <1>17, <1>19, KeptSettings

LEMMA ExitFits ==
  ASSUME LadderFits, ProcessExits
  PROVE  LadderFits'
<1>1. /\ UNCHANGED <<disk, form, pub, starts, chosen>> /\ UNCHANGED <<worker, copied>>
      /\ cmd' = NoCmd
  BY DEF ProcessExits, counters
<1>2. CmdFits' /\ ChosenFits' /\ IsWorker'
  BY <1>1, NoCommandNext, KeptChoice DEF LadderFits, IsWorker
<1> QED
  BY <1>1, <1>2, KeptSettings DEF LadderFits

\* What was saved is a file like any other.
LEMMA RestartFits ==
  ASSUME LadderFits, Restart
  PROVE  LadderFits'
<1>1. /\ disk' = disk /\ starts' = starts /\ pub' = NoPub /\ worker' = Stopped
      /\ copied' = <<>> /\ cmd' = NoCmd /\ chosen' = NotChosen
  BY DEF Restart, counters
<1>2. IsForm(form')
  <2>1. PICK env \in Envs : form' = applyConfig(Load(disk, env))
    BY DEF Restart
  <2>2. IsConfig(Load(disk, env))
    BY LoadedConfig DEF LadderFits
  <2> QED
    BY <2>1, <2>2, AppliedForm
<1>3. IsWorker' /\ worker'.targets = <<>>
  BY <1>1 DEF IsWorker, Stopped
<1>4. PubFits' /\ CmdFits' /\ ChosenFits'
  BY <1>1, NoCommandNext DEF LadderFits, PubFits, ChosenFits
<1>5. (Recent(worker.targets, starts) /\ Whole(worker.targets, pub))'
  BY <1>1, <1>3, NoTargets DEF LadderFits, Whole
<1>6. (Recent(copied, starts) /\ Whole(copied, pub))'
  BY <1>1, NoTargets DEF LadderFits, Whole
<1>7. (IsForm(form) /\ IsConfig(disk) /\ starts \in Nat)'
  BY <1>1, <1>2 DEF LadderFits
<1> QED
  BY <1>3, <1>4, <1>5, <1>6, <1>7 DEF LadderFits

LEMMA LadderNext == LadderFits /\ [Next]_vars => LadderFits'
<1> SUFFICES ASSUME LadderFits, [Next]_vars PROVE LadderFits'
  OBVIOUS
<1>1. CASE Edit
  BY <1>1, EditFits
<1>2. CASE StartPublisher
  BY <1>2, StartFits
<1>3. CASE StopPublisher
  BY <1>3, StopFits
<1>4. CASE LoopEnds
  BY <1>4, LoopEndsFits
<1>5. CASE CopyTargets
  BY <1>5, CopyFits
<1>6. CASE Launch
  BY <1>6, LaunchFits
<1>7. CASE ProcessExits
  BY <1>7, ExitFits
<1>8. CASE Restart
  BY <1>8, RestartFits
<1>9. ASSUME NEW t \in Configured \cup {OldURL}, PauseOrResume(t) PROVE LadderFits'
  BY <1>9, PauseFits
<1>10. CASE UNCHANGED vars
  <2>1. UNCHANGED <<disk, pub, starts, cmd, chosen>> /\ UNCHANGED <<form, worker, copied>>
    BY <1>10 DEF vars
  <2>2. CmdFits' /\ ChosenFits' /\ IsWorker'
    BY <2>1, KeptCommand, KeptChoice DEF LadderFits, IsWorker
  <2> QED
    BY <2>1, <2>2, KeptSettings DEF LadderFits
<1> QED
  BY <1>1, <1>2, <1>3, <1>4, <1>5, <1>6, <1>7, <1>8, <1>9, <1>10 DEF Next

\* The settings, the form, the publisher's targets, the copies of them and the command fit
\* together in every reachable state (main.go:684-760, ffmpeg_worker.go:210-640, 982).
THEOREM LadderInvariant == Spec => []LadderFits
<1> QED
  BY LadderInit, LadderNext, PTL DEF Spec

-----------------------------------------------------------------------------
(* What the invariant says of the settings and of the publisher.           *)

LEMMA TargetsDiffer ==
  ASSUME LadderFits
  PROVE  TargetsAreDistinct
<1>1. CASE pub = NoPub
  <2>1. Len(pub.targets) = 0
    BY <1>1 DEF NoPub
  <2> QED
    BY <2>1 DEF TargetsAreDistinct
<1>2. CASE pub # NoPub
  BY <1>2, Targets DEF TargetsAreDistinct
<1> QED
  BY <1>1, <1>2

LEMMA NothingIsFilledIn ==
  ASSUME LadderFits
  PROVE  ProfilesAgree
BY Targets, ReadyProfiles DEF ProfilesAgree

LEMMA SavedIsPublished ==
  ASSUME LadderFits
  PROVE  SavedIsWhatIsPublished
<1> SUFFICES ASSUME pub # NoPub PROVE SavedIsWhatIsPublished
  BY DEF SavedIsWhatIsPublished
<1> DEFINE targets == buildPublishTargets(disk, 1)
           n == Count(disk)
<1>1. Ready(disk) /\ pub.input = InputSpec(disk) /\ pub.layout = disk.layout
      /\ pub.outputs = Outputs(disk) /\ pub.targets = buildPublishTargets(disk, starts)
  BY Targets
<1>2. readConfig(applyConfig(Load(disk, NoEnv))) = disk
  BY <1>1, LoadedIsSame, ReadAgain
<1>3. Len(targets) = n /\ Len(pub.targets) = n
  BY <1>1, ReadyTargets
<1>4. ASSUME NEW k \in 1..n PROVE targets[k].name = pub.targets[k].name
  <2>1. targets[k].name = ResolveStreamName(disk.site, disk.streams[Place(disk, k)].name)
    BY <1>1, ReadyTargets
  <2>2. pub.targets[k].name = ResolveStreamName(disk.site, disk.streams[Place(disk, k)].name)
    BY <1>1, ReadyTargets
  <2> QED
    BY <2>1, <2>2
<1> HIDE DEF targets, n
<1>5. [k \in 1..Len(targets) |-> targets[k].name]
        = [k \in 1..Len(pub.targets) |-> pub.targets[k].name]
  BY <1>3, <1>4
<1> QED
  BY <1>1, <1>2, <1>5 DEF SavedIsWhatIsPublished, NoEnv, targets

LEMMA LayoutFollows ==
  ASSUME LadderFits
  PROVE  LayoutIsOfTheStream
<1>1. ASSUME pub # NoPub, layoutForStreamName(disk.site) # ""
      PROVE  pub.layout = layoutForStreamName(disk.site)
  <2>1. Ready(disk) /\ pub.layout = disk.layout
    BY <1>1, Targets
  <2>2. disk.layout = Or(layoutForStreamName(disk.site), disk.layout)
    BY <2>1 DEF Ready
  <2> QED
    BY <1>1, <2>1, <2>2 DEF Or
<1> QED
  BY <1>1 DEF LayoutIsOfTheStream

LEMMA LinkIsPublished ==
  ASSUME LadderFits
  PROVE  LinkedIsPublished
<1> DEFINE c == readConfig(form)
<1> SUFFICES ASSUME pub # NoPub, Saved(c) = disk, inputHasAudio(disk),
                    NEW name \in LinkedStreams(form)
             PROVE  name \in {t.name : t \in Configured}
  BY DEF LinkedIsPublished
<1>1. Ready(disk) /\ pub.targets = buildPublishTargets(disk, starts) /\ Len(pub.targets) = 5
  BY Targets, CountIs
<1>2. disk.site = c.site /\ disk.streams = c.streams
  <2> HIDE DEF c
  <2>1. Saved(c).site = c.site /\ Saved(c).streams = c.streams
    BY DEF Saved, Settings
  <2> QED
    BY <2>1
<1>3. PICK i \in 1..Len(c.streams) : name = ResolveStreamName(c.site, c.streams[i].name)
  BY DEF LinkedStreams
<1> HIDE DEF c
<1>4. i \in 1..5
  BY <1>1, <1>2, ReadyStreams
<1>5. pub.targets[i].name = ResolveStreamName(disk.site, disk.streams[i].name)
  <2>1. Count(disk) = 5 /\ Place(disk, i) = i
    BY <1>1, <1>4, CountIs, PlaceIs
  <2>2. ASSUME NEW k \in 1..Count(disk)
        PROVE  pub.targets[k].name = ResolveStreamName(disk.site, disk.streams[Place(disk, k)].name)
    <3>1. Ready(disk) /\ pub.targets = buildPublishTargets(disk, starts)
      BY <1>1
    <3> QED
      BY ONLY <3>1, ReadyTargets, k \in 1..Count(disk)
  <2> QED
    BY <1>4, <2>1, <2>2
<1>6. pub.targets[i].name = name
  BY <1>2, <1>3, <1>4, <1>5
<1> QED
  BY <1>1, <1>4, <1>6 DEF Configured

\* Every command for all the configured targets, four at least, sends each the profile of its own level, and
\* no two targets are one stream, whatever streams the settings define, however targets were
\* paused and whichever start a running loop copied them at (ffmpeg_worker.go:982,
\* main.go:1041, 1082, config.go:394).
THEOREM LevelsArePairedAlways == Spec => []TargetsGetTheirLevel
<1>1. LadderFits => TargetsGetTheirLevel
  BY TargetsDiffer DEF TargetsGetTheirLevel, LadderFits, CmdFits
<1> QED
  BY <1>1, LadderInvariant, PTL

\* No command has an output of audio alone where its input has none, nor an encoder that was
\* not found to work when the program chose, HEVC with QSV apart, however the machine changes
\* between the commands (ffmpeg_worker.go:982, 1199-1283).
THEOREM CommandIsAlwaysUsable == Spec => []CommandIsUsable
<1>1. LadderFits => CommandIsUsable
  BY DEF CommandIsUsable, LadderFits, CmdFits
<1> QED
  BY <1>1, LadderInvariant, PTL

\* What is saved at a start and read again is what is published: its input, layout, streams
\* and profiles; the publisher fills nothing in, the layout is the one the stream's name stands
\* for, and the link names published streams only (config.go:79, 210, main.go:404, 684, 722,
\* player_link.go:55, ffmpeg_worker.go:1364).
THEOREM PublishedIsAlwaysWhatIsSet == Spec => []PublishedIsWhatIsSet
<1>1. LadderFits => PublishedIsWhatIsSet
  BY NothingIsFilledIn, SavedIsPublished, LayoutFollows, LinkIsPublished DEF PublishedIsWhatIsSet
<1> QED
  BY <1>1, LadderInvariant, PTL

=============================================================================
