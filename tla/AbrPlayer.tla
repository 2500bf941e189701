------------------------------ MODULE AbrPlayer ------------------------------
(***************************************************************************)
(* The player of abrplayer/js/v3: abrplayer.js, the ABR state machine and  *)
(* the life of the TCPlayer, and main.js, the page that commands it.       *)
(*                                                                         *)
(* JavaScript runs one handler at a time, so an action here is a handler   *)
(* from its event, or from the end of an await, to its next await or its   *)
(* end.  What is awaited (a play URL, the detection of HEVC, a bandwidth   *)
(* probe) ends at any later time, in any order, whatever happened in       *)
(* between: nothing is cancelled.                                          *)
(*                                                                         *)
(* A time stamp and the interval the code compares it with are a flag that *)
(* is set with the stamp and lapses at some later time (Lapse).            *)
(***************************************************************************)
EXTENDS Naturals, FiniteSets

CONSTANTS
  Pages,         \* the choices of site and view
  Home,          \* Home[p]: the site of p with its default view
  HevcSupported, \* what the detection of HEVC will find
  Bandwidths,    \* what a probe may measure, in kbps
  CookieUrls,    \* what the cookie phil_stream_url may name (any tab writes it)
  CookieChoices, \* what the cookie phil_stream_choice may name
  TypedUrls,     \* what may be typed into the URL field
  OldName,       \* a stream name with an underscore after its site
  Legacy,        \* the stream legacyStreamName makes of it
  Custom,        \* a URL without a stream name
  Calls,         \* identities of awaited calls in flight (bound)
  None

Levels == 0..4   \* bottom, economic, standard_hevc, standard, high
HEVC == 2
H264 == 3

Streams == [page : Pages, level : Levels]
Names == Streams \cup {OldName}
Urls == Names \cup {Custom}

AutoQuality == 4
Qualities == 0..AutoQuality   \* ranks of the ladder, or auto

Kinds == {"upgrade", "downgrade", "fallback", "abr", "manual", "detectAbr", "detectManual"}
SwitchKinds == {"upgrade", "downgrade", "fallback"}

\* Only a name that came out of a ladder waits for startSiteAbr's detection.
Call == {c \in [kind : Kinds, stream : Names] : c.kind = "detectAbr" => c.stream \in Streams}

Timers == {"cooldown", "probation", "trouble", "upgradeBackoff", "hevcBackoff", "network"}

ASSUME PlayerAssumption ==
  /\ Home \in [Pages -> Pages]
  /\ HevcSupported \in BOOLEAN
  /\ Bandwidths \subseteq Nat \ {0}
  /\ CookieUrls \subseteq Urls \cup {None}
  /\ CookieChoices \subseteq Streams \cup {None}
  /\ TypedUrls \subseteq Urls
  /\ Legacy \in Streams
  /\ OldName \notin Streams
  /\ Custom \notin Names
  /\ None \notin Urls \cup Call

VARIABLES
  page,        \* pageSiteName, pageViewName and with them STREAM_LADDER
  detected,    \* _hevcSupportCached is set
  auto,        \* autoSelectActive
  current,     \* ABRState.currentStream
  switching,   \* ABRState.isSwitching
  lowCount,    \* ABRState.consecutiveProbeLowCount
  upgradeFrom, \* ABRState.lastUpgradeFromStream
  weak,        \* ABRState.probedBandwidthKbps is above 0 and below the highest threshold
  timer,       \* the time stamps of ABRState, see Timers
  probe,       \* a probe is in flight, and the stream it was started on
  url,         \* currentWebrtcUrl: the stream it plays
  player,      \* tcplayer: none, or what it does
  monitor,     \* monitorTimer is set
  call         \* [Calls -> what is awaited, or None]

abrVars == <<auto, current, switching, lowCount, upgradeFrom, weak, timer>>
playVars == <<url, player, monitor>>
vars == <<page, detected, abrVars, probe, playVars, call>>

PlayerStates == {"none", "connecting", "playing", "dead"}

TypeOK ==
  /\ page \in Pages /\ detected \in BOOLEAN
  /\ auto \in BOOLEAN /\ switching \in BOOLEAN /\ weak \in BOOLEAN /\ monitor \in BOOLEAN
  /\ current \in Names \cup {None}
  /\ lowCount \in 0..2
  /\ upgradeFrom \in Streams \cup {None}
  /\ timer \in [Timers -> BOOLEAN]
  /\ probe \in Streams \cup {None}
  /\ url \in Urls \cup {None}
  /\ player \in PlayerStates
  /\ call \in [Calls -> Call \cup {None}]

\* The page is loaded.
Init ==
  /\ page \in Pages /\ detected = FALSE
  /\ auto = FALSE /\ switching = FALSE /\ weak = FALSE /\ monitor = FALSE
  /\ current = None
  /\ lowCount = 0
  /\ upgradeFrom = None
  /\ timer = [t \in Timers |-> FALSE]
  /\ probe = None
  /\ url = None
  /\ player = "none"
  /\ call = [c \in Calls |-> None]

-----------------------------------------------------------------------------
(* The ladder.                                                             *)

SupportsHEVC == detected /\ HevcSupported

Of(p, l) == [page |-> p, level |-> l]

InLadder(n) == n \in Streams /\ n.page = page /\ (n.level = HEVC => SupportsHEVC)

\* getQualityRank: the two standard streams have the same.
Rank(l) == IF l >= H264 THEN l - 1 ELSE l

PreferHevc == SupportsHEVC /\ ~timer["hevcBackoff"]

\* getPreferredStreamForQuality
LevelOf(r) == IF r = 2 THEN (IF PreferHevc THEN HEVC ELSE H264) ELSE IF r = 3 THEN 4 ELSE r

Preferred(p, r) == Of(p, LevelOf(r))

\* CONFIG.DEFAULT_FALLBACK_STREAM
Fallback == Of(page, 0)

\* getCurrentStreamIndex() > 0
AboveBottom == InLadder(current) /\ current.level > 0

\* DOWNGRADE_THRESHOLDS_KBPS and UPGRADE_THRESHOLDS_KBPS, by rank.
DowngradeBelow == [r \in 0..3 |-> <<100, 200, 500, 1200>>[r + 1]]
UpgradeAt == [r \in 0..2 |-> <<300, 600, 1500>>[r + 1]]

\* isAudioOnlyStream
AudioOnly(n, u) == n = None \/ (\E x \in {n, u} \cap Streams : x.level = 0)

-----------------------------------------------------------------------------
(* Calls, the player, decisions.                                           *)

Issue(kind, stream) ==
  \E c \in Calls : /\ call[c] = None
                   /\ call' = [call EXCEPT ![c] = [kind |-> kind, stream |-> stream]]

\* safeSwitchToStream, up to its await.
Switch(kind, stream) == Issue(kind, stream) /\ switching' = TRUE

NoSwitch == UNCHANGED <<call, switching>>

Mark(S) == [t \in Timers |-> timer[t] \/ t \in S]

\* destroyPlayer
DestroyPlayer == player' = "none" /\ monitor' = FALSE

\* attachPlayer; the second disjunct: TCPlayer cannot be made.
AttachPlayer(u) ==
  /\ url' = u
  /\ \/ player' = "connecting" /\ monitor' = TRUE /\ UNCHANGED switching
     \/ DestroyPlayer /\ switching' = FALSE

\* playbackHealthyForUpgrade
Healthy == ~timer["upgradeBackoff"] /\ ~timer["trouble"]

ShouldRollback == upgradeFrom # None /\ timer["probation"]

MayDowngrade == auto /\ ~switching /\ ~timer["cooldown"] /\ AboveBottom

\* performDowngrade without force, by a handler that has set the timers of marks.
PerformDowngrade(marks) ==
  LET rollback == MayDowngrade /\ ShouldRollback
      target == IF rollback THEN upgradeFrom ELSE Preferred(page, Rank(current.level) - 1)
  IN /\ timer' = Mark(marks \cup IF rollback THEN {"upgradeBackoff"} ELSE {})
     /\ IF MayDowngrade /\ InLadder(target) /\ Rank(target.level) < Rank(current.level)
        THEN Switch("downgrade", target)
        ELSE NoSwitch

\* (Faulty variant: a forced downgrade respects the lock, like any other.)
ForceDowngrade_Locked == IF auto /\ ~switching THEN Switch("downgrade", Fallback) ELSE NoSwitch

\* performDowngrade with force.
ForceDowngrade == IF auto THEN Switch("downgrade", Fallback) ELSE NoSwitch

\* performUpgrade
PerformUpgrade(target) ==
  IF /\ auto /\ ~switching /\ ~timer["cooldown"] /\ Healthy
     /\ InLadder(current) /\ InLadder(target)
     /\ Rank(target.level) = Rank(current.level) + 1
  THEN /\ Switch("upgrade", target)
       /\ upgradeFrom' = current
       /\ timer' = Mark({"probation"})
  ELSE NoSwitch /\ UNCHANGED <<upgradeFrom, timer>>

-----------------------------------------------------------------------------
(* The monitor loop and the probe.                                         *)

\* The interval of startMonitorLoop fires: during the cooldown it resets the
\* counters, else it goes on to maybeProbeAndUpgrade, up to its await.
MonitorTick ==
  /\ monitor /\ player # "none" /\ auto /\ current # None /\ ~switching
  /\ \/ timer["cooldown"] /\ lowCount' = 0 /\ UNCHANGED probe
     \/ /\ ~timer["cooldown"] /\ InLadder(current)
        /\ probe = None /\ Healthy
        /\ probe' = current
        /\ UNCHANGED lowCount
  /\ UNCHANGED <<page, detected, auto, current, switching, upgradeFrom, weak, timer, playVars, call>>

\* No probe source answered.
ProbeFails ==
  /\ probe # None
  /\ probe' = None
  /\ timer' = Mark({"network"})
  /\ UNCHANGED <<page, detected, auto, current, switching, lowCount, upgradeFrom, weak, playVars, call>>

\* (Faulty variant: one low probe too many is counted.)
Confirms_OneLate == 3

\* How many low probes come before the one that downgrades: CONFIG.DOWNGRADE_CONFIRM_COUNT
\* is 3.
Confirms == 2

\* selectDowngradeStreamForCurrent finds k too low for the current stream.
TooLow(k) == AboveBottom /\ k < DowngradeBelow[Rank(current.level)]

\* The rest of maybeProbeAndUpgrade after a probe measured k.  The upgrade is judged
\* at the place in the ladder the probe was started at.
ProbeEnds(k) ==
  /\ probe # None
  /\ probe' = None
  /\ weak' = (k < UpgradeAt[2])
  /\ \/ /\ timer["cooldown"]
        /\ lowCount' = 0
        /\ NoSwitch /\ UNCHANGED <<upgradeFrom, timer>>
     \/ /\ ~timer["cooldown"] /\ TooLow(k) /\ lowCount < Confirms
        /\ lowCount' = lowCount + 1
        /\ timer' = Mark({"network"})
        /\ NoSwitch /\ UNCHANGED upgradeFrom
     \/ /\ ~timer["cooldown"] /\ TooLow(k) /\ lowCount = Confirms
        /\ lowCount' = 0
        /\ PerformDowngrade({"network"})
        /\ UNCHANGED upgradeFrom
     \/ /\ ~timer["cooldown"] /\ ~TooLow(k)
        /\ lowCount' = 0
        /\ LET r == Rank(probe.level)
           IN IF r < 3 /\ k >= UpgradeAt[r]
              THEN PerformUpgrade(Preferred(page, r + 1))
              ELSE NoSwitch /\ UNCHANGED <<upgradeFrom, timer>>
  /\ UNCHANGED <<page, detected, auto, current, playVars>>

-----------------------------------------------------------------------------
(* Events of the player.                                                   *)

PlayerPlays ==
  /\ player \in {"connecting", "playing"}
  /\ player' = "playing"
  /\ switching' = FALSE
  /\ lowCount' = 0
  /\ UNCHANGED <<page, detected, auto, current, upgradeFrom, weak, timer, probe, url, monitor, call>>

\* The debug handler: buffering took longer than STALL_THRESHOLD_MS.
PlayerStalls ==
  /\ player \in {"connecting", "playing"}
  /\ PerformDowngrade({"trouble", "network"})
  /\ UNCHANGED <<page, detected, auto, current, lowCount, upgradeFrom, weak, probe, playVars>>

\* isNetworkSuspectForHevcFailure
NetworkSuspect(offline) == offline \/ timer["network"] \/ weak

OnHevc == InLadder(current) /\ current.level = HEVC

\* An error that is not one of isFatalPlayerError.
PlayerErrs ==
  /\ player \in {"connecting", "playing"}
  /\ timer' = Mark({"trouble"})
  /\ UNCHANGED <<page, detected, auto, current, switching, lowCount, upgradeFrom, weak, probe, playVars, call>>

\* A fatal error; gone: its code is -2004.
PlayerFails(gone, offline) ==
  /\ player \in {"connecting", "playing"}
  /\ player' = "dead"
  /\ timer' = Mark({"trouble"} \cup
       IF /\ ~AudioOnly(current, url) /\ OnHevc /\ ~NetworkSuspect(offline)
       THEN {"hevcBackoff"} ELSE {})
  /\ \/ /\ AudioOnly(current, url)
        /\ switching' = FALSE /\ UNCHANGED call
     \/ /\ ~AudioOnly(current, url) /\ gone /\ current = OldName
        /\ Switch("fallback", Legacy)
     \/ /\ ~AudioOnly(current, url) /\ OnHevc /\ NetworkSuspect(offline)
        /\ Switch("downgrade", Preferred(page, 1))
     \/ /\ ~AudioOnly(current, url) /\ OnHevc /\ ~NetworkSuspect(offline)
        /\ Switch("fallback", Of(page, H264))
     \/ /\ ~AudioOnly(current, url) /\ ~OnHevc /\ ~(gone /\ current = OldName)
        /\ ForceDowngrade
  /\ UNCHANGED <<page, detected, auto, current, lowCount, upgradeFrom, weak, probe, url, monitor>>

-----------------------------------------------------------------------------
(* The ends of awaited calls.                                              *)

Answer(c) == call' = [call EXCEPT ![c] = None]

\* getWebrtcUrl gives the URL of the stream or, when that fails, the cookie's.
UrlFor(stream) == {stream} \cup CookieUrls

\* (Faulty variant: the switch is not stamped.)
Stamped_Unstamped(kind) ==
  IF kind = "upgrade" THEN timer ELSE [timer EXCEPT !["probation"] = FALSE]

\* The time stamps of a switch: an upgrade stays on probation, any other switch ends it.
Stamped(kind) ==
  IF kind = "upgrade" THEN Mark({"cooldown"})
  ELSE [Mark({"cooldown"}) EXCEPT !["probation"] = FALSE]

\* (Faulty variant: the lock is kept, to be released by the playback that never comes.)
Unlocks_Not == switching' = switching

\* A switch without a URL releases the lock.
Unlocks == switching' = FALSE

\* The rest of safeSwitchToStream.
SwitchEnds(c) ==
  /\ call[c] # None /\ call[c].kind \in SwitchKinds
  /\ Answer(c)
  /\ \E u \in UrlFor(call[c].stream) :
       \/ /\ u = None
          /\ Unlocks
          /\ UNCHANGED <<current, timer, upgradeFrom, lowCount, weak, playVars>>
       \/ /\ u # None
          /\ current' = call[c].stream
          /\ timer' = Stamped(call[c].kind)
          /\ upgradeFrom' = IF call[c].kind = "upgrade" THEN upgradeFrom ELSE None
          /\ lowCount' = 0 /\ weak' = FALSE
          /\ AttachPlayer(u)
  /\ UNCHANGED <<page, detected, auto, probe>>

\* The rest of startSiteAbr or startManualStream after its URL; the former starts the
\* monitor loop in any case.
StartEnds(c) ==
  LET abr == call[c].kind = "abr"
  IN /\ call[c] # None /\ call[c].kind \in {"abr", "manual"}
     /\ Answer(c)
     /\ \E u \in UrlFor(call[c].stream) :
          \/ /\ u = None
             /\ monitor' = (monitor \/ abr)
             /\ lowCount' = IF abr THEN 0 ELSE lowCount
             /\ UNCHANGED <<url, player, switching>>
          \/ /\ u # None
             /\ url' = u
             /\ \/ player' = "connecting" /\ monitor' = TRUE /\ lowCount' = 0 /\ UNCHANGED switching
                \/ /\ player' = "none" /\ monitor' = abr /\ switching' = FALSE
                   /\ lowCount' = IF abr THEN 0 ELSE lowCount
     /\ UNCHANGED <<page, detected, auto, current, upgradeFrom, weak, timer, probe>>

-----------------------------------------------------------------------------
(* Starting to play.                                                       *)

\* The stream startSiteAbr picks: the cookie's when the ladder has it, but never
\* audio, and the preferred one of the two standard streams.
Pick(p, hevc, cookie) ==
  LET standard == Of(p, IF hevc /\ ~timer["hevcBackoff"] THEN HEVC ELSE H264)
      known == cookie # None /\ cookie.page = p /\ (cookie.level = HEVC => hevc)
  IN IF known /\ cookie.level \notin {0, H264} THEN cookie ELSE standard

\* (Faulty variant: the start does not set the cooldown.)
BeginAbr_NoCooldown(c, p, hevc) ==
  \E cookie \in CookieChoices :
    LET pick == Pick(p, hevc, cookie)
    IN /\ page' = p
       /\ auto' = TRUE
       /\ timer' = timer
       /\ current' = pick
       /\ call' = [call EXCEPT ![c] = [kind |-> "abr", stream |-> pick]]

\* startSiteAbr on page p, once the detection found hevc, up to the await of its URL.
BeginAbr(c, p, hevc) ==
  \E cookie \in CookieChoices :
    LET pick == Pick(p, hevc, cookie)
    IN /\ page' = p
       /\ auto' = TRUE
       /\ timer' = Mark({"cooldown"})
       /\ current' = pick
       /\ call' = [call EXCEPT ![c] = [kind |-> "abr", stream |-> pick]]

\* startManualStream, likewise.
BeginManual(c, stream) ==
  /\ auto' = FALSE
  /\ current' = stream
  /\ call' = [call EXCEPT ![c] = [kind |-> "manual", stream |-> stream]]
  /\ UNCHANGED timer

\* The page startSiteAbr goes back to when another site was chosen meanwhile.
BackTo(p) == IF Home[p] # Home[page] THEN Home[p] ELSE page

\* detectHevcCapability has its result.
DetectEnds(c) ==
  /\ call[c] # None
  /\ detected' = TRUE
  /\ \/ call[c].kind = "detectAbr" /\ BeginAbr(c, BackTo(call[c].stream.page), HevcSupported)
     \/ call[c].kind = "detectManual" /\ BeginManual(c, call[c].stream) /\ UNCHANGED page
  /\ UNCHANGED <<switching, lowCount, upgradeFrom, weak, probe, playVars>>

\* startSelectedQuality on page p with quality q, up to its first await.
StartSelected(p, q) ==
  \E c \in Calls :
    /\ call[c] = None
    /\ IF detected
       THEN IF q = AutoQuality THEN BeginAbr(c, p, HevcSupported)
            ELSE BeginManual(c, Preferred(p, q)) /\ page' = p
       ELSE /\ page' = p
            /\ call' = [call EXCEPT ![c] =
                 IF q = AutoQuality THEN [kind |-> "detectAbr", stream |-> Of(p, 0)]
                 ELSE [kind |-> "detectManual", stream |-> Preferred(p, q)]]
            /\ UNCHANGED <<auto, current, timer>>

\* Another quality, a site with its default view, or a view of the same site: nothing is
\* started that was not played already.
Choose(p, q) ==
  /\ p = page \/ Home[p] = p \/ Home[p] = Home[page]
  /\ IF player # "none" \/ url # None
     THEN DestroyPlayer /\ StartSelected(p, q)
     ELSE page' = p /\ UNCHANGED <<auto, current, timer, call, player, monitor>>
  /\ UNCHANGED <<detected, switching, lowCount, upgradeFrom, weak, probe, url>>

\* The start button with an empty URL field.
StartPlay(q) ==
  /\ DestroyPlayer
  /\ StartSelected(page, q)
  /\ UNCHANGED <<detected, switching, lowCount, upgradeFrom, weak, probe, url>>

\* The start button with a URL, or a page loaded with one: startDirectWebrtcUrl.
StartDirect(u) ==
  /\ auto' = FALSE
  /\ current' = IF u = Custom THEN current ELSE u
  /\ AttachPlayer(u)
  /\ lowCount' = IF player' = "none" THEN lowCount ELSE 0
  /\ UNCHANGED <<page, detected, upgradeFrom, weak, timer, probe, call>>

\* The stop button.
StopPlay ==
  /\ DestroyPlayer
  /\ auto' = FALSE
  /\ UNCHANGED <<page, detected, current, switching, lowCount, upgradeFrom, weak, timer, probe, url, call>>

-----------------------------------------------------------------------------
(* Time.                                                                   *)

\* The cooldown (50 s) is longer than the probation (15 s) that starts no later than
\* it, and longer than a probe (5 s), which is started only when it has lapsed.
CooldownMayLapse == ~timer["probation"] /\ probe = None

Lapse(t) ==
  /\ timer[t]
  /\ t = "cooldown" => CooldownMayLapse
  /\ timer' = [timer EXCEPT ![t] = FALSE]
  /\ UNCHANGED <<page, detected, auto, current, switching, lowCount, upgradeFrom, weak, probe,
                 playVars, call>>

-----------------------------------------------------------------------------

User ==
  \/ \E p \in Pages, q \in Qualities : Choose(p, q)
  \/ \E q \in Qualities : StartPlay(q)
  \/ \E u \in TypedUrls : StartDirect(u)
  \/ StopPlay

Player ==
  \/ PlayerPlays \/ PlayerStalls \/ PlayerErrs
  \/ \E gone, offline \in BOOLEAN : PlayerFails(gone, offline)

Ends == \E c \in Calls : SwitchEnds(c) \/ StartEnds(c) \/ DetectEnds(c)

Probe == ProbeFails \/ \E k \in Bandwidths : ProbeEnds(k)

Next == User \/ Player \/ Ends \/ Probe \/ MonitorTick \/ \E t \in Timers : Lapse(t)

Spec == Init /\ [][Next]_vars

-----------------------------------------------------------------------------
(* What the player guarantees.                                             *)

InFlight(kinds) == \E c \in Calls : call[c] # None /\ call[c].kind \in kinds

\* isSwitching keeps a playing player from adapting only while a switch is really
\* under way: no path of a failed, overtaken or abandoned switch leaves it set.
LockHasCause == player = "playing" /\ switching => InFlight(SwitchKinds)

\* The roll-back of an upgrade has nothing to roll back: when the cooldown lets a
\* downgrade pass within the probation, the upgrade has not been carried out.
RollbackHasNoTarget == auto /\ ShouldRollback /\ ~timer["cooldown"] => current = upgradeFrom

\* Whatever finished while a probe was in flight, its result decides a switch only
\* of the stream it was started on.
ProbeIsCurrent == [][probe # None /\ probe' = None /\ call' # call => probe = current]_vars

\* A player that failed on a video stream is about to be replaced, whatever the page, the
\* lock, the cooldown and other awaited calls did before and after the failure.
DeadIsAttended ==
  player = "dead" /\ auto /\ ~AudioOnly(current, url) => InFlight(SwitchKinds \cup {"abr"})
=============================================================================
