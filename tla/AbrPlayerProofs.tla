--------------------------- MODULE AbrPlayerProofs ---------------------------
(***************************************************************************)
(* What AbrPlayer guarantees for any number of pages, any bandwidths, any  *)
(* cookies and any number of awaited calls at once.  Each property is       *)
(* inductive once the types are known; a lemma of its own shows it of every *)
(* action.                                                                  *)
(***************************************************************************)
EXTENDS AbrPlayer, TLAPS

-----------------------------------------------------------------------------
(* Operators.                                                              *)

LEMMA StreamTypes ==
  /\ Streams \subseteq Names /\ Names \subseteq Urls
  /\ None \notin Urls /\ None \notin Names /\ None \notin Streams
  /\ None \notin Call
  /\ \A p \in Pages, l \in Levels : Of(p, l) \in Streams
BY PlayerAssumption DEF Streams, Names, Urls, Of

LEMMA LevelTypes ==
  ASSUME TypeOK
  PROVE  /\ \A r \in Qualities : LevelOf(r) \in Levels
         /\ \A l \in Levels : Rank(l) \in 0..3
         /\ \A l \in Levels : l > 0 => LevelOf(Rank(l) - 1) \in Levels
<1>1. ASSUME NEW r \in 0..4 PROVE LevelOf(r) \in 0..4
  <2>1. CASE r = 2
    <3>1. LevelOf(r) = HEVC \/ LevelOf(r) = H264
      BY <2>1 DEF LevelOf
    <3> QED BY <3>1 DEF HEVC, H264
  <2>2. CASE r # 2
    BY <2>2 DEF LevelOf
  <2> QED BY <2>1, <2>2
<1>3. /\ \A l \in 0..4 : Rank(l) \in 0..3
      /\ \A l \in 0..4 : l > 0 => Rank(l) - 1 \in 0..4
  BY DEF Rank, H264
<1> QED BY <1>1, <1>3 DEF Levels, Qualities, AutoQuality

LEMMA MarkType ==
  ASSUME TypeOK, NEW S
  PROVE  /\ Mark(S) \in [Timers -> BOOLEAN]
         /\ \A t \in Timers : Mark(S)[t] <=> timer[t] \/ t \in S
BY DEF TypeOK, Mark

LEMMA IssueType ==
  ASSUME TypeOK, NEW kind \in SwitchKinds, NEW stream \in Names, Issue(kind, stream)
  PROVE  call' \in [Calls -> Call \cup {None}]
BY DEF TypeOK, Issue, Call, Kinds, SwitchKinds

LEMMA SwitchType ==
  ASSUME TypeOK, NEW kind \in SwitchKinds, NEW stream \in Names, Switch(kind, stream)
  PROVE  call' \in [Calls -> Call \cup {None}] /\ switching' = TRUE
BY IssueType DEF Switch

LEMMA AttachType ==
  ASSUME TypeOK, NEW u \in Urls, AttachPlayer(u)
  PROVE  /\ url' \in Urls \cup {None} /\ player' \in {"connecting", "none"}
         /\ monitor' \in BOOLEAN /\ switching' \in BOOLEAN
BY DEF TypeOK, AttachPlayer, DestroyPlayer

LEMMA DowngradeType ==
  ASSUME TypeOK, NEW marks, PerformDowngrade(marks)
  PROVE  /\ call' \in [Calls -> Call \cup {None}] /\ switching' \in BOOLEAN
         /\ timer' \in [Timers -> BOOLEAN]
<1> DEFINE rollback == MayDowngrade /\ ShouldRollback
           target == IF rollback THEN upgradeFrom ELSE Preferred(page, Rank(current.level) - 1)
           given == MayDowngrade /\ InLadder(target) /\ Rank(target.level) < Rank(current.level)
<1>1. timer' = Mark(marks \cup IF rollback THEN {"upgradeBackoff"} ELSE {})
  BY DEF PerformDowngrade
<1>2. IF given THEN Switch("downgrade", target) ELSE NoSwitch
  BY DEF PerformDowngrade
<1>3. CASE given
  <2>1. target \in Streams
    BY <1>3 DEF InLadder
  <2>2. Switch("downgrade", target)
    BY <1>2, <1>3
  <2> HIDE DEF target
  <2> QED BY <1>1, <2>1, <2>2, SwitchType, StreamTypes, MarkType DEF SwitchKinds
<1>4. CASE ~given
  BY <1>1, <1>2, <1>4, MarkType DEF NoSwitch, TypeOK
<1> QED BY <1>3, <1>4

LEMMA UpgradeType ==
  ASSUME TypeOK, NEW target, PerformUpgrade(target)
  PROVE  /\ call' \in [Calls -> Call \cup {None}] /\ switching' \in BOOLEAN
         /\ timer' \in [Timers -> BOOLEAN] /\ upgradeFrom' \in Streams \cup {None}
<1>1. CASE UNCHANGED <<call, switching, upgradeFrom, timer>>
  BY <1>1 DEF TypeOK
<1>2. CASE /\ InLadder(current) /\ InLadder(target)
           /\ Switch("upgrade", target) /\ upgradeFrom' = current /\ timer' = Mark({"probation"})
  <2>1. target \in Names /\ current \in Streams
    BY <1>2, StreamTypes DEF InLadder
  <2> QED BY <1>2, <2>1, SwitchType, MarkType DEF SwitchKinds
<1> QED BY <1>1, <1>2 DEF PerformUpgrade, NoSwitch

LEMMA PreferredType ==
  ASSUME TypeOK, NEW p \in Pages, NEW r \in Qualities
  PROVE  Preferred(p, r) \in Streams
BY StreamTypes, LevelTypes DEF Preferred

LEMMA BeginAbrType ==
  ASSUME TypeOK, NEW c \in Calls, NEW p \in Pages, NEW hevc, BeginAbr(c, p, hevc)
  PROVE  /\ page' \in Pages /\ auto' = TRUE /\ current' \in Streams
         /\ timer' \in [Timers -> BOOLEAN] /\ call' \in [Calls -> Call \cup {None}]
<1>1. PICK cookie \in CookieChoices :
        /\ page' = p /\ auto' = TRUE /\ timer' = Mark({"cooldown"})
        /\ current' = Pick(p, hevc, cookie)
        /\ call' = [call EXCEPT ![c] = [kind |-> "abr", stream |-> Pick(p, hevc, cookie)]]
  BY DEF BeginAbr
<1>2. Pick(p, hevc, cookie) \in Streams
  <2>1. Of(p, HEVC) \in Streams /\ Of(p, H264) \in Streams
    BY StreamTypes DEF Levels, HEVC, H264
  <2>2. \/ Pick(p, hevc, cookie) = Of(p, HEVC) \/ Pick(p, hevc, cookie) = Of(p, H264)
        \/ Pick(p, hevc, cookie) = cookie /\ cookie # None
    BY DEF Pick
  <2> QED BY <2>1, <2>2, PlayerAssumption
<1>3. [kind |-> "abr", stream |-> Pick(p, hevc, cookie)] \in Call
  BY <1>2, StreamTypes DEF Call, Kinds
<1> QED BY <1>1, <1>2, <1>3, MarkType DEF TypeOK

LEMMA BeginManualType ==
  ASSUME TypeOK, NEW c \in Calls, NEW stream \in Names, BeginManual(c, stream)
  PROVE  /\ auto' = FALSE /\ current' = stream /\ timer' = timer
         /\ call' \in [Calls -> Call \cup {None}]
<1>1. [kind |-> "manual", stream |-> stream] \in Call
  BY DEF Call, Kinds
<1> QED BY <1>1 DEF BeginManual, TypeOK

\* What StartSelected does: it begins at once, or it waits for the detection.
LEMMA StartSelectedCases ==
  ASSUME TypeOK, NEW p \in Pages, NEW q \in Qualities, StartSelected(p, q)
  PROVE  \E c \in Calls :
           /\ call[c] = None
           /\ \/ BeginAbr(c, p, HevcSupported)
              \/ page' = p /\ \E stream \in Streams : BeginManual(c, stream)
              \/ /\ page' = p /\ UNCHANGED <<auto, current, timer>>
                 /\ \E k \in {"detectAbr", "detectManual"}, stream \in Streams :
                      call' = [call EXCEPT ![c] = [kind |-> k, stream |-> stream]]
<1>1. Of(p, 0) \in Streams /\ Preferred(p, q) \in Streams
  BY StreamTypes, PreferredType DEF Levels
<1> QED BY <1>1 DEF StartSelected

LEMMA StartSelectedType ==
  ASSUME TypeOK, NEW p \in Pages, NEW q \in Qualities, StartSelected(p, q)
  PROVE  /\ page' \in Pages /\ auto' \in BOOLEAN /\ current' \in Names \cup {None}
         /\ timer' \in [Timers -> BOOLEAN] /\ call' \in [Calls -> Call \cup {None}]
<1>1. PICK c \in Calls :
        \/ BeginAbr(c, p, HevcSupported)
        \/ page' = p /\ \E stream \in Streams : BeginManual(c, stream)
        \/ /\ page' = p /\ UNCHANGED <<auto, current, timer>>
           /\ \E k \in {"detectAbr", "detectManual"}, stream \in Streams :
                call' = [call EXCEPT ![c] = [kind |-> k, stream |-> stream]]
  BY StartSelectedCases
<1>2. CASE BeginAbr(c, p, HevcSupported)
  BY <1>2, BeginAbrType, StreamTypes
<1>3. CASE page' = p /\ \E stream \in Streams : BeginManual(c, stream)
  BY <1>3, BeginManualType, StreamTypes DEF TypeOK
<1>4. CASE /\ page' = p /\ UNCHANGED <<auto, current, timer>>
           /\ \E k \in {"detectAbr", "detectManual"}, stream \in Streams :
                call' = [call EXCEPT ![c] = [kind |-> k, stream |-> stream]]
  <2>1. \A k \in {"detectAbr", "detectManual"}, stream \in Streams :
          [kind |-> k, stream |-> stream] \in Call
    BY StreamTypes DEF Call, Kinds
  <2> QED BY <1>4, <2>1 DEF TypeOK
<1> QED BY <1>1, <1>2, <1>3, <1>4

-----------------------------------------------------------------------------
(* Types.                                                                  *)

LEMMA MonitorTypes ==
  ASSUME TypeOK, MonitorTick \/ ProbeFails \/ \E k \in Bandwidths : ProbeEnds(k)
  PROVE  TypeOK'
<1>1. CASE MonitorTick
  <2>1. lowCount' \in 0..2 /\ probe' \in Streams \cup {None}
    BY <1>1 DEF MonitorTick, TypeOK, InLadder
  <2> QED BY <1>1, <2>1 DEF MonitorTick, TypeOK, abrVars, playVars
<1>2. CASE ProbeFails
  BY <1>2, MarkType DEF ProbeFails, TypeOK, playVars
<1>3. ASSUME NEW k \in Bandwidths, ProbeEnds(k) PROVE TypeOK'
  <2>1. /\ probe' = None /\ weak' \in BOOLEAN
        /\ UNCHANGED <<page, detected, auto, current, playVars>>
    BY <1>3 DEF ProbeEnds
  <2>2. /\ lowCount' \in 0..2 /\ call' \in [Calls -> Call \cup {None}] /\ switching' \in BOOLEAN
        /\ timer' \in [Timers -> BOOLEAN] /\ upgradeFrom' \in Streams \cup {None}
    <3>1. CASE NoSwitch /\ UNCHANGED <<upgradeFrom, timer>>
      BY <1>3, <3>1 DEF ProbeEnds, NoSwitch, TypeOK, Confirms
    <3>2. CASE /\ NoSwitch /\ UNCHANGED upgradeFrom /\ timer' = Mark({"network"})
               /\ lowCount < Confirms /\ lowCount' = lowCount + 1
      BY <3>2, MarkType DEF NoSwitch, TypeOK, Confirms
    <3>3. CASE lowCount' = 0 /\ PerformDowngrade({"network"}) /\ UNCHANGED upgradeFrom
      BY <3>3, DowngradeType DEF TypeOK
    <3>4. CASE lowCount' = 0 /\ PerformUpgrade(Preferred(page, Rank(probe.level) + 1))
      BY <3>4, UpgradeType
    <3> QED BY <1>3, <3>1, <3>2, <3>3, <3>4 DEF ProbeEnds
  <2> QED BY <2>1, <2>2 DEF TypeOK, playVars
<1> QED BY <1>1, <1>2, <1>3

\* A fatal error: nothing, or one of four switches.
LEMMA FailCases ==
  ASSUME TypeOK, NEW gone \in BOOLEAN, NEW offline \in BOOLEAN, PlayerFails(gone, offline)
  PROVE  \/ UNCHANGED call /\ switching' \in BOOLEAN
              /\ (AudioOnly(current, url) \/ ~auto)
         \/ \E kind \in SwitchKinds, stream \in Names : Switch(kind, stream)
<1>1. /\ Legacy \in Names /\ Of(page, H264) \in Names /\ Preferred(page, 1) \in Names
      /\ Fallback \in Names
  BY StreamTypes, PreferredType, PlayerAssumption
     DEF TypeOK, Fallback, Levels, H264, Qualities, AutoQuality
<1>2. ForceDowngrade => \/ UNCHANGED call /\ switching' \in BOOLEAN /\ ~auto
                        \/ Switch("downgrade", Fallback)
  BY DEF ForceDowngrade, NoSwitch, TypeOK
<1>3. "downgrade" \in SwitchKinds /\ "fallback" \in SwitchKinds
  BY DEF SwitchKinds
<1> QED BY <1>1, <1>2, <1>3 DEF PlayerFails

LEMMA PlayerTypes ==
  ASSUME TypeOK, Player
  PROVE  TypeOK'
<1>1. CASE PlayerPlays
  <2>1. player' \in PlayerStates /\ lowCount' \in 0..2
    BY <1>1 DEF PlayerPlays, PlayerStates
  <2> QED BY <1>1, <2>1 DEF PlayerPlays, TypeOK
<1>2. CASE PlayerStalls
  BY <1>2, DowngradeType DEF PlayerStalls, TypeOK, playVars
<1>3. CASE PlayerErrs
  BY <1>3, MarkType DEF PlayerErrs, TypeOK, playVars
<1>4. ASSUME NEW gone \in BOOLEAN, NEW offline \in BOOLEAN, PlayerFails(gone, offline)
      PROVE  TypeOK'
  <2>1. call' \in [Calls -> Call \cup {None}] /\ switching' \in BOOLEAN
    BY <1>4, FailCases, SwitchType DEF SwitchKinds, Kinds, TypeOK
  <2>2. timer' \in [Timers -> BOOLEAN]
    BY <1>4, MarkType DEF PlayerFails
  <2>3. player' \in PlayerStates
    BY <1>4 DEF PlayerFails, PlayerStates
  <2> QED BY <1>4, <2>1, <2>2, <2>3 DEF PlayerFails, TypeOK
<1> QED BY <1>1, <1>2, <1>3, <1>4 DEF Player

LEMMA AnswerType ==
  ASSUME TypeOK, NEW c \in Calls, Answer(c)
  PROVE  call' \in [Calls -> Call \cup {None}]
BY DEF TypeOK, Answer

LEMMA UrlForType ==
  ASSUME TypeOK, NEW c \in Calls, call[c] # None
  PROVE  /\ call[c] \in Call /\ call[c].stream \in Names
         /\ \A u \in UrlFor(call[c].stream) : u # None => u \in Urls
BY StreamTypes, PlayerAssumption DEF TypeOK, Call, UrlFor

LEMMA StampedType ==
  ASSUME TypeOK, NEW kind
  PROVE  /\ Stamped(kind) \in [Timers -> BOOLEAN]
         /\ Stamped(kind)["cooldown"]
BY MarkType DEF Stamped, Timers

LEMMA EndTypes ==
  ASSUME TypeOK, NEW c \in Calls, SwitchEnds(c) \/ StartEnds(c) \/ DetectEnds(c)
  PROVE  TypeOK'
<1>1. CASE SwitchEnds(c)
  <2>1. PICK u \in UrlFor(call[c].stream) :
          \/ /\ u = None /\ Unlocks
             /\ UNCHANGED <<current, timer, upgradeFrom, lowCount, weak, playVars>>
          \/ /\ u # None /\ current' = call[c].stream /\ timer' = Stamped(call[c].kind)
             /\ upgradeFrom' = IF call[c].kind = "upgrade" THEN upgradeFrom ELSE None
             /\ lowCount' = 0 /\ weak' = FALSE /\ AttachPlayer(u)
    BY <1>1 DEF SwitchEnds
  <2>2. /\ call' \in [Calls -> Call \cup {None}] /\ call[c] # None
        /\ UNCHANGED <<page, detected, auto, probe>>
    BY <1>1, AnswerType DEF SwitchEnds
  <2>3. CASE u = None
    BY <2>1, <2>2, <2>3 DEF Unlocks, TypeOK, playVars
  <2>4. CASE u # None
    <3>1. u \in Urls /\ call[c].stream \in Names
      BY <2>2, <2>4, UrlForType
    <3>2. /\ url' \in Urls \cup {None} /\ player' \in {"connecting", "none"}
          /\ monitor' \in BOOLEAN /\ switching' \in BOOLEAN
      BY <2>1, <2>4, <3>1, AttachType
    <3>3. timer' \in [Timers -> BOOLEAN]
      BY <2>1, <2>4, StampedType
    <3>4. player' \in PlayerStates
      BY <3>2 DEF PlayerStates
    <3>5. upgradeFrom' \in Streams \cup {None} /\ lowCount' \in 0..2
      BY <2>1, <2>4 DEF TypeOK
    <3> QED BY <2>1, <2>2, <2>4, <3>1, <3>2, <3>3, <3>4, <3>5 DEF TypeOK
  <2> QED BY <2>3, <2>4
<1>2. CASE StartEnds(c)
  <2>1. call' \in [Calls -> Call \cup {None}] /\ call[c] # None
    BY <1>2, AnswerType DEF StartEnds
  <2>2. \A u \in UrlFor(call[c].stream) : u # None => u \in Urls
    BY <2>1, UrlForType
  <2>3. /\ monitor' \in BOOLEAN /\ url' \in Urls \cup {None}
        /\ switching' \in BOOLEAN
    BY <1>2, <2>2 DEF StartEnds, TypeOK
  <2>5. lowCount' = 0 \/ lowCount' = lowCount
    BY <1>2 DEF StartEnds
  <2>6. lowCount' \in 0..2
    BY <2>5 DEF TypeOK
  <2>4. player' \in PlayerStates
    BY <1>2 DEF StartEnds, TypeOK, PlayerStates
  <2> QED BY <1>2, <2>1, <2>3, <2>4, <2>6 DEF StartEnds, TypeOK
<1>3. CASE DetectEnds(c)
  <2>1. call[c] \in Call
    BY <1>3, UrlForType DEF DetectEnds
  <2>2. CASE call[c].kind = "detectAbr" /\ BeginAbr(c, BackTo(call[c].stream.page), HevcSupported)
    <3>1. call[c].stream.page \in Pages
      BY <2>1, <2>2 DEF Call, Streams
    <3>2. BackTo(call[c].stream.page) \in Pages
      BY <3>1, PlayerAssumption DEF BackTo, TypeOK
    <3> QED BY <1>3, <2>2, <3>2, BeginAbrType, StreamTypes DEF DetectEnds, TypeOK, playVars
  <2>3. CASE BeginManual(c, call[c].stream) /\ UNCHANGED page
    <3>1. call[c].stream \in Names
      BY <2>1 DEF Call
    <3> QED BY <1>3, <2>3, <3>1, BeginManualType DEF DetectEnds, TypeOK, playVars
  <2> QED BY <1>3, <2>2, <2>3 DEF DetectEnds
<1> QED BY <1>1, <1>2, <1>3

LEMMA UserTypes ==
  ASSUME TypeOK, User
  PROVE  TypeOK'
<1>1. ASSUME NEW p \in Pages, NEW q \in Qualities, Choose(p, q) PROVE TypeOK'
  <2>1. CASE DestroyPlayer /\ StartSelected(p, q)
    <3>1. player' \in PlayerStates /\ monitor' \in BOOLEAN
      BY <2>1 DEF DestroyPlayer, PlayerStates
    <3> QED BY <1>1, <2>1, <3>1, StartSelectedType DEF Choose, TypeOK
  <2>2. CASE page' = p /\ UNCHANGED <<auto, current, timer, call, player, monitor>>
    BY <1>1, <2>2 DEF Choose, TypeOK
  <2> QED BY <1>1, <2>1, <2>2 DEF Choose
<1>2. ASSUME NEW q \in Qualities, StartPlay(q) PROVE TypeOK'
  <2>1. player' \in PlayerStates /\ monitor' \in BOOLEAN
    BY <1>2 DEF StartPlay, DestroyPlayer, PlayerStates
  <2>2. page \in Pages /\ StartSelected(page, q)
    BY <1>2 DEF StartPlay, TypeOK
  <2> QED BY <1>2, <2>1, <2>2, StartSelectedType DEF StartPlay, TypeOK
<1>3. ASSUME NEW u \in TypedUrls, StartDirect(u) PROVE TypeOK'
  <2>1. u \in Urls
    BY PlayerAssumption
  <2>2. /\ url' \in Urls \cup {None} /\ player' \in PlayerStates
        /\ monitor' \in BOOLEAN /\ switching' \in BOOLEAN
    BY <1>3, <2>1, AttachType DEF StartDirect, PlayerStates
  <2>3. current' \in Names \cup {None} /\ (lowCount' = 0 \/ lowCount' = lowCount)
    BY <1>3, <2>1 DEF StartDirect, TypeOK, Urls
  <2>4. lowCount' \in 0..2
    BY <2>3 DEF TypeOK
  <2> QED BY <1>3, <2>2, <2>3, <2>4 DEF StartDirect, TypeOK
<1>4. CASE StopPlay
  <2>1. player' \in PlayerStates /\ monitor' \in BOOLEAN
    BY <1>4 DEF StopPlay, DestroyPlayer, PlayerStates
  <2> QED BY <1>4, <2>1 DEF StopPlay, TypeOK
<1> QED BY <1>1, <1>2, <1>3, <1>4 DEF User

LEMMA LapseTypes ==
  ASSUME TypeOK, NEW t \in Timers, Lapse(t)
  PROVE  TypeOK'
BY DEF Lapse, TypeOK, playVars

THEOREM TypeCorrect == Spec => []TypeOK
<1>1. Init => TypeOK
  <2> SUFFICES ASSUME Init PROVE TypeOK
    OBVIOUS
  <2>1. player \in PlayerStates /\ lowCount \in 0..2
    BY DEF Init, PlayerStates
  <2> QED BY <2>1 DEF Init, TypeOK
<1>2. TypeOK /\ [Next]_vars => TypeOK'
  <2> SUFFICES ASSUME TypeOK, [Next]_vars PROVE TypeOK'
    OBVIOUS
  <2>1. CASE UNCHANGED vars
    BY <2>1 DEF TypeOK, vars, abrVars, playVars
  <2> QED BY <2>1, UserTypes, PlayerTypes, EndTypes, MonitorTypes, LapseTypes
          DEF Next, Ends, Probe
<1> QED BY <1>1, <1>2, PTL DEF Spec

-----------------------------------------------------------------------------
(* The calls in flight.                                                    *)

\* A new call is in flight, and the others still are.
LEMMA Issued ==
  ASSUME TypeOK, NEW kind \in SwitchKinds, NEW stream \in Names, Issue(kind, stream)
  PROVE  /\ InFlight(SwitchKinds)'
         /\ \A kinds : InFlight(kinds) => InFlight(kinds)'
<1>1. PICK c \in Calls : /\ call[c] = None
                         /\ call' = [call EXCEPT ![c] = [kind |-> kind, stream |-> stream]]
  BY DEF Issue
<1>2. [kind |-> kind, stream |-> stream] \in Call
  BY DEF Call, Kinds, SwitchKinds
<1>3. call'[c].kind = kind /\ call'[c] # None /\ \A d \in Calls \ {c} : call'[d] = call[d]
  BY <1>1, <1>2, StreamTypes DEF TypeOK
<1> QED BY <1>1, <1>3 DEF InFlight

LEMMA DowngradeCases ==
  ASSUME TypeOK, NEW marks, PerformDowngrade(marks)
  PROVE  \/ NoSwitch
         \/ /\ auto /\ ~timer["cooldown"]
            /\ \E stream \in Names : Switch("downgrade", stream)
<1> DEFINE target == IF MayDowngrade /\ ShouldRollback THEN upgradeFrom
                     ELSE Preferred(page, Rank(current.level) - 1)
<1>1. \/ NoSwitch
      \/ MayDowngrade /\ InLadder(target) /\ Switch("downgrade", target)
  BY DEF PerformDowngrade
<1>2. InLadder(target) => target \in Names
  BY StreamTypes DEF InLadder
<1> HIDE DEF target
<1> QED BY <1>1, <1>2 DEF MayDowngrade

LEMMA UpgradeCases ==
  ASSUME TypeOK, NEW target, PerformUpgrade(target)
  PROVE  \/ NoSwitch /\ UNCHANGED <<upgradeFrom, timer>>
         \/ /\ auto /\ ~timer["cooldown"]
            /\ \E stream \in Names : Switch("upgrade", stream)
            /\ upgradeFrom' = current /\ timer' = Mark({"probation"})
BY StreamTypes DEF PerformUpgrade, InLadder

\* Who does not answer a call leaves every call in flight; who issues a switch has one.
LEMMA ProbeCases ==
  ASSUME TypeOK, NEW k, ProbeEnds(k)
  PROVE  \/ NoSwitch
         \/ auto /\ ~timer["cooldown"]
              /\ \E kind \in SwitchKinds, stream \in Names : Switch(kind, stream)
<1>1. "downgrade" \in SwitchKinds /\ "upgrade" \in SwitchKinds
  BY DEF SwitchKinds
<1> QED BY <1>1, DowngradeCases, UpgradeCases DEF ProbeEnds

\* Ending a call takes that call away and no other.
LEMMA Answered ==
  ASSUME TypeOK, NEW c \in Calls, NEW kinds, call[c].kind \notin kinds,
         \A d \in Calls \ {c} : call'[d] = call[d]
  PROVE  InFlight(kinds) => InFlight(kinds)'
BY DEF InFlight

LEMMA Selected ==
  ASSUME TypeOK, NEW p \in Pages, NEW q \in Qualities, StartSelected(p, q), NEW kinds
  PROVE  InFlight(kinds) => InFlight(kinds)'
<1>1. PICK c \in Calls : call[c] = None /\ \A d \in Calls \ {c} : call'[d] = call[d]
  BY StartSelectedCases DEF BeginAbr, BeginManual, TypeOK
<1> QED BY <1>1 DEF InFlight

LEMMA LockStep ==
  ASSUME TypeOK, LockHasCause, Next
  PROVE  LockHasCause'
<1>1. ASSUME NEW kind \in SwitchKinds, NEW stream \in Names, Switch(kind, stream)
      PROVE  LockHasCause'
  BY <1>1, Issued DEF Switch, LockHasCause
<1>2. CASE UNCHANGED <<player, switching, call>>
  BY <1>2 DEF LockHasCause, InFlight
<1>3. CASE player' # "playing" \/ ~switching'
  BY <1>3 DEF LockHasCause
<1>4. CASE User
  <2>1. CASE player' = "playing"
    <3>1. UNCHANGED <<player, switching, call>>
      BY <1>4, <2>1 DEF User, Choose, StartPlay, StartDirect, StopPlay, DestroyPlayer, AttachPlayer
    <3> QED BY <3>1, <1>2
  <2> QED BY <1>3, <2>1
<1>5. CASE Player
  <2>1. CASE PlayerPlays
    BY <1>3, <2>1 DEF PlayerPlays
  <2>2. CASE PlayerStalls
    BY <1>1, <1>2, <2>2, DowngradeCases DEF PlayerStalls, NoSwitch, playVars, SwitchKinds
  <2>3. CASE PlayerErrs
    BY <1>2, <2>3 DEF PlayerErrs, playVars
  <2>4. CASE \E gone, offline \in BOOLEAN : PlayerFails(gone, offline)
    BY <1>3, <2>4 DEF PlayerFails
  <2> QED BY <1>5, <2>1, <2>2, <2>3, <2>4 DEF Player
<1>6. ASSUME NEW c \in Calls, SwitchEnds(c) \/ StartEnds(c) \/ DetectEnds(c)
      PROVE  LockHasCause'
  <2>1. CASE SwitchEnds(c)
    <3>1. player' # "playing" \/ ~switching'
      BY <2>1 DEF SwitchEnds, Unlocks, AttachPlayer, DestroyPlayer
    <3> QED BY <3>1, <1>3
  <2>2. CASE (StartEnds(c) \/ DetectEnds(c)) /\ player' = "playing"
    <3>1. UNCHANGED <<player, switching>>
      BY <2>2 DEF StartEnds, DetectEnds, playVars
    <3>2. call[c].kind \notin SwitchKinds
      BY <2>2 DEF StartEnds, DetectEnds, SwitchKinds
    <3>3. \A d \in Calls \ {c} : call'[d] = call[d]
      BY <2>2 DEF StartEnds, DetectEnds, Answer, BeginAbr, BeginManual, TypeOK
    <3> QED BY <3>1, <3>2, <3>3, Answered DEF LockHasCause
  <2> QED BY <1>3, <1>6, <2>1, <2>2
<1>7. CASE Probe
  <2>1. CASE ProbeFails
    BY <1>2, <2>1 DEF ProbeFails, playVars
  <2>2. ASSUME NEW k \in Bandwidths, ProbeEnds(k) PROVE LockHasCause'
    <3>1. UNCHANGED player
      BY <2>2 DEF ProbeEnds, playVars
    <3> QED BY <1>1, <1>2, <2>2, <3>1, ProbeCases DEF NoSwitch
  <2> QED BY <1>7, <2>1, <2>2 DEF Probe
<1>8. CASE MonitorTick \/ \E t \in Timers : Lapse(t)
  BY <1>2, <1>8 DEF MonitorTick, Lapse, playVars
<1> QED BY <1>4, <1>5, <1>6, <1>7, <1>8 DEF Next, Ends

\* isSwitching is cleared by every way in which a switch can end but by playing.
THEOREM LockReleased == Spec => []LockHasCause
<1>1. Init => LockHasCause
  BY DEF Init, LockHasCause
<1>2. TypeOK /\ LockHasCause /\ [Next]_vars => LockHasCause'
  <2>1. LockHasCause /\ UNCHANGED vars => LockHasCause'
    BY DEF LockHasCause, InFlight, vars, abrVars, playVars
  <2> QED BY <2>1, LockStep
<1> QED BY <1>1, <1>2, TypeCorrect, PTL DEF Spec

-----------------------------------------------------------------------------
(* Upgrades and probes.                                                    *)

\* While ABR plays and no cooldown runs, a probe is one of the current stream.
ProbeFits == probe # None /\ auto /\ ~timer["cooldown"] => probe = current

PInv == RollbackHasNoTarget /\ ProbeFits

\* What the two need of a step: it sets the cooldown, turns ABR off, or leaves alone what
\* they talk about.
LEMMA Settled ==
  ASSUME TypeOK, PInv,
         \/ timer'["cooldown"] \/ ~auto'
         \/ /\ auto' = auto /\ current' = current
            /\ upgradeFrom' \in {upgradeFrom, None} /\ probe' \in {probe, None}
            /\ timer["cooldown"] => timer'["cooldown"]
            /\ timer'["probation"] => timer["probation"]
  PROVE  PInv'
BY DEF PInv, RollbackHasNoTarget, ProbeFits, ShouldRollback

\* performDowngrade sets no cooldown and starts no probation.
LEMMA DowngradeTimers ==
  ASSUME TypeOK, NEW marks, "probation" \notin marks, PerformDowngrade(marks)
  PROVE  (timer["cooldown"] => timer'["cooldown"]) /\ (timer'["probation"] => timer["probation"])
<1>1. PICK S : timer' = Mark(S) /\ "probation" \notin S
  BY DEF PerformDowngrade
<1> QED BY <1>1, MarkType DEF Timers

LEMMA BegunSettles ==
  ASSUME TypeOK, NEW c \in Calls, NEW p, NEW hevc, BeginAbr(c, p, hevc)
  PROVE  timer'["cooldown"]
BY MarkType DEF BeginAbr, Timers

LEMMA UpgradeStep ==
  ASSUME TypeOK, PInv, Next
  PROVE  PInv'
<1>1. CASE User
  <2>1. ASSUME NEW p \in Pages, NEW q \in Qualities, StartSelected(p, q),
               UNCHANGED <<upgradeFrom, probe>>
        PROVE  PInv'
    <3>1. \/ timer'["cooldown"] \/ ~auto' \/ UNCHANGED <<auto, current, timer>>
      BY <2>1, StartSelectedCases, BegunSettles DEF BeginManual
    <3> QED BY <2>1, <3>1, Settled
  <2>2. ASSUME NEW p \in Pages, NEW q \in Qualities, Choose(p, q) PROVE PInv'
    <3>1. CASE StartSelected(p, q)
      BY <2>1, <2>2, <3>1 DEF Choose
    <3>2. CASE UNCHANGED <<auto, current, timer>>
      BY <2>2, <3>2, Settled DEF Choose
    <3> QED BY <2>2, <3>1, <3>2 DEF Choose
  <2>3. ASSUME NEW q \in Qualities, StartPlay(q) PROVE PInv'
    <3>1. page \in Pages
      BY DEF TypeOK
    <3> QED BY <2>1, <2>3, <3>1 DEF StartPlay
  <2>4. CASE StopPlay \/ \E u \in TypedUrls : StartDirect(u)
    BY <2>4, Settled DEF StopPlay, StartDirect
  <2> QED BY <1>1, <2>2, <2>3, <2>4 DEF User
<1>2. CASE Player
  <2>1. CASE PlayerStalls
    <3>1. PerformDowngrade({"trouble", "network"}) /\ UNCHANGED <<auto, current, upgradeFrom, probe>>
      BY <2>1 DEF PlayerStalls
    <3> QED BY <3>1, DowngradeTimers, Settled
  <2>2. CASE PlayerPlays
    BY <2>2, Settled DEF PlayerPlays
  <2>3. CASE PlayerErrs \/ \E gone, offline \in BOOLEAN : PlayerFails(gone, offline)
    <3>1. UNCHANGED <<auto, current, upgradeFrom, probe>>
      BY <2>3 DEF PlayerErrs, PlayerFails
    <3>2. ASSUME NEW gone \in BOOLEAN, NEW offline \in BOOLEAN, PlayerFails(gone, offline)
          PROVE  \E S : timer' = Mark(S) /\ "probation" \notin S
      BY <3>2 DEF PlayerFails
    <3>3. PICK S : timer' = Mark(S) /\ "probation" \notin S
      BY <2>3, <3>2 DEF PlayerErrs
    <3> QED BY <3>1, <3>3, MarkType, Settled DEF Timers
  <2> QED BY <1>2, <2>1, <2>2, <2>3 DEF Player
<1>3. ASSUME NEW c \in Calls, SwitchEnds(c) PROVE PInv'
  <2>1. UNCHANGED <<auto, probe>>
    BY <1>3 DEF SwitchEnds
  <2>2. timer'["cooldown"] \/ UNCHANGED <<current, timer, upgradeFrom>>
    BY <1>3, StampedType DEF SwitchEnds
  <2> QED BY <2>1, <2>2, Settled
<1>4. ASSUME NEW c \in Calls, StartEnds(c) PROVE PInv'
  BY <1>4, Settled DEF StartEnds
<1>5. ASSUME NEW c \in Calls, DetectEnds(c) PROVE PInv'
  BY <1>5, BegunSettles, Settled DEF DetectEnds, BeginManual
<1>6. CASE MonitorTick
  BY <1>6 DEF MonitorTick, PInv, RollbackHasNoTarget, ProbeFits, ShouldRollback
<1>7. CASE ProbeFails
  BY <1>7, MarkType, Settled DEF ProbeFails, Timers
<1>8. ASSUME NEW k \in Bandwidths, ProbeEnds(k) PROVE PInv'
  <2>1. probe' = None /\ UNCHANGED <<auto, current>>
    BY <1>8 DEF ProbeEnds
  <2>2. CASE UNCHANGED upgradeFrom /\ (UNCHANGED timer \/ timer' = Mark({"network"}))
    BY <2>1, <2>2, MarkType, Settled DEF Timers
  <2>3. CASE UNCHANGED upgradeFrom /\ PerformDowngrade({"network"})
    BY <2>1, <2>3, DowngradeTimers, Settled
  <2>4. CASE \E target : PerformUpgrade(target)
    <3>1. \/ UNCHANGED <<upgradeFrom, timer>> \/ upgradeFrom' = current
      BY <2>4, UpgradeCases
    <3>2. CASE UNCHANGED <<upgradeFrom, timer>>
      BY <2>1, <3>2, Settled
    <3>3. CASE upgradeFrom' = current
      BY <2>1, <3>3 DEF PInv, RollbackHasNoTarget, ProbeFits, ShouldRollback
    <3> QED BY <3>1, <3>2, <3>3
  <2> QED BY <1>8, <2>2, <2>3, <2>4 DEF ProbeEnds
<1>9. ASSUME NEW t \in Timers, Lapse(t) PROVE PInv'
  <2>1. /\ UNCHANGED <<auto, current, upgradeFrom, probe>>
        /\ timer'["probation"] => timer["probation"]
    BY <1>9 DEF Lapse, TypeOK, Timers
  <2>2. CASE t = "cooldown"
    BY <1>9, <2>1, <2>2
       DEF Lapse, CooldownMayLapse, PInv, RollbackHasNoTarget, ProbeFits, ShouldRollback
  <2>3. CASE t # "cooldown"
    <3>1. timer'["cooldown"] = timer["cooldown"]
      BY <1>9, <2>3 DEF Lapse, TypeOK, Timers
    <3> QED BY <2>1, <3>1, Settled
  <2> QED BY <2>2, <2>3
<1> QED BY <1>1, <1>2, <1>3, <1>4, <1>5, <1>6, <1>7, <1>8, <1>9 DEF Next, Ends, Probe

LEMMA UpgradeInvariance == Spec => []PInv
<1>1. Init => PInv
  BY DEF Init, PInv, RollbackHasNoTarget, ProbeFits, ShouldRollback
<1>2. TypeOK /\ PInv /\ [Next]_vars => PInv'
  <2>1. PInv /\ UNCHANGED vars => PInv'
    BY DEF PInv, RollbackHasNoTarget, ProbeFits, ShouldRollback, vars, abrVars
  <2> QED BY <2>1, UpgradeStep
<1> QED BY <1>1, <1>2, TypeCorrect, PTL DEF Spec

\* The cooldown outlasts the probation: shouldRollbackUpgrade never names a stream to
\* go back to.
THEOREM RollbackIsEmpty == Spec => []RollbackHasNoTarget
<1>1. PInv => RollbackHasNoTarget
  BY DEF PInv
<1> QED BY <1>1, UpgradeInvariance, PTL

\* The second look at the cooldown, after the probe, is what makes a late result harmless.
THEOREM ProbeDecidesForItsStream == Spec => ProbeIsCurrent
<1>1. TypeOK /\ PInv /\ [Next]_vars
        => [probe # None /\ probe' = None /\ call' # call => probe = current]_vars
  <2> SUFFICES ASSUME TypeOK, PInv, Next, probe # None, probe' = None, call' # call
               PROVE  probe = current
    OBVIOUS
  <2>1. PICK k \in Bandwidths : ProbeEnds(k)
    BY DEF Next, User, Choose, StartPlay, StartDirect, StopPlay, Player, PlayerPlays, PlayerStalls,
           PlayerErrs, PlayerFails, Ends, SwitchEnds, StartEnds, DetectEnds, Probe, ProbeFails,
           MonitorTick, Lapse
  <2> QED BY <2>1, ProbeCases DEF NoSwitch, PInv, ProbeFits
<1> QED BY <1>1, TypeCorrect, UpgradeInvariance, PTL DEF Spec, ProbeIsCurrent

-----------------------------------------------------------------------------
(* Failed players.                                                         *)

LEMMA Begun ==
  ASSUME TypeOK, NEW c \in Calls, NEW p \in Pages, NEW hevc, BeginAbr(c, p, hevc)
  PROVE  InFlight(SwitchKinds \cup {"abr"})'
<1>1. /\ call' = [call EXCEPT ![c] = [kind |-> "abr", stream |-> current']]
      /\ current' \in Streams
  BY BeginAbrType DEF BeginAbr
<1>2. [kind |-> "abr", stream |-> current'] \in Call
  BY <1>1, StreamTypes DEF Call, Kinds
<1>3. call'[c].kind = "abr" /\ call'[c] # None
  BY <1>1, <1>2, StreamTypes DEF TypeOK
<1> QED BY <1>3 DEF InFlight

LEMMA DeadStep ==
  ASSUME TypeOK, DeadIsAttended, Next, None \notin CookieUrls
  PROVE  DeadIsAttended'
<1>1. ASSUME NEW kind \in SwitchKinds, NEW stream \in Names, Switch(kind, stream)
      PROVE  DeadIsAttended'
  <2>1. InFlight(SwitchKinds)'
    BY <1>1, Issued DEF Switch
  <2> QED BY <2>1 DEF DeadIsAttended, InFlight
<1>2. CASE UNCHANGED <<player, auto, current, url, call>>
  BY <1>2 DEF DeadIsAttended, InFlight, AudioOnly
<1>3. CASE player' # "dead" \/ ~auto'
  BY <1>3 DEF DeadIsAttended
<1>4. CASE User
  BY <1>2, <1>3, <1>4 DEF User, Choose, StartPlay, StartDirect, StopPlay, DestroyPlayer
<1>5. CASE Player
  <2>1. CASE PlayerStalls
    <3>1. UNCHANGED <<player, auto, current, url>>
      BY <2>1 DEF PlayerStalls, playVars
    <3>2. NoSwitch \/ \E stream \in Names : Switch("downgrade", stream)
      BY <2>1, DowngradeCases DEF PlayerStalls
    <3> QED BY <1>1, <1>2, <3>1, <3>2 DEF NoSwitch, SwitchKinds
  <2>2. CASE PlayerPlays
    BY <1>3, <2>2 DEF PlayerPlays
  <2>3. CASE PlayerErrs
    BY <1>2, <2>3 DEF PlayerErrs, playVars
  <2>4. ASSUME NEW gone \in BOOLEAN, NEW offline \in BOOLEAN, PlayerFails(gone, offline)
        PROVE  DeadIsAttended'
    <3>1. UNCHANGED <<auto, current, url>>
      BY <2>4 DEF PlayerFails
    <3>2. CASE AudioOnly(current, url) \/ ~auto
      BY <3>1, <3>2 DEF DeadIsAttended, AudioOnly
    <3> QED BY <1>1, <2>4, <3>2, FailCases
  <2> QED BY <1>5, <2>1, <2>2, <2>3, <2>4 DEF Player
<1>6. ASSUME NEW c \in Calls, SwitchEnds(c) \/ StartEnds(c)
      PROVE  DeadIsAttended'
  <2>1. call[c] # None
    BY <1>6 DEF SwitchEnds, StartEnds
  <2>2. \A u \in UrlFor(call[c].stream) : u # None
    BY <2>1, UrlForType, StreamTypes DEF UrlFor
  <2>3. player' # "dead"
    BY <1>6, <2>2 DEF SwitchEnds, StartEnds, AttachPlayer, DestroyPlayer
  <2> QED BY <1>3, <2>3
<1>7. ASSUME NEW c \in Calls, DetectEnds(c) PROVE DeadIsAttended'
  <2>1. CASE BeginManual(c, call[c].stream)
    BY <1>3, <2>1 DEF BeginManual
  <2>2. CASE call[c].kind = "detectAbr" /\ BeginAbr(c, BackTo(call[c].stream.page), HevcSupported)
    <3>1. BackTo(call[c].stream.page) \in Pages
      BY <1>7, <2>2, UrlForType, PlayerAssumption
         DEF DetectEnds, BackTo, TypeOK, Call, Streams
    <3> QED BY <2>2, <3>1, Begun DEF DeadIsAttended
  <2> QED BY <1>7, <2>1, <2>2 DEF DetectEnds
<1>8. CASE MonitorTick \/ ProbeFails \/ \E t \in Timers : Lapse(t)
  BY <1>2, <1>8 DEF MonitorTick, ProbeFails, Lapse, playVars
<1>9. ASSUME NEW k \in Bandwidths, ProbeEnds(k) PROVE DeadIsAttended'
  <2>1. UNCHANGED <<player, auto, current, url>>
    BY <1>9 DEF ProbeEnds, playVars
  <2> QED BY <1>1, <1>2, <1>9, <2>1, ProbeCases DEF NoSwitch
<1> QED BY <1>4, <1>5, <1>6, <1>7, <1>8, <1>9 DEF Next, Ends, Probe

\* When a play URL is always found (one answered or one in the cookie), no failure of a
\* video stream under ABR is left alone, whatever was in flight.
THEOREM FailuresAreAttended ==
  ASSUME None \notin CookieUrls
  PROVE  Spec => []DeadIsAttended
<1>1. Init => DeadIsAttended
  BY DEF Init, DeadIsAttended
<1>2. TypeOK /\ DeadIsAttended /\ [Next]_vars => DeadIsAttended'
  <2>1. DeadIsAttended /\ UNCHANGED vars => DeadIsAttended'
    BY DEF DeadIsAttended, InFlight, AudioOnly, vars, abrVars, playVars
  <2> QED BY <2>1, DeadStep
<1> QED BY <1>1, <1>2, TypeCorrect, PTL DEF Spec
=============================================================================
