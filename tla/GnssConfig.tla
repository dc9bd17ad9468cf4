---------------------------- MODULE GnssConfig ----------------------------
(***************************************************************************)
(* Configuration of the modem (GnssAdapter.cpp): who may use the engine    *)
(* (GPS_LOCK, a state under the behaviour of Android Q, a mask of the SIM  *)
(* under that of P), which satellites are excluded, and the modes set by   *)
(* the integrator (constrained time uncertainty stands for them).  The     *)
(* adapter's thread decides, the thread of LocApi tells the modem; both    *)
(* use mLocConfigInfo and mGnssSvIdConfig without a lock.  The modem keeps *)
(* what it is told and is told all again when its engine comes up.  Its    *)
(* engine supports the enablement of constellations.                       *)
(***************************************************************************)
EXTENDS Naturals, Sequences, FiniteSets, Pointers

CONSTANTS Constellations,
          MaxConfigMsgs, \* bound: callers wait at this many messages
          MaxConfigs,    \* bound: configCommands of the callers
          MaxEngineUps   \* bound: times the modem comes up
ASSUME ConfigAssumption ==
  /\ MaxConfigMsgs \in Nat /\ MaxConfigs \in Nat /\ MaxEngineUps \in Nat
  /\ Null \notin {"user", "conf"}

Locks == SUBSET {"MO", "NI"}
\* The masks of GnssSvIdConfig: a constellation has none, some or all excluded.
SvMasks == [Constellations -> {"none", "ids", "all"}]
NoMask == [c \in Constellations |-> "none"]
\* GnssSvIdSource: a satellite of a constellation, all of them (0), or none of them.
SvIdSources == Constellations \X {"ids", "all", "invalid"}
\* bound: a list has one source
SourceLists == {s \in SUBSET SvIdSources : Cardinality(s) <= 1}
convertToGnssSvIdConfig(blacklistedSvIds) ==
  [c \in Constellations |-> IF <<c, "all">> \in blacklistedSvIds THEN "all"
                            ELSE IF <<c, "ids">> \in blacklistedSvIds THEN "ids" ELSE "none"]
convertFromGnssSvIdConfig(config) == {<<c, config[c]>> : c \in {d \in Constellations : config[d] # "none"}}

VARIABLES
  mSupportNfwControl,   \* behaviour of Q
  afwEnabled,           \* mAfwControlId is not 0
  GPS_LOCK,             \* ContextBase::mGps_conf.GPS_LOCK
  mGnssSvIdConfig,      \* the excluded satellites, the list of mBlacklistedSvIds as masks
  typesExcluded, typesEnabled, typesSized, \* mGnssSvTypeConfig
  tunc,                 \* mLocConfigInfo.tuncConfigInfo, Null while not valid
  loading,              \* the LocApi thread saw it not valid and has not set it yet
  capsKnown, pendingConfigs, \* isEngineCapabilitiesKnown, mPendingMsgs
  configMsgs,           \* messages of the adapter's thread
  apiConfigs,           \* messages of the LocApi thread
  modemLock, modemExcludes, modemEnables, modemTunc, \* what the modem keeps
  engineIsUp, engineUps, configCommands,
  configTold,           \* what the callbacks of the callers told them last
  late                  \* a command was overtaken (NfwControl, setConstrainedTunc)

lockState == <<mSupportNfwControl, afwEnabled, GPS_LOCK>>
svState == <<mGnssSvIdConfig, typesExcluded, typesEnabled, typesSized>>
tuncState == <<tunc, loading>>
modemConfig == <<modemLock, modemExcludes, modemEnables, modemTunc>>
engineState == <<engineIsUp, engineUps>>
capsState == <<capsKnown, pendingConfigs>>
configCallerState == <<configCommands, configTold>>
configVars == <<lockState, svState, tuncState, capsState, configMsgs, apiConfigs,
                modemConfig, engineState, configCallerState, late>>

ConfigInit ==
  /\ mSupportNfwControl = TRUE /\ afwEnabled = FALSE /\ GPS_LOCK \in {{"MO"}, {"MO", "NI"}}
  /\ mGnssSvIdConfig = NoMask /\ typesExcluded = {} /\ typesEnabled = {} /\ typesSized = FALSE
  /\ tunc = Null /\ loading = FALSE /\ capsKnown = FALSE /\ pendingConfigs = <<>>
  /\ configMsgs = <<>> /\ apiConfigs = <<>>
  /\ modemLock = {} /\ modemExcludes = NoMask
  /\ modemEnables = {} /\ modemTunc = "conf"
  /\ engineIsUp = FALSE /\ engineUps = 0 /\ configCommands = 0 /\ configTold = {} /\ late = FALSE

\* A command carries a lock and a set of constellations where it has them.
CMsg(op, lock, svs) == [op |-> op, lock |-> lock, svs |-> svs]
Plain(op) == CMsg(op, {}, {})
HasRoom == Len(configMsgs) + Len(apiConfigs) + Len(pendingConfigs) < MaxConfigMsgs
PostConfig(m) ==
  /\ HasRoom /\ configCommands < MaxConfigs /\ configCommands' = configCommands + 1
  /\ configMsgs' = Append(configMsgs, m)
  /\ UNCHANGED <<lockState, svState, tuncState, capsState, apiConfigs, modemConfig, engineState, configTold, late>>
enableCommand == PostConfig(Plain("enable"))
disableCommand == PostConfig(Plain("disable"))
\* The behaviour is tested on the caller's thread.
nfwControlCommand(enable) ==
  mSupportNfwControl /\ PostConfig(CMsg("nfw", IF enable THEN {} ELSE {"NI"}, {}))
gnssUpdateConfigCommand ==
  \/ \E lock \in Locks : PostConfig(CMsg("updateLock", lock, {}))
  \/ \E svs \in SourceLists : PostConfig(CMsg("updateSvIds", {}, svs))
gnssGetConfigCommand == PostConfig(Plain("get"))
gnssGetSvTypeConfigCommand == PostConfig(Plain("getSvTypes"))
gnssUpdateSvTypeConfigCommand(svs) == PostConfig(CMsg("updateSvTypes", {}, svs))
gnssResetSvTypeConfigCommand == PostConfig(Plain("resetSvTypes"))
gnssUpdateSvConfigCommand(svs) == PostConfig(CMsg("updateSv", {}, svs))
gnssResetSvConfigCommand == PostConfig(Plain("resetSv"))
setConstrainedTuncCommand == PostConfig(Plain("tunc"))

\* Messages to the LocApi thread.
ALock(lock) == [op |-> "lock", lock |-> lock, excludes |-> <<>>, svs |-> {}]
AExclude(x) == [op |-> "exclude", lock |-> {}, excludes |-> x, svs |-> {}]
AEnable(svs) == [op |-> "enable", lock |-> {}, excludes |-> <<>>, svs |-> svs]
AIds(svs) == [op |-> "ids", lock |-> {}, excludes |-> <<>>, svs |-> svs]
APlain(op) == [op |-> op, lock |-> {}, excludes |-> <<>>, svs |-> {}]
ToApi(ms) == apiConfigs' = apiConfigs \o ms
Excluding(config, all) == [c \in Constellations |-> IF c \in all THEN "all" ELSE config[c]]

Take(op) == configMsgs # <<>> /\ Head(configMsgs).op = op /\ configMsgs' = Tail(configMsgs)
Arg == Head(configMsgs)
\* The enabling and disabling of location by the user.
Enable ==
  /\ Take("enable")
  /\ IF afwEnabled THEN UNCHANGED <<lockState, apiConfigs>>
     ELSE /\ afwEnabled' = TRUE
          /\ GPS_LOCK' = IF mSupportNfwControl THEN GPS_LOCK \cap {"NI"} ELSE GPS_LOCK
          /\ ToApi(<<ALock(IF mSupportNfwControl THEN GPS_LOCK' ELSE {})>>)
          /\ UNCHANGED mSupportNfwControl
  /\ UNCHANGED <<svState, tuncState, capsState, modemConfig, engineState, configCallerState, late>>
Disable ==
  /\ Take("disable")
  /\ IF ~afwEnabled THEN UNCHANGED <<lockState, apiConfigs>>
     ELSE /\ afwEnabled' = FALSE
          /\ GPS_LOCK' = IF mSupportNfwControl THEN GPS_LOCK \cup {"MO"} ELSE GPS_LOCK
          /\ ToApi(<<ALock(GPS_LOCK')>>)
          /\ UNCHANGED mSupportNfwControl
  /\ UNCHANGED <<svState, tuncState, capsState, modemConfig, engineState, configCallerState, late>>
\* Control of access that is not for the framework; late if P came meanwhile.
NfwControl ==
  /\ Take("nfw")
  /\ GPS_LOCK' = (GPS_LOCK \ {"NI"}) \cup Arg.lock /\ ToApi(<<ALock(GPS_LOCK')>>)
  /\ late' = (late \/ ~mSupportNfwControl)
  /\ UNCHANGED <<mSupportNfwControl, afwEnabled, svState, tuncState, capsState,
                 modemConfig, engineState, configCallerState>>

Waits(op) == Take(op) /\ ~capsKnown
\* Commands that wait for the engine's capabilities.
Pend ==
  /\ \E op \in {"updateLock", "updateSvIds", "updateSvTypes", "resetSvTypes", "get", "getSvTypes"} : Waits(op)
  /\ pendingConfigs' = Append(pendingConfigs, Arg)
  /\ UNCHANGED <<lockState, svState, tuncState, capsKnown, apiConfigs, modemConfig, engineState, configCallerState, late>>
\* A lock is set: from now on the behaviour is that of P.
UpdateLockAlways ==
  /\ Take("updateLock") /\ capsKnown
  /\ GPS_LOCK' = Arg.lock \cup {"MO"} /\ mSupportNfwControl' = FALSE
  /\ ToApi(<<ALock(GPS_LOCK')>>)
  /\ UNCHANGED <<afwEnabled, svState, tuncState, capsState, modemConfig, engineState, configCallerState, late>>
UpdateLock ==
  /\ Take("updateLock") /\ capsKnown
  /\ GPS_LOCK' = Arg.lock \cup {"MO"} /\ mSupportNfwControl' = FALSE
  /\ IF ~afwEnabled THEN ToApi(<<ALock(GPS_LOCK')>>)
     ELSE IF mSupportNfwControl THEN ToApi(<<ALock({})>>) ELSE UNCHANGED apiConfigs
  /\ UNCHANGED <<afwEnabled, svState, tuncState, capsState, modemConfig, engineState, configCallerState, late>>

\* Satellites: the ids alone, as the LocApi thread keeps and sends them.
UpdateSvIds ==
  /\ Take("updateSvIds") /\ capsKnown /\ ToApi(<<AIds(Arg.svs)>>)
  /\ UNCHANGED <<lockState, svState, tuncState, capsState, modemConfig, engineState, configCallerState, late>>
\* gnssSvTypeConfigUpdate: the ids, and all of each excluded constellation.
SendSvTypes(reset, ids, excluded, enabled) ==
  (IF reset THEN <<APlain("reset")>> ELSE <<>>)
    \o <<AExclude(Excluding(ids, excluded))>> \o (IF enabled = {} THEN <<>> ELSE <<AEnable(enabled)>>)
gnssSvTypeConfigUpdate ==
  /\ Take("updateSvTypes") /\ capsKnown
  /\ typesExcluded' = Arg.svs /\ typesEnabled' = Constellations \ Arg.svs /\ typesSized' = TRUE
  /\ ToApi(SendSvTypes(typesEnabled \ typesEnabled' # {}, mGnssSvIdConfig, typesExcluded', typesEnabled'))
  /\ UNCHANGED <<lockState, mGnssSvIdConfig, tuncState, capsState, modemConfig, engineState, configCallerState, late>>
ResetSvTypes ==
  /\ Take("resetSvTypes") /\ capsKnown
  /\ typesExcluded' = {} /\ typesEnabled' = {} /\ typesSized' = TRUE
  /\ ToApi(<<AExclude(mGnssSvIdConfig), APlain("reset")>>)
  /\ UNCHANGED <<lockState, mGnssSvIdConfig, tuncState, capsState, modemConfig, engineState, configCallerState, late>>
\* The callers ask what the modem keeps.
AskModem ==
  /\ \/ Take("get") /\ capsKnown /\ ToApi(<<APlain("getBlacklistSv")>>)
     \/ Take("getSvTypes") /\ capsKnown /\ ToApi(<<APlain("getConstellationControl")>>)
  /\ UNCHANGED <<lockState, svState, tuncState, capsState, modemConfig, engineState, configCallerState, late>>
\* The modem's answer is told to the callback; that of the satellites names
\* none when none are excluded (reportGnssSvIdConfig, reportGnssSvTypeConfig).
TellConfig ==
  /\ \E op \in {"reportSvIds", "reportSvTypes"} : Take(op)
  /\ configTold' = Arg.svs
  /\ UNCHANGED <<lockState, svState, tuncState, capsState, apiConfigs, modemConfig, engineState, configCommands, late>>
\* The integrator's satellites and constellations come together.
updateSvConfig ==
  /\ Take("updateSv")
  /\ mGnssSvIdConfig' = [c \in Constellations |-> IF c \in Arg.svs THEN "ids" ELSE "none"]
  /\ typesExcluded' = {} /\ typesEnabled' = Constellations \ Arg.svs /\ typesSized' = TRUE
  /\ ToApi((IF typesEnabled \ typesEnabled' # {} THEN <<APlain("reset")>> ELSE <<>>)
             \o <<AExclude(mGnssSvIdConfig'), AEnable(typesEnabled')>>)
  /\ UNCHANGED <<lockState, tuncState, capsState, modemConfig, engineState, configCallerState, late>>
resetSvConfig ==
  /\ Take("resetSv")
  /\ mGnssSvIdConfig' = NoMask /\ typesExcluded' = {} /\ typesEnabled' = {} /\ typesSized' = TRUE
  /\ ToApi(<<AExclude(NoMask), APlain("reset")>>)
  /\ UNCHANGED <<lockState, tuncState, capsState, modemConfig, engineState, configCallerState, late>>
\* The integrator's mode; late if the LocApi thread is about to overwrite it.
setConstrainedTunc ==
  /\ Take("tunc")
  /\ tunc' = "user" /\ ToApi(<<APlain("tunc")>>) /\ late' = (late \/ loading)
  /\ UNCHANGED <<lockState, svState, loading, capsState, modemConfig, engineState, configCallerState>>

\* The engine is up: the configuration, the satellites, then what was pending.
LockWanted == IF mSupportNfwControl \/ ~afwEnabled THEN GPS_LOCK ELSE {}
SetConfig(lock) ==
  ToApi(<<ALock(lock), AIds(convertFromGnssSvIdConfig(mGnssSvIdConfig)), APlain("config"),
          AExclude(mGnssSvIdConfig)>>
          \o (IF typesSized THEN SendSvTypes(FALSE, mGnssSvIdConfig, typesExcluded, typesEnabled) ELSE <<>>))
HandleEngineUp(lock) ==
  /\ configMsgs # <<>> /\ Head(configMsgs).op = "engineUp"
  /\ capsKnown' = TRUE /\ pendingConfigs' = <<>> /\ configMsgs' = Tail(configMsgs) \o pendingConfigs
  /\ SetConfig(lock)
  /\ UNCHANGED <<lockState, svState, tuncState, modemConfig, engineState, configCallerState, late>>
handleEngineUpAsConfigured == HandleEngineUp(GPS_LOCK)
handleConfigEngineUp == HandleEngineUp(LockWanted)

\* The LocApi thread; what it asks of an engine that is down is lost.
KeepIf(var, value) == IF engineIsUp THEN value ELSE var
TakeApi(op) == apiConfigs # <<>> /\ ~loading /\ Head(apiConfigs).op = op /\ apiConfigs' = Tail(apiConfigs)
ApiUnchanged == UNCHANGED <<lockState, capsState, configMsgs, engineState, configCallerState, late>>
setGpsLockSync ==
  /\ TakeApi("lock") /\ modemLock' = KeepIf(modemLock, Head(apiConfigs).lock)
  /\ ApiUnchanged /\ UNCHANGED <<svState, tuncState, modemExcludes, modemEnables, modemTunc>>
setBlacklistSv ==
  /\ TakeApi("exclude") /\ modemExcludes' = KeepIf(modemExcludes, Head(apiConfigs).excludes)
  /\ ApiUnchanged /\ UNCHANGED <<svState, tuncState, modemLock, modemEnables, modemTunc>>
gnssSvIdConfigUpdateSync ==
  /\ TakeApi("ids") /\ mGnssSvIdConfig' = convertToGnssSvIdConfig(Head(apiConfigs).svs)
  /\ modemExcludes' = KeepIf(modemExcludes, mGnssSvIdConfig')
  /\ ApiUnchanged
  /\ UNCHANGED <<typesExcluded, typesEnabled, typesSized, tuncState, modemLock, modemEnables, modemTunc>>
setConstellationControl ==
  /\ \/ TakeApi("enable") /\ modemEnables' = KeepIf(modemEnables, Head(apiConfigs).svs)
     \/ TakeApi("reset") /\ modemEnables' = KeepIf(modemEnables, {})
  /\ ApiUnchanged /\ UNCHANGED <<svState, tuncState, modemLock, modemExcludes, modemTunc>>
\* The engine answers what it keeps; one that is down does not.
Answers(op, report, svs) ==
  /\ TakeApi(op)
  /\ configMsgs' = IF engineIsUp THEN Append(configMsgs, CMsg(report, {}, svs)) ELSE configMsgs
  /\ UNCHANGED <<lockState, svState, tuncState, capsState, modemConfig, engineState, configCallerState, late>>
getBlacklistSv == Answers("getBlacklistSv", "reportSvIds", convertFromGnssSvIdConfig(modemExcludes))
getConstellationControl == Answers("getConstellationControl", "reportSvTypes", modemEnables)
setConstrainedTuncMode ==
  /\ TakeApi("tunc") /\ modemTunc' = KeepIf(modemTunc, "user")
  /\ ApiUnchanged /\ UNCHANGED <<svState, tuncState, modemLock, modemExcludes, modemEnables>>
gnssUpdateConfigTuncFromFile ==
  /\ apiConfigs' = Tail(apiConfigs) /\ modemTunc' = KeepIf(modemTunc, "conf") /\ UNCHANGED tuncState
\* The first configuration loads the mode from the file, in two steps.
gnssUpdateConfigTunc ==
  /\ IF tunc = Null THEN loading' = TRUE /\ UNCHANGED <<apiConfigs, modemTunc>>
     ELSE /\ apiConfigs' = Tail(apiConfigs) /\ modemTunc' = KeepIf(modemTunc, tunc) /\ UNCHANGED loading
  /\ UNCHANGED tunc
LoadTunc ==
  /\ tunc' = "conf" /\ loading' = FALSE /\ apiConfigs' = Tail(apiConfigs) /\ modemTunc' = KeepIf(modemTunc, "conf")
gnssUpdateConfig ==
  /\ apiConfigs # <<>> /\ Head(apiConfigs).op = "config"
  /\ IF loading THEN LoadTunc ELSE gnssUpdateConfigTunc
  /\ ApiUnchanged /\ UNCHANGED <<svState, modemLock, modemExcludes, modemEnables>>

\* The modem goes down and comes up; it forgets its modes and keeps the rest.
ConfigEngineUp ==
  /\ ~engineIsUp /\ engineUps < MaxEngineUps /\ engineIsUp' = TRUE /\ engineUps' = engineUps + 1
  /\ modemTunc' = "conf" /\ configMsgs' = Append(configMsgs, Plain("engineUp"))
  /\ UNCHANGED <<lockState, svState, tuncState, capsState, apiConfigs,
                 modemLock, modemExcludes, modemEnables, configCallerState, late>>
EngineDown ==
  /\ engineIsUp /\ engineUps < MaxEngineUps /\ engineIsUp' = FALSE
  /\ UNCHANGED <<lockState, svState, tuncState, capsState, configMsgs, apiConfigs,
                 modemConfig, engineUps, configCallerState, late>>

LocApiThread ==
  setGpsLockSync \/ setBlacklistSv \/ gnssSvIdConfigUpdateSync \/ setConstellationControl
    \/ getBlacklistSv \/ getConstellationControl \/ setConstrainedTuncMode \/ gnssUpdateConfig
ConfigNext ==
  \/ enableCommand \/ disableCommand \/ \E enable \in BOOLEAN : nfwControlCommand(enable)
  \/ gnssUpdateConfigCommand
  \/ \E svs \in SUBSET Constellations : gnssUpdateSvTypeConfigCommand(svs) \/ gnssUpdateSvConfigCommand(svs)
  \/ gnssGetConfigCommand \/ gnssGetSvTypeConfigCommand
  \/ gnssResetSvTypeConfigCommand \/ gnssResetSvConfigCommand \/ setConstrainedTuncCommand
  \/ Enable \/ Disable \/ NfwControl \/ Pend \/ UpdateLock
  \/ AskModem \/ TellConfig \/ UpdateSvIds \/ gnssSvTypeConfigUpdate \/ ResetSvTypes \/ updateSvConfig \/ resetSvConfig
  \/ setConstrainedTunc \/ handleConfigEngineUp \/ LocApiThread \/ ConfigEngineUp \/ EngineDown

ConfigSpec == ConfigInit /\ [][ConfigNext]_configVars

Settled == engineIsUp /\ capsKnown /\ configMsgs = <<>> /\ apiConfigs = <<>>
\* Once all messages are done the modem locks what location being enabled and
\* the behaviour of P or Q call for, through its restarts, unless an NFW command
\* was overtaken by the change to P (GnssAdapter.cpp:793, :1181, :3282, :5217).
LockAgrees == Settled /\ ~late => modemLock = LockWanted
\* The same without the exception: "NFW control is not supported, do not use
\* this for NFW" (GnssAdapter.cpp:5220) once the behaviour is that of P.
LockFollows == Settled => modemLock = LockWanted
\* A mode the integrator set survives restarts of the modem, unless it came
\* while the file's was loaded (GnssAdapter.cpp:852, :5232).
ModeKept == Settled /\ ~late => modemTunc = IF tunc = "user" THEN "user" ELSE "conf"
\* "Blacklist all SVs for each disabled constellation" (GnssAdapter.cpp:1814):
\* and it stays so when satellites are excluded later.
DisabledExcluded ==
  Settled => \A c \in typesExcluded : modemExcludes[c] = "all"
=============================================================================
