------------------------------ MODULE Reports ------------------------------
(***************************************************************************)
(* What GnssAdapter.cpp makes of the engine's reports: fixes, satellites   *)
(* in view, sentences and system information come on the modem's or the    *)
(* engine hub's thread, wait as messages of the adapter's thread, and are  *)
(* told to the clients whose callbacks ask for them.  The satellites of    *)
(* the latest fix are kept for the next report of those in view, and the   *)
(* leap second for the time of the fixes.                                  *)
(***************************************************************************)
EXTENDS Nmea

CONSTANTS ReportClients,  \* for each client its callbacks
          Fixes,          \* what the engine says of a fix; the engine and the time are
                          \* filled in when it is reported
          SvReports,      \* sequences of satellites in view
          Times,          \* the times of GPS there may be a fix at, in order
          Leap,           \* the leap second: [change, at, before, after]
          AcceptIntermediate, \* INTERMEDIATE_POS of gps.conf
          AllowFlpNetworkFixes, PaceEnabled, CustomGga,
          MaxReportMsgs   \* bound: the engine waits at this many messages
ASSUME ReportsAssumption ==
  /\ MaxReportMsgs \in Nat \ {0}
  /\ \A f \in Fixes : {"engine", "gpsTime", "timestamp"} \subseteq DOMAIN f
\* What a satellite in view is reported with: a signal of its system, or none.
SignalsOf == [
  GPS |-> {"GPS_L1CA", "GPS_L1C", "GPS_L2", "GPS_L5"}, GLONASS |-> {"GLONASS_G1", "GLONASS_G2"},
  GALILEO |-> {"GALILEO_E1", "GALILEO_E5A", "GALILEO_E5B"},
  BEIDOU |-> {"BEIDOU_B1", "BEIDOU_B2", "BEIDOU_B1I", "BEIDOU_B1C", "BEIDOU_B2I", "BEIDOU_B2AI", "BEIDOU_B2AQ"},
  QZSS |-> {"QZSS_L1CA", "QZSS_L1S", "QZSS_L2", "QZSS_L5"}, NAVIC |-> {"NAVIC_L5"}, SBAS |-> {"SBAS_L1"}]
SvReported ==
  {sv \in [type : DOMAIN SignalsOf, id : Nat, signal : STRING, used : BOOLEAN] : sv.signal \in SignalsOf[sv.type] \cup {"none"}}
ASSUME SvAssumption == SvReports \subseteq Seq(SvReported)
\* The leap second is at a full second, and is one (loc_nmea.cpp:1041); the engine's
\* time goes forward, and does not begin in it.
ASSUME TimesAssumption ==
  /\ Leap \in [change : BOOLEAN, at : Nat, before : Nat, after : Nat]
  /\ Leap.at % 1000 = 0 /\ Leap.after <= Leap.before + 1
  /\ Times \in Seq(Nat) /\ Times # <<>> /\ Times[1] \notin Leap.at .. Leap.at + 999
  /\ \A i, j \in DOMAIN Times : i <= j => Times[i] <= Times[j]
  /\ \A i \in DOMAIN Times : Times[i] >= 1000 * Leap.before /\ Times[i] >= 1000 * Leap.after

VARIABLES
  engHub,         \* initEngHubProxy: the engine hub was loaded
  timeTracking,   \* mTimeBasedTrackingSessions is not empty
  mGnssSvIdUsedInPosAvail, mGnssMbSvIdUsedInPosAvail,
  mGnssSvIdUsedInPosition,   \* for each system the numbers of satellites
  mGnssMbSvIdUsedInPosition, \* for each signal
  mLocSystemInfo, \* the leap second as it is known
  reportMsgs,     \* messages of the adapter's thread
  now,            \* the engine's time, an index of Times
  told,           \* what each client and the modem was told of the last message
  gnssFix,        \* the satellites of the fix the GNSS clients were told of last
  svTold,         \* the satellites that the last message told of
  clock           \* the time written last

usedVars == <<mGnssSvIdUsedInPosAvail, mGnssMbSvIdUsedInPosAvail, mGnssSvIdUsedInPosition, mGnssMbSvIdUsedInPosition>>
outputs == <<told, gnssFix, svTold, clock>>
engineVars == <<engHub, timeTracking, now>>
reportsVars == <<engHub, timeTracking, usedVars, mLocSystemInfo, reportMsgs, now, outputs>>

MultibandSignals == {
  "GPS_L1CA", "GPS_L1C", "GPS_L2", "GPS_L5", "GLONASS_G1", "GLONASS_G2",
  "BEIDOU_B1I", "BEIDOU_B1C", "BEIDOU_B2I", "BEIDOU_B2AI", "BEIDOU_B2AQ",
  "GALILEO_E1", "GALILEO_E5A", "GALILEO_E5B", "QZSS_L1CA", "QZSS_L1S", "QZSS_L2", "QZSS_L5"}
NoneUsed == [s \in Systems |-> {}]
NoneMbUsed == [s \in MultibandSignals |-> {}]
NoLeap == [Leap EXCEPT !.change = FALSE]
NoFix == [hasUsed |-> FALSE, used |-> NoneUsed, hasMultiband |-> FALSE, mbUsed |-> NoneMbUsed]
Satellites(fix) == [f \in DOMAIN NoFix |-> fix[f]]
NothingTold == [c \in DOMAIN ReportClients \cup {"modem"} |-> [op |-> "none"]]
NoSvs == [svs |-> <<>>, nmea |-> <<>>]

ReportsInit ==
  /\ engHub \in BOOLEAN /\ timeTracking = FALSE
  /\ mGnssSvIdUsedInPosAvail = FALSE /\ mGnssMbSvIdUsedInPosAvail = FALSE
  /\ mGnssSvIdUsedInPosition = NoneUsed /\ mGnssMbSvIdUsedInPosition = NoneMbUsed
  /\ mLocSystemInfo = NoLeap /\ reportMsgs = <<>> /\ now = 1
  /\ told = NothingTold
  /\ gnssFix = Satellites(NoFix) /\ svTold = NoSvs /\ clock = <<0, 0, 0>>

(***************************************************************************)
(* The engine's and the hub's threads.                                     *)
(***************************************************************************)
SendReport(m) ==
  /\ Len(reportMsgs) < MaxReportMsgs /\ reportMsgs' = Append(reportMsgs, m)
  /\ UNCHANGED <<engHub, timeTracking, now, usedVars, mLocSystemInfo, outputs>>
UtcOf(t) == t - 1000 * (IF t >= Leap.at THEN Leap.after ELSE Leap.before)
Fix(f, engine) == [f EXCEPT !.engine = engine, !.gpsTime = Times[now], !.timestamp = UtcOf(Times[now])]
reportEnginePositionsEvent(fixes) == SendReport([op |-> "enginePositions", fixes |-> fixes])
\* A fix that is not propagated is for the hub alone; with the hub every other
\* one is a report of an engine.
reportPositionEvent(f) ==
  IF engHub THEN reportEnginePositionsEvent(<<Fix(f, "SPE")>>)
  ELSE SendReport([op |-> "position", fix |-> Fix(f, "SPE")])
\* The hub's fused fix, and that of the precise positioning engine.
HubReports(f) == engHub /\ reportEnginePositionsEvent(<<Fix(f, "FUSED"), Fix(f, "PPE")>>)
\* With the hub loaded only its satellites are reported.
reportSvEvent(svs, fromEngineHub) ==
  /\ fromEngineHub = engHub
  /\ SendReport([op |-> "sv", svs |-> svs])
\* The adapter writes its own sentences: the engine's go on only when they are
\* for debugging, to the system status first.
reportNmeaEvent(consumed) == SendReport([op |-> "nmea", consumed |-> consumed])
reportLocationSystemInfoEvent(change) ==
  SendReport([op |-> "systemInfo", leap |-> [Leap EXCEPT !.change = change]])
\* The modem announces a leap second long before it comes.
TimePasses ==
  /\ now < Len(Times) /\ now' = now + 1
  /\ mLocSystemInfo.change \/ Times[now + 1] < Leap.at
  /\ UNCHANGED <<engHub, timeTracking, usedVars, mLocSystemInfo, reportMsgs, outputs>>
TracksOrNot ==
  /\ timeTracking' = ~timeTracking
  /\ UNCHANGED <<engHub, now, usedVars, mLocSystemInfo, reportMsgs, outputs>>

(***************************************************************************)
(* The adapter's thread.                                                   *)
(***************************************************************************)
Received(op) == reportMsgs # <<>> /\ Head(reportMsgs).op = op /\ reportMsgs' = Tail(reportMsgs)
Asks(c, callback) == callback \in ReportClients[c]
isFlpClient(c) == ReportClients[c] \cap {"gnssLocationInfo", "gnssSv", "gnssNmea", "gnssData", "gnssMeasurements"} = {}
needReport(fix) ==
  \/ fix.status = "success" /\ fix.tech \cap {"SATELLITE", "SENSORS", "HYBRID"} # {}
  \/ fix.status = "intermediate" /\ AcceptIntermediate /\ fix.accurate
needReportForGnssClient(fix) == engHub \/ needReport(fix)
needReportForFlpClient(fix) ==
  /\ fix.status # "failure"
  /\ fix.status = "intermediate" => "SENSORS" \in fix.tech \/ AllowFlpNetworkFixes

\* What the clients are told of a fix: the satellites in it are counted, those
\* of NavIC left out.
convertLocationInfo(fix) ==
  [op |-> "locationInfo", tech |-> fix.tech, engine |-> fix.engine,
   numSvUsed |-> IF ~fix.hasUsed THEN 0
                 ELSE MapThenSumSet(LAMBDA s : Cardinality(fix.used[s] \cap (1 .. PRN_MAX[s] - PRN_MIN[s] + 1)),
                                    Systems \ {"NAVIC"})]
convertLocation(fix) == [op |-> "location", hasLatLong |-> fix.hasLatLong, timestamp |-> fix.timestamp,
                         tech |-> fix.tech \cap {"SATELLITE", "CELLID", "WIFI", "SENSORS"}]
\* One callback of a client, the richest it has.  Without the hub a client of
\* the engines is told of the modem's fix as the fused one and as its own.
LocationTold(fix, c) ==
  IF Asks(c, "gnssLocationInfo") THEN {convertLocationInfo(fix)}
  ELSE IF Asks(c, "engineLocationsInfo") /\ ~engHub
  THEN {[op |-> "engineLocations", fixes |-> <<[convertLocationInfo(fix) EXCEPT !.engine = "FUSED"], convertLocationInfo(fix)>>]}
  ELSE IF Asks(c, "tracking") THEN {convertLocation(fix)} ELSE {}
ClientTold(fix, c) ==
  IF (needReportForFlpClient(fix) /\ isFlpClient(c)) \/ (needReportForGnssClient(fix) /\ ~isFlpClient(c))
  THEN LocationTold(fix, c) ELSE {}
PaceInjects(fix) ==
  needReportForGnssClient(fix) /\ PaceEnabled /\ "SENSORS" \in fix.tech /\ fix.engine = "FUSED" /\ fix.drEngine
NmeaWanted == timeTracking
AfterFix(fix) ==
  [c \in DOMAIN told |->
     IF c = "modem" THEN IF PaceInjects(fix) THEN convertLocationInfo(fix) ELSE NothingTold[c]
     ELSE LET what == ClientTold(fix, c) IN IF what = {} THEN NothingTold[c] ELSE CHOOSE w \in what : TRUE]

\* The satellites used are kept for the next report of those in view.
\* (A mutant: kept from an earlier fix when this one does not give them.)
KeepUsedLatched(fix) ==
  IF needReportForGnssClient(fix) /\ fix.hasUsed
  THEN /\ mGnssSvIdUsedInPosAvail' = TRUE /\ mGnssSvIdUsedInPosition' = fix.used
       /\ mGnssMbSvIdUsedInPosAvail' = fix.hasMultiband
       /\ mGnssMbSvIdUsedInPosition' = IF fix.hasMultiband THEN fix.mbUsed ELSE mGnssMbSvIdUsedInPosition
  ELSE UNCHANGED usedVars
KeepUsed(fix) ==
  IF needReportForGnssClient(fix) \/ needReportForFlpClient(fix)
  THEN LET has == needReportForGnssClient(fix) /\ fix.hasUsed
       IN /\ mGnssSvIdUsedInPosAvail' = has /\ mGnssMbSvIdUsedInPosAvail' = (has /\ fix.hasMultiband)
          /\ mGnssSvIdUsedInPosition' = IF has THEN fix.used ELSE mGnssSvIdUsedInPosition
          /\ mGnssMbSvIdUsedInPosition' = IF has /\ fix.hasMultiband THEN fix.mbUsed ELSE mGnssMbSvIdUsedInPosition
  ELSE UNCHANGED usedVars

\* The sentences of a fix go to the clients that ask for sentences.
Generates(fix) == needReportForGnssClient(fix) /\ fix.status # "failure" /\ ~fix.blank
PositionNmea(fix) == loc_nmea_generate_pos(fix, mLocSystemInfo, Generates(fix), CustomGga)
reportNmea(sentences, was) ==
  [c \in DOMAIN was |-> IF c # "modem" /\ Asks(c, "gnssNmea") THEN [op |-> "nmea", sentences |-> sentences] ELSE was[c]]
\* The time in RMC, as in GNS and GGA.
WrittenTime(fix) ==
  LET time == Rmc("GN", fix, mLocSystemInfo).time IN <<time.utc, IF time.sixty THEN 1 ELSE 0, time.ms>>
\* One fix, for the position report and for each fused one of the engines; next
\* is what clients are told after it.
Position(fix, next) ==
  /\ KeepUsed(fix)
  /\ gnssFix' = IF needReportForGnssClient(fix) THEN Satellites(fix) ELSE gnssFix
  /\ LET here == IF NmeaWanted THEN reportNmea(PositionNmea(fix), AfterFix(fix)) ELSE AfterFix(fix)
     IN told' = [c \in DOMAIN told |-> IF next[c] = NothingTold[c] THEN here[c] ELSE next[c]]
  /\ clock' = IF NmeaWanted /\ Generates(fix) THEN WrittenTime(fix) ELSE clock
  /\ svTold' = NoSvs
reportPosition ==
  /\ Received("position") /\ Position(Head(reportMsgs).fix, NothingTold)
  /\ UNCHANGED <<engineVars, mLocSystemInfo>>
\* The engines' fixes: the fused one is the position, and then the clients of the
\* engines are told all of them.
reportEnginePositions ==
  /\ Received("enginePositions")
  /\ LET fixes == Head(reportMsgs).fixes
         all == [op |-> "engineLocations", fixes |-> [k \in DOMAIN fixes |-> convertLocationInfo(fixes[k])]]
         next == [c \in DOMAIN told |-> IF c # "modem" /\ Asks(c, "engineLocationsInfo") THEN all ELSE NothingTold[c]]
     IN \/ \E k \in DOMAIN fixes : fixes[k].engine = "FUSED" /\ Position(fixes[k], next)
        \/ /\ \A k \in DOMAIN fixes : fixes[k].engine # "FUSED"
           /\ told' = next /\ svTold' = NoSvs /\ UNCHANGED <<usedVars, gnssFix, clock>>
  /\ UNCHANGED <<engineVars, mLocSystemInfo>>

\* The satellites in view.
UsedMask(sv) ==
  IF ~mGnssSvIdUsedInPosAvail \/ sv.type \notin Systems THEN {}
  ELSE IF sv.type = "NAVIC" \/ ~mGnssMbSvIdUsedInPosAvail THEN mGnssSvIdUsedInPosition[sv.type]
  ELSE IF sv.signal \in MultibandSignals THEN mGnssMbSvIdUsedInPosition[sv.signal] ELSE {}
OneBased(sv) == IF sv.type \in Systems THEN sv.id - PRN_MIN[sv.type] + 1 ELSE sv.id
MarkUsed(sv) == [sv EXCEPT !.used = @ \/ (svFitsMask(OneBased(sv)) /\ OneBased(sv) \in UsedMask(sv))]
reportSv ==
  /\ Received("sv")
  /\ LET svs == [i \in DOMAIN Head(reportMsgs).svs |-> MarkUsed(Head(reportMsgs).svs[i])]
         sentences == IF NmeaWanted THEN loc_nmea_generate_sv(svs) ELSE <<>>
         informed == [c \in DOMAIN told |-> IF c # "modem" /\ Asks(c, "gnssSv") THEN [op |-> "sv", svs |-> svs] ELSE NothingTold[c]]
     IN /\ svTold' = [svs |-> svs, nmea |-> sentences]
        /\ told' = IF NmeaWanted THEN reportNmea(sentences, informed) ELSE informed
  /\ mGnssSvIdUsedInPosAvail' = FALSE /\ mGnssMbSvIdUsedInPosAvail' = FALSE
  /\ UNCHANGED <<engineVars, mGnssSvIdUsedInPosition, mGnssMbSvIdUsedInPosition, mLocSystemInfo, gnssFix, clock>>
\* A sentence of the engine's that the system status does not consume.
reportNmeaMsg ==
  /\ Received("nmea")
  /\ told' = IF Head(reportMsgs).consumed THEN NothingTold ELSE reportNmea(<<[sentence |-> "engine"]>>, NothingTold)
  /\ svTold' = NoSvs /\ UNCHANGED <<engineVars, usedVars, mLocSystemInfo, gnssFix, clock>>
\* The leap second stays known when the engine takes it back.
\* (A mutant: the copy is the latest.)
SavedInfoLatest(info) == info
SavedInfo(info) == IF info.change THEN info ELSE mLocSystemInfo
reportLocationSystemInfo ==
  /\ Received("systemInfo")
  /\ mLocSystemInfo' = SavedInfo(Head(reportMsgs).leap)
  /\ told' = [c \in DOMAIN told |-> IF c # "modem" /\ Asks(c, "locationSystemInfo")
                                    THEN [op |-> "systemInfo", change |-> Head(reportMsgs).leap.change] ELSE NothingTold[c]]
  /\ svTold' = NoSvs /\ UNCHANGED <<engineVars, usedVars, gnssFix, clock>>

ReportsNext ==
  \/ \E f \in Fixes : reportPositionEvent(f) \/ HubReports(f)
  \/ \E svs \in SvReports, hub \in BOOLEAN : reportSvEvent(svs, hub)
  \/ \E b \in BOOLEAN : reportNmeaEvent(b) \/ reportLocationSystemInfoEvent(b)
  \/ TimePasses \/ TracksOrNot
  \/ reportPosition \/ reportEnginePositions \/ reportSv \/ reportNmeaMsg \/ reportLocationSystemInfo

\* A satellite that is reported as used was used in the fix the GNSS clients
\* were told of last, on that signal when the fix tells signals apart: never
\* in an older fix (GnssAdapter.cpp:3497, :3627).
UsedTrue ==
  \A i \in DOMAIN svTold.svs : LET sv == svTold.svs[i] IN
    sv.used =>
      /\ gnssFix.hasUsed
      /\ OneBased(sv) \in (IF gnssFix.hasMultiband /\ sv.type # "NAVIC" THEN gnssFix.mbUsed[sv.signal]
                           ELSE gnssFix.used[sv.type])

\* The GSV sentences of a report agree: of each signal as many satellites are
\* listed as are announced, four to a sentence, and every satellite of a
\* signal the sentences name is listed once (loc_nmea.cpp:733, :2100).
Named(sv) == sv.type \in Systems /\ SignalOf(sv) \in {GsvGroups[g][2] : g \in DOMAIN GsvGroups} \cup {"BEIDOU_B2AQ"}
GsvComplete ==
  LET svs == svTold.svs
      nmea == svTold.nmea
      Of(talker, signal) == {k \in DOMAIN nmea : nmea[k].talker = talker /\ nmea[k].signal = signal}
      Places(S) == {p \in S \X (1 .. 4) : p[2] \in DOMAIN nmea[p[1]].svs}
  IN nmea # <<>> /\ (\A i \in DOMAIN svs : Named(svs[i])) =>
       /\ Cardinality(Places(DOMAIN nmea)) = Len(svs)
       /\ \A i \in DOMAIN svs :
            \E p \in Places(Of(Talker[svs[i].type], convert_signalType_to_signalId(SignalOf(svs[i])))) :
              nmea[p[1]].svs[p[2]] = GsvNumber(svs[i])
       /\ \A k \in DOMAIN nmea :
            LET same == Of(nmea[k].talker, nmea[k].signal) IN
            /\ Cardinality(Places(same)) = nmea[k].inView /\ Cardinality(same) = nmea[k].of
            /\ nmea[k].number < nmea[k].of => Len(nmea[k].svs) = 4

\* The time written never goes back, the leap second included, and even when
\* the engine takes the leap second back while a fix of it waits
\* (GnssAdapter.cpp:4006, loc_nmea.cpp:1027).
NotBefore(t, u) ==
  \/ t[1] > u[1]
  \/ t[1] = u[1] /\ (t[2] > u[2] \/ (t[2] = u[2] /\ t[3] >= u[3]))
ClockForward == [][NotBefore(clock', clock)]_reportsVars
=============================================================================
