-------------------------------- MODULE Nmea --------------------------------
(***************************************************************************)
(* loc_nmea.cpp: the sentences made of a fix and of a report of the        *)
(* satellites in view.  A sentence is a record of the fields that say what *)
(* was measured; the layout of the text, its check sum and the arithmetic  *)
(* on coordinates are left out.                                            *)
(***************************************************************************)
EXTENDS Naturals, FiniteSets, SequencesExt

\* The systems in the order of their GSA sentences; a NavIC one has none.
GsaSystems == <<"GPS", "GLONASS", "GALILEO", "BEIDOU", "QZSS">>
Systems == ToSet(GsaSystems) \cup {"NAVIC"}
Talker == [GPS |-> "GP", GLONASS |-> "GL", GALILEO |-> "GA", BEIDOU |-> "GB", QZSS |-> "GQ", NAVIC |-> "GI"]
SystemId == [GPS |-> 1, GLONASS |-> 2, GALILEO |-> 3, BEIDOU |-> 4, QZSS |-> 5, NAVIC |-> 6]
\* The first number of a satellite of the system, and the last.
PRN_MIN == [GPS |-> 1, GLONASS |-> 65, GALILEO |-> 301, BEIDOU |-> 201, QZSS |-> 193, NAVIC |-> 401]
PRN_MAX == [GPS |-> 32, GLONASS |-> 96, GALILEO |-> 336, BEIDOU |-> 237, QZSS |-> 197, NAVIC |-> 414]
svFitsMask(n) == n \in 1 .. 64

SignalId == [
  GPS_L1CA |-> 1, GPS_L2 |-> 6, GPS_L5 |-> 8, GLONASS_G1 |-> 1, GLONASS_G2 |-> 3,
  GALILEO_E1 |-> 7, GALILEO_E5A |-> 1, GALILEO_E5B |-> 2,
  QZSS_L1CA |-> 1, QZSS_L2 |-> 6, QZSS_L5 |-> 8,
  BEIDOU_B1I |-> 1, BEIDOU_B1C |-> 3, BEIDOU_B2I |-> 11, BEIDOU_B2AI |-> 5, BEIDOU_B2AQ |-> 5,
  NAVIC_L5 |-> 1]
convert_signalType_to_signalId(signal) == IF signal \in DOMAIN SignalId THEN SignalId[signal] ELSE 0
\* The signal of a satellite reported without one.
DefaultSignal == [GPS |-> "GPS_L1CA", GLONASS |-> "GLONASS_G1", GALILEO |-> "GALILEO_E1",
                  QZSS |-> "QZSS_L1CA", BEIDOU |-> "BEIDOU_B1I", NAVIC |-> "NAVIC_L5", SBAS |-> "SBAS_L1"]
SignalOf(sv) == IF sv.signal = "none" THEN DefaultSignal[sv.type] ELSE sv.signal

(***************************************************************************)
(* Satellites in view: one group of GSV sentences for each signal.  A      *)
(* satellite is [type, id, signal, used].                                  *)
(***************************************************************************)
GsvGroups == <<
  <<"GPS", "GPS_L1CA">>, <<"GPS", "GPS_L5">>, <<"GPS", "GPS_L2">>,
  <<"GLONASS", "GLONASS_G1">>, <<"GLONASS", "GLONASS_G2">>,
  <<"GALILEO", "GALILEO_E1">>, <<"GALILEO", "GALILEO_E5A">>, <<"GALILEO", "GALILEO_E5B">>,
  <<"QZSS", "QZSS_L1CA">>, <<"QZSS", "QZSS_L5">>, <<"QZSS", "QZSS_L2">>,
  <<"BEIDOU", "BEIDOU_B1I">>, <<"BEIDOU", "BEIDOU_B2AI">>, <<"NAVIC", "NAVIC_L5">>>>
\* The signal a satellite is counted under: one that is not named here is
\* counted under the default of its system.
CountedAs(sv) ==
  IF sv.signal = "BEIDOU_B2AQ" THEN "BEIDOU_B2AI"
  ELSE IF sv.signal \in {"GPS_L5", "GPS_L2", "GLONASS_G2", "GALILEO_E5A", "GALILEO_E5B",
                         "QZSS_L5", "QZSS_L2", "BEIDOU_B2AI"}
  THEN sv.signal ELSE DefaultSignal[sv.type]
\* (A mutant: both of BeiDou's B2a signals told apart.)
svCountApart(svs, group) ==
  Cardinality({i \in DOMAIN svs : svs[i].type = group[1] /\ SignalOf(svs[i]) = group[2]})
svCount(svs, group) ==
  Cardinality({i \in DOMAIN svs : svs[i].type = group[1] /\ CountedAs(svs[i]) = group[2]})
\* The numbers are the report's, but GLONASS and NavIC keep theirs.
GsvNumber(sv) == IF sv.type \in {"GLONASS", "NAVIC"} THEN sv.id ELSE sv.id + 1 - PRN_MIN[sv.type]

\* The satellites a group lists, as places in the report, and the k-th of them.
ListedIn(svs, group) ==
  {i \in DOMAIN svs : /\ svs[i].type = group[1]
                      /\ convert_signalType_to_signalId(SignalOf(svs[i])) = convert_signalType_to_signalId(group[2])}
Nth(S, k) == CHOOSE i \in S : Cardinality({j \in S : j <= i}) = k

\* Four to a sentence, as many sentences as were counted.
loc_nmea_generate_GSV(svs, group) ==
  LET count == svCount(svs, group)
      listed == ListedIn(svs, group)
  IN [n \in 1 .. (count + 3) \div 4 |->
       [sentence |-> "GSV", talker |-> Talker[group[1]], of |-> (count + 3) \div 4, number |-> n, inView |-> count,
        svs |-> [k \in 1 .. Min({4, Cardinality(listed) + 4 - 4 * n}) |-> GsvNumber(svs[Nth(listed, 4 * n - 4 + k)])],
        signal |-> convert_signalType_to_signalId(group[2])]]
loc_nmea_generate_sv(svs) ==
  LET Group(g) == loc_nmea_generate_GSV(svs, GsvGroups[g])
  IN Group(1) \o Group(2) \o Group(3) \o Group(4) \o Group(5) \o Group(6) \o Group(7)
     \o Group(8) \o Group(9) \o Group(10) \o Group(11) \o Group(12) \o Group(13) \o Group(14)

(***************************************************************************)
(* A fix.  used gives for each system the satellites of the fix, numbered  *)
(* from one, when the fix says so at all.                                  *)
(***************************************************************************)
UsedIn(fix, system) == IF fix.hasUsed THEN fix.used[system] ELSE {}
totalSvUsed(fix) ==
  MapThenSumSet(LAMBDA s : Cardinality(UsedIn(fix, s) \cap (1 .. PRN_MAX[s] - PRN_MIN[s] + 1)), Systems)
Combined(fix) == Cardinality({s \in Systems : UsedIn(fix, s) # {}}) > 1
\* One sentence for each system with satellites in the fix, at most twelve of
\* them listed.
GsaNumber(system, n) == IF system = "GLONASS" THEN n + 64 ELSE n
loc_nmea_generate_GSA(fix, system) ==
  LET numbers == SetToSortSeq(UsedIn(fix, system), <)
  IN IF numbers = <<>> THEN <<>>
     ELSE <<[sentence |-> "GSA", talker |-> IF Combined(fix) THEN "GN" ELSE Talker[system],
             fixType |-> CASE totalSvUsed(fix) = 0 -> 1 [] totalSvUsed(fix) \in 1 .. 3 -> 2 [] OTHER -> 3,
             svs |-> [k \in 1 .. Min({12, Len(numbers)}) |-> GsaNumber(system, numbers[k])],
             system |-> SystemId[system]]>>

\* What the corrections of the fix say of its quality, the first that applies
\* (GGA, RMC, VTG), and what the technology says if none does.
Corrections == <<<<"PPP", "2", "P", "P">>, <<"RTK_FIXED", "4", "R", "D">>, <<"RTK", "5", "F", "D">>,
                 <<"DGNSS", "2", "D", "D">>, <<"SBAS", "2", "D", "D">>>>
NoQuality == <<"none", "0", "N", "N">>
QualityOf(fix) ==
  LET applies == SelectSeq(Corrections, LAMBDA c : c[1] \in fix.nav)
  IN IF ~fix.hasLatLong THEN NoQuality
     ELSE IF applies # <<>> THEN Head(applies)
     ELSE IF "SATELLITE" \in fix.tech THEN <<"none", "1", "A", "A">>
     ELSE IF "SENSORS" \in fix.tech THEN <<"none", "6", "E", "E">>
     ELSE NoQuality
\* Each system with satellites in the fix has the mode, all have that of dead
\* reckoning.
GnsMode(fix) ==
  LET mode == QualityOf(fix)[3]
  IN [s \in Systems |-> IF mode = "E" \/ UsedIn(fix, s) # {} THEN mode ELSE "N"]
\* The vendor's values: 59 and 69 for a precise fix, 6 and the plain one for a
\* fix that sensors took part in.
ggaGpsQuality(fix, custom) ==
  LET plain == QualityOf(fix)[2]
  IN IF ~custom THEN <<plain>>
     ELSE IF "PPP" \in fix.nav THEN IF "SENSORS" \in fix.tech THEN <<"6", "9">> ELSE <<"5", "9">>
     ELSE IF "SENSORS" \notin fix.tech THEN <<plain>>
     ELSE IF fix.nav # {} \/ "SATELLITE" \in fix.tech THEN <<"6", plain>> ELSE <<"6">>

\* In the second a leap second is added the time stands still and its second
\* is written 60, with the milliseconds of GPS time.
InTransition(fix, leap) ==
  /\ fix.hasGpsTime /\ leap.change /\ leap.after > leap.before
  /\ leap.at <= fix.gpsTime /\ fix.gpsTime < leap.at + 1000
get_utctime_with_leapsecond_transition(fix, leap) ==
  IF InTransition(fix, leap) THEN [utc |-> (leap.at - leap.before * 1000 - 1000) \div 1000, sixty |-> TRUE, ms |-> fix.gpsTime % 1000]
  ELSE [utc |-> fix.timestamp \div 1000, sixty |-> FALSE, ms |-> fix.timestamp % 1000]

\* The sentences of a fix, under the talker of its last GSA sentence.  A
\* failed or an empty fix makes blank sentences.
GsaOf(fix) == FlattenSeq([k \in DOMAIN GsaSystems |-> loc_nmea_generate_GSA(fix, GsaSystems[k])])
GsaSentences(fix) ==
  IF GsaOf(fix) # <<>> THEN GsaOf(fix)
  ELSE <<[sentence |-> "GSA", talker |-> "GP", fixType |-> 1, svs |-> <<>>, system |-> 0]>>
svUsedCount(fix) == MapThenSumSet(LAMBDA s : Cardinality(UsedIn(fix, s)), ToSet(GsaSystems))
Vtg(talker, fix) == [sentence |-> "VTG", talker |-> talker, mode |-> QualityOf(fix)[4]]
Dtm(talker) == [sentence |-> "DTM", talker |-> talker]
Rmc(talker, fix, leap) == [sentence |-> "RMC", talker |-> talker, valid |-> svUsedCount(fix) # 0, mode |-> QualityOf(fix)[3],
                   time |-> get_utctime_with_leapsecond_transition(fix, leap)]
Gns(talker, fix, leap) == [sentence |-> "GNS", talker |-> talker, modes |-> GnsMode(fix), inUse |-> svUsedCount(fix),
                   time |-> get_utctime_with_leapsecond_transition(fix, leap)]
Gga(talker, fix, leap, custom) == [sentence |-> "GGA", talker |-> talker, quality |-> ggaGpsQuality(fix, custom),
                           inUse |-> Min({12, svUsedCount(fix)}),
                           time |-> get_utctime_with_leapsecond_transition(fix, leap)]
BlankSentences == [k \in 1 .. 6 |-> [sentence |-> <<"GSA", "VTG", "DTM", "RMC", "GNS", "GGA">>[k], talker |-> "GP", blank |-> TRUE]]
loc_nmea_generate_pos(fix, leap, generate_nmea, custom) ==
  IF ~generate_nmea THEN BlankSentences
  ELSE LET talker == Last(GsaSentences(fix)).talker
       IN GsaSentences(fix) \o <<Vtg(talker, fix), Dtm(talker), Rmc(talker, fix, leap), Gns(talker, fix, leap),
                                 Gga(talker, fix, leap, custom)>>
=============================================================================
