----------------------------- MODULE MCExchange -----------------------------
(***************************************************************************)
(* What passes between the modem, the framework and the clients: reports   *)
(* of a small set of fixes and satellites, batches, the data connections   *)
(* of AGPS, and the calls and answers of the HAL client.  They share no    *)
(* variable; part chooses in the initial state which is stepped.           *)
(***************************************************************************)
EXTENDS MCClient, Reports, Batching, Agps

\* A client that tracks with satellites, one that fuses, one that wants the
\* fix of each engine.
MCReportClients ==
  [gnss |-> {"gnssLocationInfo", "gnssSv", "gnssNmea"}, flp |-> {"tracking"}, engines |-> {"engineLocationsInfo"}]
MCFix(status, tech, used, multiband) ==
  [status |-> status, tech |-> tech, nav |-> {}, accurate |-> TRUE, drEngine |-> FALSE, hasLatLong |-> TRUE,
   hasGpsTime |-> TRUE, blank |-> FALSE, hasUsed |-> used # {}, used |-> [NoneUsed EXCEPT !["GPS"] = used],
   hasMultiband |-> multiband, engine |-> "none", gpsTime |-> 0, timestamp |-> 0,
   mbUsed |-> [NoneMbUsed EXCEPT !["GPS_L5"] = IF multiband THEN used ELSE {}]]
MCFixes ==
  {MCFix("success", {"SATELLITE"}, {1}, FALSE), MCFix("success", {"SATELLITE"}, {2}, TRUE),
   MCFix("success", {"SENSORS"}, {}, FALSE), MCFix("success", {"CELLID"}, {}, FALSE),
   MCFix("failure", {}, {}, FALSE)}
MCSv(type, id, signal) == [type |-> type, id |-> id, signal |-> signal, used |-> FALSE]
\* More satellites than a sentence holds, two signals of a system, and signals
\* that share a sentence.
MCSvReports ==
  {[k \in 1 .. 5 |-> MCSv("GPS", k, IF k = 2 THEN "none" ELSE "GPS_L1CA")],
   <<MCSv("GPS", 1, "GPS_L5"), MCSv("GLONASS", 66, "GLONASS_G1"), MCSv("GPS", 2, "GPS_L5")>>,
   <<MCSv("BEIDOU", 201, "BEIDOU_B2AI"), MCSv("BEIDOU", 202, "BEIDOU_B2AQ"), MCSv("GPS", 1, "GPS_L1CA")>>,
   <<MCSv("GALILEO", 301, "GALILEO_E5A"), MCSv("QZSS", 193, "none"), MCSv("NAVIC", 401, "NAVIC_L5")>>}
MCTimes == <<4500, 5000, 6000>>
MCLeap == [change |-> TRUE, at |-> 5000, before |-> 1, after |-> 2]

\* Two commands under way about two batching sessions, or one about any of three.
MCBatchClient == <<1, 2, 2>>
BatchesOf == [batch |-> {1, 3}, batches |-> BatchIds]
BatchRoom == [batch |-> 2, batches |-> 1]

exchangeVars == <<part, reportsVars, batchVars, vars, clientVars>>
MCInit ==
  /\ part \in {"reports", "agps"} \cup DOMAIN BatchesOf \cup ClientParts
  /\ ReportsInit /\ BatchInit /\ Init /\ ClientInit
  /\ part = "reports" \/ ~engHub
  /\ part = "agps" \/ queue[1].nifs = {}
MCNext ==
  \/ part = "reports" /\ ReportsNext /\ UNCHANGED <<part, batchVars, vars, clientVars>>
  \/ /\ part \in DOMAIN BatchesOf /\ UNCHANGED <<part, reportsVars, vars, clientVars>>
     /\ \/ BatchServed
        \/ BatchesUnderWay < BatchRoom[part] /\ (BatchCallers(BatchesOf[part]) \/ BatchEvents)
  \/ part = "agps" /\ Next /\ UNCHANGED <<part, reportsVars, batchVars, clientVars>>
  \/ MCClientNext /\ UNCHANGED <<reportsVars, batchVars, vars>>
MCSpec == MCInit /\ [][MCNext]_exchangeVars
=============================================================================
