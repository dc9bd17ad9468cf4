------------------------- MODULE GnssTrackingProofs -------------------------
(***************************************************************************)
(* Proofs about GnssTracking: type correctness, that no command is         *)
(* answered twice, that none is forgotten, and that the engine serves      *)
(* every time based session, for every set of clients, keys and options    *)
(* and every bound, and whenever the modem crashes; and, for clients that  *)
(* wait for their answers, that no session outlives its client and that    *)
(* the power state reported is the truth about the modem.                  *)
(***************************************************************************)
EXTENDS GnssTracking, FiniteSetTheorems, SequenceTheorems,
        WellFoundedInduction, TLAPS

-----------------------------------------------------------------------------
(* The choices the multiplexing makes.                                     *)

\* Every set of naturals that is not empty has a least element.
LEMMA Least ==
  ASSUME NEW S \in SUBSET Nat, S # {}
  PROVE  \E x \in S : \A y \in S : x <= y
  <1>1. PICK x \in S : \A y \in S : ~ (<<y, x>> \in OpToRel(<, Nat))
    BY NatLessThanWellFounded, WFMin, Zenon
  <1>2. \A y \in S : ~(y < x)
    BY <1>1 DEF OpToRel
  <1> QED
    BY <1>2

\* Among the elements with the least weight there is a first one.
LEMMA LeastFirst ==
  ASSUME NEW S \in SUBSET Nat, S # {}, NEW w, \A s \in S : w[s] \in Nat
  PROVE  \E s \in S : \A t \in S : w[s] < w[t] \/ (w[s] = w[t] /\ s <= t)
  <1>1. PICK s0 \in S : \A t \in S : w[s0] <= w[t]
    <2>1. {w[s] : s \in S} # {} /\ {w[s] : s \in S} \in SUBSET Nat
      OBVIOUS
    <2>2. \E x \in {w[s] : s \in S} : \A y \in {w[s] : s \in S} : x <= y
      BY <2>1, Least
    <2> QED
      BY <2>2
  <1>2. PICK s \in {t \in S : w[t] = w[s0]} :
          \A t \in {r \in S : w[r] = w[s0]} : s <= t
    <2>1. {t \in S : w[t] = w[s0]} # {} /\ {t \in S : w[t] = w[s0]} \in SUBSET Nat
      OBVIOUS
    <2> QED
      BY <2>1, Least
  <1>3. s \in S /\ w[s] = w[s0]
    BY <1>2
  <1>4. \A t \in S : w[s] < w[t] \/ (w[s] = w[t] /\ s <= t)
    <2> SUFFICES ASSUME NEW t \in S
                 PROVE  w[s] < w[t] \/ (w[s] = w[t] /\ s <= t)
      OBVIOUS
    <2>1. w[s] <= w[t] /\ w[s] \in Nat /\ w[t] \in Nat
      BY <1>1, <1>3
    <2>2. w[t] = w[s0] => s <= t
      BY <1>2
    <2> QED
      BY <1>3, <2>1, <2>2
  <1> QED
    BY <1>3, <1>4

LEMMA SessionOptions ==
  ASSUME TypeOK
  PROVE  /\ TimeIds \subseteq Ids /\ DistIds \subseteq Ids
         /\ \A id \in TimeIds : time[id] \in OptionType
         /\ \A id \in TimeIds : time[id].minInterval \in Nat
                                /\ time[id].powerMode \in PowerModes
         /\ \A id \in DistIds : dist[id] \in OptionType
  BY DEF TypeOK, TimeIds, DistIds, OptionType

LEMMA SmallestIntervalIn ==
  ASSUME TypeOK, NEW S \in SUBSET TimeIds, S # {}
  PROVE  SmallestInterval(S) \in S
  <1> DEFINE w == [s \in S |-> time[s].minInterval]
  <1>1. S \in SUBSET Nat /\ \A s \in S : w[s] \in Nat
    BY SessionOptions, ConstantsOK
  <1>2. \E s \in S : \A t \in S : w[s] < w[t] \/ (w[s] = w[t] /\ s <= t)
    <2> HIDE DEF w
    <2> QED
      BY <1>1, LeastFirst
  <1>3. \E s \in S : \A t \in S :
          \/ time[s].minInterval < time[t].minInterval
          \/ time[s].minInterval = time[t].minInterval /\ s <= t
    BY <1>2
  <1> QED
    BY <1>3 DEF SmallestInterval

LEMMA MultiplexedPowerType ==
  ASSUME TypeOK, NEW S \in SUBSET TimeIds
  PROVE  MultiplexedPower(S) \in PowerModes
  <1> DEFINE tail == {s \in S : \A z \in S : time[z].powerMode = INVALID => z < s}
             P == {time[s].powerMode : s \in tail}
  <1>1. CASE tail = {}
    BY <1>1 DEF MultiplexedPower, INVALID, PowerModes
  <1>2. CASE tail # {}
    <2>1. P \in SUBSET PowerModes /\ P \in SUBSET Nat /\ P # {}
      BY <1>2, SessionOptions DEF PowerModes
    <2>2. \E p \in P : \A q \in P : p <= q
      <3> HIDE DEF P
      <3> QED
        BY <2>1, Least
    <2>3. LeastPower(tail) \in P
      BY <2>2 DEF LeastPower
    <2> QED
      BY <1>2, <2>1, <2>3 DEF MultiplexedPower
  <1> QED
    BY <1>1, <1>2

LEMMA HighestPowerIn ==
  ASSUME TypeOK, NEW S \in SUBSET TimeIds, S # {}
  PROVE  HighestPower(S) \in S
  <1> DEFINE first == CHOOSE s \in S : \A t \in S : s <= t
             rivals == IF time[first].powerMode = INVALID THEN {first}
                       ELSE {s \in S : time[s].powerMode # INVALID}
             w == [s \in S |-> time[s].powerMode]
  <1>1. S \in SUBSET Nat /\ \A s \in S : w[s] \in Nat
    <2>1. \A s \in S : time[s].powerMode \in Nat
      BY SessionOptions DEF PowerModes
    <2>2. S \in SUBSET Nat
      BY SessionOptions, ConstantsOK
    <2> QED
      BY <2>1, <2>2
  <1>2. first \in S
    BY <1>1, Least
  <1>3. rivals \in SUBSET S /\ rivals # {}
    BY <1>2
  <1>4. \E s \in rivals : \A t \in rivals : w[s] < w[t] \/ (w[s] = w[t] /\ s <= t)
    <2>1. rivals \in SUBSET Nat /\ \A s \in rivals : w[s] \in Nat
      BY <1>1, <1>3
    <2> HIDE DEF w, rivals
    <2> QED
      BY <1>3, <2>1, LeastFirst
  <1>5. \E s \in rivals : \A t \in rivals :
          \/ time[s].powerMode < time[t].powerMode
          \/ time[s].powerMode = time[t].powerMode /\ s <= t
    <2>1. \A s \in rivals : w[s] = time[s].powerMode
      BY <1>3
    <2> HIDE DEF w, rivals
    <2> QED
      BY <1>4, <2>1
  <1>6. HighestPower(S) \in rivals
    BY <1>5 DEF HighestPower
  <1> QED
    BY <1>3, <1>6

-----------------------------------------------------------------------------
(* Options and requests.                                                   *)

LEMMA ClampType ==
  ASSUME NEW opt \in OptionType
  PROVE  ClampInterval(opt) \in OptionType
  BY ConstantsOK DEF ClampInterval, OptionType

LEMMA FallbackType ==
  ASSUME NEW opt \in OptionType
  PROVE  TbmFallback(opt) \in OptionType
  BY DEF TbmFallback, M2, PowerModes, OptionType

LEMMA StartTBType ==
  ASSUME NEW opt \in OptionType, NEW cont \in Cont \cup {NoCont}
  PROVE  <<StartTB(opt, cont)>> \in Seq(Request)
  <1>1. StartTB(opt, cont) \in Request
    BY DEF StartTB, Request
  <1> QED
    BY <1>1

LEMMA ContTypes ==
  ASSUME NEW id \in Ids, NEW cmd \in Cmds \cup {NoCmd}, NEW opt \in OptionType
  PROVE  /\ Started(id, cmd) \in Cont
         /\ \A k \in {"started", "stopped", "distStopped", "clientDistStopped"} :
              [k |-> k, id |-> id, cmd |-> cmd] \in Cont
         /\ \A k \in {"updated", "switched", "distRestart", "distRestarted"} :
              [k |-> k, id |-> id, cmd |-> cmd, opt |-> opt] \in Cont
         /\ [k |-> "ignore"] \in Cont
  BY DEF Started, Cont

LEMMA StartMultiplexType ==
  ASSUME TypeOK, NEW id \in Ids, NEW opt \in OptionType,
         NEW cmd \in Cmds \cup {NoCmd}
  PROVE  startTimeBasedTrackingMultiplex(id, opt, cmd) \in Seq(Request)
  <1> DEFINE base == time[SmallestInterval(TimeIds)]
             faster == opt.minInterval < base.minInterval
             stronger == opt.powerMode < MultiplexedPower(TimeIds)
             mux == [base EXCEPT
                       !.minInterval = IF faster THEN opt.minInterval ELSE @,
                       !.powerMode = IF stronger THEN opt.powerMode ELSE @]
  <1>1. <<StartTB(opt, Started(id, cmd))>> \in Seq(Request)
    BY ContTypes, StartTBType
  <1>2. ASSUME TimeIds # {} PROVE mux \in OptionType
    <2>1. base \in OptionType
      BY <1>2, SmallestIntervalIn, SessionOptions
    <2> HIDE DEF base
    <2> QED
      BY <2>1 DEF OptionType
  <1>3. ASSUME TimeIds # {} PROVE <<StartTB(mux, Started(id, cmd))>> \in Seq(Request)
    <2> HIDE DEF mux
    <2> QED
      BY <1>2, <1>3, ContTypes, StartTBType
  <1>4. << >> \in Seq(Request)
    OBVIOUS
  <1>5. startTimeBasedTrackingMultiplex(id, opt, cmd)
          = IF TimeIds = {} THEN <<StartTB(opt, Started(id, cmd))>>
            ELSE IF faster \/ stronger THEN <<StartTB(mux, Started(id, cmd))>>
            ELSE << >>
    BY DEF startTimeBasedTrackingMultiplex
  <1> HIDE DEF mux, faster, stronger
  <1> QED
    BY <1>1, <1>3, <1>4, <1>5

LEMMA UpdateMultiplexType ==
  ASSUME TypeOK, NEW id \in TimeIds, NEW opt \in OptionType,
         NEW cmd \in Cmds \cup {NoCmd}
  PROVE  updateTrackingMultiplex(id, opt, cmd) \in Seq(Request)
  <1> DEFINE others == TimeIds \ {id}
             base == time[SmallestInterval(others)]
             faster == opt.minInterval < base.minInterval
             stronger == opt.powerMode < MultiplexedPower(others)
             mux == [base EXCEPT
                       !.minInterval = IF faster THEN opt.minInterval ELSE @,
                       !.powerMode = IF stronger THEN opt.powerMode ELSE @]
             updated == [k |-> "updated", id |-> id, cmd |-> cmd, opt |-> time[id]]
             same == /\ time[id].minInterval = opt.minInterval
                     /\ time[id].powerMode = opt.powerMode
  <1>1. updated \in Cont
    BY SessionOptions, ContTypes
  <1>2. <<StartTB(opt, updated)>> \in Seq(Request)
    <2> HIDE DEF updated
    <2> QED
      BY <1>1, StartTBType
  <1>3. ASSUME others # {} PROVE <<StartTB(mux, updated)>> \in Seq(Request)
    <2>1. base \in OptionType
      BY <1>3, SmallestIntervalIn, SessionOptions
    <2>2. mux \in OptionType
      <3> HIDE DEF base
      <3> QED
        BY <2>1 DEF OptionType
    <2> HIDE DEF mux, updated
    <2> QED
      BY <1>1, <2>2, StartTBType
  <1>4. << >> \in Seq(Request)
    OBVIOUS
  <1>5. updateTrackingMultiplex(id, opt, cmd)
          = IF same THEN << >>
            ELSE IF others = {} THEN <<StartTB(opt, updated)>>
            ELSE IF faster \/ stronger THEN <<StartTB(mux, updated)>>
            ELSE << >>
    BY DEF updateTrackingMultiplex
  <1> HIDE DEF mux, faster, stronger, same, updated, others
  <1> QED
    BY <1>2, <1>3, <1>4, <1>5

LEMMA StopMultiplexType ==
  ASSUME TypeOK, NEW id \in TimeIds, NEW cmd \in Cmds \cup {NoCmd}
  PROVE  stopTimeBasedTrackingMultiplex(id, cmd) \in Seq(Request)
  <1> DEFINE others == TimeIds \ {id}
             base == time[SmallestInterval(others)]
             power == MultiplexedPower(others)
             mux == [base EXCEPT !.powerMode = power]
             stop == [op |-> "stopFix",
                      cont |-> [k |-> "stopped", id |-> id, cmd |-> cmd]]
             must == \/ time[id].minInterval < base.minInterval
                     \/ time[id].powerMode < power
  <1>1. id \in Ids
    BY SessionOptions
  <1>2. <<stop>> \in Seq(Request)
    <2>1. [k |-> "stopped", id |-> id, cmd |-> cmd] \in Cont
      BY <1>1 DEF Cont
    <2>2. stop \in Request
      BY <2>1 DEF Request
    <2> QED
      BY <2>2
  <1>3. ASSUME others # {} PROVE <<StartTB(mux, Started(id, cmd))>> \in Seq(Request)
    <2>1. base \in OptionType /\ power \in PowerModes
      BY <1>3, SmallestIntervalIn, MultiplexedPowerType, SessionOptions
    <2>2. mux \in OptionType
      <3> HIDE DEF base, power
      <3> QED
        BY <2>1 DEF OptionType
    <2>3. Started(id, cmd) \in Cont
      BY <1>1 DEF Started, Cont
    <2> HIDE DEF mux
    <2> QED
      BY <2>2, <2>3, StartTBType
  <1>4. << >> \in Seq(Request)
    OBVIOUS
  <1>5. stopTimeBasedTrackingMultiplex(id, cmd)
          = IF others = {} THEN <<stop>>
            ELSE IF must THEN <<StartTB(mux, Started(id, cmd))>>
            ELSE << >>
    BY DEF stopTimeBasedTrackingMultiplex
  <1> HIDE DEF mux, must, stop, others
  <1> QED
    BY <1>2, <1>3, <1>4, <1>5

\* The keys of a set, in order, make requests of any one kind.
LEMMA InOrderType ==
  ASSUME NEW S \in SUBSET Ids, NEW q \in InOrder(S)
  PROVE  /\ Cardinality(S) \in Nat
         /\ DOMAIN q = 1 .. Cardinality(S)
         /\ \A i \in DOMAIN q : q[i] \in S
  <1>1. IsFiniteSet(S)
    BY ConstantsOK, FS_Subset
  <1>2. Cardinality(S) \in Nat
    BY <1>1, FS_CardinalityType
  <1> QED
    BY <1>2 DEF InOrder

LEMMA MapType ==
  ASSUME NEW S, NEW n \in Nat, NEW f, f \in [1 .. n -> S]
  PROVE  f \in Seq(S)
  OBVIOUS

LEMMA CheckRestartType ==
  ASSUME TypeOK
  PROVE  checkAndRestartTimeBasedSession \in Seq(Request)
  <1>1. CASE TimeIds = {}
    BY <1>1 DEF checkAndRestartTimeBasedSession
  <1>2. CASE TimeIds # {}
    <2> DEFINE smallest == time[SmallestInterval(TimeIds)]
               highest == time[HighestPower(TimeIds)]
               mux == [highest EXCEPT !.minInterval = smallest.minInterval,
                                      !.distance = smallest.distance]
    <2>1. smallest \in OptionType /\ highest \in OptionType
      BY <1>2, SmallestIntervalIn, HighestPowerIn, SessionOptions
    <2>2. mux \in OptionType
      <3> HIDE DEF smallest, highest
      <3> QED
        BY <2>1 DEF OptionType
    <2>3. <<StartTB(mux, NoCont)>> \in Seq(Request)
      <3> HIDE DEF mux
      <3> QED
        BY <2>2, StartTBType
    <2> QED
      BY <1>2, <2>3 DEF checkAndRestartTimeBasedSession
  <1> QED
    BY <1>1, <1>2

LEMMA RestartType ==
  ASSUME TypeOK
  PROVE  \A reqs \in restartSessions : reqs \in Seq(Request)
  <1>1. checkAndRestartTimeBasedSession \in Seq(Request)
    BY CheckRestartType
  <1>2. ASSUME NEW q \in InOrder(DistIds)
        PROVE  [i \in DOMAIN q |-> [op |-> "startDB", id |-> q[i],
                                    cont |-> [k |-> "ignore"]]] \in Seq(Request)
    <2>1. \A id \in Ids : [op |-> "startDB", id |-> id, cont |-> [k |-> "ignore"]]
                            \in Request
      BY DEF Request, Cont
    <2> QED
      BY <2>1, InOrderType, SessionOptions, MapType
  <1>3. ASSUME NEW q \in InOrder(DistIds)
        PROVE  checkAndRestartTimeBasedSession
                 \o [i \in DOMAIN q |-> [op |-> "startDB", id |-> q[i],
                                         cont |-> [k |-> "ignore"]]]
               \in Seq(Request)
    <2> DEFINE tail == [i \in DOMAIN q |-> [op |-> "startDB", id |-> q[i],
                                            cont |-> [k |-> "ignore"]]]
    <2>1. tail \in Seq(Request)
      BY <1>2
    <2>2. checkAndRestartTimeBasedSession \o tail \in Seq(Request)
      <3> HIDE DEF tail
      <3> QED
        BY <1>1, <2>1
    <2> QED
      BY <2>2
  <1> QED
    BY <1>3, Zenon DEF restartSessions

-----------------------------------------------------------------------------
(* Messages.                                                               *)

LEMMA HandleType ==
  ASSUME TypeOK, NEW t, Handle(t)
  PROVE  Tail(msgs) \in Seq(Msg) /\ Head(msgs) \in Msg /\ Head(msgs).t = t
  BY DEF Handle, TypeOK

LEMMA CommandType ==
  ASSUME NEW m \in Msg
  PROVE  /\ m.t \in {"start", "update", "stop"} =>
              m \in Command /\ m.id \in Ids /\ m.cmd \in Cmds
         /\ m.t \in {"start", "update"} => m.opt \in OptionType
         /\ m.t \in {"add", "remove"} => m.client \in Clients
         /\ m.t = "resp" => m.cont \in Cont /\ m.ok \in BOOLEAN
  BY DEF Msg, Command

LEMMA ContFields ==
  ASSUME NEW c \in Cont
  PROVE  /\ c.k # "ignore" => c.id \in Ids /\ c.cmd \in Cmds \cup {NoCmd}
         /\ c.k \in {"updated", "switched", "distRestart", "distRestarted"} =>
              c.opt \in OptionType
              /\ [c EXCEPT !.k = "distRestarted"] \in Cont
  BY DEF Cont

LEMMA RequestFields ==
  ASSUME NEW r \in Request
  PROVE  /\ r.op \in {"startTB", "stopFix", "startDB", "stopDB", "open"}
         /\ r.op # "open" => r.cont \in Cont \cup {NoCont}
         /\ r.op = "startTB" => r.opt \in OptionType
         /\ r.op \in {"startDB", "stopDB"} => r.id \in Ids
  BY DEF Request

\* The parts of the type invariant.
SessionsType ==
  /\ time \in [Ids -> OptionType \cup {None}]
  /\ dist \in [Ids -> OptionType \cup {None}]
  /\ powerOn \in BOOLEAN
AnswersType == answers \in [Cmds -> Nat]
QueuesType == msgs \in Seq(Msg) /\ api \in Seq(Request)

LEMMA SaveType ==
  ASSUME TypeOK, NEW id \in Ids, NEW opt \in OptionType,
         saveTrackingSession(id, opt)
  PROVE  SessionsType'
  BY DEF TypeOK, saveTrackingSession, reportPowerStateIfChanged, SessionsType

LEMMA EraseType ==
  ASSUME TypeOK, NEW id \in Ids, eraseTrackingSession(id)
  PROVE  SessionsType'
  BY DEF TypeOK, eraseTrackingSession, reportPowerStateIfChanged, SessionsType

LEMMA ReportType ==
  ASSUME TypeOK, NEW id, NEW cmd \in Cmds \cup {NoCmd}, reportResponse(id, cmd)
  PROVE  AnswersType'
  BY DEF TypeOK, reportResponse, AnswersType

LEMMA SendType ==
  ASSUME TypeOK, NEW id, NEW cmd \in Cmds \cup {NoCmd}, NEW reqs \in Seq(Request),
         SendOrReport(reqs, id, cmd)
  PROVE  api' \in Seq(Request) /\ AnswersType'
  <1>1. api' \in Seq(Request)
    BY DEF SendOrReport, TypeOK
  <1>2. AnswersType'
    BY ReportType DEF SendOrReport, AnswersType, TypeOK
  <1> QED
    BY <1>1, <1>2

\* A handler that keeps these parts keeps the type invariant.
LEMMA HandlerType ==
  ASSUME TypeOK, msgs' \in Seq(Msg), api' \in Seq(Request), SessionsType',
         AnswersType', UNCHANGED <<clients, capsKnown, pending>>,
         UNCHANGED <<clientVars, modemVars>>
  PROVE  TypeOK'
  BY DEF TypeOK, SessionsType, AnswersType, clientVars, modemVars
-----------------------------------------------------------------------------
(* Type correctness.                                                       *)

LEMMA InitType == Init => TypeOK
  <1> SUFFICES ASSUME Init PROVE TypeOK
    OBVIOUS
  <1>1. api \in Seq(Request)
    BY DEF Init, Request
  <1>2. msgs \in Seq(Msg) /\ pending \in Seq(Command)
    BY DEF Init
  <1>3. Len(issued) <= MaxCmds
    BY ConstantsOK DEF Init
  <1>4. issued \in Seq([op : {"start", "update", "stop"}, id : Ids, valid : BOOLEAN])
    BY DEF Init
  <1>5. engine \in [up : BOOLEAN, tb : OptionType \cup {None}, db : SUBSET Ids]
    BY DEF Init
  <1>6. ssrs \in 0 .. MaxSsr /\ fails \in 0 .. MaxFails /\ configs \in 0 .. MaxConfigs
    BY ConstantsOK DEF Init
  <1>7. /\ clients \subseteq Clients
        /\ time \in [Ids -> OptionType \cup {None}]
        /\ dist \in [Ids -> OptionType \cup {None}]
        /\ powerOn \in BOOLEAN /\ capsKnown \in BOOLEAN
        /\ life \in [Clients -> {"none", "live", "gone"}]
        /\ answers \in [Cmds -> Nat]
    BY DEF Init
  <1> QED
    BY <1>1, <1>2, <1>3, <1>4, <1>5, <1>6, <1>7 DEF TypeOK

\* A command a client issues has a number of its own.
LEMMA IssueType ==
  ASSUME TypeOK, NEW op \in {"start", "update", "stop"}, NEW id \in Ids,
         NEW valid \in BOOLEAN, Issue(op, id, valid)
  PROVE  /\ issued' \in Seq([op : {"start", "update", "stop"}, id : Ids,
                             valid : BOOLEAN])
         /\ Len(issued') <= MaxCmds
         /\ Len(issued) + 1 \in Cmds
  BY ConstantsOK DEF TypeOK, Issue, Cmds

LEMMA ClientType == TypeOK /\ ClientStep => TypeOK'
  <1> SUFFICES ASSUME TypeOK, ClientStep PROVE TypeOK'
    OBVIOUS
  <1>1. ASSUME NEW c \in Clients, addClientCommand(c) PROVE TypeOK'
    <2>1. [t |-> "add", client |-> c] \in Msg
      BY DEF Msg
    <2>2. msgs' \in Seq(Msg)
      BY <1>1, <2>1 DEF addClientCommand, TypeOK
    <2> QED
      BY <1>1, <2>2 DEF addClientCommand, TypeOK, adapterVars, modemVars
  <1>2. ASSUME NEW c \in Clients, removeClientCommand(c) PROVE TypeOK'
    <2>1. [t |-> "remove", client |-> c] \in Msg
      BY DEF Msg
    <2>2. msgs' \in Seq(Msg)
      BY <1>2, <2>1 DEF removeClientCommand, TypeOK
    <2> QED
      BY <1>2, <2>2 DEF removeClientCommand, TypeOK, adapterVars, modemVars
  <1>3. CASE configRobustLocationCommand
    <2>1. [t |-> "config"] \in Msg
      BY DEF Msg
    <2>2. msgs' \in Seq(Msg)
      BY <1>3, <2>1 DEF configRobustLocationCommand, TypeOK
    <2>3. configs' \in 0 .. MaxConfigs
      BY <1>3, ConstantsOK DEF configRobustLocationCommand, TypeOK
    <2> QED
      BY <1>3, <2>2, <2>3 DEF configRobustLocationCommand, TypeOK, adapterVars,
                              modemVars
  <1>4. ASSUME NEW id \in Ids, NEW opt \in Options, startTrackingCommand(id, opt)
        PROVE  TypeOK'
    <2>1. opt \in OptionType
      BY ConstantsOK
    <2>2. Issue("start", id, opt.size # 0)
      BY <1>4 DEF startTrackingCommand
    <2>3. [t |-> "start", id |-> id, opt |-> opt, cmd |-> Len(issued) + 1] \in Msg
      BY <2>1, <2>2, IssueType DEF Msg, Command
    <2>4. msgs' \in Seq(Msg)
      BY <1>4, <2>3 DEF startTrackingCommand, TypeOK
    <2> QED
      BY <1>4, <2>2, <2>4, IssueType
         DEF startTrackingCommand, TypeOK, adapterVars, modemVars
  <1>5. ASSUME NEW id \in Ids, NEW opt \in Options,
               updateTrackingOptionsCommand(id, opt)
        PROVE  TypeOK'
    <2>1. opt \in OptionType
      BY ConstantsOK
    <2>2. Issue("update", id, opt.size # 0)
      BY <1>5 DEF updateTrackingOptionsCommand
    <2>3. [t |-> "update", id |-> id, opt |-> opt, cmd |-> Len(issued) + 1] \in Msg
      BY <2>1, <2>2, IssueType DEF Msg, Command
    <2>4. msgs' \in Seq(Msg)
      BY <1>5, <2>3 DEF updateTrackingOptionsCommand, TypeOK
    <2> QED
      BY <1>5, <2>2, <2>4, IssueType
         DEF updateTrackingOptionsCommand, TypeOK, adapterVars, modemVars
  <1>6. ASSUME NEW id \in Ids, stopTrackingCommand(id) PROVE TypeOK'
    <2>1. Issue("stop", id, TRUE)
      BY <1>6 DEF stopTrackingCommand
    <2>2. [t |-> "stop", id |-> id, cmd |-> Len(issued) + 1] \in Msg
      BY <2>1, IssueType DEF Msg, Command
    <2>3. msgs' \in Seq(Msg)
      BY <1>6, <2>2 DEF stopTrackingCommand, TypeOK
    <2> QED
      BY <1>6, <2>1, <2>3, IssueType
         DEF stopTrackingCommand, TypeOK, adapterVars, modemVars
  <1> QED
    BY <1>1, <1>2, <1>3, <1>4, <1>5, <1>6 DEF ClientStep

\* The clients' commands: registration, removal, and messages that wait.
LEMMA RegistryType ==
  TypeOK /\ (ProcAddClient \/ ProcRemoveClientTime \/ ProcRemoveClient \/ ProcWait)
    => TypeOK'
  <1> SUFFICES ASSUME TypeOK, ProcAddClient \/ ProcRemoveClientTime
                                \/ ProcRemoveClient \/ ProcWait
               PROVE  TypeOK'
    OBVIOUS
  <1>1. CASE ProcAddClient
    <2>1. Tail(msgs) \in Seq(Msg) /\ Head(msgs).client \in Clients
      BY <1>1, HandleType, CommandType DEF ProcAddClient
    <2> QED
      BY <1>1, <2>1 DEF ProcAddClient, TypeOK, clientVars, modemVars
  <1>2. CASE ProcRemoveClientTime
    <2>1. PICK id \in TimeIds :
            /\ api' = api \o stopTimeBasedTrackingMultiplex(id, NoCmd)
            /\ eraseTrackingSession(id)
      BY <1>2 DEF ProcRemoveClientTime
    <2>2. api' \in Seq(Request)
      BY <2>1, StopMultiplexType DEF TypeOK
    <2>3. SessionsType'
      BY <2>1, SessionOptions, EraseType
    <2> QED
      BY <1>2, <2>2, <2>3, HandlerType
         DEF ProcRemoveClientTime, TypeOK, AnswersType
  <1>3. CASE ProcRemoveClient
    <2>1. Tail(msgs) \in Seq(Msg) /\ Head(msgs).client \in Clients
      BY <1>3, HandleType, CommandType DEF ProcRemoveClient
    <2>2. PICK q \in InOrder({id \in DistIds : Owner[id] = Head(msgs).client}) :
            api' = api \o [i \in DOMAIN q |->
                     [op |-> "stopDB", id |-> q[i],
                      cont |-> [k |-> "clientDistStopped", id |-> q[i],
                                cmd |-> NoCmd]]]
      BY <1>3 DEF ProcRemoveClient
    <2> DEFINE stops == [i \in DOMAIN q |->
                     [op |-> "stopDB", id |-> q[i],
                      cont |-> [k |-> "clientDistStopped", id |-> q[i],
                                cmd |-> NoCmd]]]
    <2>3. \A id \in Ids : [op |-> "stopDB", id |-> id,
                           cont |-> [k |-> "clientDistStopped", id |-> id,
                                     cmd |-> NoCmd]] \in Request
      BY DEF Request, Cont
    <2>4. {id \in DistIds : Owner[id] = Head(msgs).client} \in SUBSET Ids
      BY SessionOptions
    <2>5. /\ Cardinality({id \in DistIds : Owner[id] = Head(msgs).client}) \in Nat
          /\ DOMAIN q = 1 .. Cardinality({id \in DistIds : Owner[id] = Head(msgs).client})
          /\ \A i \in DOMAIN q : q[i] \in Ids
      BY <2>2, <2>4, InOrderType
    <2>6. stops \in Seq(Request)
      BY <2>3, <2>5, MapType
    <2>7. api' \in Seq(Request)
      <3>1. api' = api \o stops
        BY <2>2
      <3> HIDE DEF stops
      <3> QED
        BY <2>6, <3>1 DEF TypeOK
    <2>8. msgs' \in Seq(Msg) /\ clients' \subseteq Clients
      BY <1>3, <2>1 DEF ProcRemoveClient, TypeOK
    <2>9. UNCHANGED <<answers, time, dist, powerOn, capsKnown, pending,
                      clientVars, modemVars>>
      BY <1>3 DEF ProcRemoveClient
    <2> QED
      BY <2>7, <2>8, <2>9 DEF TypeOK, clientVars, modemVars
  <1>4. CASE ProcWait
    <2>1. /\ Tail(msgs) \in Seq(Msg)
          /\ Head(msgs) \in Msg /\ Head(msgs).t \in {"start", "update"}
      BY <1>4, HandleType DEF ProcWait
    <2>2. Head(msgs) \in Command
      BY <2>1, CommandType
    <2>3. pending' \in Seq(Command)
      BY <1>4, <2>2 DEF ProcWait, TypeOK
    <2> QED
      BY <1>4, <2>1, <2>3 DEF ProcWait, TypeOK, clientVars, modemVars
  <1> QED
    BY <1>1, <1>2, <1>3, <1>4

LEMMA StartType ==
  TypeOK /\ (ProcStartRejected \/ ProcStartDistance \/ ProcStartTime) => TypeOK'
  <1> SUFFICES ASSUME TypeOK, ProcStartRejected \/ ProcStartDistance \/ ProcStartTime
               PROVE  TypeOK'
    OBVIOUS
  <1> DEFINE m == Head(msgs)
  <1>1. /\ msgs' \in Seq(Msg)
        /\ m.id \in Ids /\ m.cmd \in Cmds /\ m.opt \in OptionType
    BY HandleType, CommandType
       DEF ProcStartRejected, ProcStartDistance, ProcStartTime
  <1>2. CASE ProcStartRejected
    BY <1>1, <1>2, HandlerType
       DEF ProcStartRejected, TypeOK, SessionsType, AnswersType, adapterVars
  <1>3. CASE ProcStartDistance
    <2>1. [op |-> "startDB", id |-> m.id, cont |-> Started(m.id, m.cmd)] \in Request
      BY <1>1 DEF Request, Started, Cont
    <2>2. api' \in Seq(Request)
      BY <1>3, <2>1 DEF ProcStartDistance, TypeOK
    <2>3. SessionsType'
      BY <1>1, <1>3, ClampType, SaveType DEF ProcStartDistance
    <2> QED
      BY <1>1, <1>3, <2>2, <2>3, HandlerType
         DEF ProcStartDistance, TypeOK, AnswersType
  <1>4. CASE ProcStartTime
    <2> DEFINE opt == TbmFallback(ClampInterval(m.opt))
    <2>1. opt \in OptionType
      BY <1>1, ClampType, FallbackType
    <2>2. /\ SendOrReport(startTimeBasedTrackingMultiplex(m.id, opt, m.cmd),
                          m.id, m.cmd)
          /\ saveTrackingSession(m.id, opt)
          /\ UNCHANGED <<clients, capsKnown, pending>>
          /\ UNCHANGED <<clientVars, modemVars>>
      BY <1>4 DEF ProcStartTime
    <2> HIDE DEF opt, m
    <2>3. api' \in Seq(Request) /\ AnswersType'
      BY <1>1, <2>1, <2>2, StartMultiplexType, SendType
    <2>4. SessionsType'
      BY <1>1, <2>1, <2>2, SaveType
    <2> QED
      BY <1>1, <2>2, <2>3, <2>4, HandlerType
  <1> QED
    BY <1>2, <1>3, <1>4

LEMMA UpdateType ==
  TypeOK /\ (\/ ProcUpdateRejected \/ ProcUpdateTimeToDistance
             \/ ProcUpdateDistanceToTime \/ ProcUpdateTime \/ ProcUpdateDistance)
    => TypeOK'
  <1> SUFFICES ASSUME TypeOK,
                      \/ ProcUpdateRejected \/ ProcUpdateTimeToDistance
                      \/ ProcUpdateDistanceToTime \/ ProcUpdateTime
                      \/ ProcUpdateDistance
               PROVE  TypeOK'
    OBVIOUS
  <1> DEFINE m == Head(msgs)
             opt == UpdatedOptions
  <1>1. /\ msgs' \in Seq(Msg)
        /\ m.id \in Ids /\ m.cmd \in Cmds /\ m.opt \in OptionType
    BY HandleType, CommandType
       DEF ProcUpdateRejected, ProcUpdateTimeToDistance, ProcUpdateDistanceToTime,
           ProcUpdateTime, ProcUpdateDistance, UpdateAccepted
  <1>2. opt \in OptionType
    BY <1>1, ClampType, FallbackType DEF UpdatedOptions
  <1>3. CASE ProcUpdateRejected
    <2>1. AnswersType'
      BY <1>1, <1>3, ReportType DEF ProcUpdateRejected
    <2> QED
      BY <1>1, <1>3, <2>1, HandlerType
         DEF ProcUpdateRejected, TypeOK, SessionsType, adapterVars
  <1>4. CASE ProcUpdateTimeToDistance
    <2> DEFINE reqs == stopTimeBasedTrackingMultiplex(m.id, m.cmd)
               start == [op |-> "startDB", id |-> m.id, cont |-> [k |-> "ignore"]]
    <2>1. m.id \in TimeIds
      BY <1>4 DEF ProcUpdateTimeToDistance, UpdateAccepted
    <2>2. /\ api' = Append(api \o reqs, start)
          /\ IF reqs = << >> THEN reportResponse(m.id, m.cmd) ELSE UNCHANGED answers
          /\ time' = [time EXCEPT ![m.id] = IF IsDistance(opt) THEN None ELSE opt]
          /\ dist' = [dist EXCEPT ![m.id] = IF IsDistance(opt) THEN opt ELSE @]
          /\ reportPowerStateIfChanged
          /\ UNCHANGED <<clients, capsKnown, pending>>
          /\ UNCHANGED <<clientVars, modemVars>>
      BY <1>4 DEF ProcUpdateTimeToDistance
    <2>3. reqs \in Seq(Request) /\ start \in Request
      BY <1>1, <2>1, StopMultiplexType DEF Request, Cont
    <2> HIDE DEF reqs, start, opt, m
    <2>4. api' \in Seq(Request)
      BY <2>2, <2>3 DEF TypeOK
    <2>5. AnswersType'
      BY <1>1, <2>2, ReportType DEF AnswersType, TypeOK
    <2>6. SessionsType'
      BY <1>1, <1>2, <2>2 DEF SessionsType, TypeOK, reportPowerStateIfChanged
    <2> QED
      BY <1>1, <2>2, <2>4, <2>5, <2>6, HandlerType
  <1>5. CASE ProcUpdateDistanceToTime
    <2> DEFINE stop == [op |-> "stopDB", id |-> m.id,
                        cont |-> [k |-> "switched", id |-> m.id, cmd |-> m.cmd,
                                  opt |-> opt]]
    <2>1. stop \in Request
      BY <1>1, <1>2, ContTypes DEF Request
    <2>2. /\ eraseTrackingSession(m.id)
          /\ api' = Append(api, stop)
          /\ UNCHANGED <<answers, clients, capsKnown, pending>>
          /\ UNCHANGED <<clientVars, modemVars>>
      BY <1>5 DEF ProcUpdateDistanceToTime
    <2> HIDE DEF stop, opt, m
    <2>3. api' \in Seq(Request) /\ SessionsType'
      BY <1>1, <2>1, <2>2, EraseType DEF TypeOK
    <2> QED
      BY <1>1, <2>2, <2>3, HandlerType DEF TypeOK, AnswersType
  <1>6. CASE ProcUpdateTime
    <2>1. m.id \in TimeIds
      BY <1>6 DEF ProcUpdateTime, UpdateAccepted
    <2>2. /\ SendOrReport(updateTrackingMultiplex(m.id, opt, m.cmd), m.id, m.cmd)
          /\ saveTrackingSession(m.id, opt)
          /\ UNCHANGED <<clients, capsKnown, pending>>
          /\ UNCHANGED <<clientVars, modemVars>>
      BY <1>6 DEF ProcUpdateTime
    <2> HIDE DEF opt, m
    <2>3. api' \in Seq(Request) /\ AnswersType'
      BY <1>1, <1>2, <2>1, <2>2, UpdateMultiplexType, SendType
    <2>4. SessionsType'
      BY <1>1, <1>2, <2>2, SaveType
    <2> QED
      BY <1>1, <2>2, <2>3, <2>4, HandlerType
  <1>7. CASE ProcUpdateDistance
    <2> DEFINE stop == [op |-> "stopDB", id |-> m.id,
                        cont |-> [k |-> "distRestart", id |-> m.id, cmd |-> m.cmd,
                                  opt |-> opt]]
    <2>1. stop \in Request
      BY <1>1, <1>2, ContTypes DEF Request
    <2>2. /\ api' = Append(api, stop)
          /\ UNCHANGED <<answers, adapterVars>>
          /\ UNCHANGED <<clientVars, modemVars>>
      BY <1>7 DEF ProcUpdateDistance
    <2> HIDE DEF stop, opt, m
    <2>3. api' \in Seq(Request)
      BY <2>1, <2>2 DEF TypeOK
    <2> QED
      BY <1>1, <2>2, <2>3, HandlerType
         DEF TypeOK, AnswersType, SessionsType, adapterVars
  <1> QED
    BY <1>3, <1>4, <1>5, <1>6, <1>7

LEMMA StopType ==
  TypeOK /\ (ProcStopTime \/ ProcStopDistance \/ ProcStopUnknown) => TypeOK'
  <1> SUFFICES ASSUME TypeOK, ProcStopTime \/ ProcStopDistance \/ ProcStopUnknown
               PROVE  TypeOK'
    OBVIOUS
  <1> DEFINE m == Head(msgs)
  <1>1. msgs' \in Seq(Msg) /\ m.id \in Ids /\ m.cmd \in Cmds
    BY HandleType, CommandType DEF ProcStopTime, ProcStopDistance, ProcStopUnknown
  <1>2. CASE ProcStopTime
    <2>1. /\ m.id \in TimeIds
          /\ SendOrReport(stopTimeBasedTrackingMultiplex(m.id, m.cmd), m.id, m.cmd)
          /\ eraseTrackingSession(m.id)
          /\ UNCHANGED <<clients, capsKnown, pending>>
          /\ UNCHANGED <<clientVars, modemVars>>
      BY <1>2 DEF ProcStopTime
    <2> HIDE DEF m
    <2>2. api' \in Seq(Request) /\ AnswersType' /\ SessionsType'
      BY <1>1, <2>1, StopMultiplexType, SendType, EraseType
    <2> QED
      BY <1>1, <2>1, <2>2, HandlerType
  <1>3. CASE ProcStopDistance
    <2> DEFINE stop == [op |-> "stopDB", id |-> m.id,
                        cont |-> [k |-> "distStopped", id |-> m.id, cmd |-> m.cmd]]
    <2>1. stop \in Request
      BY <1>1 DEF Request, Cont
    <2>2. /\ api' = Append(api, stop)
          /\ UNCHANGED <<answers, adapterVars>>
          /\ UNCHANGED <<clientVars, modemVars>>
      BY <1>3 DEF ProcStopDistance
    <2> HIDE DEF stop, m
    <2>3. api' \in Seq(Request)
      BY <2>1, <2>2 DEF TypeOK
    <2> QED
      BY <1>1, <2>2, <2>3, HandlerType
         DEF TypeOK, AnswersType, SessionsType, adapterVars
  <1>4. CASE ProcStopUnknown
    <2>1. AnswersType'
      BY <1>1, <1>4, ReportType DEF ProcStopUnknown
    <2> QED
      BY <1>1, <1>4, <2>1, HandlerType
         DEF ProcStopUnknown, TypeOK, SessionsType, adapterVars
  <1> QED
    BY <1>2, <1>3, <1>4

LEMMA EngineType ==
  TypeOK /\ (ProcEngineUp \/ ProcConfigRobustLocation) => TypeOK'
  <1> SUFFICES ASSUME TypeOK, ProcEngineUp \/ ProcConfigRobustLocation
               PROVE  TypeOK'
    OBVIOUS
  <1>1. Tail(msgs) \in Seq(Msg)
    BY HandleType DEF ProcEngineUp, ProcConfigRobustLocation
  <1>2. pending \in Seq(Msg)
    <2>1. Command \subseteq Msg
      BY DEF Msg
    <2> QED
      BY <2>1 DEF TypeOK
  <1>3. CASE ProcEngineUp
    <2>1. api' \in Seq(Request)
      BY <1>3, RestartType DEF ProcEngineUp, TypeOK
    <2>2. msgs' \in Seq(Msg) /\ pending' \in Seq(Command)
      BY <1>1, <1>2, <1>3 DEF ProcEngineUp
    <2> QED
      BY <1>3, <2>1, <2>2 DEF ProcEngineUp, TypeOK, clientVars, modemVars
  <1>4. CASE ProcConfigRobustLocation
    <2> DEFINE stop == IF TimeIds = {} THEN << >>
                       ELSE <<[op |-> "stopFix", cont |-> NoCont]>>
    <2>1. [op |-> "stopFix", cont |-> NoCont] \in Request
      BY DEF Request
    <2>2. stop \in Seq(Request)
      BY <2>1
    <2>3. PICK reqs \in restartSessions : api' = api \o stop \o reqs
      BY <1>4 DEF ProcConfigRobustLocation
    <2> HIDE DEF stop
    <2>4. api' \in Seq(Request)
      BY <2>2, <2>3, RestartType DEF TypeOK
    <2> QED
      BY <1>1, <1>4, <2>4, HandlerType
         DEF ProcConfigRobustLocation, TypeOK, AnswersType, SessionsType, adapterVars
  <1> QED
    BY <1>3, <1>4

\* What a response finds in the continuation it carries.
LEMMA ResponseType ==
  ASSUME TypeOK, NEW k, Response(k)
  PROVE  /\ msgs' \in Seq(Msg)
         /\ TheCont \in Cont /\ TheCont.k = k
         /\ UNCHANGED <<clients, capsKnown, pending>>
         /\ UNCHANGED <<clientVars, modemVars>>
  <1>1. Handle("resp")
    BY DEF Response
  <1>2. Tail(msgs) \in Seq(Msg) /\ Head(msgs) \in Msg /\ Head(msgs).t = "resp"
    BY <1>1, HandleType
  <1> QED
    BY <1>2, CommandType DEF Response, TheCont

LEMMA ResponseFields ==
  ASSUME TypeOK, NEW k, Response(k)
  PROVE  /\ k # "ignore" => TheCont.id \in Ids /\ TheCont.cmd \in Cmds \cup {NoCmd}
         /\ k \in {"updated", "switched", "distRestart", "distRestarted"} =>
              TheCont.opt \in OptionType
              /\ [TheCont EXCEPT !.k = "distRestarted"] \in Cont
  <1>1. TheCont \in Cont /\ TheCont.k = k
    BY ResponseType
  <1> HIDE DEF TheCont
  <1> QED
    BY <1>1, ContFields

ProcResponse ==
  \/ ProcStarted \/ ProcUpdated \/ ProcStopped \/ ProcDistStopped
  \/ ProcSwitched \/ ProcDistRestart \/ ProcDistRestarted \/ ProcIgnored

LEMMA ResponsesType == TypeOK /\ ProcResponse => TypeOK'
  <1> SUFFICES ASSUME TypeOK, ProcResponse PROVE TypeOK'
    OBVIOUS
  <1> DEFINE c == TheCont
  <1>0. api \in Seq(Request)
    BY DEF TypeOK
  <1>s. UNCHANGED <<time, dist, powerOn>> => SessionsType'
    BY DEF TypeOK, SessionsType
  <1>1. CASE ProcStarted
    <2>1. Response("started")
      BY <1>1 DEF ProcStarted
    <2>2. c.id \in Ids /\ c.cmd \in Cmds \cup {NoCmd}
      BY <2>1, ResponseFields
    <2>3. SessionsType' /\ AnswersType'
      BY <1>1, <1>s, <2>2, EraseType, ReportType DEF ProcStarted
    <2> QED
      BY <1>0, <1>1, <2>1, <2>3, ResponseType, HandlerType DEF ProcStarted
  <1>2. CASE ProcUpdated
    <2>1. Response("updated")
      BY <1>2 DEF ProcUpdated
    <2>2. c.id \in Ids /\ c.cmd \in Cmds \cup {NoCmd} /\ c.opt \in OptionType
      BY <2>1, ResponseFields
    <2>3. SessionsType' /\ AnswersType'
      BY <1>2, <1>s, <2>2, SaveType, ReportType DEF ProcUpdated
    <2> QED
      BY <1>0, <1>2, <2>1, <2>3, ResponseType, HandlerType DEF ProcUpdated
  <1>3. CASE ProcStopped
    <2>1. Response("stopped")
      BY <1>3 DEF ProcStopped
    <2>2. c.id \in Ids /\ c.cmd \in Cmds \cup {NoCmd}
      BY <2>1, ResponseFields
    <2>3. SessionsType' /\ AnswersType'
      BY <1>3, <1>s, <2>2, ReportType DEF ProcStopped
    <2> QED
      BY <1>0, <1>3, <2>1, <2>3, ResponseType, HandlerType DEF ProcStopped
  <1>4. CASE ProcDistStopped
    <2>1. PICK k \in {"distStopped", "clientDistStopped"} : Response(k)
      BY <1>4 DEF ProcDistStopped
    <2>2. c.id \in Ids /\ c.cmd \in Cmds \cup {NoCmd}
      BY <2>1, ResponseFields
    <2>3. SessionsType' /\ AnswersType'
      BY <1>4, <1>s, <2>2, EraseType, ReportType DEF ProcDistStopped
    <2> QED
      BY <1>0, <1>4, <2>1, <2>3, ResponseType, HandlerType DEF ProcDistStopped
  <1>5. CASE ProcSwitched
    <2>1. Response("switched")
      BY <1>5 DEF ProcSwitched
    <2>2. c.id \in Ids /\ c.cmd \in Cmds \cup {NoCmd} /\ c.opt \in OptionType
      BY <2>1, ResponseFields
    <2>3. /\ SendOrReport(startTimeBasedTrackingMultiplex(c.id, c.opt, c.cmd),
                          c.id, c.cmd)
          /\ saveTrackingSession(c.id, c.opt)
      BY <1>5 DEF ProcSwitched
    <2>4. api' \in Seq(Request) /\ AnswersType' /\ SessionsType'
      BY <2>2, <2>3, StartMultiplexType, SendType, SaveType
    <2> QED
      BY <2>1, <2>4, ResponseType, HandlerType
  <1>6. CASE ProcDistRestart
    <2> DEFINE start == [op |-> "startDB", id |-> c.id,
                         cont |-> [c EXCEPT !.k = "distRestarted"]]
    <2>1. Response("distRestart")
      BY <1>6 DEF ProcDistRestart
    <2>2. c.id \in Ids /\ [c EXCEPT !.k = "distRestarted"] \in Cont
      BY <2>1, ResponseFields
    <2>3. start \in Request
      BY <2>2 DEF Request
    <2>4. /\ api' = IF Err THEN api ELSE Append(api, start)
          /\ UNCHANGED <<answers, time, dist, powerOn>>
      BY <1>6 DEF ProcDistRestart
    <2>5. api' \in Seq(Request)
      <3> HIDE DEF start
      <3> QED
        BY <1>0, <2>3, <2>4
    <2>6. SessionsType' /\ AnswersType'
      BY <1>s, <2>4 DEF AnswersType, TypeOK
    <2> QED
      BY <2>1, <2>5, <2>6, ResponseType, HandlerType
  <1>7. CASE ProcDistRestarted
    <2>1. Response("distRestarted")
      BY <1>7 DEF ProcDistRestarted
    <2>2. c.id \in Ids /\ c.cmd \in Cmds \cup {NoCmd} /\ c.opt \in OptionType
      BY <2>1, ResponseFields
    <2>3. SessionsType' /\ AnswersType'
      BY <1>7, <1>s, <2>2, SaveType, ReportType DEF ProcDistRestarted
    <2> QED
      BY <1>0, <1>7, <2>1, <2>3, ResponseType, HandlerType DEF ProcDistRestarted
  <1>8. CASE ProcIgnored
    <2>1. Response("ignore")
      BY <1>8 DEF ProcIgnored
    <2>2. SessionsType' /\ AnswersType'
      BY <1>8, <1>s DEF ProcIgnored, AnswersType, TypeOK
    <2> QED
      BY <1>0, <1>8, <2>1, <2>2, ResponseType, HandlerType DEF ProcIgnored
  <1> QED
    BY <1>1, <1>2, <1>3, <1>4, <1>5, <1>6, <1>7, <1>8 DEF ProcResponse

\* The modem's answer to a request.
LEMMA RespondType ==
  ASSUME TypeOK, api # << >>, Head(api).op # "open", NEW ok \in BOOLEAN,
         Respond(Head(api), ok)
  PROVE  msgs' \in Seq(Msg)
  <1>1. Head(api).cont \in Cont \cup {NoCont}
    BY RequestFields DEF TypeOK
  <1>2. CASE Head(api).cont = NoCont
    BY <1>2 DEF Respond, TypeOK
  <1>3. CASE Head(api).cont # NoCont
    <2>1. [t |-> "resp", cont |-> Head(api).cont, ok |-> ok] \in Msg
      BY <1>1, <1>3 DEF Msg
    <2> QED
      BY <1>3, <2>1 DEF Respond, TypeOK
  <1> QED
    BY <1>2, <1>3

LEMMA EffectType ==
  ASSUME TypeOK, NEW r \in Request, r.op # "open"
  PROVE  Effect(r) \in [up : BOOLEAN, tb : OptionType \cup {None}, db : SUBSET Ids]
  <1>1. engine \in [up : BOOLEAN, tb : OptionType \cup {None}, db : SUBSET Ids]
    BY DEF TypeOK
  <1>2. CASE r.op = "startTB"
    BY <1>1, <1>2, RequestFields DEF Effect
  <1>3. CASE r.op = "stopFix"
    BY <1>1, <1>3 DEF Effect
  <1>4. CASE r.op = "startDB"
    BY <1>1, <1>4, RequestFields DEF Effect
  <1>5. CASE r.op = "stopDB"
    BY <1>1, <1>5 DEF Effect
  <1> QED
    BY <1>2, <1>3, <1>4, <1>5, RequestFields

LEMMA ModemType == TypeOK /\ (LocApiStep \/ ModemCrash) => TypeOK'
  <1> SUFFICES ASSUME TypeOK, LocApiStep \/ ModemCrash PROVE TypeOK'
    OBVIOUS
  <1>1. api # << >> => Tail(api) \in Seq(Request) /\ Head(api) \in Request
    BY DEF TypeOK
  <1>2. CASE ApiSuccess
    <2>1. engine' \in [up : BOOLEAN, tb : OptionType \cup {None}, db : SUBSET Ids]
      BY <1>1, <1>2, EffectType DEF ApiSuccess
    <2>2. msgs' \in Seq(Msg)
      BY <1>2, RespondType DEF ApiSuccess
    <2> QED
      BY <1>1, <1>2, <2>1, <2>2 DEF ApiSuccess, TypeOK, adapterVars, clientVars
  <1>3. CASE ApiFailure
    <2>1. msgs' \in Seq(Msg)
      BY <1>3, RespondType DEF ApiFailure
    <2>2. fails' \in 0 .. MaxFails
      BY <1>3, ConstantsOK DEF ApiFailure, TypeOK
    <2> QED
      BY <1>1, <1>3, <2>1, <2>2 DEF ApiFailure, TypeOK, adapterVars, clientVars
  <1>4. CASE ApiOpen
    <2>1. [t |-> "engineUp"] \in Msg
      BY DEF Msg
    <2>2. msgs' \in Seq(Msg)
      BY <1>4, <2>1 DEF ApiOpen, TypeOK
    <2>3. engine' \in [up : BOOLEAN, tb : OptionType \cup {None}, db : SUBSET Ids]
      BY <1>4 DEF ApiOpen, TypeOK
    <2> QED
      BY <1>1, <1>4, <2>2, <2>3 DEF ApiOpen, TypeOK, adapterVars, clientVars
  <1>5. CASE ModemCrash
    <2>1. [op |-> "open"] \in Request
      BY DEF Request
    <2>2. api' \in Seq(Request)
      BY <1>5, <2>1 DEF ModemCrash, TypeOK
    <2>3. engine' \in [up : BOOLEAN, tb : OptionType \cup {None}, db : SUBSET Ids]
      BY <1>5 DEF ModemCrash
    <2>4. ssrs' \in 0 .. MaxSsr
      BY <1>5, ConstantsOK DEF ModemCrash, TypeOK
    <2> QED
      BY <1>5, <2>2, <2>3, <2>4 DEF ModemCrash, TypeOK, adapterVars, clientVars
  <1> QED
    BY <1>2, <1>3, <1>4, <1>5 DEF LocApiStep

LEMMA NextType == TypeOK /\ [Next]_vars => TypeOK'
  <1> SUFFICES ASSUME TypeOK, [Next]_vars PROVE TypeOK'
    OBVIOUS
  <1>1. CASE ClientStep
    BY <1>1, ClientType
  <1>2. CASE MsgTaskStep
    BY <1>2, RegistryType, StartType, UpdateType, StopType, EngineType,
       ResponsesType DEF MsgTaskStep, ProcResponse
  <1>3. CASE LocApiStep \/ ModemCrash
    BY <1>3, ModemType
  <1>4. CASE UNCHANGED vars
    BY <1>4 DEF vars, TypeOK, adapterVars, clientVars, modemVars
  <1> QED
    BY <1>1, <1>2, <1>3, <1>4 DEF Next

\* Every variable keeps its type: no handler, no lambda and no multiplexing
\* makes a request or saves options that were never asked for, for every set of
\* keys and options and whatever the modem does.
THEOREM TypeCorrect == Spec => []TypeOK
  <1> QED
    BY InitType, NextType, PTL DEF Spec

-----------------------------------------------------------------------------
(* No command is answered twice.  A command that was issued and has no     *)
(* answer is carried by at most one message or request: the command        *)
(* itself, the request made for it, or the response to that request.       *)

\* The command a message or a request is about.
MsgCmd(m) ==
  IF m.t \in {"start", "update", "stop"} THEN m.cmd
  ELSE IF m.t = "resp" /\ m.cont.k # "ignore" THEN m.cont.cmd ELSE NoCmd
ReqCmd(r) ==
  IF r.op # "open" /\ r.cont # NoCont /\ r.cont.k # "ignore"
    THEN r.cont.cmd ELSE NoCmd

MsgHas(s, n) == \E i \in DOMAIN s : MsgCmd(s[i]) = n
MsgOnce(s, n) ==
  \A i, j \in DOMAIN s : MsgCmd(s[i]) = n /\ MsgCmd(s[j]) = n => i = j
ReqHas(s, n) == \E i \in DOMAIN s : ReqCmd(s[i]) = n
ReqOnce(s, n) ==
  \A i, j \in DOMAIN s : ReqCmd(s[i]) = n /\ ReqCmd(s[j]) = n => i = j

\* At most one answer, and none while something still carries the command; a
\* command not yet issued is nowhere.
CarriedOnce(n) ==
  /\ MsgOnce(msgs, n) /\ MsgOnce(pending, n) /\ ReqOnce(api, n)
  /\ ~(MsgHas(msgs, n) /\ MsgHas(pending, n))
  /\ ~(MsgHas(msgs, n) /\ ReqHas(api, n))
  /\ ~(MsgHas(pending, n) /\ ReqHas(api, n))
  /\ answers[n] \in {0, 1}
  /\ MsgHas(msgs, n) \/ MsgHas(pending, n) \/ ReqHas(api, n) =>
       answers[n] = 0 /\ n <= Len(issued)
  /\ answers[n] = 1 => n <= Len(issued)
AnswerInv == \A n \in Cmds : CarriedOnce(n)

LEMMA MsgTail ==
  ASSUME NEW s \in Seq(Msg), s # << >>, NEW n, MsgOnce(s, n)
  PROVE  /\ MsgOnce(Tail(s), n)
         /\ MsgHas(Tail(s), n) => MsgHas(s, n) /\ MsgCmd(Head(s)) # n
         /\ MsgCmd(Head(s)) = n => MsgHas(s, n)
  <1>1. /\ \A i \in DOMAIN Tail(s) : i + 1 \in DOMAIN s /\ Tail(s)[i] = s[i + 1]
        /\ \A i \in DOMAIN Tail(s) : i \in Nat /\ i + 1 # 1
        /\ 1 \in DOMAIN s /\ Head(s) = s[1]
    OBVIOUS
  <1>2. MsgOnce(Tail(s), n)
    BY <1>1 DEF MsgOnce
  <1>3. MsgHas(Tail(s), n) => MsgHas(s, n) /\ MsgCmd(Head(s)) # n
    BY <1>1 DEF MsgOnce, MsgHas
  <1>4. MsgCmd(Head(s)) = n => MsgHas(s, n)
    BY <1>1 DEF MsgHas
  <1> QED
    BY <1>2, <1>3, <1>4

LEMMA ReqTail ==
  ASSUME NEW s \in Seq(Request), s # << >>, NEW n, ReqOnce(s, n)
  PROVE  /\ ReqOnce(Tail(s), n)
         /\ ReqHas(Tail(s), n) => ReqHas(s, n) /\ ReqCmd(Head(s)) # n
         /\ ReqCmd(Head(s)) = n => ReqHas(s, n)
  <1>1. /\ \A i \in DOMAIN Tail(s) : i + 1 \in DOMAIN s /\ Tail(s)[i] = s[i + 1]
        /\ \A i \in DOMAIN Tail(s) : i \in Nat /\ i + 1 # 1
        /\ 1 \in DOMAIN s /\ Head(s) = s[1]
    OBVIOUS
  <1>2. ReqOnce(Tail(s), n)
    BY <1>1 DEF ReqOnce
  <1>3. ReqHas(Tail(s), n) => ReqHas(s, n) /\ ReqCmd(Head(s)) # n
    BY <1>1 DEF ReqOnce, ReqHas
  <1>4. ReqCmd(Head(s)) = n => ReqHas(s, n)
    BY <1>1 DEF ReqHas
  <1> QED
    BY <1>2, <1>3, <1>4

LEMMA MsgConcat ==
  ASSUME NEW s \in Seq(Msg), NEW t \in Seq(Msg), NEW n,
         MsgOnce(s, n), MsgOnce(t, n), ~(MsgHas(s, n) /\ MsgHas(t, n))
  PROVE  /\ MsgOnce(s \o t, n)
         /\ MsgHas(s \o t, n) => MsgHas(s, n) \/ MsgHas(t, n)
  <1>1. \A i \in DOMAIN (s \o t) :
          \/ i \in DOMAIN s /\ (s \o t)[i] = s[i]
          \/ /\ i - Len(s) \in DOMAIN t /\ (s \o t)[i] = t[i - Len(s)]
             /\ i \in Int
    OBVIOUS
  <1>2. Len(s) \in Nat
    OBVIOUS
  <1>3. MsgHas(s \o t, n) => MsgHas(s, n) \/ MsgHas(t, n)
    BY <1>1 DEF MsgHas
  <1>4. ASSUME NEW i \in DOMAIN (s \o t), NEW j \in DOMAIN (s \o t),
               MsgCmd((s \o t)[i]) = n, MsgCmd((s \o t)[j]) = n
        PROVE  i = j
    <2>1. CASE i \in DOMAIN s /\ (s \o t)[i] = s[i]
      BY <1>1, <1>2, <1>4, <2>1 DEF MsgOnce, MsgHas
    <2>2. CASE i - Len(s) \in DOMAIN t /\ (s \o t)[i] = t[i - Len(s)] /\ i \in Int
      <3>1. MsgHas(t, n)
        BY <1>4, <2>2 DEF MsgHas
      <3>2. j - Len(s) \in DOMAIN t /\ (s \o t)[j] = t[j - Len(s)] /\ j \in Int
        BY <1>1, <1>4, <3>1 DEF MsgHas
      <3>3. i - Len(s) = j - Len(s)
        BY <1>4, <2>2, <3>2 DEF MsgOnce
      <3> QED
        BY <1>2, <2>2, <3>2, <3>3
    <2> QED
      BY <1>1, <2>1, <2>2
  <1> QED
    BY <1>3, <1>4 DEF MsgOnce

LEMMA ReqConcat ==
  ASSUME NEW s \in Seq(Request), NEW t \in Seq(Request), NEW n,
         ReqOnce(s, n), ReqOnce(t, n), ~(ReqHas(s, n) /\ ReqHas(t, n))
  PROVE  /\ ReqOnce(s \o t, n)
         /\ ReqHas(s \o t, n) => ReqHas(s, n) \/ ReqHas(t, n)
  <1>1. \A i \in DOMAIN (s \o t) :
          \/ i \in DOMAIN s /\ (s \o t)[i] = s[i]
          \/ /\ i - Len(s) \in DOMAIN t /\ (s \o t)[i] = t[i - Len(s)]
             /\ i \in Int
    OBVIOUS
  <1>2. Len(s) \in Nat
    OBVIOUS
  <1>3. ReqHas(s \o t, n) => ReqHas(s, n) \/ ReqHas(t, n)
    BY <1>1 DEF ReqHas
  <1>4. ASSUME NEW i \in DOMAIN (s \o t), NEW j \in DOMAIN (s \o t),
               ReqCmd((s \o t)[i]) = n, ReqCmd((s \o t)[j]) = n
        PROVE  i = j
    <2>1. CASE i \in DOMAIN s /\ (s \o t)[i] = s[i]
      BY <1>1, <1>2, <1>4, <2>1 DEF ReqOnce, ReqHas
    <2>2. CASE i - Len(s) \in DOMAIN t /\ (s \o t)[i] = t[i - Len(s)] /\ i \in Int
      <3>1. ReqHas(t, n)
        BY <1>4, <2>2 DEF ReqHas
      <3>2. j - Len(s) \in DOMAIN t /\ (s \o t)[j] = t[j - Len(s)] /\ j \in Int
        BY <1>1, <1>4, <3>1 DEF ReqHas
      <3>3. i - Len(s) = j - Len(s)
        BY <1>4, <2>2, <3>2 DEF ReqOnce
      <3> QED
        BY <1>2, <2>2, <3>2, <3>3
    <2> QED
      BY <1>1, <2>1, <2>2
  <1> QED
    BY <1>3, <1>4 DEF ReqOnce

\* A sequence of one.
LEMMA Singles ==
  /\ \A m, n : MsgOnce(<<m>>, n) /\ (MsgHas(<<m>>, n) <=> MsgCmd(m) = n)
  /\ \A r, n : ReqOnce(<<r>>, n) /\ (ReqHas(<<r>>, n) <=> ReqCmd(r) = n)
  /\ \A n : MsgOnce(<< >>, n) /\ ~MsgHas(<< >>, n)
  /\ \A n : ReqOnce(<< >>, n) /\ ~ReqHas(<< >>, n)
  BY DEF MsgOnce, MsgHas, ReqOnce, ReqHas

LEMMA AppendLast ==
  ASSUME NEW s \in Seq(Request), NEW t \in Seq(Request), NEW e \in Request
  PROVE  t \o <<e>> \in Seq(Request) /\ Append(s \o t, e) = s \o (t \o <<e>>)
  <1>1. <<e>> \in Seq(Request) /\ s \o t \in Seq(Request)
    OBVIOUS
  <1>2. Append(s \o t, e) = (s \o t) \o <<e>>
    BY <1>1, AppendIsConcat
  <1> QED
    BY <1>1, <1>2, ConcatAssociative

\* Requests made for one command, or for none.
OneFor(reqs, cmd) ==
  Len(reqs) <= 1 /\ \A i \in DOMAIN reqs : ReqCmd(reqs[i]) = cmd
IdleRequests(reqs) == \A i \in DOMAIN reqs : ReqCmd(reqs[i]) = NoCmd

LEMMA OneForOnce ==
  ASSUME NEW reqs \in Seq(Request), NEW cmd, OneFor(reqs, cmd), NEW n
  PROVE  ReqOnce(reqs, n) /\ (ReqHas(reqs, n) => n = cmd)
  BY DEF OneFor, ReqOnce, ReqHas

LEMMA IdleNowhere ==
  ASSUME NEW reqs \in Seq(Request), IdleRequests(reqs), NEW n \in Cmds
  PROVE  ReqOnce(reqs, n) /\ ~ReqHas(reqs, n)
  BY ConstantsOK DEF IdleRequests, ReqOnce, ReqHas, Cmds, NoCmd

LEMMA StartTBCmd ==
  ASSUME NEW opt, NEW id, NEW cmd, NEW old
  PROVE  /\ OneFor(<<StartTB(opt, Started(id, cmd))>>, cmd)
         /\ OneFor(<<StartTB(opt, [k |-> "updated", id |-> id, cmd |-> cmd,
                                   opt |-> old])>>, cmd)
         /\ OneFor(<<[op |-> "stopFix",
                      cont |-> [k |-> "stopped", id |-> id, cmd |-> cmd]]>>, cmd)
         /\ OneFor(<< >>, cmd)
  BY DEF OneFor, ReqCmd, StartTB, Started, NoCont

LEMMA MultiplexOne ==
  ASSUME NEW id, NEW opt, NEW cmd
  PROVE  /\ OneFor(startTimeBasedTrackingMultiplex(id, opt, cmd), cmd)
         /\ OneFor(updateTrackingMultiplex(id, opt, cmd), cmd)
         /\ OneFor(stopTimeBasedTrackingMultiplex(id, cmd), cmd)
  <1>1. OneFor(startTimeBasedTrackingMultiplex(id, opt, cmd), cmd)
    BY StartTBCmd, Zenon DEF startTimeBasedTrackingMultiplex
  <1>2. OneFor(updateTrackingMultiplex(id, opt, cmd), cmd)
    BY StartTBCmd, Zenon DEF updateTrackingMultiplex
  <1>3. OneFor(stopTimeBasedTrackingMultiplex(id, cmd), cmd)
    BY StartTBCmd, Zenon DEF stopTimeBasedTrackingMultiplex
  <1> QED
    BY <1>1, <1>2, <1>3

LEMMA ReportOne ==
  ASSUME TypeOK, NEW id, NEW cmd \in Cmds \cup {NoCmd}, reportResponse(id, cmd)
  PROVE  \A n \in Cmds : \/ answers'[n] = answers[n]
                         \/ answers'[n] = answers[n] + 1 /\ n = cmd
  BY DEF TypeOK, reportResponse

\* A handler takes the command out of the queue, and answers it, hands it on in
\* one request, or forgets it.
LEMMA HandledOnce ==
  ASSUME TypeOK, AnswerInv, msgs # << >>, msgs' = Tail(msgs),
         NEW cmd, cmd = MsgCmd(Head(msgs)),
         NEW reqs \in Seq(Request), api' = api \o reqs,
         \A n \in Cmds : ReqOnce(reqs, n) /\ (ReqHas(reqs, n) => n = cmd),
         \A n \in Cmds :
           \/ answers'[n] = answers[n]
           \/ answers'[n] = answers[n] + 1 /\ n = cmd /\ ~ReqHas(reqs, n),
         UNCHANGED <<pending, issued>>
  PROVE  AnswerInv'
  <1> SUFFICES ASSUME NEW n \in Cmds PROVE CarriedOnce(n)'
    BY DEF AnswerInv
  <1>1. CarriedOnce(n)
    BY DEF AnswerInv
  <1>2. msgs \in Seq(Msg) /\ api \in Seq(Request)
    BY DEF TypeOK
  <1>3. /\ MsgOnce(msgs', n)
        /\ MsgHas(msgs', n) => MsgHas(msgs, n) /\ cmd # n
        /\ cmd = n => MsgHas(msgs, n)
    BY <1>1, <1>2, MsgTail DEF CarriedOnce
  <1>4. ~(ReqHas(api, n) /\ ReqHas(reqs, n))
    BY <1>1, <1>3 DEF CarriedOnce
  <1>5. /\ ReqOnce(api', n)
        /\ ReqHas(api', n) => ReqHas(api, n) \/ ReqHas(reqs, n)
    BY <1>1, <1>2, <1>4, ReqConcat DEF CarriedOnce
  <1> QED
    BY <1>1, <1>3, <1>5 DEF CarriedOnce

\* The shared end of most handlers.
LEMMA SentOnce ==
  ASSUME TypeOK, AnswerInv, msgs # << >>, msgs' = Tail(msgs),
         NEW cmd \in Cmds \cup {NoCmd}, cmd = MsgCmd(Head(msgs)), NEW id,
         NEW reqs \in Seq(Request), OneFor(reqs, cmd),
         SendOrReport(reqs, id, cmd), UNCHANGED <<pending, issued>>
  PROVE  AnswerInv'
  <1>1. api' = api \o reqs
    BY DEF SendOrReport
  <1>2. \A n \in Cmds : ReqOnce(reqs, n) /\ (ReqHas(reqs, n) => n = cmd)
    BY OneForOnce
  <1>3. \A n \in Cmds :
          \/ answers'[n] = answers[n]
          \/ answers'[n] = answers[n] + 1 /\ n = cmd /\ ~ReqHas(reqs, n)
    BY ReportOne, Singles DEF SendOrReport
  <1> QED
    BY <1>1, <1>2, <1>3, HandledOnce

\* A handler that sends nothing and may answer.
LEMMA AnsweredOnce ==
  ASSUME TypeOK, AnswerInv, msgs # << >>, msgs' = Tail(msgs),
         NEW cmd \in Cmds \cup {NoCmd}, cmd = MsgCmd(Head(msgs)), NEW id,
         reportResponse(id, cmd) \/ UNCHANGED answers,
         UNCHANGED <<api, pending, issued>>
  PROVE  AnswerInv'
  <1> DEFINE reqs == << >>
  <1>1. reqs \in Seq(Request) /\ api' = api \o reqs
    BY DEF TypeOK
  <1>2. \A n \in Cmds :
          \/ answers'[n] = answers[n]
          \/ answers'[n] = answers[n] + 1 /\ n = cmd /\ ~ReqHas(reqs, n)
    BY ReportOne, Singles
  <1>3. \A n \in Cmds : ReqOnce(reqs, n) /\ (ReqHas(reqs, n) => n = cmd)
    BY Singles
  <1>4. UNCHANGED <<pending, issued>>
    OBVIOUS
  <1> HIDE DEF reqs
  <1> QED
    BY SMTT(30), <1>1, <1>2, <1>3, <1>4, HandledOnce

\* A handler that hands the command on, in one request.
LEMMA PassedOnce ==
  ASSUME TypeOK, AnswerInv, msgs # << >>, msgs' = Tail(msgs),
         NEW cmd, cmd = MsgCmd(Head(msgs)), NEW r \in Request, ReqCmd(r) = cmd,
         api' = Append(api, r), UNCHANGED <<answers, pending, issued>>
  PROVE  AnswerInv'
  <1> DEFINE reqs == <<r>>
  <1>1. reqs \in Seq(Request) /\ api' = api \o reqs
    BY DEF TypeOK
  <1>2. \A n \in Cmds : ReqOnce(reqs, n) /\ (ReqHas(reqs, n) => n = cmd)
    BY Singles
  <1>3. \A n \in Cmds :
          \/ answers'[n] = answers[n]
          \/ answers'[n] = answers[n] + 1 /\ n = cmd /\ ~ReqHas(reqs, n)
    OBVIOUS
  <1> HIDE DEF reqs
  <1> QED
    BY <1>1, <1>2, <1>3, HandledOnce

-----------------------------------------------------------------------------
(* One step at a time.                                                     *)

LEMMA InitOnce == Init => AnswerInv
  <1> SUFFICES ASSUME Init, NEW n \in Cmds PROVE CarriedOnce(n)
    BY DEF AnswerInv
  <1>1. ~ReqHas(api, n) /\ ReqOnce(api, n)
    BY ConstantsOK DEF Init, ReqHas, ReqOnce, ReqCmd, Cmds, NoCmd
  <1>2. MsgOnce(msgs, n) /\ MsgOnce(pending, n) /\ ~MsgHas(msgs, n)
        /\ ~MsgHas(pending, n)
    BY DEF Init, MsgHas, MsgOnce
  <1> QED
    BY <1>1, <1>2 DEF Init, CarriedOnce

\* A message that is posted carries no command, or one just issued.
LEMMA PostedOnce ==
  ASSUME TypeOK, AnswerInv, NEW m \in Msg, msgs' = Append(msgs, m),
         UNCHANGED <<api, answers, pending>>,
         \/ MsgCmd(m) = NoCmd /\ UNCHANGED issued
         \/ MsgCmd(m) = Len(issued) + 1 /\ Len(issued') = Len(issued) + 1
  PROVE  AnswerInv'
  <1> SUFFICES ASSUME NEW n \in Cmds PROVE CarriedOnce(n)'
    BY DEF AnswerInv
  <1>1. CarriedOnce(n)
    BY DEF AnswerInv
  <1> DEFINE q == <<m>>
  <1>2. /\ msgs \in Seq(Msg) /\ q \in Seq(Msg) /\ msgs' = msgs \o q
        /\ MsgOnce(q, n) /\ (MsgHas(q, n) <=> MsgCmd(m) = n)
    BY Singles DEF TypeOK
  <1>c. Len(issued) \in Nat /\ n \in Nat /\ n # NoCmd
    BY ConstantsOK DEF TypeOK, Cmds, NoCmd
  <1>3. MsgCmd(m) = n =>
          ~MsgHas(msgs, n) /\ ~MsgHas(pending, n) /\ ~ReqHas(api, n)
          /\ answers[n] = 0 /\ n <= Len(issued')
    BY <1>1, <1>c DEF CarriedOnce
  <1>4. /\ MsgOnce(msgs', n)
        /\ MsgHas(msgs', n) => MsgHas(msgs, n) \/ MsgCmd(m) = n
    <2> HIDE DEF q
    <2> QED
      BY <1>1, <1>2, <1>3, MsgConcat DEF CarriedOnce
  <1>5. Len(issued) <= Len(issued')
    BY <1>c
  <1>6. n <= Len(issued) => n <= Len(issued')
    BY <1>c, <1>5
  <1> QED
    BY <1>1, <1>3, <1>4, <1>6, <1>c DEF CarriedOnce

LEMMA ClientOnce == TypeOK /\ AnswerInv /\ ClientStep => AnswerInv'
  <1> SUFFICES ASSUME TypeOK, AnswerInv, ClientStep PROVE AnswerInv'
    OBVIOUS
  <1>1. ASSUME NEW c \in Clients, addClientCommand(c) \/ removeClientCommand(c)
        PROVE  AnswerInv'
    <2>1. PICK t \in {"add", "remove"} : msgs' = Append(msgs, [t |-> t, client |-> c])
      BY <1>1 DEF addClientCommand, removeClientCommand
    <2>2. [t |-> t, client |-> c] \in Msg /\ MsgCmd([t |-> t, client |-> c]) = NoCmd
      BY DEF Msg, MsgCmd
    <2>3. UNCHANGED <<api, answers, pending, issued>>
      BY <1>1 DEF addClientCommand, removeClientCommand, adapterVars
    <2> QED
      BY <2>1, <2>2, <2>3, PostedOnce
  <1>2. CASE configRobustLocationCommand
    <2>1. [t |-> "config"] \in Msg /\ MsgCmd([t |-> "config"]) = NoCmd
      BY DEF Msg, MsgCmd
    <2>2. /\ msgs' = Append(msgs, [t |-> "config"])
          /\ UNCHANGED <<api, answers, pending, issued>>
      BY <1>2 DEF configRobustLocationCommand, adapterVars
    <2> QED
      BY <2>1, <2>2, PostedOnce
  <1>3. ASSUME NEW op \in {"start", "update", "stop"}, NEW id \in Ids,
               NEW valid \in BOOLEAN, Issue(op, id, valid), NEW m \in Msg,
               MsgCmd(m) = Len(issued) + 1, msgs' = Append(msgs, m),
               UNCHANGED <<api, answers, pending>>
        PROVE  AnswerInv'
    <2>1. Len(issued') = Len(issued) + 1
      BY <1>3 DEF Issue, TypeOK
    <2> QED
      BY <1>3, <2>1, PostedOnce
  <1>4. ASSUME NEW id \in Ids, NEW opt \in Options,
               startTrackingCommand(id, opt) \/ updateTrackingOptionsCommand(id, opt)
        PROVE  AnswerInv'
    <2>1. PICK t \in {"start", "update"} :
            /\ Issue(t, id, opt.size # 0)
            /\ msgs' = Append(msgs, [t |-> t, id |-> id, opt |-> opt,
                                     cmd |-> Len(issued) + 1])
            /\ UNCHANGED <<api, answers, pending>>
      BY <1>4 DEF startTrackingCommand, updateTrackingOptionsCommand, adapterVars
    <2> DEFINE m == [t |-> t, id |-> id, opt |-> opt, cmd |-> Len(issued) + 1]
    <2>2. Len(issued) + 1 \in Cmds /\ opt \in OptionType
      BY <2>1, IssueType, ConstantsOK
    <2>3. m \in Msg
      BY <2>2 DEF Msg, Command
    <2>4. MsgCmd(m) = Len(issued) + 1
      BY DEF MsgCmd
    <2> QED
      BY <1>3, <2>1, <2>3, <2>4
  <1>5. ASSUME NEW id \in Ids, stopTrackingCommand(id) PROVE AnswerInv'
    <2> DEFINE m == [t |-> "stop", id |-> id, cmd |-> Len(issued) + 1]
    <2>1. /\ Issue("stop", id, TRUE)
          /\ msgs' = Append(msgs, m)
          /\ UNCHANGED <<api, answers, pending>>
      BY <1>5 DEF stopTrackingCommand, adapterVars
    <2>2. Len(issued) + 1 \in Cmds
      BY <2>1, IssueType
    <2>3. m \in Msg
      BY <2>2 DEF Msg, Command
    <2>4. MsgCmd(m) = Len(issued) + 1
      BY DEF MsgCmd
    <2> QED
      BY <1>3, <2>1, <2>3, <2>4
  <1> QED
    BY <1>1, <1>2, <1>4, <1>5 DEF ClientStep

\* The command of the message in front.
LEMMA HeadCmd ==
  ASSUME TypeOK
  PROVE  /\ \A t \in {"start", "update", "stop"} : Handle(t) =>
              /\ msgs # << >> /\ MsgCmd(Head(msgs)) = Head(msgs).cmd
              /\ Head(msgs).cmd \in Cmds /\ Head(msgs).id \in Ids
         /\ \A t \in {"add", "remove", "engineUp", "config"} : Handle(t) =>
              msgs # << >> /\ MsgCmd(Head(msgs)) = NoCmd
         /\ \A k : Response(k) =>
              /\ msgs # << >>
              /\ k # "ignore" => MsgCmd(Head(msgs)) = TheCont.cmd
              /\ k = "ignore" => MsgCmd(Head(msgs)) = NoCmd
  <1>1. \A t : Handle(t) => msgs # << >> /\ Head(msgs).t = t /\ Head(msgs) \in Msg
    BY HandleType DEF Handle
  <1>2. \A t \in {"start", "update", "stop"} : Handle(t) =>
          /\ MsgCmd(Head(msgs)) = Head(msgs).cmd
          /\ Head(msgs).cmd \in Cmds /\ Head(msgs).id \in Ids
    BY <1>1, CommandType DEF MsgCmd
  <1>3. \A t \in {"add", "remove", "engineUp", "config"} : Handle(t) =>
          MsgCmd(Head(msgs)) = NoCmd
    BY <1>1 DEF MsgCmd
  <1>4. \A k : Response(k) =>
          /\ msgs # << >>
          /\ k # "ignore" => MsgCmd(Head(msgs)) = TheCont.cmd
          /\ k = "ignore" => MsgCmd(Head(msgs)) = NoCmd
    BY <1>1 DEF Response, MsgCmd, TheCont
  <1> QED
    BY <1>1, <1>2, <1>3, <1>4

\* Requests nobody waits for leave the commands alone, whether a message is
\* taken or not.
LEMMA SentIdle ==
  ASSUME TypeOK, AnswerInv, NEW reqs \in Seq(Request), IdleRequests(reqs),
         api' = api \o reqs, UNCHANGED <<msgs, answers, pending, issued>>
  PROVE  AnswerInv'
  <1> SUFFICES ASSUME NEW n \in Cmds PROVE CarriedOnce(n)'
    BY DEF AnswerInv
  <1>1. CarriedOnce(n)
    BY DEF AnswerInv
  <1>2. ReqOnce(reqs, n) /\ ~ReqHas(reqs, n)
    BY IdleNowhere
  <1>3. ReqOnce(api', n) /\ (ReqHas(api', n) => ReqHas(api, n))
    BY <1>1, <1>2, ReqConcat DEF CarriedOnce, TypeOK
  <1> QED
    BY <1>1, <1>3 DEF CarriedOnce

LEMMA HandledIdle ==
  ASSUME TypeOK, AnswerInv, msgs # << >>, msgs' = Tail(msgs),
         NEW reqs \in Seq(Request), IdleRequests(reqs), api' = api \o reqs,
         UNCHANGED <<answers, pending, issued>>
  PROVE  AnswerInv'
  <1> DEFINE cmd == MsgCmd(Head(msgs))
  <1>1. \A n \in Cmds : ReqOnce(reqs, n) /\ (ReqHas(reqs, n) => n = cmd)
    BY IdleNowhere
  <1>2. \A n \in Cmds :
          \/ answers'[n] = answers[n]
          \/ answers'[n] = answers[n] + 1 /\ n = cmd /\ ~ReqHas(reqs, n)
    OBVIOUS
  <1>3. cmd = MsgCmd(Head(msgs))
    OBVIOUS
  <1> HIDE DEF cmd
  <1> QED
    BY <1>1, <1>2, <1>3, HandledOnce

LEMMA ClientStopsIdle ==
  ASSUME TypeOK, NEW c,
         NEW q \in InOrder({id \in DistIds : Owner[id] = c})
  PROVE  LET reqs == [i \in DOMAIN q |->
                       [op |-> "stopDB", id |-> q[i],
                        cont |-> [k |-> "clientDistStopped", id |-> q[i],
                                  cmd |-> NoCmd]]]
         IN  reqs \in Seq(Request) /\ IdleRequests(reqs)
  <1> DEFINE S == {id \in DistIds : Owner[id] = c}
             reqs == [i \in DOMAIN q |->
                       [op |-> "stopDB", id |-> q[i],
                        cont |-> [k |-> "clientDistStopped", id |-> q[i],
                                  cmd |-> NoCmd]]]
  <1>1. \A id \in Ids : [op |-> "stopDB", id |-> id,
                         cont |-> [k |-> "clientDistStopped", id |-> id,
                                   cmd |-> NoCmd]] \in Request
    BY DEF Request, Cont
  <1>2. S \in SUBSET Ids
    BY SessionOptions
  <1>3. /\ Cardinality(S) \in Nat /\ DOMAIN q = 1 .. Cardinality(S)
        /\ \A i \in DOMAIN q : q[i] \in Ids
    BY <1>2, InOrderType
  <1>4. reqs \in Seq(Request)
    BY <1>1, <1>3, MapType
  <1>5. IdleRequests(reqs)
    BY DEF IdleRequests, ReqCmd
  <1> QED
    BY <1>4, <1>5

LEMMA RegistryOnce ==
  TypeOK /\ AnswerInv
    /\ (ProcAddClient \/ ProcRemoveClientTime \/ ProcRemoveClient \/ ProcWait)
    => AnswerInv'
  <1> SUFFICES ASSUME TypeOK, AnswerInv, ProcAddClient \/ ProcRemoveClientTime
                                         \/ ProcRemoveClient \/ ProcWait
               PROVE  AnswerInv'
    OBVIOUS
  <1>1. CASE ProcAddClient
    <2>1. msgs # << >> /\ NoCmd = MsgCmd(Head(msgs))
      BY <1>1, HeadCmd DEF ProcAddClient
    <2> QED
      BY <1>1, <2>1, AnsweredOnce DEF ProcAddClient, clientVars
  <1>2. CASE ProcRemoveClientTime
    <2>1. PICK id \in TimeIds :
            api' = api \o stopTimeBasedTrackingMultiplex(id, NoCmd)
      BY <1>2 DEF ProcRemoveClientTime
    <2> DEFINE reqs == stopTimeBasedTrackingMultiplex(id, NoCmd)
    <2>2. reqs \in Seq(Request) /\ IdleRequests(reqs)
      BY StopMultiplexType, MultiplexOne DEF OneFor, IdleRequests
    <2>3. UNCHANGED <<msgs, answers, pending, issued>> /\ api' = api \o reqs
      BY <1>2, <2>1 DEF ProcRemoveClientTime, clientVars
    <2> HIDE DEF reqs
    <2> QED
      BY <2>2, <2>3, SentIdle
  <1>3. CASE ProcRemoveClient
    <2>1. PICK q \in InOrder({id \in DistIds : Owner[id] = Head(msgs).client}) :
            api' = api \o [i \in DOMAIN q |->
                     [op |-> "stopDB", id |-> q[i],
                      cont |-> [k |-> "clientDistStopped", id |-> q[i],
                                cmd |-> NoCmd]]]
      BY <1>3 DEF ProcRemoveClient
    <2> DEFINE reqs == [i \in DOMAIN q |->
                     [op |-> "stopDB", id |-> q[i],
                      cont |-> [k |-> "clientDistStopped", id |-> q[i],
                                cmd |-> NoCmd]]]
    <2>2. reqs \in Seq(Request) /\ IdleRequests(reqs)
      BY ClientStopsIdle
    <2>3. msgs # << >> /\ NoCmd = MsgCmd(Head(msgs))
      BY <1>3, HeadCmd DEF ProcRemoveClient
    <2>4. msgs' = Tail(msgs) /\ UNCHANGED <<answers, pending, issued>>
          /\ api' = api \o reqs
      BY <1>3, <2>1 DEF ProcRemoveClient, clientVars
    <2> HIDE DEF reqs
    <2> QED
      BY <2>2, <2>3, <2>4, HandledIdle
  <1>4. CASE ProcWait
    <2> SUFFICES ASSUME NEW n \in Cmds PROVE CarriedOnce(n)'
      BY DEF AnswerInv
    <2> DEFINE m == Head(msgs)
               q == <<m>>
    <2>1. CarriedOnce(n)
      BY DEF AnswerInv
    <2>2. msgs # << >> /\ m.t \in {"start", "update"} /\ m \in Msg /\ m \in Command
      BY <1>4, HandleType, CommandType DEF ProcWait, Handle
    <2>3. /\ pending \in Seq(Msg) /\ q \in Seq(Msg) /\ pending' = pending \o q
          /\ MsgOnce(q, n) /\ (MsgHas(q, n) <=> MsgCmd(m) = n)
      <3>1. pending \in Seq(Command) /\ Command \subseteq Msg
        BY DEF TypeOK, Msg
      <3>2. pending' = pending \o q
        <4>1. pending' = Append(pending, m)
          BY <1>4 DEF ProcWait
        <4> HIDE DEF m
        <4> QED
          BY <3>1, <4>1
      <3> QED
        BY <2>2, <3>1, <3>2, Singles
    <2>4. /\ MsgOnce(Tail(msgs), n)
          /\ MsgHas(Tail(msgs), n) => MsgHas(msgs, n) /\ MsgCmd(m) # n
          /\ MsgCmd(m) = n => MsgHas(msgs, n)
      BY <2>1, <2>2, MsgTail DEF CarriedOnce, TypeOK
    <2>5. /\ MsgOnce(pending', n)
          /\ MsgHas(pending', n) => MsgHas(pending, n) \/ MsgCmd(m) = n
      <3> HIDE DEF q, m
      <3> QED
        BY <2>1, <2>3, <2>4, MsgConcat DEF CarriedOnce
    <2>6. msgs' = Tail(msgs) /\ UNCHANGED <<api, answers, issued>>
      BY <1>4 DEF ProcWait, clientVars
    <2> HIDE DEF m
    <2> QED
      BY <2>1, <2>4, <2>5, <2>6 DEF CarriedOnce
  <1> QED
    BY <1>1, <1>2, <1>3, <1>4

LEMMA StartOnce ==
  TypeOK /\ AnswerInv /\ (ProcStartRejected \/ ProcStartDistance \/ ProcStartTime)
    => AnswerInv'
  <1> SUFFICES ASSUME TypeOK, AnswerInv,
                      ProcStartRejected \/ ProcStartDistance \/ ProcStartTime
               PROVE  AnswerInv'
    OBVIOUS
  <1> DEFINE m == Head(msgs)
  <1>1. /\ msgs # << >> /\ msgs' = Tail(msgs)
        /\ m.cmd \in Cmds /\ m.cmd = MsgCmd(Head(msgs)) /\ m.id \in Ids
        /\ m.opt \in OptionType
        /\ UNCHANGED <<pending, issued>>
    BY HeadCmd, HandleType, CommandType
       DEF ProcStartRejected, ProcStartDistance, ProcStartTime, clientVars, adapterVars
  <1>2. CASE ProcStartRejected
    BY <1>1, <1>2, AnsweredOnce DEF ProcStartRejected
  <1>3. CASE ProcStartDistance
    <2> DEFINE r == [op |-> "startDB", id |-> m.id, cont |-> Started(m.id, m.cmd)]
    <2>1. r \in Request /\ ReqCmd(r) = m.cmd
      BY <1>1 DEF Request, Started, Cont, ReqCmd, NoCont
    <2>2. api' = Append(api, r) /\ UNCHANGED answers
      BY <1>3 DEF ProcStartDistance
    <2> HIDE DEF r, m
    <2> QED
      BY <1>1, <2>1, <2>2, PassedOnce
  <1>4. CASE ProcStartTime
    <2> DEFINE opt == TbmFallback(ClampInterval(m.opt))
               reqs == startTimeBasedTrackingMultiplex(m.id, opt, m.cmd)
    <2>1. SendOrReport(reqs, m.id, m.cmd)
      BY <1>4 DEF ProcStartTime
    <2>2. opt \in OptionType
      BY <1>1, ClampType, FallbackType
    <2>3. reqs \in Seq(Request) /\ OneFor(reqs, m.cmd)
      <3> HIDE DEF opt
      <3> QED
        BY <1>1, <2>2, StartMultiplexType, MultiplexOne
    <2> HIDE DEF reqs, m
    <2> QED
      BY <1>1, <2>1, <2>3, SentOnce
  <1> QED
    BY <1>2, <1>3, <1>4

LEMMA UpdateOnce ==
  TypeOK /\ AnswerInv
    /\ (\/ ProcUpdateRejected \/ ProcUpdateTimeToDistance
        \/ ProcUpdateDistanceToTime \/ ProcUpdateTime \/ ProcUpdateDistance)
    => AnswerInv'
  <1> SUFFICES ASSUME TypeOK, AnswerInv,
                      \/ ProcUpdateRejected \/ ProcUpdateTimeToDistance
                      \/ ProcUpdateDistanceToTime \/ ProcUpdateTime
                      \/ ProcUpdateDistance
               PROVE  AnswerInv'
    OBVIOUS
  <1> DEFINE m == Head(msgs)
             opt == UpdatedOptions
  <1>1. Handle("update")
    BY DEF ProcUpdateRejected, ProcUpdateTimeToDistance, ProcUpdateDistanceToTime,
           ProcUpdateTime, ProcUpdateDistance, UpdateAccepted
  <1>2. /\ msgs # << >> /\ m.cmd \in Cmds /\ m.cmd = MsgCmd(Head(msgs))
        /\ m.id \in Ids /\ m.opt \in OptionType
    BY <1>1, HeadCmd, HandleType, CommandType
  <1>3. msgs' = Tail(msgs) /\ UNCHANGED <<pending, issued>>
    BY DEF ProcUpdateRejected, ProcUpdateTimeToDistance, ProcUpdateDistanceToTime,
           ProcUpdateTime, ProcUpdateDistance, clientVars, adapterVars
  <1>4. opt \in OptionType
    BY <1>2, ClampType, FallbackType DEF UpdatedOptions
  <1>5. CASE ProcUpdateRejected
    BY <1>2, <1>3, <1>5, AnsweredOnce DEF ProcUpdateRejected
  <1>6. CASE ProcUpdateTimeToDistance
    <2> DEFINE reqs == stopTimeBasedTrackingMultiplex(m.id, m.cmd)
               start == [op |-> "startDB", id |-> m.id, cont |-> [k |-> "ignore"]]
               both == reqs \o <<start>>
    <2>1. /\ api' = Append(api \o reqs, start)
          /\ IF reqs = << >> THEN reportResponse(m.id, m.cmd) ELSE UNCHANGED answers
          /\ m.id \in TimeIds
      BY <1>6 DEF ProcUpdateTimeToDistance, UpdateAccepted
    <2>2. reqs \in Seq(Request) /\ OneFor(reqs, m.cmd)
      BY <1>2, <2>1, StopMultiplexType, MultiplexOne
    <2>3. start \in Request /\ ReqCmd(start) = NoCmd
      BY <1>2 DEF Request, Cont, ReqCmd
    <2> HIDE DEF reqs, start, m
    <2>4. both \in Seq(Request) /\ api' = api \o both
      <3>1. api \in Seq(Request)
        BY DEF TypeOK
      <3>2. /\ reqs \o <<start>> \in Seq(Request)
            /\ Append(api \o reqs, start) = api \o (reqs \o <<start>>)
        BY <2>2, <2>3, <3>1, AppendLast, Zenon
      <3> QED
        BY <2>1, <3>2
    <2>5. ASSUME NEW n \in Cmds
          PROVE  ReqOnce(both, n) /\ (ReqHas(both, n) => ReqHas(reqs, n) /\ n = m.cmd)
      <3> DEFINE last == <<start>>
      <3>1. last \in Seq(Request) /\ ReqOnce(last, n) /\ ~ReqHas(last, n)
        BY <2>3, ConstantsOK, Singles DEF Cmds, NoCmd
      <3>2. ReqOnce(reqs, n) /\ (ReqHas(reqs, n) => n = m.cmd)
        BY <2>2, OneForOnce
      <3>3. both = reqs \o last
        OBVIOUS
      <3> HIDE DEF last, both
      <3> QED
        BY <2>2, <3>1, <3>2, <3>3, ReqConcat
    <2>6. \A n \in Cmds :
            \/ answers'[n] = answers[n]
            \/ answers'[n] = answers[n] + 1 /\ n = m.cmd /\ ~ReqHas(both, n)
      <3>1. CASE reqs = << >>
        <4>1. \A n \in Cmds : ~ReqHas(both, n)
          BY <2>5, <3>1, Singles
        <4> QED
          BY <1>2, <2>1, <3>1, <4>1, ReportOne
      <3>2. CASE reqs # << >>
        BY <2>1, <3>2
      <3> QED
        BY <3>1, <3>2
    <2>7. \A n \in Cmds : ReqOnce(both, n) /\ (ReqHas(both, n) => n = m.cmd)
      BY <2>5
    <2> HIDE DEF both
    <2> QED
      BY SMTT(30), <1>2, <1>3, <2>4, <2>6, <2>7, HandledOnce
  <1>7. CASE ProcUpdateDistanceToTime
    <2> DEFINE stop == [op |-> "stopDB", id |-> m.id,
                        cont |-> [k |-> "switched", id |-> m.id, cmd |-> m.cmd,
                                  opt |-> opt]]
    <2>1. stop \in Request /\ ReqCmd(stop) = m.cmd
      BY <1>2, <1>4, ContTypes DEF Request, ReqCmd, NoCont
    <2>2. api' = Append(api, stop) /\ UNCHANGED answers
      BY <1>7 DEF ProcUpdateDistanceToTime
    <2> HIDE DEF stop, m
    <2> QED
      BY <1>2, <1>3, <2>1, <2>2, PassedOnce
  <1>8. CASE ProcUpdateTime
    <2> DEFINE reqs == updateTrackingMultiplex(m.id, opt, m.cmd)
    <2>1. SendOrReport(reqs, m.id, m.cmd) /\ m.id \in TimeIds
      BY <1>8 DEF ProcUpdateTime, UpdateAccepted
    <2>2. reqs \in Seq(Request) /\ OneFor(reqs, m.cmd)
      BY <1>2, <1>4, <2>1, UpdateMultiplexType, MultiplexOne
    <2> HIDE DEF reqs, m
    <2> QED
      BY <1>2, <1>3, <2>1, <2>2, SentOnce
  <1>9. CASE ProcUpdateDistance
    <2> DEFINE stop == [op |-> "stopDB", id |-> m.id,
                        cont |-> [k |-> "distRestart", id |-> m.id, cmd |-> m.cmd,
                                  opt |-> opt]]
    <2>1. stop \in Request /\ ReqCmd(stop) = m.cmd
      BY <1>2, <1>4, ContTypes DEF Request, ReqCmd, NoCont
    <2>2. api' = Append(api, stop) /\ UNCHANGED answers
      BY <1>9 DEF ProcUpdateDistance
    <2> HIDE DEF stop, m
    <2> QED
      BY <1>2, <1>3, <2>1, <2>2, PassedOnce
  <1> QED
    BY <1>5, <1>6, <1>7, <1>8, <1>9

LEMMA StopOnce ==
  TypeOK /\ AnswerInv /\ (ProcStopTime \/ ProcStopDistance \/ ProcStopUnknown)
    => AnswerInv'
  <1> SUFFICES ASSUME TypeOK, AnswerInv,
                      ProcStopTime \/ ProcStopDistance \/ ProcStopUnknown
               PROVE  AnswerInv'
    OBVIOUS
  <1> DEFINE m == Head(msgs)
  <1>1. /\ msgs # << >> /\ msgs' = Tail(msgs)
        /\ m.cmd \in Cmds /\ m.cmd = MsgCmd(Head(msgs)) /\ m.id \in Ids
        /\ UNCHANGED <<pending, issued>>
    BY HeadCmd DEF ProcStopTime, ProcStopDistance, ProcStopUnknown, clientVars,
                   adapterVars
  <1>2. CASE ProcStopTime
    <2> DEFINE reqs == stopTimeBasedTrackingMultiplex(m.id, m.cmd)
    <2>1. SendOrReport(reqs, m.id, m.cmd) /\ m.id \in TimeIds
      BY <1>2 DEF ProcStopTime
    <2>2. reqs \in Seq(Request) /\ OneFor(reqs, m.cmd)
      BY <1>1, <2>1, StopMultiplexType, MultiplexOne
    <2> HIDE DEF reqs, m
    <2> QED
      BY <1>1, <2>1, <2>2, SentOnce
  <1>3. CASE ProcStopDistance
    <2> DEFINE stop == [op |-> "stopDB", id |-> m.id,
                        cont |-> [k |-> "distStopped", id |-> m.id, cmd |-> m.cmd]]
    <2>1. stop \in Request /\ ReqCmd(stop) = m.cmd
      BY <1>1 DEF Request, Cont, ReqCmd, NoCont
    <2>2. api' = Append(api, stop) /\ UNCHANGED answers
      BY <1>3 DEF ProcStopDistance
    <2> HIDE DEF stop, m
    <2> QED
      BY <1>1, <2>1, <2>2, PassedOnce
  <1>4. CASE ProcStopUnknown
    BY <1>1, <1>4, AnsweredOnce DEF ProcStopUnknown
  <1> QED
    BY <1>2, <1>3, <1>4

LEMMA RestartIdle ==
  ASSUME TypeOK, NEW reqs \in restartSessions
  PROVE  IdleRequests(reqs)
  <1> DEFINE first == checkAndRestartTimeBasedSession
  <1>1. first \in Seq(Request) /\ IdleRequests(first)
    <2>1. IdleRequests(first)
      BY DEF checkAndRestartTimeBasedSession, IdleRequests, ReqCmd, StartTB
    <2> QED
      BY <2>1, CheckRestartType
  <1>2. PICK q \in InOrder(DistIds) :
          reqs = first \o [i \in DOMAIN q |-> [op |-> "startDB", id |-> q[i],
                                               cont |-> [k |-> "ignore"]]]
    BY DEF restartSessions
  <1> DEFINE rest == [i \in DOMAIN q |-> [op |-> "startDB", id |-> q[i],
                                          cont |-> [k |-> "ignore"]]]
  <1>3. rest \in Seq(Request) /\ IdleRequests(rest)
    <2>1. \A id \in Ids : [op |-> "startDB", id |-> id, cont |-> [k |-> "ignore"]]
                            \in Request
      BY DEF Request, Cont
    <2>2. rest \in Seq(Request)
      BY <2>1, InOrderType, SessionOptions, MapType
    <2>3. IdleRequests(rest)
      BY DEF IdleRequests, ReqCmd
    <2> QED
      BY <2>2, <2>3
  <1>4. reqs = first \o rest
    BY <1>2
  <1> HIDE DEF first, rest
  <1> QED
    BY <1>1, <1>3, <1>4 DEF IdleRequests

\* What waited for the engine goes to the end of the queue; the sessions are
\* restarted for nobody.
LEMMA EngineUpOnce == TypeOK /\ AnswerInv /\ ProcEngineUp => AnswerInv'
  <1> SUFFICES ASSUME TypeOK, AnswerInv, ProcEngineUp, NEW n \in Cmds
               PROVE  CarriedOnce(n)'
    BY DEF AnswerInv
  <1>1. CarriedOnce(n)
    BY DEF AnswerInv
  <1>2. msgs # << >> /\ MsgCmd(Head(msgs)) = NoCmd
    BY HeadCmd DEF ProcEngineUp
  <1>3. msgs \in Seq(Msg) /\ Tail(msgs) \in Seq(Msg) /\ api \in Seq(Request)
    BY <1>2 DEF TypeOK
  <1>4. pending \in Seq(Msg)
    <2>1. Command \subseteq Msg
      BY DEF Msg
    <2> QED
      BY <2>1 DEF TypeOK
  <1>5. PICK reqs \in restartSessions : api' = api \o reqs
    BY DEF ProcEngineUp
  <1>6. ReqOnce(reqs, n) /\ ~ReqHas(reqs, n) /\ reqs \in Seq(Request)
    BY RestartType, RestartIdle, IdleNowhere
  <1>7. ReqOnce(api', n) /\ (ReqHas(api', n) => ReqHas(api, n))
    BY <1>1, <1>3, <1>5, <1>6, ReqConcat DEF CarriedOnce
  <1>8. MsgOnce(Tail(msgs), n) /\ (MsgHas(Tail(msgs), n) => MsgHas(msgs, n))
    BY <1>1, <1>2, <1>3, MsgTail DEF CarriedOnce
  <1>9. /\ msgs' = Tail(msgs) \o pending /\ pending' = << >>
        /\ UNCHANGED <<answers, issued>>
    BY DEF ProcEngineUp, clientVars
  <1>10. /\ MsgOnce(msgs', n)
         /\ MsgHas(msgs', n) => MsgHas(msgs, n) \/ MsgHas(pending, n)
    BY <1>1, <1>3, <1>4, <1>8, <1>9, MsgConcat DEF CarriedOnce
  <1>11. MsgOnce(pending', n) /\ ~MsgHas(pending', n)
    BY <1>9, Singles
  <1> QED
    BY <1>1, <1>7, <1>9, <1>10, <1>11 DEF CarriedOnce

LEMMA ConfigOnce == TypeOK /\ AnswerInv /\ ProcConfigRobustLocation => AnswerInv'
  <1> SUFFICES ASSUME TypeOK, AnswerInv, ProcConfigRobustLocation
               PROVE  AnswerInv'
    OBVIOUS
  <1> DEFINE stop == IF TimeIds = {} THEN << >>
                     ELSE <<[op |-> "stopFix", cont |-> NoCont]>>
  <1>1. stop \in Seq(Request) /\ IdleRequests(stop)
    <2>1. [op |-> "stopFix", cont |-> NoCont] \in Request
      BY DEF Request
    <2>2. ReqCmd([op |-> "stopFix", cont |-> NoCont]) = NoCmd
      BY DEF ReqCmd
    <2> HIDE DEF NoCont
    <2> QED
      BY <2>1, <2>2 DEF IdleRequests
  <1>2. PICK reqs \in restartSessions : api' = api \o stop \o reqs
    BY DEF ProcConfigRobustLocation
  <1>3. reqs \in Seq(Request) /\ IdleRequests(reqs)
    BY RestartType, RestartIdle
  <1>4. msgs # << >> /\ msgs' = Tail(msgs) /\ UNCHANGED <<answers, pending, issued>>
    BY DEF ProcConfigRobustLocation, Handle, adapterVars, clientVars
  <1> DEFINE both == stop \o reqs
  <1> HIDE DEF stop
  <1>5. both \in Seq(Request) /\ api' = api \o both
    <2>1. api \in Seq(Request)
      BY DEF TypeOK
    <2>2. (api \o stop) \o reqs = api \o (stop \o reqs)
      BY <1>1, <1>3, <2>1, ConcatAssociative
    <2>3. stop \o reqs \in Seq(Request)
      BY <1>1, <1>3
    <2> QED
      BY <1>2, <2>2, <2>3
  <1>6. IdleRequests(both)
    BY <1>1, <1>3 DEF IdleRequests
  <1> HIDE DEF both
  <1> QED
    BY <1>4, <1>5, <1>6, HandledIdle

LEMMA ResponsesOnce == TypeOK /\ AnswerInv /\ ProcResponse => AnswerInv'
  <1> SUFFICES ASSUME TypeOK, AnswerInv, ProcResponse PROVE AnswerInv'
    OBVIOUS
  <1> DEFINE c == TheCont
  <1>1. \A k : Response(k) =>
          /\ msgs # << >> /\ msgs' = Tail(msgs) /\ UNCHANGED <<pending, issued>>
          /\ k # "ignore" => /\ c.cmd = MsgCmd(Head(msgs)) /\ c.id \in Ids
                             /\ c.cmd \in Cmds \cup {NoCmd}
          /\ k = "ignore" => NoCmd = MsgCmd(Head(msgs))
    BY HeadCmd, ResponseFields DEF Response, clientVars
  <1>2. CASE ProcStarted \/ ProcUpdated \/ ProcStopped \/ ProcDistStopped
               \/ ProcDistRestarted
    <2>1. PICK k : Response(k) /\ k # "ignore"
      BY <1>2 DEF ProcStarted, ProcUpdated, ProcStopped, ProcDistStopped,
                  ProcDistRestarted
    <2>2. reportResponse(c.id, c.cmd) /\ UNCHANGED api
      BY <1>2 DEF ProcStarted, ProcUpdated, ProcStopped, ProcDistStopped,
                  ProcDistRestarted
    <2> HIDE DEF c
    <2> QED
      BY <1>1, <2>1, <2>2, AnsweredOnce
  <1>3. CASE ProcIgnored
    <2>1. Response("ignore") /\ UNCHANGED <<api, answers>>
      BY <1>3 DEF ProcIgnored
    <2> QED
      BY <1>1, <2>1, AnsweredOnce
  <1>4. CASE ProcSwitched
    <2> DEFINE reqs == startTimeBasedTrackingMultiplex(c.id, c.opt, c.cmd)
    <2>1. Response("switched") /\ SendOrReport(reqs, c.id, c.cmd)
      BY <1>4 DEF ProcSwitched
    <2>2. c.opt \in OptionType
      BY <2>1, ResponseFields
    <2>3. reqs \in Seq(Request) /\ OneFor(reqs, c.cmd)
      BY <1>1, <2>1, <2>2, StartMultiplexType, MultiplexOne
    <2> HIDE DEF reqs, c
    <2> QED
      BY <1>1, <2>1, <2>3, SentOnce
  <1>5. CASE ProcDistRestart
    <2> DEFINE start == [op |-> "startDB", id |-> c.id,
                         cont |-> [c EXCEPT !.k = "distRestarted"]]
    <2>1. Response("distRestart") /\ UNCHANGED answers
      BY <1>5 DEF ProcDistRestart
    <2>2. api' = IF Err THEN api ELSE Append(api, start)
      BY <1>5 DEF ProcDistRestart
    <2>3. c \in Cont /\ c.k = "distRestart" /\ c.id \in Ids
          /\ [c EXCEPT !.k = "distRestarted"] \in Cont
      BY <2>1, ResponseType, ResponseFields
    <2>4. start \in Request
      BY <2>3 DEF Request
    <2>5. ReqCmd(start) = c.cmd
      <3> HIDE DEF c
      <3> QED
        BY <2>3 DEF Cont, ReqCmd, NoCont
    <2> HIDE DEF start, c
    <2>6. CASE Err
      BY <1>1, <2>1, <2>2, <2>6, AnsweredOnce
    <2>7. CASE ~Err
      BY <1>1, <2>1, <2>2, <2>4, <2>5, <2>7, PassedOnce
    <2> QED
      BY <2>6, <2>7
  <1> QED
    BY <1>2, <1>3, <1>4, <1>5 DEF ProcResponse

\* A request that is executed, or rejected, becomes its response.
LEMMA RespondOnce ==
  ASSUME TypeOK, AnswerInv, api # << >>, Head(api).op # "open",
         NEW ok \in BOOLEAN, Respond(Head(api), ok), api' = Tail(api),
         UNCHANGED <<answers, pending, issued>>
  PROVE  AnswerInv'
  <1> SUFFICES ASSUME NEW n \in Cmds PROVE CarriedOnce(n)'
    BY DEF AnswerInv
  <1> DEFINE r == Head(api)
             resp == [t |-> "resp", cont |-> r.cont, ok |-> ok]
  <1>1. CarriedOnce(n)
    BY DEF AnswerInv
  <1>2. msgs \in Seq(Msg) /\ api \in Seq(Request) /\ r \in Request
    BY DEF TypeOK
  <1>3. /\ ReqOnce(api', n)
        /\ ReqHas(api', n) => ReqHas(api, n) /\ ReqCmd(r) # n
        /\ ReqCmd(r) = n => ReqHas(api, n)
    BY <1>1, <1>2, ReqTail DEF CarriedOnce
  <1>4. CASE r.cont = NoCont
    <2>1. msgs' = msgs
      BY <1>4 DEF Respond
    <2> QED
      BY <1>1, <1>3, <2>1 DEF CarriedOnce
  <1>5. CASE r.cont # NoCont
    <2>1. resp \in Msg
      BY <1>2, <1>5, RequestFields DEF Msg
    <2>2. MsgCmd(resp) = ReqCmd(r)
      BY <1>5 DEF MsgCmd, ReqCmd
    <2>3. msgs' = Append(msgs, resp)
      BY <1>5 DEF Respond
    <2> HIDE DEF resp, r
    <2>4. msgs' = msgs \o <<resp>> /\ <<resp>> \in Seq(Msg)
      BY <1>2, <2>1, <2>3, AppendIsConcat
    <2>5. MsgOnce(<<resp>>, n) /\ (MsgHas(<<resp>>, n) <=> ReqCmd(r) = n)
      BY <2>2, Singles
    <2>6. /\ MsgOnce(msgs', n)
          /\ MsgHas(msgs', n) => MsgHas(msgs, n) \/ ReqCmd(r) = n
      BY <1>1, <1>2, <1>3, <2>4, <2>5, MsgConcat DEF CarriedOnce
    <2> QED
      BY <1>1, <1>3, <2>6 DEF CarriedOnce
  <1> QED
    BY <1>4, <1>5

LEMMA ModemOnce ==
  TypeOK /\ AnswerInv /\ (LocApiStep \/ ModemCrash) => AnswerInv'
  <1> SUFFICES ASSUME TypeOK, AnswerInv, LocApiStep \/ ModemCrash
               PROVE  AnswerInv'
    OBVIOUS
  <1>1. CASE ApiSuccess
    BY <1>1, RespondOnce DEF ApiSuccess, adapterVars, clientVars
  <1>2. CASE ApiFailure
    BY <1>2, RespondOnce DEF ApiFailure, adapterVars, clientVars
  <1>3. CASE ApiOpen
    <2> DEFINE up == [t |-> "engineUp"]
    <2> SUFFICES ASSUME NEW n \in Cmds PROVE CarriedOnce(n)'
      BY DEF AnswerInv
    <2>1. CarriedOnce(n)
      BY DEF AnswerInv
    <2>2. up \in Msg /\ MsgCmd(up) # n
      BY ConstantsOK DEF Msg, MsgCmd, NoCmd, Cmds
    <2>3. /\ msgs' = Append(msgs, up) /\ api' = Tail(api) /\ api # << >>
          /\ UNCHANGED <<answers, pending, issued>>
      BY <1>3 DEF ApiOpen, adapterVars, clientVars
    <2>4. ReqOnce(api', n) /\ (ReqHas(api', n) => ReqHas(api, n))
      BY <2>1, <2>3, ReqTail DEF CarriedOnce, TypeOK
    <2> HIDE DEF up
    <2>5. msgs' = msgs \o <<up>> /\ <<up>> \in Seq(Msg)
      BY <2>2, <2>3, AppendIsConcat DEF TypeOK
    <2>6. MsgOnce(<<up>>, n) /\ ~MsgHas(<<up>>, n)
      BY <2>2, Singles
    <2>7. MsgOnce(msgs', n) /\ (MsgHas(msgs', n) => MsgHas(msgs, n))
      BY <2>1, <2>5, <2>6, MsgConcat DEF CarriedOnce, TypeOK
    <2> QED
      BY <2>1, <2>3, <2>4, <2>7 DEF CarriedOnce
  <1>4. CASE ModemCrash
    <2> DEFINE reqs == <<[op |-> "open"]>>
    <2>1. [op |-> "open"] \in Request
      BY DEF Request
    <2>2. reqs \in Seq(Request) /\ IdleRequests(reqs)
      BY <2>1 DEF IdleRequests, ReqCmd
    <2>3. api' = api \o reqs /\ UNCHANGED <<msgs, answers, pending, issued>>
      BY <1>4, <2>1, AppendIsConcat DEF ModemCrash, TypeOK, adapterVars, clientVars
    <2> HIDE DEF reqs
    <2> QED
      BY <2>2, <2>3, SentIdle
  <1> QED
    BY <1>1, <1>2, <1>3, <1>4 DEF LocApiStep

LEMMA NextOnce == TypeOK /\ AnswerInv /\ [Next]_vars => AnswerInv'
  <1> SUFFICES ASSUME TypeOK, AnswerInv, [Next]_vars PROVE AnswerInv'
    OBVIOUS
  <1>1. CASE ClientStep
    BY <1>1, ClientOnce
  <1>2. CASE MsgTaskStep
    BY <1>2, RegistryOnce, StartOnce, UpdateOnce, StopOnce, EngineUpOnce,
       ConfigOnce, ResponsesOnce DEF MsgTaskStep, ProcResponse
  <1>3. CASE LocApiStep \/ ModemCrash
    BY <1>3, ModemOnce
  <1>4. CASE UNCHANGED vars
    BY <1>4 DEF vars, AnswerInv, CarriedOnce, adapterVars, clientVars
  <1> QED
    BY <1>1, <1>2, <1>3, <1>4 DEF Next

\* No command is answered twice, however many clients there are, whatever the
\* modem rejects and whenever it crashes: the answer of a handler, that of the
\* lambda it hands to LocApi and that of a message put back by handleEngineUp
\* exclude each other.
THEOREM NeverAnsweredTwice == Spec => []AnsweredAtMostOnce
  <1>1. AnswerInv => AnsweredAtMostOnce
    BY DEF AnswerInv, CarriedOnce, AnsweredAtMostOnce
  <1>2. Init => TypeOK /\ AnswerInv
    BY InitType, InitOnce
  <1>3. TypeOK /\ AnswerInv /\ [Next]_vars => TypeOK' /\ AnswerInv'
    BY NextType, NextOnce
  <1> QED
    BY <1>1, <1>2, <1>3, PTL DEF Spec

-----------------------------------------------------------------------------
(* The engine serves the time based sessions.  A request about the engine's *)
(* session sets what it runs; what counts when the queue has drained is the *)
(* last one of them, unless the modem is to be opened again, after which    *)
(* the adapter starts over.                                                 *)

Covers(run, opt) == run # None /\ run.minInterval <= opt.minInterval
Serves(run, f) == \A id \in Ids : f[id] # None => Covers(run, f[id])
SetsRun(r) == r.op \in {"startTB", "stopFix"}
Runs == OptionType \cup {None}
RunOf(r) == IF r.op = "startTB" THEN r.opt ELSE None
SetsNone(q) == \A i \in DOMAIN q : ~SetsRun(q[i])
LastSet(q, i) == SetsRun(q[i]) /\ \A j \in DOMAIN q : SetsRun(q[j]) => j <= i
EndsServing(q, run, f) ==
  /\ SetsNone(q) => Serves(run, f)
  /\ \A i \in DOMAIN q : LastSet(q, i) => Serves(RunOf(q[i]), f)

HasOpen(q) == \E i \in DOMAIN q : q[i].op = "open"
HasUp(s) == \E i \in DOMAIN s : s[i].t = "engineUp"
Failed(m) == m.t = "resp" /\ ~m.ok

\* Options that ask for a distance are saved as those of a distance based session.
ContSaves(c) ==
  c # NoCont /\ c.k \in {"distRestart", "distRestarted"} => IsDistance(c.opt)
MsgSaves(m) ==
  /\ m.t \in {"start", "update"} => (m.opt.distance => DistanceSupported)
  /\ m.t = "resp" => ContSaves(m.cont)
ReqSaves(r) == r.op # "open" => ContSaves(r.cont)
SavesInv ==
  /\ \A i \in DOMAIN msgs : MsgSaves(msgs[i])
  /\ \A i \in DOMAIN pending : MsgSaves(pending[i])
  /\ \A i \in DOMAIN api : ReqSaves(api[i])

\* A request that failed was served by a modem that was down: its response comes
\* before the message that restarts everything.
FailedInv ==
  /\ engine.up \/ HasOpen(api)
  /\ fails = 0 =>
       \A i \in DOMAIN msgs : Failed(msgs[i]) =>
         HasOpen(api) \/ \E j \in DOMAIN msgs : i < j /\ msgs[j].t = "engineUp"
ServingInv ==
  fails = 0 => HasOpen(api) \/ HasUp(msgs) \/ EndsServing(api, engine.tb, time)
ServeInv == SavesInv /\ FailedInv /\ ServingInv

DistanceAsked == DistanceSupported \/ \A opt \in Options : ~opt.distance

LEMMA ConcatPlaces ==
  ASSUME NEW S, NEW q \in Seq(S), NEW t \in Seq(S)
  PROVE  /\ q \o t \in Seq(S) /\ Len(q) \in Nat
         /\ \A i \in DOMAIN q : i \in DOMAIN (q \o t) /\ (q \o t)[i] = q[i] /\ i \in Nat /\ i <= Len(q)
         /\ \A k \in DOMAIN t : /\ Len(q) + k \in DOMAIN (q \o t) /\ k \in Nat /\ 1 <= k
                                /\ (q \o t)[Len(q) + k] = t[k]
         /\ \A i \in DOMAIN (q \o t) :
              \/ i \in DOMAIN q /\ (q \o t)[i] = q[i]
              \/ \E k \in DOMAIN t : i = Len(q) + k /\ (q \o t)[i] = t[k]
  <1>1. /\ q \o t \in Seq(S) /\ Len(q) \in Nat /\ Len(t) \in Nat /\ Len(q \o t) = Len(q) + Len(t)
        /\ DOMAIN q = 1 .. Len(q) /\ DOMAIN t = 1 .. Len(t)
        /\ DOMAIN (q \o t) = 1 .. Len(q) + Len(t)
    OBVIOUS
  <1>2. \A i \in 1 .. Len(q) + Len(t) :
          (q \o t)[i] = IF i <= Len(q) THEN q[i] ELSE t[i - Len(q)]
    OBVIOUS
  <1>3. \A i \in 1 .. Len(q) + Len(t) : ~(i <= Len(q)) =>
          i - Len(q) \in DOMAIN t /\ i = Len(q) + (i - Len(q))
    BY <1>1
  <1>4. \A k \in DOMAIN t : k \in Nat /\ 1 <= k /\ ~(Len(q) + k <= Len(q)) /\ (Len(q) + k) - Len(q) = k
                            /\ Len(q) + k \in 1 .. Len(q) + Len(t)
    BY <1>1
  <1>5. \A i \in DOMAIN (q \o t) :
              \/ i \in DOMAIN q /\ (q \o t)[i] = q[i]
              \/ \E k \in DOMAIN t : i = Len(q) + k /\ (q \o t)[i] = t[k]
    <2> TAKE i \in DOMAIN (q \o t)
    <2>1. CASE i <= Len(q)
      BY <1>1, <1>2, <2>1
    <2>2. CASE ~(i <= Len(q))
      <3>1. (q \o t)[i] = t[i - Len(q)] /\ i - Len(q) \in DOMAIN t /\ i = Len(q) + (i - Len(q))
        BY <1>1, <1>2, <1>3, <2>2
      <3> QED
        BY <3>1
    <2> QED
      BY <2>1, <2>2
  <1>6. \A i \in DOMAIN q : i \in DOMAIN (q \o t) /\ (q \o t)[i] = q[i] /\ i \in Nat /\ i <= Len(q)
    BY <1>1, <1>2
  <1>7. \A k \in DOMAIN t : (q \o t)[Len(q) + k] = t[k] /\ Len(q) + k \in DOMAIN (q \o t)
    BY <1>1, <1>2, <1>4
  <1> QED
    BY <1>1, <1>4, <1>5, <1>6, <1>7

LEMMA ConcatMembers ==
  ASSUME NEW S, NEW q \in Seq(S), NEW t \in Seq(S), NEW b, b = q \o t
  PROVE  /\ b \in Seq(S)
         /\ \A i \in DOMAIN q : i \in DOMAIN b /\ b[i] = q[i]
         /\ \A i \in DOMAIN b : \/ i \in DOMAIN q /\ b[i] = q[i]
                                \/ \E k \in DOMAIN t : b[i] = t[k]
  <1>1. /\ b \in Seq(S) /\ Len(q) \in Nat /\ Len(t) \in Nat
        /\ DOMAIN q = 1 .. Len(q) /\ DOMAIN t = 1 .. Len(t)
        /\ DOMAIN b = 1 .. Len(q) + Len(t)
    OBVIOUS
  <1>2. \A i \in 1 .. Len(q) + Len(t) : b[i] = IF i <= Len(q) THEN q[i] ELSE t[i - Len(q)]
    OBVIOUS
  <1>3. \A i \in 1 .. Len(q) + Len(t) : ~(i <= Len(q)) => i - Len(q) \in 1 .. Len(t)
    BY <1>1
  <1>4. \A i \in 1 .. Len(q) : i <= Len(q) /\ i \in 1 .. Len(q) + Len(t)
    BY <1>1
  <1>5. \A i \in 1 .. Len(q) + Len(t) : i <= Len(q) => i \in 1 .. Len(q)
    BY <1>1
  <1>6. ASSUME NEW i \in DOMAIN b
        PROVE  (i \in DOMAIN q /\ b[i] = q[i]) \/ \E k \in DOMAIN t : b[i] = t[k]
    <2>1. CASE i <= Len(q)
      BY <1>1, <1>2, <1>5, <1>6, <2>1, Zenon
    <2>2. CASE ~(i <= Len(q))
      BY <1>1, <1>2, <1>3, <1>6, <2>2, Zenon
    <2> QED
      BY <2>1, <2>2
  <1>7. \A i \in DOMAIN q : i \in DOMAIN b /\ b[i] = q[i]
    BY <1>1, <1>2, <1>4, Zenon
  <1> QED
    BY <1>1, <1>6, <1>7

LEMMA ReqMembers ==
  ASSUME NEW q \in Seq(Request), NEW t \in Seq(Request), NEW b, b = q \o t
  PROVE  /\ b \in Seq(Request)
         /\ \A i \in DOMAIN q : i \in DOMAIN b /\ b[i] = q[i]
         /\ \A i \in DOMAIN b : \/ i \in DOMAIN q /\ b[i] = q[i]
                                \/ \E k \in DOMAIN t : b[i] = t[k]
  BY ConcatMembers

LEMMA MsgMembers ==
  ASSUME NEW q \in Seq(Msg), NEW t \in Seq(Msg), NEW b, b = q \o t
  PROVE  /\ b \in Seq(Msg)
         /\ \A i \in DOMAIN q : i \in DOMAIN b /\ b[i] = q[i]
         /\ \A i \in DOMAIN b : \/ i \in DOMAIN q /\ b[i] = q[i]
                                \/ \E k \in DOMAIN t : b[i] = t[k]
  BY ConcatMembers

LEMMA AppendMembers ==
  ASSUME NEW S, NEW q \in Seq(S), NEW e \in S, NEW b, b = Append(q, e)
  PROVE  /\ \A i \in DOMAIN q : i \in DOMAIN b /\ b[i] = q[i]
         /\ \A i \in DOMAIN b : (i \in DOMAIN q /\ b[i] = q[i]) \/ b[i] = e
  OBVIOUS

LEMMA PendingType ==
  ASSUME TypeOK
  PROVE  /\ pending \in Seq(Msg)
         /\ \A k \in DOMAIN pending : pending[k].t # "resp"
  <1>1. Command \subseteq Msg
    BY DEF Msg
  <1>2. \A m \in Command : m.t # "resp"
    BY DEF Command
  <1> QED
    BY <1>1, <1>2 DEF TypeOK

LEMMA TailPlaces ==
  ASSUME NEW S, NEW q \in Seq(S), q # << >>
  PROVE  /\ Tail(q) \in Seq(S) /\ 1 \in DOMAIN q /\ Head(q) = q[1] /\ Head(q) \in S
         /\ \A i \in DOMAIN Tail(q) : /\ i \in Nat /\ 1 <= i /\ i + 1 \in DOMAIN q
                                      /\ Tail(q)[i] = q[i + 1]
         /\ \A i \in DOMAIN q : i # 1 => /\ i \in Nat /\ i - 1 \in DOMAIN Tail(q)
                                         /\ Tail(q)[i - 1] = q[i]
  OBVIOUS

\* Requests that do not set the run leave it to those before them; others decide.
LEMMA EndsAfter ==
  ASSUME NEW q \in Seq(Request), NEW t \in Seq(Request), NEW run \in Runs, NEW f, NEW g,
         \/ SetsNone(t) /\ EndsServing(q, run, f) /\ \A e \in Runs : Serves(e, f) => Serves(e, g)
         \/ \E k \in DOMAIN t : LastSet(t, k) /\ Serves(RunOf(t[k]), g)
  PROVE  EndsServing(q \o t, run, g)
  <1> DEFINE b == q \o t
             n == Len(q)
  <1>1. /\ n \in Nat
        /\ \A i \in DOMAIN q : i \in DOMAIN b /\ b[i] = q[i] /\ i \in Nat /\ i <= n
        /\ \A k \in DOMAIN t : n + k \in DOMAIN b /\ k \in Nat /\ 1 <= k /\ b[n + k] = t[k]
        /\ \A i \in DOMAIN b : \/ i \in DOMAIN q /\ b[i] = q[i]
                               \/ \E k \in DOMAIN t : i = n + k /\ b[i] = t[k]
    BY ConcatPlaces
  <1> SUFFICES EndsServing(b, run, g)
    OBVIOUS
  <1> HIDE DEF b, n
  <1>2. CASE SetsNone(t) /\ EndsServing(q, run, f) /\ \A e \in Runs : Serves(e, f) => Serves(e, g)
    <2>0. \A i \in DOMAIN q : RunOf(q[i]) \in Runs
      BY RequestFields DEF RunOf, Runs
    <2>1. SetsNone(b) => SetsNone(q)
      BY <1>1 DEF SetsNone
    <2>2. \A i \in DOMAIN b : LastSet(b, i) => i \in DOMAIN q /\ LastSet(q, i) /\ b[i] = q[i]
      <3> SUFFICES ASSUME NEW i \in DOMAIN b, LastSet(b, i)
                   PROVE  i \in DOMAIN q /\ LastSet(q, i) /\ b[i] = q[i]
        OBVIOUS
      <3>1. SetsRun(b[i]) /\ \A j \in DOMAIN b : SetsRun(b[j]) => j <= i
        BY DEF LastSet
      <3>2. i \in DOMAIN q /\ b[i] = q[i]
        BY <1>1, <1>2, <3>1 DEF SetsNone
      <3>3. \A j \in DOMAIN q : SetsRun(q[j]) => j <= i
        BY <1>1, <3>1
      <3> QED
        BY <3>1, <3>2, <3>3 DEF LastSet
    <2> QED
      BY <1>2, <2>0, <2>1, <2>2 DEF EndsServing
  <1>3. CASE \E k \in DOMAIN t : LastSet(t, k) /\ Serves(RunOf(t[k]), g)
    <2>1. PICK k \in DOMAIN t : LastSet(t, k) /\ Serves(RunOf(t[k]), g)
      BY <1>3
    <2>2. /\ n + k \in DOMAIN b /\ SetsRun(b[n + k]) /\ b[n + k] = t[k] /\ k \in Nat /\ 1 <= k
          /\ \A j \in DOMAIN t : SetsRun(t[j]) => j <= k
      BY <1>1, <2>1 DEF LastSet
    <2>3. ASSUME NEW i \in DOMAIN b, LastSet(b, i)
          PROVE  Serves(RunOf(b[i]), g)
      <3>1. n + k <= i /\ SetsRun(b[i])
        BY <2>2, <2>3 DEF LastSet
      <3>2. i \notin DOMAIN q
        <4>1. i \in DOMAIN q => i \in Nat /\ i <= n
          BY <1>1
        <4> QED
          BY <1>1, <2>2, <3>1, <4>1
      <3>3. PICK j \in DOMAIN t : i = n + j /\ b[i] = t[j]
        BY <1>1, <3>2
      <3>4. j <= k /\ j \in Nat
        BY <1>1, <2>2, <3>1, <3>3
      <3>5. j = k
        BY <1>1, <2>2, <3>1, <3>3, <3>4
      <3> QED
        BY <2>1, <3>3, <3>5
    <2>4. ~SetsNone(b)
      BY <2>2 DEF SetsNone
    <2> QED
      BY <2>3, <2>4 DEF EndsServing
  <1> QED
    BY <1>2, <1>3

-----------------------------------------------------------------------------
(* What a handler asks for serves the sessions it leaves.                  *)

\* The requests of a handler that leaves the sessions g keep them served.
Keeps(reqs, g) ==
  \/ SetsNone(reqs) /\ \A e \in Runs : Serves(e, time) => Serves(e, g)
  \/ \E k \in DOMAIN reqs : LastSet(reqs, k) /\ Serves(RunOf(reqs[k]), g)

\* No session of g runs but those of S with their options, and key id with opt.
Within(g, S) == \A j \in Ids : g[j] # None => j \in S /\ g[j] = time[j]
WithinAnd(g, S, id, opt) ==
  \A j \in Ids : g[j] # None => (j \in S /\ g[j] = time[j]) \/ (j = id /\ g[j] = opt)

LEMMA One ==
  ASSUME NEW r
  PROVE  /\ ~SetsRun(r) => SetsNone(<<r>>)
         /\ SetsRun(r) => LastSet(<<r>>, 1) /\ 1 \in DOMAIN <<r>> /\ <<r>>[1] = r
  BY DEF SetsNone, LastSet

LEMMA SmallestIsLeast ==
  ASSUME TypeOK, NEW S \in SUBSET TimeIds, S # {}
  PROVE  LET s == SmallestInterval(S)
         IN  s \in S /\ \A t \in S : time[s].minInterval <= time[t].minInterval
  <1> DEFINE w == [s \in S |-> time[s].minInterval]
  <1>1. S \in SUBSET Nat /\ \A s \in S : w[s] \in Nat
    BY SessionOptions, ConstantsOK
  <1>2. \E s \in S : \A t \in S : w[s] < w[t] \/ (w[s] = w[t] /\ s <= t)
    <2> HIDE DEF w
    <2> QED
      BY <1>1, LeastFirst
  <1>3. \E s \in S : \A t \in S :
          \/ time[s].minInterval < time[t].minInterval
          \/ time[s].minInterval = time[t].minInterval /\ s <= t
    BY <1>2
  <1>4. \A t \in S : \/ time[SmallestInterval(S)].minInterval < time[t].minInterval
                     \/ /\ time[SmallestInterval(S)].minInterval = time[t].minInterval
                        /\ SmallestInterval(S) <= t
    BY <1>3 DEF SmallestInterval
  <1>5. SmallestInterval(S) \in S
    BY SmallestIntervalIn
  <1>6. \A t \in S : time[t].minInterval \in Nat
    BY SessionOptions
  <1> QED
    BY <1>4, <1>5, <1>6

LEMMA OneKeeps ==
  ASSUME NEW run \in OptionType, NEW cont, NEW g, Serves(run, g)
  PROVE  Keeps(<<StartTB(run, cont)>>, g)
  <1> DEFINE r == StartTB(run, cont)
             q == <<r>>
  <1>1. SetsRun(r) /\ RunOf(r) = run
    BY DEF SetsRun, RunOf, StartTB
  <1>2. LastSet(q, 1) /\ 1 \in DOMAIN q /\ q[1] = r
    BY <1>1, One
  <1> HIDE DEF r, q
  <1>3. Keeps(q, g)
    BY <1>1, <1>2 DEF Keeps
  <1> QED
    BY <1>3 DEF r, q

LEMMA NoneKeeps ==
  ASSUME NEW g, \A e \in Runs : Serves(e, time) => Serves(e, g)
  PROVE  Keeps(<< >>, g)
  BY DEF Keeps, SetsNone

\* A session of S no slower than the options opt serves them if it serves S.
LEMMA CoveredBy ==
  ASSUME TypeOK, NEW S \in SUBSET TimeIds, NEW b \in S, NEW opt \in OptionType,
         time[b].minInterval <= opt.minInterval,
         NEW id, NEW g, WithinAnd(g, S, id, opt), NEW e \in Runs, Serves(e, time)
  PROVE  Serves(e, g)
  <1>1. Covers(e, time[b]) /\ time[b] \in OptionType
    BY SessionOptions DEF Serves, TimeIds
  <1>2. Covers(e, opt)
    BY <1>1 DEF Covers, Runs, OptionType
  <1>3. \A j \in S : Covers(e, time[j])
    BY SessionOptions DEF Serves, TimeIds
  <1> QED
    BY <1>2, <1>3 DEF Serves, WithinAnd

\* The options of the multiplexed session serve S and the options opt.
LEMMA MuxServes ==
  ASSUME TypeOK, NEW S \in SUBSET TimeIds, NEW b \in S, NEW opt \in OptionType,
         \A t \in S : time[b].minInterval <= time[t].minInterval,
         NEW mux \in OptionType,
         mux.minInterval = IF opt.minInterval < time[b].minInterval
                           THEN opt.minInterval ELSE time[b].minInterval,
         NEW id, NEW g, WithinAnd(g, S, id, opt)
  PROVE  Serves(mux, g)
  <1>1. mux # None /\ mux.minInterval \in Nat /\ opt.minInterval \in Nat
    BY ConstantsOK DEF OptionType
  <1>2. \A t \in S : time[t].minInterval \in Nat
    BY SessionOptions
  <1>3. Covers(mux, opt)
    BY <1>1, <1>2 DEF Covers
  <1>4. \A t \in S : Covers(mux, time[t])
    BY <1>1, <1>2 DEF Covers
  <1> QED
    BY <1>3, <1>4 DEF Serves, WithinAnd

LEMMA StartKeeps ==
  ASSUME TypeOK, NEW id \in Ids, NEW opt \in OptionType, NEW cmd \in Cmds \cup {NoCmd},
         NEW g, WithinAnd(g, TimeIds, id, opt)
  PROVE  Keeps(startTimeBasedTrackingMultiplex(id, opt, cmd), g)
  <1> DEFINE b == SmallestInterval(TimeIds)
             base == time[b]
             faster == opt.minInterval < base.minInterval
             stronger == opt.powerMode < MultiplexedPower(TimeIds)
             mux == [base EXCEPT
                       !.minInterval = IF faster THEN opt.minInterval ELSE @,
                       !.powerMode = IF stronger THEN opt.powerMode ELSE @]
  <1>1. CASE TimeIds = {}
    <2>1. startTimeBasedTrackingMultiplex(id, opt, cmd) = <<StartTB(opt, Started(id, cmd))>>
      BY <1>1 DEF startTimeBasedTrackingMultiplex
    <2>2. Serves(opt, g)
      BY <1>1, ConstantsOK DEF Serves, WithinAnd, Covers, OptionType
    <2> QED
      BY <2>1, <2>2, OneKeeps
  <1>2. CASE TimeIds # {}
    <2>1. b \in TimeIds /\ \A t \in TimeIds : base.minInterval <= time[t].minInterval
      BY <1>2, SmallestIsLeast
    <2>2. base \in OptionType /\ base.minInterval \in Nat /\ opt.minInterval \in Nat
      BY <2>1, SessionOptions DEF OptionType
    <2>3. CASE faster \/ stronger
      <3>1. startTimeBasedTrackingMultiplex(id, opt, cmd) = <<StartTB(mux, Started(id, cmd))>>
        BY <1>2, <2>3 DEF startTimeBasedTrackingMultiplex
      <3>2. mux \in OptionType
        <4> HIDE DEF base, faster, stronger
        <4> QED
          BY <2>2 DEF OptionType
      <3>3. mux.minInterval = IF opt.minInterval < time[b].minInterval
                              THEN opt.minInterval ELSE time[b].minInterval
        <4> HIDE DEF b
        <4> QED
          BY <2>2 DEF OptionType
      <3>4. Serves(mux, g)
        <4> HIDE DEF b, mux
        <4> QED
          BY <2>1, <3>2, <3>3, MuxServes
      <3> QED
        <4> HIDE DEF mux
        <4> QED
          BY <3>1, <3>2, <3>4, OneKeeps
    <2>4. CASE ~(faster \/ stronger)
      <3>1. startTimeBasedTrackingMultiplex(id, opt, cmd) = << >>
        BY <1>2, <2>4 DEF startTimeBasedTrackingMultiplex
      <3>2. time[b].minInterval <= opt.minInterval
        <4> HIDE DEF b
        <4> QED
          BY <2>2, <2>4
      <3>3. \A e \in Runs : Serves(e, time) => Serves(e, g)
        <4> HIDE DEF b
        <4> QED
          BY <2>1, <3>2, CoveredBy
      <3> QED
        BY <3>1, <3>3, NoneKeeps
    <2> QED
      BY <2>3, <2>4
  <1> QED
    BY <1>1, <1>2

LEMMA UpdateKeeps ==
  ASSUME TypeOK, NEW id \in TimeIds, NEW opt \in OptionType, NEW cmd \in Cmds \cup {NoCmd},
         NEW g, WithinAnd(g, TimeIds \ {id}, id, opt)
  PROVE  Keeps(updateTrackingMultiplex(id, opt, cmd), g)
  <1> DEFINE others == TimeIds \ {id}
             b == SmallestInterval(others)
             base == time[b]
             faster == opt.minInterval < base.minInterval
             stronger == opt.powerMode < MultiplexedPower(others)
             mux == [base EXCEPT
                       !.minInterval = IF faster THEN opt.minInterval ELSE @,
                       !.powerMode = IF stronger THEN opt.powerMode ELSE @]
             updated == [k |-> "updated", id |-> id, cmd |-> cmd, opt |-> time[id]]
             same == /\ time[id].minInterval = opt.minInterval
                     /\ time[id].powerMode = opt.powerMode
  <1>0. opt.minInterval \in Nat /\ time[id].minInterval \in Nat
    BY SessionOptions DEF OptionType
  <1>1. CASE same
    <2>1. updateTrackingMultiplex(id, opt, cmd) = << >>
      BY <1>1 DEF updateTrackingMultiplex
    <2>2. time[id].minInterval <= opt.minInterval
      BY <1>0, <1>1
    <2>3. WithinAnd(g, TimeIds, id, opt)
      BY DEF WithinAnd
    <2>4. \A e \in Runs : Serves(e, time) => Serves(e, g)
      BY <2>2, <2>3, CoveredBy
    <2> QED
      BY <2>1, <2>4, NoneKeeps
  <1>2. CASE ~same /\ others = {}
    <2>1. updateTrackingMultiplex(id, opt, cmd) = <<StartTB(opt, updated)>>
      BY <1>2 DEF updateTrackingMultiplex
    <2>2. Serves(opt, g)
      BY <1>0, <1>2, ConstantsOK DEF Serves, WithinAnd, Covers
    <2> HIDE DEF updated
    <2> QED
      BY <2>1, <2>2, OneKeeps
  <1>3. CASE ~same /\ others # {}
    <2>1. b \in others /\ \A t \in others : base.minInterval <= time[t].minInterval
      BY <1>3, SmallestIsLeast
    <2>2. base \in OptionType /\ base.minInterval \in Nat
      BY <2>1, SessionOptions DEF OptionType
    <2>3. CASE faster \/ stronger
      <3>1. updateTrackingMultiplex(id, opt, cmd) = <<StartTB(mux, updated)>>
        BY <1>3, <2>3 DEF updateTrackingMultiplex
      <3>2. mux \in OptionType
        <4> HIDE DEF base, faster, stronger
        <4> QED
          BY <2>2 DEF OptionType
      <3>3. mux.minInterval = IF opt.minInterval < time[b].minInterval
                              THEN opt.minInterval ELSE time[b].minInterval
        <4> HIDE DEF b
        <4> QED
          BY <2>2 DEF OptionType
      <3>4. Serves(mux, g)
        <4> HIDE DEF b, mux
        <4> QED
          BY <2>1, <3>2, <3>3, MuxServes
      <3> QED
        <4> HIDE DEF mux, updated
        <4> QED
          BY <3>1, <3>2, <3>4, OneKeeps
    <2>4. CASE ~(faster \/ stronger)
      <3>1. updateTrackingMultiplex(id, opt, cmd) = << >>
        BY <1>3, <2>4 DEF updateTrackingMultiplex
      <3>2. time[b].minInterval <= opt.minInterval
        <4> HIDE DEF b
        <4> QED
          BY <1>0, <2>2, <2>4
      <3>3. \A e \in Runs : Serves(e, time) => Serves(e, g)
        <4> HIDE DEF b
        <4> QED
          BY <2>1, <3>2, CoveredBy
      <3> QED
        BY <3>1, <3>3, NoneKeeps
    <2> QED
      BY <2>3, <2>4
  <1> QED
    BY <1>1, <1>2, <1>3

LEMMA StopKeeps ==
  ASSUME TypeOK, NEW id \in TimeIds, NEW cmd \in Cmds \cup {NoCmd},
         NEW g, Within(g, TimeIds \ {id})
  PROVE  Keeps(stopTimeBasedTrackingMultiplex(id, cmd), g)
  <1> DEFINE others == TimeIds \ {id}
             b == SmallestInterval(others)
             base == time[b]
             power == MultiplexedPower(others)
             stopped == [k |-> "stopped", id |-> id, cmd |-> cmd]
             mux == [base EXCEPT !.powerMode = power]
             slower == time[id].minInterval < base.minInterval \/ time[id].powerMode < power
  <1>1. CASE others = {}
    <2> DEFINE r == [op |-> "stopFix", cont |-> stopped]
               q == <<r>>
    <2>1. stopTimeBasedTrackingMultiplex(id, cmd) = q
      BY <1>1 DEF stopTimeBasedTrackingMultiplex
    <2>2. SetsRun(r) /\ RunOf(r) = None
      BY DEF SetsRun, RunOf
    <2>3. LastSet(q, 1) /\ 1 \in DOMAIN q /\ q[1] = r
      BY <2>2, One
    <2>4. Serves(None, g)
      BY <1>1 DEF Serves, Within
    <2> HIDE DEF q, r
    <2> QED
      BY <2>1, <2>2, <2>3, <2>4 DEF Keeps
  <1>2. CASE others # {}
    <2>1. b \in others /\ \A t \in others : base.minInterval <= time[t].minInterval
      BY <1>2, SmallestIsLeast
    <2>2. base \in OptionType /\ base.minInterval \in Nat
      BY <2>1, SessionOptions DEF OptionType
    <2>3. CASE slower
      <3>1. stopTimeBasedTrackingMultiplex(id, cmd) = <<StartTB(mux, Started(id, cmd))>>
        BY <1>2, <2>3 DEF stopTimeBasedTrackingMultiplex
      <3>2. power \in PowerModes
        BY MultiplexedPowerType
      <3>3. mux \in OptionType /\ mux.minInterval = base.minInterval
        <4> HIDE DEF base, power
        <4> QED
          BY <2>2, <3>2 DEF OptionType
      <3>4. Serves(mux, g)
        <4>1. WithinAnd(g, others, b, base)
          BY DEF Within, WithinAnd
        <4>2. mux.minInterval = IF base.minInterval < time[b].minInterval
                                THEN base.minInterval ELSE time[b].minInterval
          BY <3>3
        <4> HIDE DEF b, mux, others
        <4>3. others \in SUBSET TimeIds
          BY DEF others
        <4> QED
          BY <2>1, <2>2, <3>3, <4>1, <4>2, <4>3, MuxServes
      <3> HIDE DEF mux
      <3> QED
        BY <3>1, <3>3, <3>4, OneKeeps
    <2>4. CASE ~slower
      <3>1. stopTimeBasedTrackingMultiplex(id, cmd) = << >>
        BY <1>2, <2>4 DEF stopTimeBasedTrackingMultiplex
      <3>2. \A e : Serves(e, time) => Serves(e, g)
        BY DEF Serves, Within
      <3> QED
        BY <3>1, <3>2, NoneKeeps
    <2> QED
      BY <2>3, <2>4
  <1> QED
    BY <1>1, <1>2

LEMMA LastStays ==
  ASSUME NEW q \in Seq(Request), NEW t \in Seq(Request), SetsNone(t),
         NEW k \in DOMAIN q, LastSet(q, k)
  PROVE  k \in DOMAIN (q \o t) /\ (q \o t)[k] = q[k] /\ LastSet(q \o t, k)
  <1> DEFINE b == q \o t
  <1>1. /\ k \in DOMAIN b /\ b[k] = q[k]
        /\ \A i \in DOMAIN b : \/ i \in DOMAIN q /\ b[i] = q[i]
                               \/ \E j \in DOMAIN t : b[i] = t[j]
    BY ReqMembers
  <1> HIDE DEF b
  <1>2. \A i \in DOMAIN b : SetsRun(b[i]) => i \in DOMAIN q /\ b[i] = q[i]
    BY <1>1 DEF SetsNone
  <1>3. k \in DOMAIN b /\ b[k] = q[k] /\ LastSet(b, k)
    BY <1>1, <1>2 DEF LastSet
  <1> QED
    BY <1>3 DEF b

\* What a request list leaves when its first part decides and the rest sets nothing.
LEMMA LastThenNone ==
  ASSUME NEW q \in Seq(Request), NEW t \in Seq(Request), SetsNone(t), NEW g, Keeps(q, g)
  PROVE  Keeps(q \o t, g)
  <1> DEFINE b == q \o t
             n == Len(q)
  <1>1. /\ n \in Nat
        /\ \A i \in DOMAIN q : i \in DOMAIN b /\ b[i] = q[i] /\ i \in Nat /\ i <= n
        /\ \A i \in DOMAIN b : \/ i \in DOMAIN q /\ b[i] = q[i]
                               \/ \E k \in DOMAIN t : i = n + k /\ b[i] = t[k]
    BY ConcatPlaces
  <1> SUFFICES Keeps(b, g)
    OBVIOUS
  <1> HIDE DEF b, n
  <1>2. \A i \in DOMAIN b : SetsRun(b[i]) => i \in DOMAIN q /\ b[i] = q[i]
    BY <1>1 DEF SetsNone
  <1>3. CASE SetsNone(q) /\ \A e \in Runs : Serves(e, time) => Serves(e, g)
    <2>1. SetsNone(b)
      BY <1>2, <1>3 DEF SetsNone
    <2> QED
      BY <1>3, <2>1 DEF Keeps
  <1>4. CASE \E k \in DOMAIN q : LastSet(q, k) /\ Serves(RunOf(q[k]), g)
    <2>1. PICK k \in DOMAIN q : LastSet(q, k) /\ Serves(RunOf(q[k]), g)
      BY <1>4
    <2>2. LastSet(b, k) /\ k \in DOMAIN b /\ b[k] = q[k]
      BY <2>1, LastStays DEF b
    <2> QED
      BY <2>1, <2>2 DEF Keeps
  <1> QED
    BY <1>3, <1>4 DEF Keeps

\* After a restart of all sessions the engine's one serves them.
LEMMA RestartKeeps ==
  ASSUME TypeOK, NEW reqs \in restartSessions
  PROVE  /\ \A i \in DOMAIN reqs : ReqSaves(reqs[i])
         /\ \A run \in Runs, q \in Seq(Request) : EndsServing(q \o reqs, run, time)
  <1>1. PICK o \in InOrder(DistIds) :
          reqs = checkAndRestartTimeBasedSession
                   \o [i \in DOMAIN o |-> [op |-> "startDB", id |-> o[i],
                                           cont |-> [k |-> "ignore"]]]
    BY Zenon DEF restartSessions
  <1> DEFINE first == checkAndRestartTimeBasedSession
             rest == [i \in DOMAIN o |-> [op |-> "startDB", id |-> o[i],
                                          cont |-> [k |-> "ignore"]]]
  <1>2. first \in Seq(Request) /\ reqs = first \o rest
    BY <1>1, CheckRestartType
  <1>3. rest \in Seq(Request) /\ SetsNone(rest) /\ \A i \in DOMAIN rest : ReqSaves(rest[i])
    <2>1. \A id \in Ids : [op |-> "startDB", id |-> id, cont |-> [k |-> "ignore"]] \in Request
      BY DEF Request, Cont
    <2>2. rest \in Seq(Request)
      BY <2>1, InOrderType, SessionOptions, MapType
    <2>3. \A i \in DOMAIN rest : rest[i].op = "startDB" /\ rest[i].cont.k = "ignore"
      OBVIOUS
    <2> HIDE DEF rest
    <2> QED
      BY <2>2, <2>3 DEF SetsNone, SetsRun, ReqSaves, ContSaves
  <1>4. CASE TimeIds = {}
    <2>1. first = << >>
      BY <1>4 DEF checkAndRestartTimeBasedSession
    <2>2. reqs = rest
      BY <1>2, <1>3, <2>1
    <2>3. \A e : Serves(e, time)
      BY <1>4 DEF Serves, TimeIds
    <2> HIDE DEF rest
    <2>4. \A run, q : EndsServing(q, run, time)
      BY <2>3 DEF EndsServing
    <2> QED
      BY <1>3, <2>2, <2>4
  <1>5. CASE TimeIds # {}
    <2> DEFINE b == SmallestInterval(TimeIds)
               highest == time[HighestPower(TimeIds)]
               mux == [highest EXCEPT !.minInterval = time[b].minInterval,
                                      !.distance = time[b].distance]
    <2>1. first = <<StartTB(mux, NoCont)>>
      BY <1>5 DEF checkAndRestartTimeBasedSession
    <2>2. /\ b \in TimeIds /\ \A t \in TimeIds : time[b].minInterval <= time[t].minInterval
          /\ time[b] \in OptionType /\ highest \in OptionType
      BY <1>5, SmallestIsLeast, HighestPowerIn, SessionOptions
    <2>3. mux \in OptionType /\ mux.minInterval = time[b].minInterval
      <3> HIDE DEF b, highest
      <3> QED
        BY <2>2 DEF OptionType
    <2>4. mux # None /\ \A t \in TimeIds : mux.minInterval <= time[t].minInterval
      <3> HIDE DEF mux, b
      <3> QED
        BY <2>2, <2>3, ConstantsOK
    <2>5. Serves(mux, time)
      <3> HIDE DEF mux
      <3> QED
        BY <2>4 DEF Serves, Covers, TimeIds
    <2>6. /\ DOMAIN first = {1} /\ LastSet(first, 1) /\ Serves(RunOf(first[1]), time)
          /\ ReqSaves(first[1])
      <3> DEFINE r == StartTB(mux, NoCont)
                 l == <<r>>
      <3>1. SetsRun(r) /\ RunOf(r) = mux
        BY DEF SetsRun, RunOf, StartTB
      <3>2. ReqSaves(r)
        BY DEF ReqSaves, StartTB, ContSaves
      <3>3. first = l /\ DOMAIN l = {1} /\ l[1] = r
        BY <2>1
      <3> HIDE DEF r, mux
      <3>4. LastSet(l, 1)
        BY <3>1, One
      <3> QED
        BY <2>5, <3>1, <3>2, <3>3, <3>4
    <2> HIDE DEF first, rest
    <2>7. /\ 1 \in DOMAIN reqs /\ LastSet(reqs, 1) /\ Serves(RunOf(reqs[1]), time)
          /\ reqs \in Seq(Request)
      <3>1. 1 \in DOMAIN first /\ reqs \in Seq(Request)
        BY <1>2, <1>3, <2>6
      <3>2. 1 \in DOMAIN reqs /\ reqs[1] = first[1] /\ LastSet(reqs, 1)
        BY <1>2, <1>3, <2>6, <3>1, LastStays
      <3> QED
        BY <2>6, <3>1, <3>2
    <2>8. \A i \in DOMAIN reqs : ReqSaves(reqs[i])
      <3>1. \A i \in DOMAIN reqs : \/ i \in DOMAIN first /\ reqs[i] = first[i]
                                   \/ \E k \in DOMAIN rest : reqs[i] = rest[k]
        BY <1>2, <1>3, ReqMembers
      <3> QED
        BY <1>3, <2>6, <3>1
    <2> QED
      BY <2>7, <2>8, EndsAfter
  <1> QED
    BY <1>4, <1>5

LEMMA SaveWithin ==
  ASSUME TypeOK, NEW id \in Ids, NEW opt \in OptionType, saveTrackingSession(id, opt)
  PROVE  /\ WithinAnd(time', TimeIds, id, opt)
         /\ ~IsDistance(opt) => WithinAnd(time', TimeIds \ {id}, id, opt)
         /\ IsDistance(opt) => time' = time
  BY DEF saveTrackingSession, WithinAnd, TimeIds, TypeOK

LEMMA EraseWithin ==
  ASSUME TypeOK, NEW id \in Ids, eraseTrackingSession(id)
  PROVE  /\ Within(time', TimeIds)
         /\ id \in TimeIds => Within(time', TimeIds \ {id})
  BY DEF eraseTrackingSession, Within, TimeIds, TypeOK

\* A handler that does not restart everything.
LEMMA HandledServes ==
  ASSUME TypeOK, ServeInv, msgs # << >>, Head(msgs).t # "engineUp",
         \/ msgs' = Tail(msgs)
         \/ msgs' = msgs /\ ~Failed(Head(msgs)),
         NEW reqs \in Seq(Request), api' = api \o reqs,
         \A i \in DOMAIN reqs : ReqSaves(reqs[i]),
         UNCHANGED pending \/ pending' = Append(pending, Head(msgs)),
         UNCHANGED <<engine, fails>>,
         \/ Failed(Head(msgs)) \/ Keeps(reqs, time')
         \/ EndsServing(api \o reqs, engine.tb, time')
  PROVE  ServeInv'
  <1>1. /\ msgs \in Seq(Msg) /\ api \in Seq(Request) /\ engine.tb \in Runs
    BY DEF TypeOK, Runs
  <1>2. /\ 1 \in DOMAIN msgs /\ Head(msgs) = msgs[1]
        /\ \A i \in DOMAIN Tail(msgs) : i \in Nat /\ i + 1 \in DOMAIN msgs /\ Tail(msgs)[i] = msgs[i + 1]
        /\ \A i \in DOMAIN msgs : i # 1 => /\ i \in Nat /\ i - 1 \in DOMAIN Tail(msgs)
                                           /\ Tail(msgs)[i - 1] = msgs[i]
    BY <1>1, TailPlaces
  <1>3. /\ \A i \in DOMAIN api : i \in DOMAIN api' /\ api'[i] = api[i]
        /\ \A i \in DOMAIN api' : \/ i \in DOMAIN api /\ api'[i] = api[i]
                                  \/ \E k \in DOMAIN reqs : api'[i] = reqs[k]
    BY <1>1, ReqMembers
  <1>4. SavesInv'
    <2>1. \A i \in DOMAIN msgs' : MsgSaves(msgs'[i])
      BY <1>2 DEF ServeInv, SavesInv
    <2>2. \A i \in DOMAIN api' : ReqSaves(api'[i])
      BY <1>3 DEF ServeInv, SavesInv
    <2>3. \A i \in DOMAIN pending' :
            (i \in DOMAIN pending /\ pending'[i] = pending[i]) \/ pending'[i] = Head(msgs)
      <3>1. pending \in Seq(Msg) /\ Head(msgs) \in Msg
        BY <1>1, PendingType
      <3>2. CASE pending' = Append(pending, Head(msgs))
        BY <3>1, <3>2, AppendMembers
      <3> QED
        BY <3>2
    <2>4. \A i \in DOMAIN pending' : MsgSaves(pending'[i])
      BY <1>2, <2>3 DEF ServeInv, SavesInv
    <2> QED
      BY <2>1, <2>2, <2>4 DEF SavesInv
  <1>5. HasOpen(api) => HasOpen(api')
    BY <1>3 DEF HasOpen
  <1>6. HasUp(msgs) => HasUp(msgs')
    <2>1. CASE msgs' = Tail(msgs)
      <3> SUFFICES ASSUME NEW i \in DOMAIN msgs, msgs[i].t = "engineUp" PROVE HasUp(msgs')
        BY DEF HasUp
      <3>1. i # 1
        BY <1>2
      <3>2. i - 1 \in DOMAIN Tail(msgs) /\ Tail(msgs)[i - 1].t = "engineUp"
        BY <1>2, <3>1
      <3> QED
        BY <2>1, <3>2 DEF HasUp
    <2>2. CASE msgs' = msgs
      BY <2>2 DEF HasUp
    <2> QED
      BY <2>1, <2>2
  <1>7. FailedInv'
    <2>1. engine'.up \/ HasOpen(api')
      BY <1>5 DEF ServeInv, FailedInv
    <2>2. ASSUME fails = 0, NEW i \in DOMAIN msgs', Failed(msgs'[i]), ~HasOpen(api')
          PROVE  \E j \in DOMAIN msgs' : i < j /\ msgs'[j].t = "engineUp"
      <3>1. CASE msgs' = Tail(msgs)
        <4>1. i \in Nat /\ i + 1 \in DOMAIN msgs /\ Failed(msgs[i + 1]) /\ ~HasOpen(api)
          BY <1>2, <1>5, <2>2, <3>1
        <4>2. PICK j \in DOMAIN msgs : i + 1 < j /\ msgs[j].t = "engineUp"
          BY <2>2, <4>1 DEF ServeInv, FailedInv
        <4>3. j # 1 /\ j \in Nat /\ j - 1 \in DOMAIN msgs' /\ msgs'[j - 1].t = "engineUp"
          BY <1>2, <3>1, <4>2
        <4> QED
          BY <4>1, <4>2, <4>3
      <3>2. CASE msgs' = msgs
        BY <1>5, <2>2, <3>2 DEF ServeInv, FailedInv
      <3> QED
        BY <3>1, <3>2
    <2> QED
      BY <2>1, <2>2 DEF FailedInv
  <1>8. ServingInv'
    <2> SUFFICES ASSUME fails = 0, ~HasOpen(api'), ~HasUp(msgs')
                 PROVE  EndsServing(api', engine.tb, time')
      BY DEF ServingInv
    <2>1. EndsServing(api, engine.tb, time)
      BY <1>5, <1>6 DEF ServeInv, ServingInv
    <2>2. ~Failed(Head(msgs))
      BY <1>2, <1>5, <1>6 DEF ServeInv, FailedInv, HasUp
    <2>3. CASE SetsNone(reqs) /\ \A e \in Runs : Serves(e, time) => Serves(e, time')
      BY <1>1, <2>1, <2>3, EndsAfter
    <2>4. CASE \E k \in DOMAIN reqs : LastSet(reqs, k) /\ Serves(RunOf(reqs[k]), time')
      BY <1>1, <2>4, EndsAfter
    <2>5. CASE EndsServing(api \o reqs, engine.tb, time')
      BY <2>5
    <2> QED
      BY <2>2, <2>3, <2>4, <2>5 DEF Keeps
  <1> QED
    BY <1>4, <1>7, <1>8 DEF ServeInv

\* Requests of the multiplexing save nothing as distance based.
LEMMA MultiplexSaves ==
  ASSUME NEW id, NEW opt, NEW cmd
  PROVE  /\ \A i \in DOMAIN startTimeBasedTrackingMultiplex(id, opt, cmd) :
              ReqSaves(startTimeBasedTrackingMultiplex(id, opt, cmd)[i])
         /\ \A i \in DOMAIN updateTrackingMultiplex(id, opt, cmd) :
              ReqSaves(updateTrackingMultiplex(id, opt, cmd)[i])
         /\ \A i \in DOMAIN stopTimeBasedTrackingMultiplex(id, cmd) :
              ReqSaves(stopTimeBasedTrackingMultiplex(id, cmd)[i])
  <1> DEFINE Good(q) == \A i \in DOMAIN q : ReqSaves(q[i])
  <1>1. \A run, c : c # NoCont /\ c.k \in {"started", "updated", "stopped"} =>
          Good(<<StartTB(run, c)>>) /\ Good(<<[op |-> "stopFix", cont |-> c]>>)
    BY DEF ReqSaves, ContSaves, StartTB
  <1>2. Good(<< >>)
    OBVIOUS
  <1>3. \A old : /\ Started(id, cmd) # NoCont /\ Started(id, cmd).k = "started"
                 /\ [k |-> "updated", id |-> id, cmd |-> cmd, opt |-> old] # NoCont
                 /\ [k |-> "stopped", id |-> id, cmd |-> cmd] # NoCont
    BY DEF Started, NoCont
  <1> HIDE DEF Good
  <1>4. \A run, old :
          /\ Good(<<StartTB(run, Started(id, cmd))>>)
          /\ Good(<<StartTB(run, [k |-> "updated", id |-> id, cmd |-> cmd, opt |-> old])>>)
          /\ Good(<<[op |-> "stopFix", cont |-> [k |-> "stopped", id |-> id, cmd |-> cmd]]>>)
    BY <1>1, <1>3
  <1>5. Good(startTimeBasedTrackingMultiplex(id, opt, cmd))
    BY <1>2, <1>4, Zenon DEF startTimeBasedTrackingMultiplex
  <1>6. Good(updateTrackingMultiplex(id, opt, cmd))
    BY <1>2, <1>4, Zenon DEF updateTrackingMultiplex
  <1>7. Good(stopTimeBasedTrackingMultiplex(id, cmd))
    BY <1>2, <1>4, Zenon DEF stopTimeBasedTrackingMultiplex
  <1> QED
    BY <1>5, <1>6, <1>7 DEF Good

LEMMA WithinServes ==
  ASSUME NEW g, Within(g, TimeIds), NEW e, Serves(e, time)
  PROVE  Serves(e, g)
  BY DEF Within, Serves, TimeIds

\* A handler that asks for nothing, or for nothing about the engine's session.
LEMMA QuietServes ==
  ASSUME TypeOK, ServeInv, msgs # << >>, Head(msgs).t # "engineUp", msgs' = Tail(msgs),
         UNCHANGED pending \/ pending' = Append(pending, Head(msgs)),
         UNCHANGED <<api, engine, fails>>,
         Failed(Head(msgs)) \/ Within(time', TimeIds)
  PROVE  ServeInv'
  <1> DEFINE reqs == << >>
  <1>1. reqs \in Seq(Request) /\ api' = api \o reqs
    BY DEF TypeOK
  <1>2. \A i \in DOMAIN reqs : ReqSaves(reqs[i])
    OBVIOUS
  <1>3. Failed(Head(msgs)) \/ Keeps(reqs, time')
    BY WithinServes, NoneKeeps
  <1> HIDE DEF reqs
  <1> QED
    BY <1>1, <1>2, <1>3, HandledServes

LEMMA AskedServes ==
  ASSUME TypeOK, ServeInv, msgs # << >>, Head(msgs).t # "engineUp", msgs' = Tail(msgs),
         NEW r \in Request, ~SetsRun(r), ReqSaves(r), api' = Append(api, r),
         UNCHANGED <<pending, engine, fails>>,
         Failed(Head(msgs)) \/ Within(time', TimeIds)
  PROVE  ServeInv'
  <1> DEFINE reqs == <<r>>
  <1>1. reqs \in Seq(Request) /\ api' = api \o reqs
    BY DEF TypeOK
  <1>2. \A i \in DOMAIN reqs : ReqSaves(reqs[i])
    OBVIOUS
  <1>3. SetsNone(reqs)
    BY One
  <1> HIDE DEF reqs
  <1>4. Failed(Head(msgs)) \/ Keeps(reqs, time')
    BY <1>3, WithinServes DEF Keeps
  <1> QED
    BY <1>1, <1>2, <1>4, HandledServes

LEMMA PostedServes ==
  ASSUME TypeOK, ServeInv, NEW m \in Msg, m.t # "resp", MsgSaves(m), msgs' = Append(msgs, m),
         UNCHANGED <<api, engine, fails, time, pending>>
  PROVE  ServeInv'
  <1>1. /\ \A i \in DOMAIN msgs : i \in DOMAIN msgs' /\ msgs'[i] = msgs[i]
        /\ \A i \in DOMAIN msgs' : (i \in DOMAIN msgs /\ msgs'[i] = msgs[i]) \/ msgs'[i] = m
    BY DEF TypeOK
  <1>2. ~Failed(m)
    BY DEF Failed
  <1>3. SavesInv'
    BY <1>1 DEF ServeInv, SavesInv
  <1>4. HasUp(msgs) => HasUp(msgs')
    BY <1>1 DEF HasUp
  <1>5. FailedInv'
    <2> SUFFICES ASSUME fails = 0, NEW i \in DOMAIN msgs', Failed(msgs'[i]), ~HasOpen(api)
                 PROVE  \E j \in DOMAIN msgs' : i < j /\ msgs'[j].t = "engineUp"
      BY DEF ServeInv, FailedInv
    <2>1. i \in DOMAIN msgs /\ Failed(msgs[i])
      BY <1>1, <1>2
    <2>2. PICK j \in DOMAIN msgs : i < j /\ msgs[j].t = "engineUp"
      BY <2>1 DEF ServeInv, FailedInv
    <2> QED
      BY <1>1, <2>2
  <1>6. ServingInv'
    BY <1>4 DEF ServeInv, ServingInv
  <1> QED
    BY <1>3, <1>5, <1>6 DEF ServeInv

LEMMA ClientServes ==
  ASSUME TypeOK, ServeInv, DistanceAsked, ClientStep
  PROVE  ServeInv'
  <1>1. ASSUME NEW c \in Clients, addClientCommand(c) \/ removeClientCommand(c)
        PROVE  ServeInv'
    <2>1. PICK t \in {"add", "remove"} : msgs' = Append(msgs, [t |-> t, client |-> c])
      BY <1>1 DEF addClientCommand, removeClientCommand
    <2>2. [t |-> t, client |-> c] \in Msg /\ MsgSaves([t |-> t, client |-> c])
      BY DEF Msg, MsgSaves
    <2>3. UNCHANGED <<api, engine, fails, time, pending>>
      BY <1>1 DEF addClientCommand, removeClientCommand, adapterVars, modemVars
    <2> QED
      BY <2>1, <2>2, <2>3, PostedServes
  <1>2. CASE configRobustLocationCommand
    <2>1. [t |-> "config"] \in Msg /\ MsgSaves([t |-> "config"])
      BY DEF Msg, MsgSaves
    <2>2. /\ msgs' = Append(msgs, [t |-> "config"])
          /\ UNCHANGED <<api, engine, fails, time, pending>>
      BY <1>2 DEF configRobustLocationCommand, adapterVars, modemVars
    <2> QED
      BY <2>1, <2>2, PostedServes
  <1>3. ASSUME NEW id \in Ids, NEW opt \in Options,
               startTrackingCommand(id, opt) \/ updateTrackingOptionsCommand(id, opt)
        PROVE  ServeInv'
    <2>1. PICK t \in {"start", "update"} :
            /\ Issue(t, id, opt.size # 0)
            /\ msgs' = Append(msgs, [t |-> t, id |-> id, opt |-> opt,
                                     cmd |-> Len(issued) + 1])
            /\ UNCHANGED <<api, engine, fails, time, pending>>
      BY <1>3 DEF startTrackingCommand, updateTrackingOptionsCommand, adapterVars, modemVars
    <2> DEFINE m == [t |-> t, id |-> id, opt |-> opt, cmd |-> Len(issued) + 1]
    <2>2. Len(issued) + 1 \in Cmds /\ opt \in OptionType
      BY <2>1, IssueType, ConstantsOK
    <2>3. m \in Msg
      BY <2>2 DEF Msg, Command
    <2>4. m.t # "resp" /\ MsgSaves(m)
      BY DEF MsgSaves, DistanceAsked
    <2> QED
      BY <2>1, <2>3, <2>4, PostedServes
  <1>4. ASSUME NEW id \in Ids, stopTrackingCommand(id) PROVE ServeInv'
    <2> DEFINE m == [t |-> "stop", id |-> id, cmd |-> Len(issued) + 1]
    <2>1. /\ Issue("stop", id, TRUE) /\ msgs' = Append(msgs, m)
          /\ UNCHANGED <<api, engine, fails, time, pending>>
      BY <1>4 DEF stopTrackingCommand, adapterVars, modemVars
    <2>2. Len(issued) + 1 \in Cmds
      BY <2>1, IssueType
    <2>3. m \in Msg /\ MsgSaves(m)
      BY <2>2 DEF Msg, Command, MsgSaves
    <2> QED
      BY <2>1, <2>3, PostedServes
  <1> QED
    BY <1>1, <1>2, <1>3, <1>4 DEF ClientStep

LEMMA RegistryServes ==
  ASSUME TypeOK, ServeInv, ProcAddClient \/ ProcRemoveClientTime \/ ProcRemoveClient \/ ProcWait
  PROVE  ServeInv'
  <1>0. Within(time, TimeIds)
    BY DEF Within, TimeIds
  <1>1. CASE ProcAddClient
    <2>1. msgs # << >> /\ Head(msgs).t = "add" /\ msgs' = Tail(msgs)
          /\ UNCHANGED <<api, pending, engine, fails, time>>
      BY <1>1 DEF ProcAddClient, Handle, modemVars
    <2> QED
      BY <1>0, <2>1, QuietServes
  <1>2. CASE ProcRemoveClientTime
    <2>1. PICK id \in TimeIds : /\ api' = api \o stopTimeBasedTrackingMultiplex(id, NoCmd)
                                /\ eraseTrackingSession(id)
      BY <1>2 DEF ProcRemoveClientTime
    <2> DEFINE reqs == stopTimeBasedTrackingMultiplex(id, NoCmd)
    <2>2. reqs \in Seq(Request) /\ \A i \in DOMAIN reqs : ReqSaves(reqs[i])
      BY StopMultiplexType, MultiplexSaves
    <2>3. Keeps(reqs, time')
      BY <2>1, EraseWithin, StopKeeps, SessionOptions
    <2>4. /\ msgs # << >> /\ Head(msgs).t = "remove" /\ ~Failed(Head(msgs)) /\ msgs' = msgs
          /\ UNCHANGED <<pending, engine, fails>>
      BY <1>2 DEF ProcRemoveClientTime, Handle, Failed, modemVars
    <2> HIDE DEF reqs
    <2> QED
      BY <2>1, <2>2, <2>3, <2>4, HandledServes DEF reqs
  <1>3. CASE ProcRemoveClient
    <2>1. PICK q \in InOrder({id \in DistIds : Owner[id] = Head(msgs).client}) :
            api' = api \o [i \in DOMAIN q |->
                     [op |-> "stopDB", id |-> q[i],
                      cont |-> [k |-> "clientDistStopped", id |-> q[i],
                                cmd |-> NoCmd]]]
      BY <1>3 DEF ProcRemoveClient
    <2> DEFINE reqs == [i \in DOMAIN q |->
                     [op |-> "stopDB", id |-> q[i],
                      cont |-> [k |-> "clientDistStopped", id |-> q[i],
                                cmd |-> NoCmd]]]
    <2>2. reqs \in Seq(Request)
      BY ClientStopsIdle
    <2>3. \A i \in DOMAIN reqs : reqs[i].op = "stopDB" /\ reqs[i].cont.k = "clientDistStopped"
      OBVIOUS
    <2>4. /\ msgs # << >> /\ Head(msgs).t = "remove" /\ msgs' = Tail(msgs)
          /\ UNCHANGED <<pending, engine, fails, time>> /\ api' = api \o reqs
      BY <1>3, <2>1 DEF ProcRemoveClient, Handle, modemVars
    <2> HIDE DEF reqs
    <2>5. SetsNone(reqs) /\ \A i \in DOMAIN reqs : ReqSaves(reqs[i])
      BY <2>3 DEF SetsNone, SetsRun, ReqSaves, ContSaves
    <2>6. Keeps(reqs, time')
      BY <2>4, <2>5 DEF Keeps
    <2> QED
      BY <2>2, <2>4, <2>5, <2>6, HandledServes
  <1>4. CASE ProcWait
    <2>1. /\ msgs # << >> /\ Head(msgs).t # "engineUp" /\ msgs' = Tail(msgs)
          /\ pending' = Append(pending, Head(msgs)) /\ UNCHANGED <<api, engine, fails, time>>
      BY <1>4 DEF ProcWait, Handle, modemVars
    <2> QED
      BY <1>0, <2>1, QuietServes
  <1> QED
    BY <1>1, <1>2, <1>3, <1>4

LEMMA OptionsKept ==
  ASSUME NEW opt \in OptionType
  PROVE  /\ ClampInterval(opt).distance = opt.distance
         /\ TbmFallback(opt).distance = opt.distance
  BY DEF ClampInterval, TbmFallback, OptionType

\* The front message is a command, what it asks for and what it carries.
LEMMA HeadSaves ==
  ASSUME TypeOK, ServeInv, msgs # << >>
  PROVE  /\ Head(msgs) \in Msg /\ MsgSaves(Head(msgs))
         /\ Head(msgs).t # "resp" => ~Failed(Head(msgs))
  <1>1. Head(msgs) = msgs[1] /\ 1 \in DOMAIN msgs /\ Head(msgs) \in Msg
    BY TailPlaces DEF TypeOK
  <1> QED
    BY <1>1 DEF ServeInv, SavesInv, Failed

LEMMA StartServes ==
  ASSUME TypeOK, ServeInv, ProcStartRejected \/ ProcStartDistance \/ ProcStartTime
  PROVE  ServeInv'
  <1>0. Within(time, TimeIds)
    BY DEF Within, TimeIds
  <1>1. CASE ProcStartRejected
    <2>1. msgs # << >> /\ Head(msgs).t = "start" /\ msgs' = Tail(msgs)
          /\ UNCHANGED <<api, pending, engine, fails, time>>
      BY <1>1 DEF ProcStartRejected, Handle, modemVars, adapterVars
    <2> QED
      BY <1>0, <2>1, QuietServes
  <1> DEFINE m == Head(msgs)
  <1>2. CASE ProcStartDistance
    <2> DEFINE opt == ClampInterval(m.opt)
               r == [op |-> "startDB", id |-> m.id, cont |-> Started(m.id, m.cmd)]
    <2>1. /\ msgs # << >> /\ m.t = "start" /\ msgs' = Tail(msgs)
          /\ UNCHANGED <<pending, engine, fails>>
          /\ saveTrackingSession(m.id, opt) /\ IsDistance(m.opt)
          /\ api' = Append(api, r)
      BY <1>2 DEF ProcStartDistance, Handle, modemVars
    <2>2. m \in Msg /\ m.id \in Ids /\ m.cmd \in Cmds /\ m.opt \in OptionType
      BY <2>1, HeadSaves, CommandType
    <2>3. opt \in OptionType /\ IsDistance(opt)
      BY <2>1, <2>2, ClampType, OptionsKept DEF IsDistance
    <2>4. time' = time
      <3> HIDE DEF opt, m
      <3> QED
        BY <2>1, <2>2, <2>3, SaveWithin
    <2>5. Started(m.id, m.cmd) \in Cont
      BY <2>2, ContTypes
    <2>6. r \in Request /\ ~SetsRun(r)
      BY <2>2, <2>5 DEF Request, SetsRun
    <2>7. ReqSaves(r)
      BY DEF ReqSaves, ContSaves, Started
    <2> HIDE DEF r, m
    <2> QED
      BY <1>0, <2>1, <2>4, <2>6, <2>7, AskedServes DEF m
  <1>3. CASE ProcStartTime
    <2> DEFINE opt == TbmFallback(ClampInterval(m.opt))
               reqs == startTimeBasedTrackingMultiplex(m.id, opt, m.cmd)
    <2>1. /\ msgs # << >> /\ m.t = "start" /\ msgs' = Tail(msgs)
          /\ UNCHANGED <<pending, engine, fails>>
          /\ saveTrackingSession(m.id, opt) /\ api' = api \o reqs
      BY <1>3 DEF ProcStartTime, Handle, modemVars, SendOrReport
    <2>2. m \in Msg /\ m.id \in Ids /\ m.cmd \in Cmds \cup {NoCmd} /\ m.opt \in OptionType
      BY <2>1, HeadSaves, CommandType
    <2>3. opt \in OptionType
      BY <2>2, ClampType, FallbackType
    <2> HIDE DEF opt, m
    <2>4. Keeps(reqs, time')
      BY <2>1, <2>2, <2>3, SaveWithin, StartKeeps
    <2>5. reqs \in Seq(Request) /\ \A i \in DOMAIN reqs : ReqSaves(reqs[i])
      BY <2>2, <2>3, StartMultiplexType, MultiplexSaves
    <2> HIDE DEF reqs
    <2> QED
      BY <2>1, <2>4, <2>5, HandledServes DEF m
  <1> QED
    BY <1>1, <1>2, <1>3

LEMMA UpdateServes ==
  ASSUME TypeOK, ServeInv,
         \/ ProcUpdateRejected \/ ProcUpdateTimeToDistance
         \/ ProcUpdateDistanceToTime \/ ProcUpdateTime \/ ProcUpdateDistance
  PROVE  ServeInv'
  <1>0. Within(time, TimeIds)
    BY DEF Within, TimeIds
  <1>1. CASE ProcUpdateRejected
    <2>1. msgs # << >> /\ Head(msgs).t = "update" /\ msgs' = Tail(msgs)
          /\ UNCHANGED <<api, pending, engine, fails, time>>
      BY <1>1 DEF ProcUpdateRejected, Handle, modemVars, adapterVars
    <2> QED
      BY <1>0, <2>1, QuietServes
  <1>2. PICK m : m = Head(msgs)
    OBVIOUS
  <1>3. PICK opt : opt = UpdatedOptions
    OBVIOUS
  <1>4. CASE ~ProcUpdateRejected
    <2>1. /\ msgs # << >> /\ m.t = "update" /\ msgs' = Tail(msgs)
          /\ UNCHANGED <<pending, engine, fails>>
      BY <1>2, <1>4 DEF ProcUpdateTimeToDistance, ProcUpdateDistanceToTime, ProcUpdateTime,
         ProcUpdateDistance, UpdateAccepted, Handle, modemVars, adapterVars
    <2>2. /\ m \in Msg /\ m.id \in Ids /\ m.cmd \in Cmds \cup {NoCmd} /\ m.opt \in OptionType
          /\ MsgSaves(m) /\ ~Failed(m)
      BY <1>2, <2>1, HeadSaves, CommandType
    <2>3. opt \in OptionType /\ opt.distance = m.opt.distance
      BY <1>2, <1>3, <2>2, ClampType, FallbackType, OptionsKept DEF UpdatedOptions
    <2>4. m.opt.distance => IsDistance(opt)
      BY <2>1, <2>2, <2>3 DEF MsgSaves, IsDistance
    <2>5. CASE ProcUpdateTimeToDistance
      <3> DEFINE reqs == stopTimeBasedTrackingMultiplex(m.id, m.cmd)
                 r == [op |-> "startDB", id |-> m.id, cont |-> [k |-> "ignore"]]
      <3>1. /\ m.id \in TimeIds /\ IsDistance(opt)
            /\ api' = Append(api \o reqs, r)
            /\ time' = [time EXCEPT ![m.id] = IF IsDistance(opt) THEN None ELSE opt]
        BY <1>2, <1>3, <2>4, <2>5 DEF ProcUpdateTimeToDistance, UpdateAccepted
      <3>2. Within(time', TimeIds \ {m.id})
        BY <2>2, <3>1 DEF Within, TimeIds, TypeOK
      <3>3. reqs \in Seq(Request) /\ \A i \in DOMAIN reqs : ReqSaves(reqs[i])
        BY <2>2, <3>1, StopMultiplexType, MultiplexSaves
      <3>4. Keeps(reqs, time')
        BY <2>2, <3>1, <3>2, StopKeeps
      <3>5. r \in Request /\ ~SetsRun(r) /\ ReqSaves(r)
        BY <2>2 DEF Request, Cont, SetsRun, ReqSaves, ContSaves
      <3> HIDE DEF reqs, r
      <3>6. <<r>> \in Seq(Request) /\ SetsNone(<<r>>)
        BY <3>5, One
      <3>7. Keeps(reqs \o <<r>>, time')
        BY <3>3, <3>4, <3>6, LastThenNone
      <3>8. /\ reqs \o <<r>> \in Seq(Request) /\ api' = api \o (reqs \o <<r>>)
        BY <3>1, <3>3, <3>5, AppendLast DEF TypeOK
      <3>9. \A i \in DOMAIN (reqs \o <<r>>) : ReqSaves((reqs \o <<r>>)[i])
        <4>1. \A i \in DOMAIN <<r>> : <<r>>[i] = r
          OBVIOUS
        <4> QED
          BY <3>3, <3>5, <3>6, <4>1, ConcatPlaces
      <3>10. PICK all : all = reqs \o <<r>>
        OBVIOUS
      <3> QED
        BY <1>2, <2>1, <3>7, <3>8, <3>9, <3>10, HandledServes
    <2>6. CASE ProcUpdateDistanceToTime
      <3> DEFINE r == [op |-> "stopDB", id |-> m.id,
                       cont |-> [k |-> "switched", id |-> m.id, cmd |-> m.cmd, opt |-> opt]]
      <3>1. eraseTrackingSession(m.id) /\ api' = Append(api, r)
        BY <1>2, <1>3, <2>6 DEF ProcUpdateDistanceToTime
      <3>2. r \in Request /\ ~SetsRun(r) /\ ReqSaves(r)
        BY <2>2, <2>3, ContTypes DEF Request, SetsRun, ReqSaves, ContSaves
      <3>3. Within(time', TimeIds)
        BY <2>2, <3>1, EraseWithin
      <3> HIDE DEF r
      <3> QED
        BY <1>2, <2>1, <3>1, <3>2, <3>3, AskedServes
    <2>7. CASE ProcUpdateTime
      <3> DEFINE reqs == updateTrackingMultiplex(m.id, opt, m.cmd)
      <3>1. /\ m.id \in TimeIds /\ ~m.opt.distance /\ saveTrackingSession(m.id, opt)
            /\ api' = api \o reqs
        BY <1>2, <1>3, <2>7 DEF ProcUpdateTime, UpdateAccepted, SendOrReport
      <3>2. WithinAnd(time', TimeIds \ {m.id}, m.id, opt)
        BY <2>2, <2>3, <3>1, SaveWithin DEF IsDistance
      <3>3. Keeps(reqs, time')
        BY <2>2, <2>3, <3>1, <3>2, UpdateKeeps
      <3>4. reqs \in Seq(Request) /\ \A i \in DOMAIN reqs : ReqSaves(reqs[i])
        BY <2>2, <2>3, <3>1, UpdateMultiplexType, MultiplexSaves
      <3> HIDE DEF reqs
      <3> QED
        BY <1>2, <2>1, <3>1, <3>3, <3>4, HandledServes
    <2>8. CASE ProcUpdateDistance
      <3> DEFINE r == [op |-> "stopDB", id |-> m.id,
                       cont |-> [k |-> "distRestart", id |-> m.id, cmd |-> m.cmd, opt |-> opt]]
      <3>1. m.opt.distance /\ api' = Append(api, r) /\ time' = time
        BY <1>2, <1>3, <2>8 DEF ProcUpdateDistance, UpdateAccepted, adapterVars
      <3>2. r \in Request /\ ~SetsRun(r) /\ ReqSaves(r)
        BY <2>2, <2>3, <2>4, <3>1, ContTypes DEF Request, SetsRun, ReqSaves, ContSaves
      <3> HIDE DEF r
      <3> QED
        BY <1>0, <1>2, <2>1, <3>1, <3>2, AskedServes
    <2> QED
      BY <1>4, <2>5, <2>6, <2>7, <2>8
  <1> QED
    BY <1>1, <1>4

LEMMA StopServes ==
  ASSUME TypeOK, ServeInv, ProcStopTime \/ ProcStopDistance \/ ProcStopUnknown
  PROVE  ServeInv'
  <1>0. Within(time, TimeIds)
    BY DEF Within, TimeIds
  <1>1. PICK m : m = Head(msgs)
    OBVIOUS
  <1>2. /\ msgs # << >> /\ m.t = "stop" /\ msgs' = Tail(msgs)
        /\ UNCHANGED <<pending, engine, fails>>
    BY <1>1 DEF ProcStopTime, ProcStopDistance, ProcStopUnknown, Handle, modemVars, adapterVars
  <1>3. m \in Msg /\ m.id \in Ids /\ m.cmd \in Cmds \cup {NoCmd}
    BY <1>1, <1>2, HeadSaves, CommandType
  <1>4. CASE ProcStopTime
    <2> DEFINE reqs == stopTimeBasedTrackingMultiplex(m.id, m.cmd)
    <2>1. m.id \in TimeIds /\ api' = api \o reqs /\ eraseTrackingSession(m.id)
      BY <1>1, <1>4 DEF ProcStopTime, SendOrReport
    <2>2. reqs \in Seq(Request) /\ \A i \in DOMAIN reqs : ReqSaves(reqs[i])
      BY <1>3, <2>1, StopMultiplexType, MultiplexSaves
    <2>3. Keeps(reqs, time')
      BY <1>3, <2>1, EraseWithin, StopKeeps
    <2> HIDE DEF reqs
    <2> QED
      BY <1>1, <1>2, <2>1, <2>2, <2>3, HandledServes
  <1>5. CASE ProcStopDistance
    <2> DEFINE r == [op |-> "stopDB", id |-> m.id,
                     cont |-> [k |-> "distStopped", id |-> m.id, cmd |-> m.cmd]]
    <2>1. api' = Append(api, r) /\ time' = time
      BY <1>1, <1>5 DEF ProcStopDistance, adapterVars
    <2>2. r \in Request /\ ~SetsRun(r) /\ ReqSaves(r)
      BY <1>3 DEF Request, Cont, SetsRun, ReqSaves, ContSaves
    <2> HIDE DEF r
    <2> QED
      BY <1>0, <1>1, <1>2, <2>1, <2>2, AskedServes
  <1>6. CASE ProcStopUnknown
    <2>1. UNCHANGED <<api, time>>
      BY <1>6 DEF ProcStopUnknown, adapterVars
    <2> QED
      BY <1>0, <1>1, <1>2, <2>1, QuietServes
  <1> QED
    BY <1>4, <1>5, <1>6

LEMMA EngineUpServes ==
  ASSUME TypeOK, ServeInv, ProcEngineUp
  PROVE  ServeInv'
  <1>1. PICK reqs \in restartSessions : api' = api \o reqs
    BY DEF ProcEngineUp
  <1>2. /\ msgs # << >> /\ Head(msgs).t = "engineUp" /\ msgs' = Tail(msgs) \o pending
        /\ pending' = << >> /\ UNCHANGED <<time, engine, fails>>
    BY DEF ProcEngineUp, Handle, modemVars
  <1>3. /\ reqs \in Seq(Request) /\ api \in Seq(Request) /\ engine.tb \in Runs
        /\ msgs \in Seq(Msg) /\ Tail(msgs) \in Seq(Msg)
    BY <1>2, RestartType DEF TypeOK, Runs
  <1>4. pending \in Seq(Msg) /\ \A k \in DOMAIN pending : pending[k].t # "resp"
    BY PendingType
  <1>5. /\ \A i \in DOMAIN Tail(msgs) : i \in Nat /\ i + 1 \in DOMAIN msgs /\ Tail(msgs)[i] = msgs[i + 1]
        /\ \A i \in DOMAIN msgs : i # 1 => /\ i \in Nat /\ i - 1 \in DOMAIN Tail(msgs)
                                           /\ Tail(msgs)[i - 1] = msgs[i]
    BY <1>2, <1>3, TailPlaces
  <1>6. /\ \A i \in DOMAIN Tail(msgs) : i \in DOMAIN msgs' /\ msgs'[i] = Tail(msgs)[i]
        /\ \A i \in DOMAIN msgs' : \/ i \in DOMAIN Tail(msgs) /\ msgs'[i] = Tail(msgs)[i]
                                   \/ \E k \in DOMAIN pending : msgs'[i] = pending[k]
    BY <1>2, <1>3, <1>4, MsgMembers
  <1>7. /\ \A i \in DOMAIN api : i \in DOMAIN api' /\ api'[i] = api[i]
        /\ \A i \in DOMAIN api' : \/ i \in DOMAIN api /\ api'[i] = api[i]
                                  \/ \E k \in DOMAIN reqs : api'[i] = reqs[k]
    BY <1>1, <1>3, ReqMembers
  <1>8. HasOpen(api) => HasOpen(api')
    BY <1>7 DEF HasOpen
  <1>9. SavesInv'
    <2>1. \A i \in DOMAIN msgs' : MsgSaves(msgs'[i])
      BY <1>5, <1>6 DEF ServeInv, SavesInv
    <2>2. \A i \in DOMAIN api' : ReqSaves(api'[i])
      BY <1>7, RestartKeeps DEF ServeInv, SavesInv
    <2> QED
      BY <1>2, <2>1, <2>2 DEF SavesInv
  <1>10. FailedInv'
    <2>1. engine'.up \/ HasOpen(api')
      BY <1>2, <1>8 DEF ServeInv, FailedInv
    <2>2. ASSUME fails = 0, NEW i \in DOMAIN msgs', Failed(msgs'[i]), ~HasOpen(api')
          PROVE  \E j \in DOMAIN msgs' : i < j /\ msgs'[j].t = "engineUp"
      <3>1. i \in DOMAIN Tail(msgs) /\ i \in Nat /\ i + 1 \in DOMAIN msgs /\ Failed(msgs[i + 1])
        BY <1>4, <1>5, <1>6, <2>2 DEF Failed
      <3>2. PICK j \in DOMAIN msgs : i + 1 < j /\ msgs[j].t = "engineUp"
        BY <1>8, <2>2, <3>1 DEF ServeInv, FailedInv
      <3>3. j # 1 /\ j \in Nat /\ j - 1 \in DOMAIN Tail(msgs) /\ Tail(msgs)[j - 1].t = "engineUp"
        BY <1>5, <3>1, <3>2
      <3>4. i < j - 1
        BY <3>1, <3>2, <3>3
      <3> QED
        BY <1>6, <3>3, <3>4
    <2> QED
      BY <1>2, <2>1, <2>2 DEF FailedInv
  <1>11. ServingInv'
    BY <1>1, <1>2, <1>3, RestartKeeps DEF ServingInv
  <1> QED
    BY <1>9, <1>10, <1>11 DEF ServeInv

LEMMA ConfigServes ==
  ASSUME TypeOK, ServeInv, ProcConfigRobustLocation
  PROVE  ServeInv'
  <1> DEFINE stop == IF TimeIds = {} THEN << >>
                     ELSE <<[op |-> "stopFix", cont |-> NoCont]>>
  <1>1. stop \in Seq(Request) /\ \A i \in DOMAIN stop : ReqSaves(stop[i])
    <2>1. [op |-> "stopFix", cont |-> NoCont] \in Request
      BY DEF Request
    <2>2. ReqSaves([op |-> "stopFix", cont |-> NoCont])
      BY DEF ReqSaves, ContSaves
    <2> HIDE DEF NoCont
    <2> QED
      BY <2>1, <2>2
  <1>2. PICK reqs \in restartSessions : api' = api \o stop \o reqs
    BY DEF ProcConfigRobustLocation
  <1>3. reqs \in Seq(Request) /\ \A i \in DOMAIN reqs : ReqSaves(reqs[i])
    BY RestartType, RestartKeeps
  <1>4. /\ msgs # << >> /\ Head(msgs).t = "config" /\ msgs' = Tail(msgs)
        /\ UNCHANGED <<pending, engine, fails, time>>
    BY DEF ProcConfigRobustLocation, Handle, adapterVars, modemVars
  <1>5. api \in Seq(Request) /\ engine.tb \in Runs
    BY DEF TypeOK, Runs
  <1> HIDE DEF stop
  <1>6. PICK both : both = stop \o reqs
    OBVIOUS
  <1>7. both \in Seq(Request) /\ api' = api \o both /\ api \o stop \in Seq(Request)
    BY <1>1, <1>2, <1>3, <1>5, <1>6, ConcatAssociative
  <1>8. \A i \in DOMAIN both : ReqSaves(both[i])
    BY <1>1, <1>3, <1>6, ReqMembers
  <1>9. EndsServing(api \o both, engine.tb, time')
    BY <1>2, <1>4, <1>5, <1>7, RestartKeeps
  <1> QED
    BY <1>4, <1>7, <1>8, <1>9, HandledServes

LEMMA ResponsesServe ==
  ASSUME TypeOK, ServeInv, ProcResponse
  PROVE  ServeInv'
  <1>1. PICK c : c = TheCont
    OBVIOUS
  <1>2. \A k : Response(k) =>
          /\ msgs # << >> /\ Head(msgs).t = "resp" /\ msgs' = Tail(msgs)
          /\ UNCHANGED <<pending, engine, fails>>
          /\ c \in Cont /\ c.k = k /\ ContSaves(c)
          /\ k # "ignore" => c.id \in Ids /\ c.cmd \in Cmds \cup {NoCmd}
          /\ k \in {"updated", "switched", "distRestart", "distRestarted"} =>
               c.opt \in OptionType /\ [c EXCEPT !.k = "distRestarted"] \in Cont
    <2> TAKE k
    <2> HAVE Response(k)
    <2>1. /\ msgs # << >> /\ Head(msgs).t = "resp" /\ msgs' = Tail(msgs)
          /\ UNCHANGED <<pending, engine, fails>>
      BY DEF Response, Handle, modemVars
    <2>2. c \in Cont /\ c.k = k
      BY <1>1, ResponseType
    <2>3. ContSaves(c)
      BY <1>1, <2>1, HeadSaves DEF MsgSaves, TheCont
    <2> QED
      BY <1>1, <2>1, <2>2, <2>3, ResponseFields
  <1>3. Err /\ Head(msgs).t = "resp" => Failed(Head(msgs))
    BY DEF Err, Failed
  <1>4. Within(time, TimeIds)
    BY DEF Within, TimeIds
  <1>5. CASE ProcStarted \/ ProcUpdated \/ ProcStopped \/ ProcDistStopped
               \/ ProcDistRestarted \/ ProcIgnored
    <2>1. PICK k : Response(k)
      BY <1>5 DEF ProcStarted, ProcUpdated, ProcStopped, ProcDistStopped,
                  ProcDistRestarted, ProcIgnored
    <2>2. UNCHANGED api
      BY <1>5 DEF ProcStarted, ProcUpdated, ProcStopped, ProcDistStopped,
                  ProcDistRestarted, ProcIgnored
    <2>3. Err \/ Within(time', TimeIds)
      <3>1. CASE ProcStarted \/ ProcUpdated \/ ProcStopped \/ ProcIgnored
        BY <1>4, <3>1 DEF ProcStarted, ProcUpdated, ProcStopped, ProcIgnored
      <3>2. CASE ProcDistStopped
        <4>1. c.id \in Ids
          BY <1>2, <3>2 DEF ProcDistStopped
        <4>2. UNCHANGED time \/ eraseTrackingSession(c.id)
          BY <1>1, <3>2 DEF ProcDistStopped
        <4> QED
          BY <1>4, <4>1, <4>2, EraseWithin
      <3>3. CASE ProcDistRestarted
        <4>1. c.id \in Ids /\ c.opt \in OptionType /\ IsDistance(c.opt)
          BY <1>2, <3>3 DEF ProcDistRestarted, ContSaves, Cont, NoCont
        <4>2. UNCHANGED time \/ saveTrackingSession(c.id, c.opt)
          BY <1>1, <3>3 DEF ProcDistRestarted
        <4> QED
          BY <1>4, <4>1, <4>2, SaveWithin
      <3> QED
        BY <1>5, <3>1, <3>2, <3>3
    <2> QED
      BY <1>2, <1>3, <2>1, <2>2, <2>3, QuietServes
  <1>6. CASE ProcSwitched
    <2> DEFINE reqs == startTimeBasedTrackingMultiplex(c.id, c.opt, c.cmd)
    <2>1. /\ Response("switched") /\ api' = api \o reqs /\ saveTrackingSession(c.id, c.opt)
      BY <1>1, <1>6 DEF ProcSwitched, SendOrReport
    <2>2. c.id \in Ids /\ c.cmd \in Cmds \cup {NoCmd} /\ c.opt \in OptionType
      BY <1>2, <2>1
    <2>3. reqs \in Seq(Request) /\ \A i \in DOMAIN reqs : ReqSaves(reqs[i])
      BY <2>2, StartMultiplexType, MultiplexSaves
    <2>4. Keeps(reqs, time')
      BY <2>1, <2>2, SaveWithin, StartKeeps
    <2> HIDE DEF reqs
    <2> QED
      BY <1>2, <2>1, <2>3, <2>4, HandledServes
  <1>7. CASE ProcDistRestart
    <2> DEFINE next == [c EXCEPT !.k = "distRestarted"]
               r == [op |-> "startDB", id |-> c.id, cont |-> next]
    <2>1. /\ Response("distRestart") /\ UNCHANGED time
          /\ api' = IF Err THEN api ELSE Append(api, r)
      BY <1>1, <1>7 DEF ProcDistRestart
    <2>2. /\ c \in Cont /\ c.k = "distRestart" /\ c.id \in Ids /\ next \in Cont /\ IsDistance(c.opt)
      <3>1. c # NoCont
        BY <1>2, <2>1 DEF NoCont
      <3> QED
        BY <1>2, <2>1, <3>1 DEF ContSaves
    <2>3. next.opt = c.opt
      BY <2>2 DEF Cont
    <2>4. r \in Request /\ ~SetsRun(r)
      BY <2>2 DEF Request, SetsRun
    <2>5. ReqSaves(r)
      BY <2>2, <2>3 DEF ReqSaves, ContSaves
    <2> HIDE DEF r, next
    <2>6. CASE Err
      BY <1>2, <1>3, <2>1, <2>6, QuietServes
    <2>7. CASE ~Err
      BY <1>2, <1>4, <2>1, <2>4, <2>5, <2>7, AskedServes
    <2> QED
      BY <2>6, <2>7
  <1> QED
    BY <1>5, <1>6, <1>7 DEF ProcResponse

\* A request that is executed: the run it sets serves what those left promise.
LEMMA EndsTail ==
  ASSUME NEW q \in Seq(Request), q # << >>, NEW run, NEW f, EndsServing(q, run, f),
         NEW e, e = IF SetsRun(Head(q)) THEN RunOf(Head(q)) ELSE run
  PROVE  EndsServing(Tail(q), e, f)
  <1>1. /\ 1 \in DOMAIN q /\ Head(q) = q[1]
        /\ \A i \in DOMAIN Tail(q) : /\ i \in Nat /\ 1 <= i /\ i + 1 \in DOMAIN q
                                     /\ Tail(q)[i] = q[i + 1]
        /\ \A i \in DOMAIN q : i # 1 => /\ i \in Nat /\ i - 1 \in DOMAIN Tail(q)
                                        /\ Tail(q)[i - 1] = q[i]
    BY TailPlaces
  <1>2. PICK t : t = Tail(q)
    OBVIOUS
  <1>3. ASSUME SetsNone(t) PROVE Serves(e, f)
    <2>0. \A i \in DOMAIN q : i # 1 => ~SetsRun(q[i])
      BY <1>1, <1>2, <1>3 DEF SetsNone
    <2>1. CASE SetsRun(Head(q))
      <3>1. LastSet(q, 1)
        BY <1>1, <2>0, <2>1 DEF LastSet
      <3> QED
        BY <1>1, <2>1, <3>1 DEF EndsServing
    <2>2. CASE ~SetsRun(Head(q))
      <3>1. SetsNone(q)
        BY <1>1, <2>0, <2>2 DEF SetsNone
      <3> QED
        BY <2>2, <3>1 DEF EndsServing
    <2> QED
      BY <2>1, <2>2
  <1>4. ASSUME NEW i \in DOMAIN t, LastSet(t, i) PROVE Serves(RunOf(t[i]), f)
    <2>1. i \in Nat /\ 1 <= i /\ i + 1 \in DOMAIN q /\ t[i] = q[i + 1]
      BY <1>1, <1>2
    <2>2. \A j \in DOMAIN q : SetsRun(q[j]) => j <= i + 1
      <3> SUFFICES ASSUME NEW j \in DOMAIN q, SetsRun(q[j]), j # 1 PROVE j <= i + 1
        BY <2>1
      <3>1. j \in Nat /\ j - 1 \in DOMAIN t /\ SetsRun(t[j - 1])
        BY <1>1, <1>2
      <3>2. j - 1 <= i
        BY <1>4, <3>1 DEF LastSet
      <3> QED
        BY <2>1, <3>1, <3>2
    <2>3. LastSet(q, i + 1)
      BY <1>4, <2>1, <2>2 DEF LastSet
    <2> QED
      BY <2>1, <2>3 DEF EndsServing
  <1> QED
    BY <1>2, <1>3, <1>4 DEF EndsServing

LEMMA TailOpen ==
  ASSUME NEW q \in Seq(Request), q # << >>, Head(q).op # "open"
  PROVE  HasOpen(q) <=> HasOpen(Tail(q))
  <1>1. /\ 1 \in DOMAIN q /\ Head(q) = q[1]
        /\ \A i \in DOMAIN Tail(q) : i + 1 \in DOMAIN q /\ Tail(q)[i] = q[i + 1]
        /\ \A i \in DOMAIN q : i # 1 => i - 1 \in DOMAIN Tail(q) /\ Tail(q)[i - 1] = q[i]
    BY TailPlaces
  <1>2. PICK t : t = Tail(q)
    OBVIOUS
  <1>3. ASSUME NEW i \in DOMAIN q, q[i].op = "open" PROVE HasOpen(t)
    <2>1. i - 1 \in DOMAIN t /\ t[i - 1].op = "open"
      BY <1>1, <1>2, <1>3
    <2> QED
      BY <2>1 DEF HasOpen
  <1>4. ASSUME NEW i \in DOMAIN t, t[i].op = "open" PROVE HasOpen(q)
    <2>1. i + 1 \in DOMAIN q /\ q[i + 1].op = "open"
      BY <1>1, <1>2, <1>4
    <2> QED
      BY <2>1 DEF HasOpen
  <1> QED
    BY <1>2, <1>3, <1>4 DEF HasOpen

\* The response of a request carries what the request carried.
LEMMA RespondSaves ==
  ASSUME TypeOK, SavesInv, api # << >>, Head(api).op # "open", NEW ok \in BOOLEAN,
         Respond(Head(api), ok), api' = Tail(api), UNCHANGED pending
  PROVE  /\ SavesInv'
         /\ \A i \in DOMAIN msgs : i \in DOMAIN msgs' /\ msgs'[i] = msgs[i]
         /\ \A i \in DOMAIN msgs' : \/ i \in DOMAIN msgs /\ msgs'[i] = msgs[i]
                                    \/ msgs'[i].t = "resp" /\ msgs'[i].ok = ok
  <1> DEFINE r == Head(api)
             m == [t |-> "resp", cont |-> r.cont, ok |-> ok]
  <1>1. ReqSaves(r)
    BY TailPlaces DEF TypeOK, SavesInv
  <1>2. MsgSaves(m)
    BY <1>1 DEF MsgSaves, ReqSaves
  <1>3. msgs' = msgs \/ (m \in Msg /\ msgs' = Append(msgs, m))
    <2>1. r \in Request
      BY DEF TypeOK
    <2>2. r.cont # NoCont => m \in Msg
      BY <2>1, RequestFields DEF Msg
    <2> QED
      BY <2>2 DEF Respond
  <1>4. m.t = "resp" /\ m.ok = ok
    OBVIOUS
  <1> HIDE DEF m
  <1>5. /\ \A i \in DOMAIN msgs : i \in DOMAIN msgs' /\ msgs'[i] = msgs[i]
        /\ \A i \in DOMAIN msgs' : (i \in DOMAIN msgs /\ msgs'[i] = msgs[i]) \/ msgs'[i] = m
    <2>1. msgs \in Seq(Msg)
      BY DEF TypeOK
    <2>2. CASE m \in Msg /\ msgs' = Append(msgs, m)
      BY <2>1, <2>2, AppendMembers
    <2> QED
      BY <1>3, <2>2
  <1>6. \A i \in DOMAIN msgs' : MsgSaves(msgs'[i])
    BY <1>2, <1>5 DEF SavesInv
  <1>7. \A i \in DOMAIN api' : ReqSaves(api'[i])
    BY TailPlaces DEF TypeOK, SavesInv
  <1> QED
    BY <1>4, <1>5, <1>6, <1>7 DEF SavesInv

LEMMA ModemServes ==
  ASSUME TypeOK, ServeInv, LocApiStep \/ ModemCrash
  PROVE  ServeInv'
  <1>0. msgs \in Seq(Msg) /\ api \in Seq(Request)
    BY DEF TypeOK
  <1>1. CASE ApiSuccess
    <2>1. /\ api # << >> /\ Head(api).op # "open" /\ engine.up /\ engine' = Effect(Head(api))
          /\ Respond(Head(api), TRUE) /\ api' = Tail(api)
          /\ UNCHANGED <<pending, time, fails>>
      BY <1>1 DEF ApiSuccess, adapterVars
    <2>2. /\ SavesInv'
          /\ \A i \in DOMAIN msgs : i \in DOMAIN msgs' /\ msgs'[i] = msgs[i]
          /\ \A i \in DOMAIN msgs' : \/ i \in DOMAIN msgs /\ msgs'[i] = msgs[i]
                                     \/ msgs'[i].t = "resp" /\ msgs'[i].ok = TRUE
      BY <2>1, RespondSaves DEF ServeInv
    <2>3. HasOpen(api) <=> HasOpen(api')
      BY <1>0, <2>1, TailOpen
    <2>4. Head(api) \in Request
      BY <1>0, <2>1
    <2>5. /\ engine'.up
          /\ engine'.tb = IF SetsRun(Head(api)) THEN RunOf(Head(api)) ELSE engine.tb
      BY <2>1, <2>4, RequestFields DEF TypeOK, Effect, SetsRun, RunOf
    <2>6. FailedInv'
      BY <2>1, <2>2, <2>3, <2>5 DEF ServeInv, FailedInv, Failed
    <2>7. HasUp(msgs) => HasUp(msgs')
      BY <2>2 DEF HasUp
    <2>8. EndsServing(api, engine.tb, time) => EndsServing(api', engine'.tb, time')
      BY <1>0, <2>1, <2>5, EndsTail
    <2>9. ServingInv'
      BY <2>1, <2>3, <2>7, <2>8 DEF ServeInv, ServingInv
    <2> QED
      BY <2>2, <2>6, <2>9 DEF ServeInv
  <1>2. CASE ApiFailure
    <2>1. /\ api # << >> /\ Head(api).op # "open"
          /\ fails' = IF engine.up THEN fails + 1 ELSE fails
          /\ Respond(Head(api), FALSE) /\ api' = Tail(api)
          /\ UNCHANGED <<pending, time, engine>>
      BY <1>2 DEF ApiFailure, adapterVars
    <2>2. SavesInv'
      BY <2>1, RespondSaves DEF ServeInv
    <2>3. HasOpen(api) <=> HasOpen(api')
      BY <1>0, <2>1, TailOpen
    <2>4. fails' = 0 => HasOpen(api')
      BY <2>1, <2>3 DEF ServeInv, FailedInv, TypeOK
    <2> QED
      BY <2>1, <2>2, <2>3, <2>4 DEF ServeInv, FailedInv, ServingInv
  <1>3. CASE ApiOpen
    <2> DEFINE up == [t |-> "engineUp"]
    <2>1. /\ api # << >> /\ engine'.up /\ msgs' = Append(msgs, up)
          /\ api' = Tail(api) /\ UNCHANGED <<pending, time, fails>>
      BY <1>3 DEF ApiOpen, adapterVars, TypeOK
    <2>2. up.t = "engineUp" /\ MsgSaves(up) /\ ~Failed(up)
      BY DEF MsgSaves, Failed
    <2> HIDE DEF up
    <2>3. /\ Len(msgs) + 1 \in DOMAIN msgs' /\ msgs'[Len(msgs) + 1] = up
          /\ \A i \in DOMAIN msgs : i < Len(msgs) + 1 /\ i \in DOMAIN msgs' /\ msgs'[i] = msgs[i]
          /\ \A i \in DOMAIN msgs' : (i \in DOMAIN msgs /\ msgs'[i] = msgs[i]) \/ msgs'[i] = up
      BY <1>0, <2>1
    <2>4. \A i \in DOMAIN msgs' : MsgSaves(msgs'[i])
      BY <2>2, <2>3 DEF ServeInv, SavesInv
    <2>5. \A i \in DOMAIN api' : ReqSaves(api'[i])
      BY <1>0, <2>1, TailPlaces DEF ServeInv, SavesInv
    <2>6. SavesInv'
      BY <2>1, <2>4, <2>5 DEF ServeInv, SavesInv
    <2>7. HasUp(msgs')
      BY <2>2, <2>3 DEF HasUp
    <2>8. \A i \in DOMAIN msgs' : Failed(msgs'[i]) =>
            \E j \in DOMAIN msgs' : i < j /\ msgs'[j].t = "engineUp"
      BY <2>2, <2>3
    <2> QED
      BY <2>1, <2>6, <2>7, <2>8 DEF ServeInv, FailedInv, ServingInv
  <1>4. CASE ModemCrash
    <2> DEFINE r == [op |-> "open"]
    <2>1. api' = Append(api, r) /\ UNCHANGED <<msgs, pending, time, fails>>
      BY <1>4 DEF ModemCrash, adapterVars
    <2>2. r.op = "open" /\ ReqSaves(r)
      BY DEF ReqSaves
    <2> HIDE DEF r
    <2>3. /\ Len(api) + 1 \in DOMAIN api' /\ api'[Len(api) + 1] = r
          /\ \A i \in DOMAIN api' : (i \in DOMAIN api /\ api'[i] = api[i]) \/ api'[i] = r
      BY <1>0, <2>1
    <2>4. HasOpen(api')
      BY <2>2, <2>3 DEF HasOpen
    <2>5. SavesInv'
      BY <2>1, <2>2, <2>3 DEF ServeInv, SavesInv
    <2> QED
      BY <2>1, <2>4, <2>5 DEF ServeInv, FailedInv, ServingInv
  <1> QED
    BY <1>1, <1>2, <1>3, <1>4 DEF LocApiStep

LEMMA InitServes == Init => ServeInv
  <1> SUFFICES ASSUME Init PROVE ServeInv
    OBVIOUS
  <1>1. api = <<[op |-> "open"]>> /\ msgs = << >> /\ pending = << >>
    BY DEF Init
  <1>2. HasOpen(api)
    BY <1>1 DEF HasOpen
  <1>3. SavesInv
    BY <1>1 DEF SavesInv, ReqSaves
  <1> QED
    BY <1>1, <1>2, <1>3 DEF ServeInv, FailedInv, ServingInv

LEMMA NextServes ==
  ASSUME DistanceAsked, TypeOK, ServeInv, [Next]_vars
  PROVE  ServeInv'
  <1>1. CASE ClientStep
    BY <1>1, ClientServes
  <1>2. CASE MsgTaskStep
    <2>1. CASE ProcAddClient \/ ProcRemoveClientTime \/ ProcRemoveClient \/ ProcWait
      BY <2>1, RegistryServes
    <2>2. CASE ProcStartRejected \/ ProcStartDistance \/ ProcStartTime
      BY <2>2, StartServes
    <2>3. CASE \/ ProcUpdateRejected \/ ProcUpdateTimeToDistance
               \/ ProcUpdateDistanceToTime \/ ProcUpdateTime \/ ProcUpdateDistance
      BY <2>3, UpdateServes
    <2>4. CASE ProcStopTime \/ ProcStopDistance \/ ProcStopUnknown
      BY <2>4, StopServes
    <2>5. CASE ProcResponse
      BY <2>5, ResponsesServe
    <2> QED
      BY <1>2, <2>1, <2>2, <2>3, <2>4, <2>5, EngineUpServes, ConfigServes
         DEF MsgTaskStep, ProcResponse
  <1>3. CASE LocApiStep \/ ModemCrash
    BY <1>3, ModemServes
  <1>4. CASE UNCHANGED vars
    BY <1>4 DEF vars, adapterVars, modemVars, ServeInv, SavesInv, FailedInv, ServingInv
  <1> QED
    BY <1>1, <1>2, <1>3, <1>4 DEF Next

\* When all queues have drained the engine runs at least as often as the fastest
\* time based session asks for, however the multiplexing of starts, updates and
\* stops of any number of sessions interleaved with modem crashes and changes of
\* the robust location configuration, provided the modem turns down no request
\* while it is up, and that no client asks a modem without distance based tracking
\* for a distance (the switch to a distance based session does not test that).
THEOREM EngineServes ==
  ASSUME DistanceAsked
  PROVE  Spec => []EngineServesTime
  <1>1. TypeOK /\ ServeInv => EngineServesTime
    <2> SUFFICES ASSUME TypeOK, ServeInv, Quiescent, fails = 0, NEW id \in TimeIds
                 PROVE  engine.tb # None /\ engine.tb.minInterval <= time[id].minInterval
      BY DEF EngineServesTime
    <2>1. EndsServing(<< >>, engine.tb, time)
      BY DEF ServeInv, ServingInv, HasOpen, HasUp, Quiescent
    <2>2. Serves(engine.tb, time)
      BY <2>1 DEF EndsServing, SetsNone
    <2> QED
      BY <2>2 DEF Serves, Covers, TimeIds
  <1>2. Init => TypeOK /\ ServeInv
    BY InitType, InitServes
  <1>3. TypeOK /\ ServeInv /\ [Next]_vars => TypeOK' /\ ServeInv'
    BY NextType, NextServes
  <1> QED
    BY <1>1, <1>2, <1>3, PTL DEF Spec

-----------------------------------------------------------------------------
(* No command is forgotten.  One that was issued is carried by a message or *)
(* a request, or has its answer, or is among those nobody owes one.         *)

\* The adapter has taken the client in, or the client is gone.
Here(c) == c \in clients \/ life[c] = "gone"
Adds(m, c) == m.t = "add" /\ m.client = c

\* What carries a command knows its key and its kind.
Restarts(c) == c.k \in {"distRestart", "distRestarted"}
ContMatches(c) ==
  c # NoCont /\ c.k # "ignore" /\ c.cmd # NoCmd =>
    /\ c.cmd \in DOMAIN issued /\ issued[c.cmd].id = c.id /\ Here(Owner[c.id])
    /\ Restarts(c) => issued[c.cmd].op = "update"
CmdMatches(m) ==
  /\ m.cmd \in DOMAIN issued /\ issued[m.cmd].op = m.t /\ issued[m.cmd].id = m.id
  /\ m.t # "stop" => (issued[m.cmd].valid <=> m.opt.size # 0)
MsgMatches(m) ==
  /\ m.t \in {"start", "update", "stop"} => CmdMatches(m)
  /\ m.t = "resp" => ContMatches(m.cont) /\ (~m.ok => fails + ssrs > 0)
  /\ m.t = "remove" => life[m.client] = "gone"
ReqMatches(r) == r.op # "open" => ContMatches(r.cont)
Elements(s) == {s[i] : i \in DOMAIN s}
MatchInv ==
  /\ \A m \in Elements(msgs) : MsgMatches(m)
  /\ \A m \in Elements(pending) : MsgMatches(m) /\ Here(Owner[m.id])
  /\ \A r \in Elements(api) : ReqMatches(r)

\* A client is taken in before its commands, so that none of them is answered
\* while it is not known.
AddedInv ==
  /\ \A i \in DOMAIN msgs : msgs[i].t \in {"start", "update", "stop"} =>
       \/ Here(Owner[msgs[i].id])
       \/ \E j \in DOMAIN msgs : j < i /\ Adds(msgs[j], Owner[msgs[i].id])
  /\ \A c \in Clients : life[c] = "live" =>
       c \in clients \/ \E j \in DOMAIN msgs : Adds(msgs[j], c)

\* A modem that is down before any crash is opened by the first request.
OpenFirst == engine.up \/ ssrs > 0 \/ (1 \in DOMAIN api /\ api[1].op = "open")

Carried(n) == MsgHas(msgs, n) \/ MsgHas(pending, n) \/ ReqHas(api, n)
CarriedInv == \A n \in DOMAIN issued : Carried(n) \/ answers[n] # 0 \/ Excused(n)
ForgetInv == MatchInv /\ AddedInv /\ OpenFirst /\ CarriedInv

\* What a step keeps of the clients and of what was issued.
Grows ==
  /\ DOMAIN issued \subseteq DOMAIN issued'
  /\ \A n \in DOMAIN issued : issued'[n] = issued[n]
  /\ \A c \in Clients : life[c] = "gone" => life'[c] = "gone"
  /\ \A c \in Clients : Here(c) => Here(c)'
  /\ fails + ssrs > 0 => fails' + ssrs' > 0

\* Steps that leave the registry of clients and the commands alone.
LEMMA GrowsAlone ==
  ASSUME TypeOK, UNCHANGED <<life, issued>>, clients \subseteq clients',
         (UNCHANGED <<fails, ssrs>>) \/ fails' + ssrs' > 0
  PROVE  Grows
  BY DEF Grows, Here

LEMMA OwnerHere == \A id \in Ids : Owner[id] \in Clients
  BY ConstantsOK

LEMMA IssuedType ==
  ASSUME TypeOK, NEW n \in DOMAIN issued
  PROVE  /\ n \in Cmds /\ n # NoCmd /\ answers[n] \in Nat
         /\ issued[n].id \in Ids /\ Owner[issued[n].id] \in Clients
         /\ issued[n].op \in {"start", "update", "stop"}
  <1> DEFINE Issued == [op : {"start", "update", "stop"}, id : Ids, valid : BOOLEAN]
  <1>0. issued \in Seq(Issued) /\ Len(issued) <= MaxCmds
    BY DEF TypeOK
  <1>1. n \in 1 .. Len(issued) /\ Len(issued) \in Nat /\ issued[n] \in Issued
    <2> HIDE DEF Issued
    <2> QED
      BY <1>0
  <1>2. n \in Cmds /\ n # NoCmd
    BY <1>0, <1>1, ConstantsOK DEF Cmds, NoCmd
  <1> QED
    BY <1>1, <1>2, OwnerHere DEF TypeOK

LEMMA ContKept ==
  ASSUME Grows, NEW c \in Cont \cup {NoCont}, ContMatches(c)
  PROVE  ContMatches(c)'
  <1>1. c # NoCont /\ c.k # "ignore" => Owner[c.id] \in Clients
    BY ContFields, OwnerHere
  <1> QED
    BY <1>1 DEF ContMatches, Grows

LEMMA MsgKept ==
  ASSUME Grows, NEW m \in Msg, MsgMatches(m)
  PROVE  MsgMatches(m)'
  <1>1. m.t \in {"start", "update", "stop"} => CmdMatches(m)'
    BY DEF MsgMatches, CmdMatches, Grows
  <1>2. m.t = "resp" => ContMatches(m.cont)' /\ (~m.ok => fails' + ssrs' > 0)
    BY CommandType, ContKept DEF MsgMatches, Grows
  <1>3. m.t = "remove" => life'[m.client] = "gone"
    BY CommandType DEF MsgMatches, Grows
  <1> QED
    BY <1>1, <1>2, <1>3 DEF MsgMatches

LEMMA ReqKept ==
  ASSUME Grows, NEW r \in Request, ReqMatches(r)
  PROVE  ReqMatches(r)'
  BY RequestFields, ContKept DEF ReqMatches

LEMMA ExcusedKept ==
  ASSUME TypeOK, Grows, NEW n \in DOMAIN issued, Excused(n)
  PROVE  Excused(n)'
  <1>1. issued'[n] = issued[n] /\ issued[n].id \in Ids /\ Owner[issued[n].id] \in Clients
    BY IssuedType DEF Grows
  <1> QED
    BY <1>1 DEF Excused, Unservable, Grows

LEMMA ElementsOf ==
  ASSUME NEW S, NEW s \in Seq(S)
  PROVE  /\ Elements(s) \subseteq S
         /\ \A e \in S : Elements(Append(s, e)) = Elements(s) \cup {e}
         /\ s # << >> => Head(s) \in Elements(s) /\ Elements(Tail(s)) \subseteq Elements(s)
  <1>1. Elements(s) \subseteq S
    BY DEF Elements
  <1>2. ASSUME NEW e \in S
        PROVE  Elements(Append(s, e)) = Elements(s) \cup {e}
    <2>1. /\ DOMAIN Append(s, e) = DOMAIN s \cup {Len(s) + 1}
          /\ \A i \in DOMAIN s : Append(s, e)[i] = s[i]
          /\ Append(s, e)[Len(s) + 1] = e
      OBVIOUS
    <2> QED
      BY <2>1 DEF Elements
  <1>3. s # << >> => Head(s) \in Elements(s) /\ Elements(Tail(s)) \subseteq Elements(s)
    BY TailPlaces DEF Elements
  <1> QED
    BY <1>1, <1>2, <1>3

LEMMA ElementsBoth ==
  ASSUME NEW S, NEW s \in Seq(S), NEW t \in Seq(S)
  PROVE  Elements(s \o t) \subseteq Elements(s) \cup Elements(t)
  BY ConcatPlaces DEF Elements

LEMMA ElementsType ==
  ASSUME TypeOK
  PROVE  /\ Elements(msgs) \subseteq Msg /\ Elements(pending) \subseteq Msg
         /\ Elements(api) \subseteq Request
         /\ \A m \in Elements(pending) : m.t \in {"start", "update", "stop"} /\ m.id \in Ids
  <1>1. Command \subseteq Msg /\ \A m \in Command : m.id \in Ids /\ m.t \in {"start", "update", "stop"}
    BY DEF Msg, Command
  <1>2. Elements(pending) \subseteq Command
    BY ElementsOf DEF TypeOK
  <1> QED
    BY <1>1, <1>2, ElementsOf DEF TypeOK

\* The messages and requests there were are as before; new ones are to match.
LEMMA MatchKept ==
  ASSUME TypeOK, MatchInv, Grows,
         \A m \in Elements(msgs)' :
            m \in Elements(msgs) \cup Elements(pending) \/ (m \in Msg /\ MsgMatches(m)'),
         \A m \in Elements(pending)' :
            m \in Elements(pending) \/ (m \in Elements(msgs) /\ m.id \in Ids /\ Here(Owner[m.id])),
         \A r \in Elements(api)' :
            r \in Elements(api) \/ (r \in Request /\ ReqMatches(r))
  PROVE  MatchInv'
  <1>1. \A m \in Elements(msgs) \cup Elements(pending) : MsgMatches(m)'
    BY ElementsType, MsgKept DEF MatchInv
  <1>2. \A m \in Elements(pending)' : Here(Owner[m.id])'
    BY ElementsType, OwnerHere DEF MatchInv, Grows
  <1>3. \A r \in Elements(api)' : ReqMatches(r)'
    BY ElementsType, ReqKept DEF MatchInv
  <1> QED
    BY <1>1, <1>2, <1>3 DEF MatchInv

\* What a handler takes from the queue.
LEMMA TakenPlaces ==
  ASSUME TypeOK, AddedInv, msgs # << >>, msgs' = Tail(msgs), Grows,
         \A c \in Clients : life'[c] = "live" => life[c] = "live" /\ (c \in clients => c \in clients'),
         Head(msgs).t = "add" => Head(msgs).client \in clients'
  PROVE  AddedInv'
  <1>1. /\ \A i \in DOMAIN msgs' : i \in Nat /\ 1 <= i /\ i + 1 \in DOMAIN msgs /\ msgs'[i] = msgs[i + 1]
        /\ \A i \in DOMAIN msgs : i # 1 => i \in Nat /\ i - 1 \in DOMAIN msgs' /\ msgs'[i - 1] = msgs[i]
        /\ Head(msgs) = msgs[1] /\ \A i \in DOMAIN msgs : msgs[i] \in Msg
    BY TailPlaces DEF TypeOK
  <1>2. ASSUME NEW i \in DOMAIN msgs', msgs'[i].t \in {"start", "update", "stop"},
               NEW c, c = Owner[msgs'[i].id], c \in Clients
        PROVE  Here(c)' \/ \E j \in DOMAIN msgs' : j < i /\ Adds(msgs'[j], c)
    <2>1. Here(c) \/ \E j \in DOMAIN msgs : j < i + 1 /\ Adds(msgs[j], c)
      BY <1>1, <1>2 DEF AddedInv
    <2>2. ASSUME NEW j \in DOMAIN msgs, j < i + 1, Adds(msgs[j], c)
          PROVE  Here(c)' \/ \E k \in DOMAIN msgs' : k < i /\ Adds(msgs'[k], c)
      <3>1. CASE j = 1
        BY <1>1, <2>2, <3>1 DEF Adds, Here
      <3>2. CASE j # 1
        <4>1. j - 1 \in DOMAIN msgs' /\ msgs'[j - 1] = msgs[j] /\ j - 1 < i
          BY <1>1, <2>2, <3>2
        <4> QED
          BY <2>2, <4>1
      <3> QED
        BY <3>1, <3>2
    <2> QED
      BY <1>2, <2>1, <2>2 DEF Grows
  <1>3. ASSUME NEW c \in Clients, life'[c] = "live"
        PROVE  c \in clients' \/ \E j \in DOMAIN msgs' : Adds(msgs'[j], c)
    <2>1. c \in clients \/ \E j \in DOMAIN msgs : Adds(msgs[j], c)
      BY <1>3 DEF AddedInv
    <2>2. ASSUME NEW j \in DOMAIN msgs, Adds(msgs[j], c)
          PROVE  c \in clients' \/ \E k \in DOMAIN msgs' : Adds(msgs'[k], c)
      <3>1. CASE j = 1
        BY <1>1, <2>2, <3>1 DEF Adds
      <3>2. CASE j # 1
        BY <1>1, <2>2, <3>2
      <3> QED
        BY <3>1, <3>2
    <2> QED
      BY <1>3, <2>1, <2>2
  <1>4. \A i \in DOMAIN msgs' : msgs'[i].t \in {"start", "update", "stop"} => Owner[msgs'[i].id] \in Clients
    BY <1>1, CommandType, OwnerHere
  <1> QED
    BY <1>2, <1>3, <1>4 DEF AddedInv

\* The requests in front of the queue stay there when others are added.
LEMMA OpenStays ==
  ASSUME TypeOK, OpenFirst, NEW reqs \in Seq(Request), api' = api \o reqs,
         UNCHANGED <<engine, ssrs>>
  PROVE  OpenFirst'
  <1>1. \A i \in DOMAIN api : i \in DOMAIN api' /\ api'[i] = api[i]
    BY ReqMembers DEF TypeOK
  <1> QED
    BY <1>1 DEF OpenFirst

LEMMA MsgHasTail ==
  ASSUME NEW s \in Seq(Msg), s # << >>, NEW n, MsgHas(s, n)
  PROVE  MsgHas(Tail(s), n) \/ MsgCmd(Head(s)) = n
  <1>1. PICK i \in DOMAIN s : MsgCmd(s[i]) = n
    BY DEF MsgHas
  <1>2. CASE i = 1
    BY <1>1, <1>2, TailPlaces
  <1>3. CASE i # 1
    BY <1>1, <1>3, TailPlaces DEF MsgHas
  <1> QED
    BY <1>2, <1>3

LEMMA MsgHasBoth ==
  ASSUME NEW s \in Seq(Msg), NEW t \in Seq(Msg), NEW n, MsgHas(s, n) \/ MsgHas(t, n)
  PROVE  MsgHas(s \o t, n)
  <1> DEFINE b == s \o t
  <1>1. /\ \A i \in DOMAIN s : i \in DOMAIN b /\ b[i] = s[i]
        /\ \A k \in DOMAIN t : Len(s) + k \in DOMAIN b /\ b[Len(s) + k] = t[k]
    BY ConcatPlaces
  <1> HIDE DEF b
  <1>2. MsgHas(b, n)
    BY <1>1 DEF MsgHas
  <1> QED
    BY <1>2 DEF b

LEMMA ReqHasBoth ==
  ASSUME NEW s \in Seq(Request), NEW t \in Seq(Request), NEW n, ReqHas(s, n) \/ ReqHas(t, n)
  PROVE  ReqHas(s \o t, n)
  <1> DEFINE b == s \o t
  <1>1. /\ \A i \in DOMAIN s : i \in DOMAIN b /\ b[i] = s[i]
        /\ \A k \in DOMAIN t : Len(s) + k \in DOMAIN b /\ b[Len(s) + k] = t[k]
    BY ConcatPlaces
  <1> HIDE DEF b
  <1>2. ReqHas(b, n)
    BY <1>1 DEF ReqHas
  <1> QED
    BY <1>2 DEF b

\* A handler answers its command, hands it on in a request, or leaves it excused.
LEMMA HandledCarries ==
  ASSUME TypeOK, CarriedInv, Grows, msgs # << >>, msgs' = Tail(msgs),
         NEW reqs \in Seq(Request), api' = api \o reqs, UNCHANGED <<pending, issued>>,
         \A n \in DOMAIN issued : answers'[n] = answers[n] \/ answers'[n] = answers[n] + 1,
         NEW cmd, cmd = MsgCmd(Head(msgs)),
         cmd \in DOMAIN issued =>
           ReqHas(reqs, cmd) \/ answers'[cmd] = answers[cmd] + 1 \/ Excused(cmd)
  PROVE  CarriedInv'
  <1> SUFFICES ASSUME NEW n \in DOMAIN issued
               PROVE  Carried(n)' \/ answers'[n] # 0 \/ Excused(n)'
    BY DEF CarriedInv
  <1>1. msgs \in Seq(Msg) /\ api \in Seq(Request) /\ answers[n] \in Nat
    BY IssuedType DEF TypeOK
  <1>2. CASE n = cmd
    BY <1>1, <1>2, ReqHasBoth, ExcusedKept DEF Carried
  <1>3. CASE n # cmd
    <2>1. MsgHas(msgs, n) => MsgHas(msgs', n)
      BY <1>1, <1>3, MsgHasTail
    <2>2. ReqHas(api, n) => ReqHas(api', n)
      BY <1>1, ReqHasBoth
    <2>3. MsgHas(pending, n) => MsgHas(pending', n)
      OBVIOUS
    <2>4. answers[n] # 0 => answers'[n] # 0
      <3>1. \A k \in Nat : k # 0 => k + 1 # 0
        OBVIOUS
      <3> QED
        BY <1>1, <3>1
    <2>5. Carried(n) \/ answers[n] # 0 \/ Excused(n)
      BY DEF CarriedInv
    <2> QED
      BY <2>1, <2>2, <2>3, <2>4, <2>5, ExcusedKept DEF Carried
  <1> QED
    BY <1>2, <1>3

LEMMA HandledKeeps ==
  ASSUME TypeOK, ForgetInv, Grows, msgs # << >>, msgs' = Tail(msgs),
         NEW reqs \in Seq(Request), api' = api \o reqs,
         \A i \in DOMAIN reqs : ReqMatches(reqs[i]),
         UNCHANGED <<pending, issued, life, engine, ssrs>>,
         \A c \in Clients : life[c] = "live" /\ c \in clients => c \in clients',
         Head(msgs).t = "add" => Head(msgs).client \in clients',
         \A n \in DOMAIN issued : answers'[n] = answers[n] \/ answers'[n] = answers[n] + 1,
         NEW cmd, cmd = MsgCmd(Head(msgs)),
         cmd \in DOMAIN issued =>
           ReqHas(reqs, cmd) \/ answers'[cmd] = answers[cmd] + 1 \/ Excused(cmd)
  PROVE  ForgetInv'
  <1>1. CarriedInv'
    BY HandledCarries DEF ForgetInv
  <1>2. OpenFirst'
    BY OpenStays DEF ForgetInv
  <1>3. AddedInv'
    BY TakenPlaces DEF ForgetInv
  <1>4. MatchInv'
    <2>1. /\ Elements(msgs)' \subseteq Elements(msgs) /\ Elements(pending)' = Elements(pending)
          /\ Elements(api)' \subseteq Elements(api) \cup Elements(reqs)
          /\ Elements(reqs) \subseteq Request
      BY ElementsOf, ElementsBoth DEF TypeOK
    <2>2. \A r \in Elements(reqs) : ReqMatches(r)
      BY DEF Elements
    <2> QED
      BY <2>1, <2>2, MatchKept DEF ForgetInv
  <1> QED
    BY <1>1, <1>2, <1>3, <1>4 DEF ForgetInv

\* An answer reaches a client that is not gone.
LEMMA Reported ==
  ASSUME TypeOK, NEW id, NEW cmd \in DOMAIN issued, issued[cmd].id = id, Here(Owner[id]),
         reportResponse(id, cmd)
  PROVE  answers'[cmd] = answers[cmd] + 1 \/ Excused(cmd)
  <1>1. cmd \in Cmds /\ cmd # NoCmd
    BY IssuedType
  <1>2. CASE Owner[id] \in clients
    BY <1>1, <1>2 DEF reportResponse, TypeOK
  <1>3. CASE Owner[id] \notin clients
    BY <1>3 DEF Here, Excused
  <1> QED
    BY <1>2, <1>3

\* A command the adapter may answer, or none.
Known(id, cmd) ==
  cmd # NoCmd => cmd \in DOMAIN issued /\ issued[cmd].id = id /\ Here(Owner[id])

LEMMA HeadMatches ==
  ASSUME TypeOK, ForgetInv, msgs # << >>
  PROVE  /\ Head(msgs) \in Msg /\ MsgMatches(Head(msgs))
         /\ Head(msgs).t \in {"start", "update", "stop"} => Here(Owner[Head(msgs).id])
  <1>1. /\ Head(msgs) = msgs[1] /\ 1 \in DOMAIN msgs /\ Head(msgs) \in Msg
        /\ \A j \in DOMAIN msgs : j \in Nat /\ 1 <= j
    BY TailPlaces DEF TypeOK
  <1>2. MsgMatches(Head(msgs))
    BY <1>1, ElementsOf DEF TypeOK, ForgetInv, MatchInv
  <1>3. Head(msgs).t \in {"start", "update", "stop"} => Here(Owner[Head(msgs).id])
    BY <1>1 DEF ForgetInv, AddedInv
  <1> QED
    BY <1>1, <1>2, <1>3

LEMMA HeadCommand ==
  ASSUME TypeOK, ForgetInv, NEW t \in {"start", "update", "stop"}, Handle(t),
         NEW m, m = Head(msgs)
  PROVE  /\ msgs # << >> /\ m.t = t /\ m \in Msg /\ m.id \in Ids /\ m.cmd \in Cmds
         /\ m.cmd = MsgCmd(m) /\ m.cmd \in DOMAIN issued
         /\ issued[m.cmd].op = t /\ issued[m.cmd].id = m.id
         /\ t # "stop" => (issued[m.cmd].valid <=> m.opt.size # 0)
         /\ Here(Owner[m.id]) /\ Known(m.id, m.cmd)
  <1>1. /\ msgs # << >> /\ m.t = t /\ m \in Msg /\ m.id \in Ids /\ m.cmd \in Cmds /\ m.cmd = MsgCmd(m)
        /\ MsgMatches(m) /\ Here(Owner[m.id])
    BY HeadMatches, HeadCmd DEF Handle
  <1>2. CmdMatches(m)
    BY <1>1 DEF MsgMatches
  <1> QED
    BY <1>1, <1>2 DEF CmdMatches, Known

LEMMA HeadCont ==
  ASSUME TypeOK, ForgetInv, NEW k, Response(k), NEW c, c = TheCont
  PROVE  /\ msgs # << >> /\ msgs' = Tail(msgs) /\ Head(msgs).t = "resp"
         /\ UNCHANGED <<clients, pending, life, issued, engine, ssrs, fails>>
         /\ c \in Cont /\ c.k = k
         /\ k # "ignore" => /\ c.id \in Ids /\ c.cmd \in Cmds \cup {NoCmd}
                            /\ c.cmd = MsgCmd(Head(msgs)) /\ Known(c.id, c.cmd)
         /\ k # "ignore" /\ Restarts(c) /\ c.cmd # NoCmd => issued[c.cmd].op = "update"
         /\ Err => fails + ssrs > 0
  <1>1. /\ msgs # << >> /\ msgs' = Tail(msgs) /\ Head(msgs).t = "resp"
        /\ UNCHANGED <<clients, pending, life, issued, engine, ssrs, fails>>
    BY DEF Response, Handle, clientVars, modemVars
  <1>2. /\ c \in Cont /\ c.k = k
        /\ k # "ignore" => c.id \in Ids /\ c.cmd \in Cmds \cup {NoCmd} /\ c.cmd = MsgCmd(Head(msgs))
    BY ResponseType, ResponseFields, HeadCmd
  <1>3. ContMatches(c) /\ (Err => fails + ssrs > 0)
    BY <1>1, HeadMatches DEF MsgMatches, TheCont, Err
  <1>4. k # "ignore" => c # NoCont
    BY <1>2 DEF Cont, NoCont
  <1> QED
    BY <1>1, <1>2, <1>3, <1>4 DEF ContMatches, Known

LEMMA IdleMatches ==
  ASSUME NEW r, ReqCmd(r) = NoCmd
  PROVE  ReqMatches(r)
  BY DEF ReqMatches, ReqCmd, ContMatches

LEMMA MultiplexMatches ==
  ASSUME NEW id, NEW opt, NEW cmd, Known(id, cmd)
  PROVE  /\ \A i \in DOMAIN startTimeBasedTrackingMultiplex(id, opt, cmd) :
              ReqMatches(startTimeBasedTrackingMultiplex(id, opt, cmd)[i])
         /\ \A i \in DOMAIN updateTrackingMultiplex(id, opt, cmd) :
              ReqMatches(updateTrackingMultiplex(id, opt, cmd)[i])
         /\ \A i \in DOMAIN stopTimeBasedTrackingMultiplex(id, cmd) :
              ReqMatches(stopTimeBasedTrackingMultiplex(id, cmd)[i])
  <1> DEFINE Good(q) == \A i \in DOMAIN q : ReqMatches(q[i])
  <1>1. \A run, c : c.k \in {"started", "updated", "stopped"} /\ c.id = id /\ c.cmd = cmd =>
          Good(<<StartTB(run, c)>>) /\ Good(<<[op |-> "stopFix", cont |-> c]>>)
    BY DEF ReqMatches, ContMatches, Restarts, Known, StartTB
  <1>2. Good(<< >>)
    OBVIOUS
  <1>3. Started(id, cmd).k = "started" /\ Started(id, cmd).id = id /\ Started(id, cmd).cmd = cmd
    BY DEF Started
  <1> HIDE DEF Good
  <1>4. \A run, old :
          /\ Good(<<StartTB(run, Started(id, cmd))>>)
          /\ Good(<<StartTB(run, [k |-> "updated", id |-> id, cmd |-> cmd, opt |-> old])>>)
          /\ Good(<<[op |-> "stopFix", cont |-> [k |-> "stopped", id |-> id, cmd |-> cmd]]>>)
    BY <1>1, <1>3
  <1>5. Good(startTimeBasedTrackingMultiplex(id, opt, cmd))
    BY <1>2, <1>4, Zenon DEF startTimeBasedTrackingMultiplex
  <1>6. Good(updateTrackingMultiplex(id, opt, cmd))
    BY <1>2, <1>4, Zenon DEF updateTrackingMultiplex
  <1>7. Good(stopTimeBasedTrackingMultiplex(id, cmd))
    BY <1>2, <1>4, Zenon DEF stopTimeBasedTrackingMultiplex
  <1> QED
    BY <1>5, <1>6, <1>7 DEF Good

\* What most handlers leave alone.
HandledAlone ==
  /\ msgs # << >> /\ msgs' = Tail(msgs) /\ Head(msgs).t # "add"
  /\ UNCHANGED <<pending, issued, life, engine, ssrs, fails, clients>>

LEMMA ReportEither ==
  ASSUME TypeOK, NEW id, NEW cmd \in Cmds \cup {NoCmd},
         reportResponse(id, cmd) \/ UNCHANGED answers
  PROVE  \A n \in DOMAIN issued : answers'[n] = answers[n] \/ answers'[n] = answers[n] + 1
  BY ReportOne, IssuedType

\* The shared end of the handlers: the requests are sent, or the answer is given.
LEMMA SentKnown ==
  ASSUME TypeOK, ForgetInv, HandledAlone, NEW id, NEW cmd \in Cmds \cup {NoCmd},
         cmd = MsgCmd(Head(msgs)), Known(id, cmd),
         NEW reqs \in Seq(Request), \A i \in DOMAIN reqs : ReqMatches(reqs[i]),
         api' = api \o reqs, reportResponse(id, cmd) \/ UNCHANGED answers,
         \/ reportResponse(id, cmd)
         \/ ReqHas(reqs, cmd)
         \/ cmd \in DOMAIN issued => Excused(cmd)
  PROVE  ForgetInv'
  <1>1. Grows
    BY GrowsAlone DEF HandledAlone
  <1>2. \A n \in DOMAIN issued : answers'[n] = answers[n] \/ answers'[n] = answers[n] + 1
    BY ReportEither
  <1>3. cmd \in DOMAIN issued =>
          ReqHas(reqs, cmd) \/ answers'[cmd] = answers[cmd] + 1 \/ Excused(cmd)
    <2>1. cmd \in DOMAIN issued => issued[cmd].id = id /\ Here(Owner[id])
      BY IssuedType DEF Known
    <2> QED
      BY <2>1, Reported
  <1> QED
    BY <1>1, <1>2, <1>3, HandledKeeps DEF HandledAlone

LEMMA SentForgets ==
  ASSUME TypeOK, ForgetInv, HandledAlone, NEW id, NEW cmd \in Cmds \cup {NoCmd},
         cmd = MsgCmd(Head(msgs)), Known(id, cmd),
         NEW reqs \in Seq(Request), \A i \in DOMAIN reqs : ReqMatches(reqs[i]),
         OneFor(reqs, cmd), SendOrReport(reqs, id, cmd)
  PROVE  ForgetInv'
  <1>1. reqs # << >> => ReqHas(reqs, cmd)
    BY DEF OneFor, ReqHas
  <1> QED
    BY <1>1, SentKnown DEF SendOrReport

LEMMA AnsweredForgets ==
  ASSUME TypeOK, ForgetInv, HandledAlone, NEW id, NEW cmd \in Cmds \cup {NoCmd},
         cmd = MsgCmd(Head(msgs)), Known(id, cmd), UNCHANGED api,
         reportResponse(id, cmd) \/ (UNCHANGED answers /\ (cmd \in DOMAIN issued => Excused(cmd)))
  PROVE  ForgetInv'
  <1> DEFINE reqs == << >>
  <1>1. reqs \in Seq(Request) /\ api' = api \o reqs /\ \A i \in DOMAIN reqs : ReqMatches(reqs[i])
    BY DEF TypeOK
  <1> HIDE DEF reqs
  <1> QED
    BY <1>1, SentKnown

LEMMA PassedForgets ==
  ASSUME TypeOK, ForgetInv, HandledAlone, NEW id, NEW cmd \in Cmds \cup {NoCmd},
         cmd = MsgCmd(Head(msgs)), Known(id, cmd), NEW r \in Request, ReqMatches(r),
         ReqCmd(r) = cmd, api' = Append(api, r), UNCHANGED answers
  PROVE  ForgetInv'
  <1> DEFINE reqs == <<r>>
  <1>1. /\ reqs \in Seq(Request) /\ api' = api \o reqs /\ \A i \in DOMAIN reqs : ReqMatches(reqs[i])
        /\ ReqHas(reqs, cmd)
    BY Singles DEF TypeOK
  <1> HIDE DEF reqs
  <1> QED
    BY <1>1, SentKnown

LEMMA IdleForgets ==
  ASSUME TypeOK, ForgetInv, HandledAlone, MsgCmd(Head(msgs)) = NoCmd,
         NEW reqs \in Seq(Request), IdleRequests(reqs), api' = api \o reqs, UNCHANGED answers
  PROVE  ForgetInv'
  <1>1. \A i \in DOMAIN reqs : ReqMatches(reqs[i])
    BY IdleMatches DEF IdleRequests
  <1>2. NoCmd \notin DOMAIN issued
    BY IssuedType
  <1>3. Known(0, NoCmd)
    BY DEF Known
  <1> QED
    BY <1>1, <1>2, <1>3, SentKnown

LEMMA KnownMatches ==
  ASSUME NEW r, NEW id, NEW cmd, Known(id, cmd), r.cont.id = id, r.cont.cmd = cmd,
         Restarts(r.cont) /\ cmd # NoCmd => issued[cmd].op = "update"
  PROVE  ReqMatches(r)
  BY DEF ReqMatches, ContMatches, Known

LEMMA StartForgets ==
  ASSUME TypeOK, ForgetInv, ProcStartRejected \/ ProcStartDistance \/ ProcStartTime
  PROVE  ForgetInv'
  <1> DEFINE m == Head(msgs)
  <1>0. Handle("start")
    BY DEF ProcStartRejected, ProcStartDistance, ProcStartTime
  <1>1. /\ msgs # << >> /\ m.t = "start" /\ m \in Msg /\ m.id \in Ids /\ m.cmd \in Cmds
        /\ m.cmd = MsgCmd(Head(msgs)) /\ m.cmd \in DOMAIN issued
        /\ issued[m.cmd].op = "start" /\ issued[m.cmd].id = m.id
        /\ issued[m.cmd].valid <=> m.opt.size # 0
        /\ Here(Owner[m.id]) /\ Known(m.id, m.cmd)
    BY <1>0, HeadCommand
  <1>2. HandledAlone /\ m.opt \in OptionType
    BY <1>0, <1>1, CommandType
       DEF ProcStartRejected, ProcStartDistance, ProcStartTime, HandledAlone, clientVars,
           adapterVars, modemVars
  <1>3. CASE ProcStartRejected
    <2>1. /\ ~CanTrack(Owner[m.id]) \/ m.opt.size = 0
          /\ UNCHANGED <<api, answers>>
      BY <1>3 DEF ProcStartRejected
    <2>2. Excused(m.cmd)
      BY <1>1, <2>1 DEF CanTrack, Here, Excused, Unservable
    <2> HIDE DEF m
    <2> QED
      BY <1>1, <1>2, <2>1, <2>2, AnsweredForgets
  <1>4. CASE ProcStartDistance
    <2> DEFINE r == [op |-> "startDB", id |-> m.id, cont |-> Started(m.id, m.cmd)]
    <2>1. r \in Request /\ ReqCmd(r) = m.cmd
      BY <1>1 DEF Request, Started, Cont, ReqCmd, NoCont
    <2>2. ReqMatches(r)
      <3>1. r.cont.id = m.id /\ r.cont.cmd = m.cmd /\ ~Restarts(r.cont)
        BY DEF Started, Restarts
      <3> HIDE DEF r
      <3> QED
        BY <1>1, <3>1, KnownMatches
    <2>3. api' = Append(api, r) /\ UNCHANGED answers
      BY <1>4 DEF ProcStartDistance
    <2> HIDE DEF r, m
    <2> QED
      BY <1>1, <1>2, <2>1, <2>2, <2>3, PassedForgets
  <1>5. CASE ProcStartTime
    <2> DEFINE opt == TbmFallback(ClampInterval(m.opt))
               reqs == startTimeBasedTrackingMultiplex(m.id, opt, m.cmd)
    <2>1. SendOrReport(reqs, m.id, m.cmd)
      BY <1>5 DEF ProcStartTime
    <2>2. opt \in OptionType
      BY <1>2, ClampType, FallbackType
    <2>3. reqs \in Seq(Request) /\ OneFor(reqs, m.cmd) /\ \A i \in DOMAIN reqs : ReqMatches(reqs[i])
      <3> HIDE DEF opt
      <3> QED
        BY <1>1, <2>2, StartMultiplexType, MultiplexOne, MultiplexMatches
    <2> HIDE DEF reqs, m
    <2> QED
      BY <1>1, <1>2, <2>1, <2>3, SentForgets
  <1> QED
    BY <1>3, <1>4, <1>5

LEMMA UpdateForgets ==
  ASSUME TypeOK, ForgetInv,
         \/ ProcUpdateRejected \/ ProcUpdateTimeToDistance
         \/ ProcUpdateDistanceToTime \/ ProcUpdateTime \/ ProcUpdateDistance
  PROVE  ForgetInv'
  <1> DEFINE m == Head(msgs)
             opt == UpdatedOptions
  <1>0. Handle("update")
    BY DEF ProcUpdateRejected, ProcUpdateTimeToDistance, ProcUpdateDistanceToTime,
           ProcUpdateTime, ProcUpdateDistance, UpdateAccepted
  <1>1. /\ msgs # << >> /\ m.t = "update" /\ m \in Msg /\ m.id \in Ids /\ m.cmd \in Cmds
        /\ m.cmd = MsgCmd(Head(msgs)) /\ issued[m.cmd].op = "update" /\ Known(m.id, m.cmd)
    BY <1>0, HeadCommand
  <1>2. HandledAlone
    BY <1>1 DEF ProcUpdateRejected, ProcUpdateTimeToDistance, ProcUpdateDistanceToTime,
           ProcUpdateTime, ProcUpdateDistance, HandledAlone, clientVars, adapterVars, modemVars
  <1>3. opt \in OptionType
    <2>1. m.opt \in OptionType
      BY <1>1, CommandType
    <2> QED
      BY <2>1, ClampType, FallbackType DEF UpdatedOptions
  <1>4. CASE ProcUpdateRejected
    <2>1. reportResponse(m.id, m.cmd) /\ UNCHANGED api
      BY <1>4 DEF ProcUpdateRejected
    <2> HIDE DEF m
    <2> QED
      BY <1>1, <1>2, <2>1, AnsweredForgets
  <1>5. CASE ProcUpdateTimeToDistance
    <2> DEFINE reqs == stopTimeBasedTrackingMultiplex(m.id, m.cmd)
               start == [op |-> "startDB", id |-> m.id, cont |-> [k |-> "ignore"]]
               both == reqs \o <<start>>
    <2>1. /\ api' = Append(api \o reqs, start)
          /\ IF reqs = << >> THEN reportResponse(m.id, m.cmd) ELSE UNCHANGED answers
          /\ m.id \in TimeIds
      BY <1>5 DEF ProcUpdateTimeToDistance, UpdateAccepted
    <2>2. reqs \in Seq(Request) /\ OneFor(reqs, m.cmd) /\ \A i \in DOMAIN reqs : ReqMatches(reqs[i])
      BY <1>1, <2>1, StopMultiplexType, MultiplexOne, MultiplexMatches
    <2>3. start \in Request /\ ReqMatches(start)
      BY <1>1 DEF Request, Cont, ReqMatches, ContMatches
    <2> HIDE DEF reqs, start, m
    <2>4. both \in Seq(Request) /\ api' = api \o both
      <3>1. api \in Seq(Request)
        BY DEF TypeOK
      <3>2. /\ reqs \o <<start>> \in Seq(Request)
            /\ Append(api \o reqs, start) = api \o (reqs \o <<start>>)
        BY <2>2, <2>3, <3>1, AppendLast, Zenon
      <3> QED
        BY <2>1, <3>2
    <2>5. \A i \in DOMAIN both : ReqMatches(both[i])
      <3>1. both = reqs \o <<start>> /\ <<start>> \in Seq(Request)
        BY <2>3
      <3>2. \A k \in DOMAIN <<start>> : <<start>>[k] = start
        OBVIOUS
      <3> HIDE DEF both
      <3>3. \A i \in DOMAIN both : (i \in DOMAIN reqs /\ both[i] = reqs[i])
                                   \/ \E k \in DOMAIN <<start>> : both[i] = <<start>>[k]
        BY <2>2, <3>1, ReqMembers
      <3> QED
        BY <2>2, <2>3, <3>2, <3>3
    <2>6. reqs # << >> => ReqHas(both, m.cmd)
      <3>1. reqs # << >> => ReqHas(reqs, m.cmd)
        BY <2>2 DEF OneFor, ReqHas
      <3>2. <<start>> \in Seq(Request)
        BY <2>3
      <3> QED
        BY <2>2, <3>1, <3>2, ReqHasBoth
    <2> HIDE DEF both
    <2> QED
      BY <1>1, <1>2, <2>1, <2>4, <2>5, <2>6, SentKnown
  <1>6. CASE ProcUpdateDistanceToTime
    <2> DEFINE stop == [op |-> "stopDB", id |-> m.id,
                        cont |-> [k |-> "switched", id |-> m.id, cmd |-> m.cmd, opt |-> opt]]
    <2>1. stop \in Request /\ ReqCmd(stop) = m.cmd
      BY <1>1, <1>3, ContTypes DEF Request, ReqCmd, NoCont
    <2>2. api' = Append(api, stop) /\ UNCHANGED answers
      BY <1>6 DEF ProcUpdateDistanceToTime
    <2>3. stop.cont.id = m.id /\ stop.cont.cmd = m.cmd
      OBVIOUS
    <2> HIDE DEF stop, m
    <2>4. ReqMatches(stop)
      BY <1>1, <2>3, KnownMatches
    <2> QED
      BY <1>1, <1>2, <2>1, <2>2, <2>4, PassedForgets
  <1>7. CASE ProcUpdateTime
    <2> DEFINE reqs == updateTrackingMultiplex(m.id, opt, m.cmd)
    <2>1. SendOrReport(reqs, m.id, m.cmd) /\ m.id \in TimeIds
      BY <1>7 DEF ProcUpdateTime, UpdateAccepted
    <2>2. reqs \in Seq(Request) /\ OneFor(reqs, m.cmd) /\ \A i \in DOMAIN reqs : ReqMatches(reqs[i])
      BY <1>1, <1>3, <2>1, UpdateMultiplexType, MultiplexOne, MultiplexMatches
    <2> HIDE DEF reqs, m
    <2> QED
      BY <1>1, <1>2, <2>1, <2>2, SentForgets
  <1>8. CASE ProcUpdateDistance
    <2> DEFINE stop == [op |-> "stopDB", id |-> m.id,
                        cont |-> [k |-> "distRestart", id |-> m.id, cmd |-> m.cmd, opt |-> opt]]
    <2>1. stop \in Request /\ ReqCmd(stop) = m.cmd
      BY <1>1, <1>3, ContTypes DEF Request, ReqCmd, NoCont
    <2>2. api' = Append(api, stop) /\ UNCHANGED answers
      BY <1>8 DEF ProcUpdateDistance
    <2>3. stop.cont.id = m.id /\ stop.cont.cmd = m.cmd
      OBVIOUS
    <2> HIDE DEF stop, m
    <2>4. ReqMatches(stop)
      BY <1>1, <2>3, KnownMatches
    <2> QED
      BY <1>1, <1>2, <2>1, <2>2, <2>4, PassedForgets
  <1> QED
    BY <1>4, <1>5, <1>6, <1>7, <1>8

LEMMA StopForgets ==
  ASSUME TypeOK, ForgetInv, ProcStopTime \/ ProcStopDistance \/ ProcStopUnknown
  PROVE  ForgetInv'
  <1> DEFINE m == Head(msgs)
  <1>0. Handle("stop")
    BY DEF ProcStopTime, ProcStopDistance, ProcStopUnknown
  <1>1. /\ msgs # << >> /\ m.t = "stop" /\ m.id \in Ids /\ m.cmd \in Cmds
        /\ m.cmd = MsgCmd(Head(msgs)) /\ Known(m.id, m.cmd)
    BY <1>0, HeadCommand
  <1>2. HandledAlone
    BY <1>1 DEF ProcStopTime, ProcStopDistance, ProcStopUnknown, HandledAlone, clientVars,
                adapterVars, modemVars
  <1>3. CASE ProcStopTime
    <2> DEFINE reqs == stopTimeBasedTrackingMultiplex(m.id, m.cmd)
    <2>1. SendOrReport(reqs, m.id, m.cmd) /\ m.id \in TimeIds
      BY <1>3 DEF ProcStopTime
    <2>2. reqs \in Seq(Request) /\ OneFor(reqs, m.cmd) /\ \A i \in DOMAIN reqs : ReqMatches(reqs[i])
      BY <1>1, <2>1, StopMultiplexType, MultiplexOne, MultiplexMatches
    <2> HIDE DEF reqs, m
    <2> QED
      BY <1>1, <1>2, <2>1, <2>2, SentForgets
  <1>4. CASE ProcStopDistance
    <2> DEFINE stop == [op |-> "stopDB", id |-> m.id,
                        cont |-> [k |-> "distStopped", id |-> m.id, cmd |-> m.cmd]]
    <2>1. stop \in Request /\ ReqCmd(stop) = m.cmd
      BY <1>1 DEF Request, Cont, ReqCmd, NoCont
    <2>2. api' = Append(api, stop) /\ UNCHANGED answers
      BY <1>4 DEF ProcStopDistance
    <2>3. stop.cont.id = m.id /\ stop.cont.cmd = m.cmd /\ ~Restarts(stop.cont)
      BY DEF Restarts
    <2> HIDE DEF stop, m
    <2>4. ReqMatches(stop)
      BY <1>1, <2>3, KnownMatches
    <2> QED
      BY <1>1, <1>2, <2>1, <2>2, <2>4, PassedForgets
  <1>5. CASE ProcStopUnknown
    <2>1. reportResponse(m.id, m.cmd) /\ UNCHANGED api
      BY <1>5 DEF ProcStopUnknown
    <2> HIDE DEF m
    <2> QED
      BY <1>1, <1>2, <2>1, AnsweredForgets
  <1> QED
    BY <1>3, <1>4, <1>5

LEMMA ResponsesForget ==
  ASSUME TypeOK, ForgetInv, ProcResponse
  PROVE  ForgetInv'
  <1> DEFINE c == TheCont
  <1>1. \A k : Response(k) =>
          /\ HandledAlone /\ c \in Cont /\ c.k = k
          /\ k # "ignore" => /\ c.id \in Ids /\ c.cmd \in Cmds \cup {NoCmd}
                             /\ c.cmd = MsgCmd(Head(msgs)) /\ Known(c.id, c.cmd)
          /\ k # "ignore" /\ Restarts(c) /\ c.cmd # NoCmd => issued[c.cmd].op = "update"
          /\ Err => fails + ssrs > 0
    BY HeadCont DEF HandledAlone
  <1>2. CASE ProcStarted \/ ProcUpdated \/ ProcStopped \/ ProcDistStopped
               \/ ProcDistRestarted
    <2>1. PICK k : Response(k) /\ k # "ignore"
      BY <1>2 DEF ProcStarted, ProcUpdated, ProcStopped, ProcDistStopped,
                  ProcDistRestarted
    <2>2. reportResponse(c.id, c.cmd) /\ UNCHANGED api
      BY <1>2 DEF ProcStarted, ProcUpdated, ProcStopped, ProcDistStopped,
                  ProcDistRestarted
    <2> HIDE DEF c
    <2> QED
      BY <1>1, <2>1, <2>2, AnsweredForgets
  <1>3. CASE ProcIgnored
    <2>1. Response("ignore") /\ UNCHANGED <<api, answers>>
      BY <1>3 DEF ProcIgnored
    <2>2. MsgCmd(Head(msgs)) = NoCmd /\ Known(0, NoCmd) /\ NoCmd \notin DOMAIN issued
      BY <2>1, HeadCmd, IssuedType DEF Known
    <2> QED
      BY <1>1, <2>1, <2>2, AnsweredForgets
  <1>4. CASE ProcSwitched
    <2> DEFINE reqs == startTimeBasedTrackingMultiplex(c.id, c.opt, c.cmd)
    <2>1. Response("switched") /\ SendOrReport(reqs, c.id, c.cmd)
      BY <1>4 DEF ProcSwitched
    <2>2. c.opt \in OptionType
      BY <2>1, ResponseFields
    <2>3. reqs \in Seq(Request) /\ OneFor(reqs, c.cmd) /\ \A i \in DOMAIN reqs : ReqMatches(reqs[i])
      BY <1>1, <2>1, <2>2, StartMultiplexType, MultiplexOne, MultiplexMatches
    <2> HIDE DEF reqs, c
    <2> QED
      BY <1>1, <2>1, <2>3, SentForgets
  <1>5. CASE ProcDistRestart
    <2> DEFINE start == [op |-> "startDB", id |-> c.id,
                         cont |-> [c EXCEPT !.k = "distRestarted"]]
    <2>1. Response("distRestart") /\ UNCHANGED answers
      BY <1>5 DEF ProcDistRestart
    <2>2. api' = IF Err THEN api ELSE Append(api, start)
      BY <1>5 DEF ProcDistRestart
    <2>3. c \in Cont /\ c.k = "distRestart" /\ c.id \in Ids
          /\ [c EXCEPT !.k = "distRestarted"] \in Cont
      BY <2>1, ResponseType, ResponseFields
    <2>4. start \in Request
      BY <2>3 DEF Request
    <2>5. ReqCmd(start) = c.cmd /\ start.cont.cmd = c.cmd /\ start.cont.id = c.id
      <3> HIDE DEF c
      <3> QED
        BY <2>3 DEF Cont, ReqCmd, NoCont
    <2>6. c.cmd # NoCmd => issued[c.cmd].op = "update"
      BY <1>1, <2>1, <2>3 DEF Restarts
    <2> HIDE DEF start, c
    <2>7. CASE Err
      <3>1. c.cmd \in DOMAIN issued => Excused(c.cmd)
        BY <1>1, <2>1, <2>6, <2>7, IssuedType DEF Excused
      <3> QED
        BY <1>1, <2>1, <2>2, <2>7, <3>1, AnsweredForgets
    <2>8. CASE ~Err
      <3>1. ReqMatches(start)
        BY <1>1, <2>1, <2>5, <2>6, KnownMatches
      <3> QED
        BY <1>1, <2>1, <2>2, <2>4, <2>5, <2>8, <3>1, PassedForgets
    <2> QED
      BY <2>7, <2>8
  <1> QED
    BY <1>2, <1>3, <1>4, <1>5 DEF ProcResponse

LEMMA RegistryForgets ==
  ASSUME TypeOK, ForgetInv, ProcAddClient \/ ProcRemoveClient
  PROVE  ForgetInv'
  <1> DEFINE m == Head(msgs)
  <1>1. CASE ProcAddClient
    <2> DEFINE reqs == << >>
    <2>1. /\ msgs # << >> /\ msgs' = Tail(msgs) /\ m.t = "add" /\ MsgCmd(m) = NoCmd
          /\ clients' = clients \cup {m.client}
          /\ UNCHANGED <<api, pending, issued, life, engine, ssrs, fails, answers>>
      BY <1>1, HeadCmd DEF ProcAddClient, Handle, clientVars, modemVars
    <2>2. Grows
      BY <2>1, GrowsAlone
    <2>3. reqs \in Seq(Request) /\ api' = api \o reqs /\ \A i \in DOMAIN reqs : ReqMatches(reqs[i])
      BY <2>1 DEF TypeOK
    <2>4. NoCmd \notin DOMAIN issued
      BY IssuedType
    <2> HIDE DEF reqs
    <2> QED
      BY <2>1, <2>2, <2>3, <2>4, HandledKeeps
  <1>2. CASE ProcRemoveClient
    <2>1. PICK q \in InOrder({id \in DistIds : Owner[id] = Head(msgs).client}) :
            api' = api \o [i \in DOMAIN q |->
                     [op |-> "stopDB", id |-> q[i],
                      cont |-> [k |-> "clientDistStopped", id |-> q[i],
                                cmd |-> NoCmd]]]
      BY <1>2 DEF ProcRemoveClient
    <2> DEFINE reqs == [i \in DOMAIN q |->
                     [op |-> "stopDB", id |-> q[i],
                      cont |-> [k |-> "clientDistStopped", id |-> q[i],
                                cmd |-> NoCmd]]]
    <2>2. reqs \in Seq(Request) /\ IdleRequests(reqs)
      BY ClientStopsIdle
    <2>3. /\ msgs # << >> /\ msgs' = Tail(msgs) /\ m.t = "remove" /\ MsgCmd(m) = NoCmd
          /\ clients' = clients \ {m.client} /\ api' = api \o reqs
          /\ UNCHANGED <<pending, issued, life, engine, ssrs, fails, answers>>
      BY <1>2, <2>1, HeadCmd DEF ProcRemoveClient, Handle, clientVars, modemVars
    <2>4. life[m.client] = "gone"
      BY <2>3, HeadMatches DEF MsgMatches
    <2> HIDE DEF reqs, m
    <2>5. Grows
      BY <2>3, <2>4 DEF Grows, Here
    <2>6. \A c \in Clients : life[c] = "live" /\ c \in clients => c \in clients'
      BY <2>3, <2>4
    <2>7. \A i \in DOMAIN reqs : ReqMatches(reqs[i])
      BY <2>2, IdleMatches DEF IdleRequests
    <2>8. NoCmd \notin DOMAIN issued
      BY IssuedType
    <2> QED
      BY <2>2, <2>3, <2>5, <2>6, <2>7, <2>8, HandledKeeps DEF m
  <1> QED
    BY <1>1, <1>2

\* Requests that nobody waits for, sent while the message stays in front.
LEMMA StoppingForgets ==
  ASSUME TypeOK, ForgetInv, ProcRemoveClientTime
  PROVE  ForgetInv'
  <1>1. PICK id \in TimeIds : api' = api \o stopTimeBasedTrackingMultiplex(id, NoCmd)
    BY DEF ProcRemoveClientTime
  <1> DEFINE reqs == stopTimeBasedTrackingMultiplex(id, NoCmd)
  <1>2. reqs \in Seq(Request) /\ \A i \in DOMAIN reqs : ReqMatches(reqs[i])
    BY StopMultiplexType, MultiplexMatches DEF Known
  <1>3. api' = api \o reqs /\ UNCHANGED <<msgs, pending, answers, clients, issued, life, engine, ssrs, fails>>
    BY <1>1 DEF ProcRemoveClientTime, clientVars, modemVars
  <1> HIDE DEF reqs
  <1>4. Grows
    BY <1>3, GrowsAlone
  <1>5. OpenFirst'
    BY <1>2, <1>3, OpenStays DEF ForgetInv
  <1>6. AddedInv'
    BY <1>3 DEF ForgetInv, AddedInv, Here
  <1>7. MatchInv'
    <2>1. /\ Elements(msgs)' = Elements(msgs) /\ Elements(pending)' = Elements(pending)
          /\ Elements(api)' \subseteq Elements(api) \cup Elements(reqs)
          /\ Elements(reqs) \subseteq Request
      BY <1>2, <1>3, ElementsOf, ElementsBoth DEF TypeOK
    <2>2. \A r \in Elements(reqs) : ReqMatches(r)
      BY <1>2 DEF Elements
    <2> QED
      BY <1>4, <2>1, <2>2, MatchKept DEF ForgetInv
  <1>8. \A n \in DOMAIN issued : ReqHas(api, n) => ReqHas(api', n)
    BY <1>2, <1>3, ReqHasBoth DEF TypeOK
  <1>9. CarriedInv'
    BY <1>3, <1>8 DEF ForgetInv, CarriedInv, Carried, Excused
  <1> QED
    BY <1>5, <1>6, <1>7, <1>9 DEF ForgetInv

\* A command that waits for the capabilities of the engine is not forgotten.
LEMMA WaitForgets ==
  ASSUME TypeOK, ForgetInv, ProcWait
  PROVE  ForgetInv'
  <1> DEFINE m == Head(msgs)
  <1>1. PICK t \in {"start", "update"} : Handle(t)
    BY DEF ProcWait
  <1>2. /\ msgs # << >> /\ m.t = t /\ m \in Msg /\ m.id \in Ids /\ Here(Owner[m.id])
    BY <1>1, HeadCommand
  <1>3. m \in Command
    BY <1>2, CommandType
  <1>4. /\ msgs' = Tail(msgs) /\ pending' = Append(pending, m)
        /\ UNCHANGED <<api, answers, clients, issued, life, engine, ssrs, fails>>
    BY DEF ProcWait, clientVars, modemVars
  <1>5. Grows
    BY <1>4, GrowsAlone
  <1>6. OpenFirst'
    BY <1>4 DEF ForgetInv, OpenFirst
  <1>7. AddedInv'
    BY <1>2, <1>4, <1>5, TakenPlaces DEF ForgetInv
  <1>8. /\ Elements(msgs)' \subseteq Elements(msgs) /\ m \in Elements(msgs)
        /\ Elements(pending)' = Elements(pending) \cup {m} /\ Elements(api)' = Elements(api)
    <2>1. pending \in Seq(Command) /\ msgs \in Seq(Msg)
      BY DEF TypeOK
    <2> HIDE DEF m
    <2>2. Elements(Append(pending, m)) = Elements(pending) \cup {m}
      BY <1>3, <2>1, ElementsOf
    <2>3. Elements(Tail(msgs)) \subseteq Elements(msgs) /\ Head(msgs) \in Elements(msgs)
      BY <1>2, <2>1, ElementsOf
    <2> QED
      BY <1>4, <2>2, <2>3 DEF m
  <1>9. MatchInv'
    <2> HIDE DEF m
    <2> QED
      BY <1>2, <1>5, <1>8, MatchKept DEF ForgetInv
  <1>10. ASSUME NEW n \in DOMAIN issued
         PROVE  Carried(n)' \/ answers'[n] # 0 \/ Excused(n)'
    <2>1. MsgHas(msgs, n) => MsgHas(msgs', n) \/ MsgCmd(m) = n
      BY <1>2, <1>4, MsgHasTail DEF TypeOK
    <2>2. MsgCmd(m) = n \/ MsgHas(pending, n) => MsgHas(pending', n)
      <3>1. pending \in Seq(Msg) /\ <<m>> \in Seq(Msg)
        BY <1>2, PendingType
      <3>2. pending' = pending \o <<m>>
        <4> HIDE DEF m
        <4> QED
          BY <1>2, <1>4, <3>1, AppendIsConcat
      <3>3. MsgCmd(m) = n => MsgHas(<<m>>, n)
        BY Singles
      <3> HIDE DEF m
      <3> QED
        BY <3>1, <3>2, <3>3, MsgHasBoth
    <2>3. Carried(n) \/ answers[n] # 0 \/ Excused(n)
      BY DEF ForgetInv, CarriedInv
    <2> QED
      BY <1>4, <1>5, <2>1, <2>2, <2>3, ExcusedKept DEF Carried
  <1>11. CarriedInv'
    BY <1>4, <1>10 DEF CarriedInv
  <1> QED
    BY <1>6, <1>7, <1>9, <1>11 DEF ForgetInv

LEMMA ConfigForgets ==
  ASSUME TypeOK, ForgetInv, ProcConfigRobustLocation
  PROVE  ForgetInv'
  <1> DEFINE stop == IF TimeIds = {} THEN << >>
                     ELSE <<[op |-> "stopFix", cont |-> NoCont]>>
  <1>1. stop \in Seq(Request) /\ IdleRequests(stop)
    <2>1. [op |-> "stopFix", cont |-> NoCont] \in Request
      BY DEF Request
    <2>2. ReqCmd([op |-> "stopFix", cont |-> NoCont]) = NoCmd
      BY DEF ReqCmd
    <2> HIDE DEF NoCont
    <2> QED
      BY <2>1, <2>2 DEF IdleRequests
  <1>2. PICK reqs \in restartSessions : api' = api \o stop \o reqs
    BY DEF ProcConfigRobustLocation
  <1>3. reqs \in Seq(Request) /\ IdleRequests(reqs)
    BY RestartType, RestartIdle
  <1>4. HandledAlone /\ MsgCmd(Head(msgs)) = NoCmd /\ UNCHANGED answers
    BY HeadCmd DEF ProcConfigRobustLocation, HandledAlone, Handle, adapterVars, clientVars, modemVars
  <1> DEFINE both == stop \o reqs
  <1> HIDE DEF stop
  <1>5. both \in Seq(Request) /\ api' = api \o both
    <2>1. api \in Seq(Request)
      BY DEF TypeOK
    <2>2. (api \o stop) \o reqs = api \o (stop \o reqs)
      BY <1>1, <1>3, <2>1, ConcatAssociative
    <2>3. stop \o reqs \in Seq(Request)
      BY <1>1, <1>3
    <2> QED
      BY <1>2, <2>2, <2>3
  <1>6. IdleRequests(both)
    BY <1>1, <1>3 DEF IdleRequests
  <1> HIDE DEF both
  <1> QED
    BY <1>4, <1>5, <1>6, IdleForgets

LEMMA EngineUpForgets ==
  ASSUME TypeOK, ForgetInv, ProcEngineUp
  PROVE  ForgetInv'
  <1>1. PICK reqs \in restartSessions : api' = api \o reqs
    BY DEF ProcEngineUp
  <1>2. /\ msgs # << >> /\ Head(msgs).t = "engineUp" /\ MsgCmd(Head(msgs)) = NoCmd
        /\ msgs' = Tail(msgs) \o pending /\ pending' = << >>
        /\ UNCHANGED <<answers, clients, issued, life, engine, ssrs, fails>>
    BY HeadCmd DEF ProcEngineUp, Handle, clientVars, modemVars
  <1>3. reqs \in Seq(Request) /\ \A i \in DOMAIN reqs : ReqMatches(reqs[i])
    BY RestartType, RestartIdle, IdleMatches DEF IdleRequests
  <1>4. /\ msgs \in Seq(Msg) /\ Tail(msgs) \in Seq(Msg) /\ pending \in Seq(Msg) /\ api \in Seq(Request)
    BY <1>2, PendingType DEF TypeOK
  <1>5. Grows
    BY <1>2, GrowsAlone
  <1>6. OpenFirst'
    BY <1>1, <1>2, <1>3, OpenStays DEF ForgetInv
  <1>7. AddedInv'
    <2>r. PICK rest : rest = Tail(msgs)
      OBVIOUS
    <2>0. /\ \A i \in DOMAIN rest : i \in Nat /\ i + 1 \in DOMAIN msgs /\ rest[i] = msgs[i + 1]
          /\ \A j \in DOMAIN msgs : j # 1 => /\ j \in Nat /\ j - 1 \in DOMAIN rest
                                             /\ rest[j - 1] = msgs[j]
          /\ msgs[1] = Head(msgs)
      BY <1>2, <1>4, <2>r, TailPlaces
    <2>1. \A c : ~Adds(msgs[1], c)
      <3>1. Head(msgs).t # "add"
        BY <1>2
      <3> QED
        BY <2>0, <3>1 DEF Adds
    <2>2. /\ \A i \in DOMAIN rest : i \in DOMAIN msgs' /\ msgs'[i] = rest[i]
          /\ \A i \in DOMAIN msgs' : (i \in DOMAIN rest /\ msgs'[i] = rest[i])
                                     \/ \E k \in DOMAIN pending : msgs'[i] = pending[k]
      BY <1>2, <1>4, <2>r, MsgMembers
    <2>3. \A k \in DOMAIN pending : Here(Owner[pending[k].id])
      BY DEF ForgetInv, MatchInv, Elements
    <2>4. \A c : Here(c) => Here(c)'
      BY <1>2 DEF Here
    <2>6. \A i \in DOMAIN msgs : msgs[i].t \in {"start", "update", "stop"} =>
            \A c : c = Owner[msgs[i].id] =>
              Here(c) \/ \E j \in DOMAIN msgs : j < i /\ Adds(msgs[j], c)
      BY DEF ForgetInv, AddedInv
    <2>5. ASSUME NEW i \in DOMAIN msgs', msgs'[i].t \in {"start", "update", "stop"},
                 NEW c, c = Owner[msgs'[i].id]
          PROVE  Here(c)' \/ \E j \in DOMAIN msgs' : j < i /\ Adds(msgs'[j], c)
      <3>1. CASE \E k \in DOMAIN pending : msgs'[i] = pending[k]
        BY <2>3, <2>4, <2>5, <3>1
      <3>2. CASE i \in DOMAIN rest /\ msgs'[i] = rest[i]
        <4>1. Here(c) \/ \E j \in DOMAIN msgs : j < i + 1 /\ Adds(msgs[j], c)
          BY <2>0, <2>5, <2>6, <3>2
        <4>2. ASSUME NEW j \in DOMAIN msgs, j < i + 1, Adds(msgs[j], c)
              PROVE  \E k \in DOMAIN msgs' : k < i /\ Adds(msgs'[k], c)
          <5>1. j # 1
            BY <2>1, <4>2
          <5>2. j - 1 \in DOMAIN msgs' /\ msgs'[j - 1] = msgs[j] /\ j \in Nat /\ i \in Nat
            BY <2>0, <2>2, <3>2, <5>1
          <5>3. j - 1 < i
            BY <4>2, <5>2
          <5> QED
            BY <4>2, <5>2, <5>3
        <4> QED
          BY <2>4, <4>1, <4>2
      <3> QED
        BY <2>2, <3>1, <3>2
    <2>7. ASSUME NEW c \in Clients, life'[c] = "live"
          PROVE  c \in clients' \/ \E j \in DOMAIN msgs' : Adds(msgs'[j], c)
      <3>1. c \in clients \/ \E j \in DOMAIN msgs : Adds(msgs[j], c)
        BY <1>2, <2>7 DEF ForgetInv, AddedInv
      <3>2. \A j \in DOMAIN msgs : Adds(msgs[j], c) => \E k \in DOMAIN msgs' : Adds(msgs'[k], c)
        BY <2>0, <2>1, <2>2
      <3> QED
        BY <1>2, <3>1, <3>2
    <2> QED
      BY <2>5, <2>7 DEF AddedInv
  <1>8. MatchInv'
    <2>1. /\ Elements(msgs)' \subseteq Elements(msgs) \cup Elements(pending)
          /\ Elements(pending)' = {}
          /\ Elements(api)' \subseteq Elements(api) \cup Elements(reqs)
          /\ Elements(reqs) \subseteq Request
      <3>1. Elements(Tail(msgs) \o pending) \subseteq Elements(Tail(msgs)) \cup Elements(pending)
        BY <1>4, ElementsBoth
      <3>2. Elements(Tail(msgs)) \subseteq Elements(msgs)
        BY <1>2, <1>4, ElementsOf
      <3>3. Elements(<< >>) = {}
        BY DEF Elements
      <3>4. Elements(api \o reqs) \subseteq Elements(api) \cup Elements(reqs) /\ Elements(reqs) \subseteq Request
        BY <1>3, <1>4, ElementsOf, ElementsBoth
      <3> QED
        BY <1>1, <1>2, <3>1, <3>2, <3>3, <3>4
    <2>2. \A r \in Elements(reqs) : ReqMatches(r)
      BY <1>3 DEF Elements
    <2> QED
      BY <1>5, <2>1, <2>2, MatchKept DEF ForgetInv
  <1>9. ASSUME NEW n \in DOMAIN issued
        PROVE  Carried(n)' \/ answers'[n] # 0 \/ Excused(n)'
    <2>1. n # NoCmd
      BY IssuedType
    <2>2. MsgHas(msgs, n) => MsgHas(Tail(msgs), n)
      BY <1>2, <1>4, <2>1, MsgHasTail
    <2>3. MsgHas(Tail(msgs), n) \/ MsgHas(pending, n) => MsgHas(msgs', n)
      BY <1>2, <1>4, MsgHasBoth
    <2>4. ReqHas(api, n) => ReqHas(api', n)
      BY <1>1, <1>3, <1>4, ReqHasBoth
    <2>5. Carried(n) \/ answers[n] # 0 \/ Excused(n)
      BY DEF ForgetInv, CarriedInv
    <2> QED
      BY <1>2, <1>5, <2>2, <2>3, <2>4, <2>5, ExcusedKept DEF Carried
  <1>10. CarriedInv'
    BY <1>2, <1>9 DEF CarriedInv
  <1> QED
    BY <1>6, <1>7, <1>8, <1>10 DEF ForgetInv

-----------------------------------------------------------------------------
(* Messages that are added.                                                *)

LEMMA PostedAdded ==
  ASSUME TypeOK, AddedInv, Grows, NEW m \in Msg, msgs' = Append(msgs, m), UNCHANGED clients,
         m.t \in {"start", "update", "stop"} => life[Owner[m.id]] = "live",
         \A c \in Clients : life'[c] = "live" => life[c] = "live" \/ Adds(m, c)
  PROVE  AddedInv'
  <1>1. /\ Len(msgs) \in Nat /\ Len(msgs) + 1 \in DOMAIN msgs' /\ msgs'[Len(msgs) + 1] = m
        /\ \A i \in DOMAIN msgs : i \in DOMAIN msgs' /\ msgs'[i] = msgs[i] /\ i < Len(msgs) + 1
        /\ \A i \in DOMAIN msgs' : (i \in DOMAIN msgs /\ msgs'[i] = msgs[i]) \/ (i = Len(msgs) + 1 /\ msgs'[i] = m)
        /\ \A i \in DOMAIN msgs : msgs[i] \in Msg
    BY DEF TypeOK
  <1>2. ASSUME NEW i \in DOMAIN msgs', msgs'[i].t \in {"start", "update", "stop"},
               NEW c, c = Owner[msgs'[i].id]
        PROVE  Here(c)' \/ \E j \in DOMAIN msgs' : j < i /\ Adds(msgs'[j], c)
    <2>0. c \in Clients
      BY <1>1, <1>2, CommandType, OwnerHere
    <2>1. CASE i \in DOMAIN msgs /\ msgs'[i] = msgs[i]
      <3>1. Here(c) \/ \E j \in DOMAIN msgs : j < i /\ Adds(msgs[j], c)
        BY <1>2, <2>1 DEF AddedInv
      <3> QED
        BY <1>1, <2>0, <3>1 DEF Grows
    <2>2. CASE i = Len(msgs) + 1 /\ msgs'[i] = m
      <3>1. c \in clients \/ \E j \in DOMAIN msgs : Adds(msgs[j], c)
        BY <1>2, <2>0, <2>2 DEF AddedInv
      <3> QED
        BY <1>1, <2>0, <2>2, <3>1 DEF Grows, Here
    <2> QED
      BY <1>1, <2>1, <2>2
  <1>3. ASSUME NEW c \in Clients, life'[c] = "live"
        PROVE  c \in clients' \/ \E j \in DOMAIN msgs' : Adds(msgs'[j], c)
    <2>1. CASE life[c] = "live"
      BY <1>1, <2>1 DEF AddedInv
    <2>2. CASE Adds(m, c)
      BY <1>1, <2>2
    <2> QED
      BY <1>3, <2>1, <2>2
  <1> QED
    BY <1>2, <1>3 DEF AddedInv

LEMMA MsgHasAppend ==
  ASSUME NEW s \in Seq(Msg), NEW m \in Msg, NEW n, MsgHas(s, n) \/ MsgCmd(m) = n
  PROVE  MsgHas(Append(s, m), n)
  <1>1. Append(s, m) = s \o <<m>> /\ <<m>> \in Seq(Msg)
    BY AppendIsConcat
  <1>2. MsgHas(s, n) \/ MsgHas(<<m>>, n)
    BY Singles
  <1> QED
    BY <1>1, <1>2, MsgHasBoth

LEMMA PostedForgets ==
  ASSUME TypeOK, ForgetInv, Grows, NEW m \in Msg, msgs' = Append(msgs, m), MsgMatches(m)',
         UNCHANGED <<api, pending, answers, engine, ssrs, clients>>,
         \A n \in DOMAIN issued' : n \in DOMAIN issued \/ MsgCmd(m) = n,
         m.t \in {"start", "update", "stop"} => life[Owner[m.id]] = "live",
         \A c \in Clients : life'[c] = "live" => life[c] = "live" \/ Adds(m, c)
  PROVE  ForgetInv'
  <1>1. AddedInv'
    BY PostedAdded DEF ForgetInv
  <1>2. OpenFirst'
    BY DEF ForgetInv, OpenFirst
  <1>3. MatchInv'
    <2>1. /\ Elements(msgs)' = Elements(msgs) \cup {m} /\ Elements(pending)' = Elements(pending)
          /\ Elements(api)' = Elements(api)
      BY ElementsOf DEF TypeOK
    <2> QED
      BY <2>1, MatchKept DEF ForgetInv
  <1>4. ASSUME NEW n \in DOMAIN issued'
        PROVE  Carried(n)' \/ answers'[n] # 0 \/ Excused(n)'
    <2>1. MsgHas(msgs, n) \/ MsgCmd(m) = n => MsgHas(msgs', n)
      BY MsgHasAppend DEF TypeOK
    <2>2. CASE MsgCmd(m) = n
      BY <2>1, <2>2 DEF Carried
    <2>3. CASE n \in DOMAIN issued
      BY <2>1, <2>3, ExcusedKept DEF ForgetInv, CarriedInv, Carried
    <2> QED
      BY <2>2, <2>3
  <1>5. CarriedInv'
    BY <1>4 DEF CarriedInv
  <1> QED
    BY <1>1, <1>2, <1>3, <1>5 DEF ForgetInv

LEMMA IssuedForgets ==
  ASSUME TypeOK, ForgetInv, NEW op \in {"start", "update", "stop"}, NEW id \in Ids,
         NEW valid \in BOOLEAN, Issue(op, id, valid), NEW m \in Msg, m.t = op, m.id = id,
         m.cmd = Len(issued) + 1, op # "stop" => (valid <=> m.opt.size # 0),
         msgs' = Append(msgs, m),
         UNCHANGED <<api, answers, pending, life, engine, ssrs, fails, clients>>
  PROVE  ForgetInv'
  <1>1. /\ issued' = Append(issued, [op |-> op, id |-> id, valid |-> valid])
        /\ life[Owner[id]] = "live"
    BY DEF Issue
  <1>2. /\ \A n \in DOMAIN issued : n \in DOMAIN issued' /\ issued'[n] = issued[n]
        /\ Len(issued) + 1 \in DOMAIN issued'
        /\ issued'[Len(issued) + 1] = [op |-> op, id |-> id, valid |-> valid]
        /\ \A n \in DOMAIN issued' : n \in DOMAIN issued \/ n = Len(issued) + 1
    BY <1>1 DEF TypeOK
  <1>3. Grows
    BY <1>2 DEF Grows, Here
  <1>4. MsgMatches(m)'
    BY <1>2 DEF MsgMatches, CmdMatches
  <1>5. MsgCmd(m) = m.cmd
    BY DEF MsgCmd
  <1> QED
    BY <1>1, <1>2, <1>3, <1>4, <1>5, PostedForgets

LEMMA ClientForgets ==
  ASSUME TypeOK, ForgetInv, ClientStep
  PROVE  ForgetInv'
  <1>1. ASSUME NEW c \in Clients, addClientCommand(c)
        PROVE  ForgetInv'
    <2> DEFINE m == [t |-> "add", client |-> c]
    <2>1. /\ life[c] = "none" /\ life' = [life EXCEPT ![c] = "live"] /\ msgs' = Append(msgs, m)
          /\ UNCHANGED <<api, answers, pending, issued, clients, engine, ssrs, fails>>
      BY <1>1 DEF addClientCommand, adapterVars, modemVars
    <2>2. m \in Msg
      BY DEF Msg
    <2>3. Grows
      BY <2>1 DEF Grows, Here, TypeOK
    <2>4. MsgMatches(m)'
      BY DEF MsgMatches
    <2>5. \A d \in Clients : life'[d] = "live" => life[d] = "live" \/ Adds(m, d)
      BY <2>1 DEF Adds, TypeOK
    <2>6. m.t = "add"
      OBVIOUS
    <2> HIDE DEF m
    <2> QED
      BY <2>1, <2>2, <2>3, <2>4, <2>5, <2>6, PostedForgets
  <1>2. ASSUME NEW c \in Clients, removeClientCommand(c)
        PROVE  ForgetInv'
    <2> DEFINE m == [t |-> "remove", client |-> c]
    <2>1. /\ life[c] = "live" /\ life' = [life EXCEPT ![c] = "gone"] /\ msgs' = Append(msgs, m)
          /\ UNCHANGED <<api, answers, pending, issued, clients, engine, ssrs, fails>>
      BY <1>2 DEF removeClientCommand, adapterVars, modemVars
    <2>2. m \in Msg
      BY DEF Msg
    <2>3. Grows
      BY <2>1 DEF Grows, Here, TypeOK
    <2>4. MsgMatches(m)'
      BY <2>1 DEF MsgMatches, TypeOK
    <2>5. \A d \in Clients : life'[d] = "live" => life[d] = "live" \/ Adds(m, d)
      BY <2>1 DEF TypeOK
    <2>6. m.t = "remove"
      OBVIOUS
    <2> HIDE DEF m
    <2> QED
      BY <2>1, <2>2, <2>3, <2>4, <2>5, <2>6, PostedForgets
  <1>3. CASE configRobustLocationCommand
    <2> DEFINE m == [t |-> "config"]
    <2>1. /\ msgs' = Append(msgs, m)
          /\ UNCHANGED <<api, answers, pending, issued, life, clients, engine, ssrs, fails>>
      BY <1>3 DEF configRobustLocationCommand, adapterVars, modemVars
    <2>2. m \in Msg
      BY DEF Msg
    <2>3. Grows
      BY <2>1, GrowsAlone
    <2>4. MsgMatches(m)'
      BY DEF MsgMatches
    <2>6. m.t = "config"
      OBVIOUS
    <2> HIDE DEF m
    <2> QED
      BY <2>1, <2>2, <2>3, <2>4, <2>6, PostedForgets
  <1>4. ASSUME NEW id \in Ids, NEW opt \in Options,
               startTrackingCommand(id, opt) \/ updateTrackingOptionsCommand(id, opt)
        PROVE  ForgetInv'
    <2>1. PICK t \in {"start", "update"} :
            /\ Issue(t, id, opt.size # 0)
            /\ msgs' = Append(msgs, [t |-> t, id |-> id, opt |-> opt, cmd |-> Len(issued) + 1])
            /\ UNCHANGED <<api, answers, pending, life, clients, engine, ssrs, fails>>
      BY <1>4 DEF startTrackingCommand, updateTrackingOptionsCommand, adapterVars, modemVars
    <2>2. Len(issued) + 1 \in Cmds /\ opt \in OptionType
      BY <2>1, IssueType, ConstantsOK
    <2>3. PICK m : m = [t |-> t, id |-> id, opt |-> opt, cmd |-> Len(issued) + 1]
      OBVIOUS
    <2>4. m \in Msg /\ m.t = t /\ m.id = id /\ m.opt = opt /\ m.cmd = Len(issued) + 1
      BY <2>2, <2>3 DEF Msg, Command
    <2> QED
      BY <2>1, <2>3, <2>4, IssuedForgets
  <1>5. ASSUME NEW id \in Ids, stopTrackingCommand(id) PROVE ForgetInv'
    <2>1. /\ Issue("stop", id, TRUE)
          /\ msgs' = Append(msgs, [t |-> "stop", id |-> id, cmd |-> Len(issued) + 1])
          /\ UNCHANGED <<api, answers, pending, life, clients, engine, ssrs, fails>>
      BY <1>5 DEF stopTrackingCommand, adapterVars, modemVars
    <2>2. Len(issued) + 1 \in Cmds
      BY <2>1, IssueType
    <2>3. PICK m : m = [t |-> "stop", id |-> id, cmd |-> Len(issued) + 1]
      OBVIOUS
    <2>4. m \in Msg /\ m.t = "stop" /\ m.id = id /\ m.cmd = Len(issued) + 1
      BY <2>2, <2>3 DEF Msg, Command
    <2> QED
      BY <2>1, <2>3, <2>4, IssuedForgets
  <1> QED
    BY <1>1, <1>2, <1>3, <1>4, <1>5 DEF ClientStep

LEMMA ReqHasTail ==
  ASSUME NEW s \in Seq(Request), s # << >>, NEW n, ReqHas(s, n)
  PROVE  ReqHas(Tail(s), n) \/ ReqCmd(Head(s)) = n
  <1>1. PICK i \in DOMAIN s : ReqCmd(s[i]) = n
    BY DEF ReqHas
  <1>2. CASE i = 1
    BY <1>1, <1>2, TailPlaces
  <1>3. CASE i # 1
    BY <1>1, <1>3, TailPlaces DEF ReqHas
  <1> QED
    BY <1>2, <1>3

LEMMA EffectUp ==
  ASSUME TypeOK, NEW r \in Request, r.op # "open"
  PROVE  Effect(r).up = engine.up
  <1>1. /\ engine \in [up : BOOLEAN, tb : OptionType \cup {None}, db : SUBSET Ids]
        /\ r.op \in {"startTB", "stopFix", "startDB", "stopDB"}
    BY RequestFields DEF TypeOK
  <1> QED
    BY <1>1 DEF Effect

\* A response carries on what its request carried, and says of a failure only
\* when there was one.
LEMMA RespondForgets ==
  ASSUME TypeOK, ForgetInv, Grows, api # << >>, Head(api).op # "open", NEW ok \in BOOLEAN,
         Respond(Head(api), ok), api' = Tail(api), ~ok => fails' + ssrs' > 0,
         engine'.up = engine.up, UNCHANGED <<answers, pending, issued, life, clients, ssrs>>
  PROVE  ForgetInv'
  <1>1. PICK r : r = Head(api)
    OBVIOUS
  <1>2. /\ api \in Seq(Request) /\ r \in Request /\ r.op # "open" /\ 1 \in DOMAIN api /\ api[1] = r
        /\ Elements(api)' \subseteq Elements(api) /\ r \in Elements(api)
    BY <1>1, ElementsOf, TailPlaces DEF TypeOK
  <1>3. OpenFirst'
    BY <1>2 DEF ForgetInv, OpenFirst
  <1>4. \A n \in DOMAIN issued : ReqHas(api, n) => ReqHas(api', n) \/ ReqCmd(r) = n
    BY <1>1, <1>2, ReqHasTail
  <1>5. CASE r.cont = NoCont
    <2>1. msgs' = msgs
      BY <1>1, <1>5 DEF Respond
    <2>2. ReqCmd(r) = NoCmd
      BY <1>5 DEF ReqCmd
    <2>3. AddedInv'
      BY <2>1 DEF ForgetInv, AddedInv, Here
    <2>4. MatchInv'
      <3>1. Elements(msgs)' = Elements(msgs) /\ Elements(pending)' = Elements(pending)
        BY <2>1
      <3> QED
        BY <1>2, <3>1, MatchKept DEF ForgetInv
    <2>5. ASSUME NEW n \in DOMAIN issued
          PROVE  Carried(n)' \/ answers'[n] # 0 \/ Excused(n)'
      <3>1. n # NoCmd
        BY IssuedType
      <3>2. Carried(n) \/ answers[n] # 0 \/ Excused(n)
        BY DEF ForgetInv, CarriedInv
      <3> QED
        BY <1>4, <2>1, <2>2, <3>1, <3>2, ExcusedKept DEF Carried
    <2>6. CarriedInv'
      BY <2>5 DEF CarriedInv
    <2> QED
      BY <1>3, <2>3, <2>4, <2>6 DEF ForgetInv
  <1>6. CASE r.cont # NoCont
    <2> DEFINE m == [t |-> "resp", cont |-> r.cont, ok |-> ok]
    <2>1. msgs' = Append(msgs, m)
      BY <1>1, <1>6 DEF Respond
    <2>2. m \in Msg /\ r.cont \in Cont
      BY <1>2, <1>6, RequestFields DEF Msg
    <2>3. MsgCmd(m) = ReqCmd(r)
      BY <1>2, <1>6 DEF MsgCmd, ReqCmd
    <2>4. MsgMatches(m)'
      <3>1. ContMatches(r.cont)
        BY <1>2 DEF ForgetInv, MatchInv, ReqMatches
      <3>2. ContMatches(r.cont)'
        BY <2>2, <3>1, ContKept
      <3>3. m.t = "resp" /\ m.cont = r.cont /\ m.ok = ok
        OBVIOUS
      <3> HIDE DEF m
      <3> QED
        BY <3>2, <3>3 DEF MsgMatches
    <2>5. m.t = "resp"
      OBVIOUS
    <2> HIDE DEF m
    <2>6. AddedInv'
      BY <2>1, <2>2, <2>5, PostedAdded DEF ForgetInv
    <2>7. MatchInv'
      <3>1. Elements(msgs)' = Elements(msgs) \cup {m} /\ Elements(pending)' = Elements(pending)
        BY <2>1, <2>2, ElementsOf DEF TypeOK
      <3> QED
        BY <1>2, <2>2, <2>4, <3>1, MatchKept DEF ForgetInv
    <2>8. ASSUME NEW n \in DOMAIN issued
          PROVE  Carried(n)' \/ answers'[n] # 0 \/ Excused(n)'
      <3>1. MsgHas(msgs, n) \/ MsgCmd(m) = n => MsgHas(msgs', n)
        BY <2>1, <2>2, MsgHasAppend DEF TypeOK
      <3>2. Carried(n) \/ answers[n] # 0 \/ Excused(n)
        BY DEF ForgetInv, CarriedInv
      <3> QED
        BY <1>4, <2>3, <3>1, <3>2, ExcusedKept DEF Carried
    <2>9. CarriedInv'
      BY <2>8 DEF CarriedInv
    <2> QED
      BY <1>3, <2>6, <2>7, <2>9 DEF ForgetInv
  <1> QED
    BY <1>5, <1>6

LEMMA ModemForgets ==
  ASSUME TypeOK, ForgetInv, LocApiStep \/ ModemCrash
  PROVE  ForgetInv'
  <1>0. /\ engine \in [up : BOOLEAN, tb : OptionType \cup {None}, db : SUBSET Ids]
        /\ ssrs \in Nat /\ fails \in Nat /\ api \in Seq(Request)
    BY ConstantsOK DEF TypeOK
  <1>1. CASE ApiSuccess
    <2>1. /\ api # << >> /\ Head(api).op # "open" /\ engine' = Effect(Head(api))
          /\ Respond(Head(api), TRUE) /\ api' = Tail(api)
          /\ UNCHANGED <<answers, pending, issued, life, clients, ssrs, fails>>
      BY <1>1 DEF ApiSuccess, adapterVars, clientVars
    <2>2. Head(api) \in Request
      BY <1>0, <2>1
    <2>3. engine'.up = engine.up
      BY <2>1, <2>2, EffectUp
    <2>4. Grows
      BY <2>1, GrowsAlone
    <2> QED
      BY <2>1, <2>3, <2>4, RespondForgets
  <1>2. CASE ApiFailure
    <2>1. /\ api # << >> /\ Head(api).op # "open" /\ UNCHANGED engine
          /\ Respond(Head(api), FALSE) /\ api' = Tail(api)
          /\ fails' = IF engine.up THEN fails + 1 ELSE fails
          /\ UNCHANGED <<answers, pending, issued, life, clients, ssrs>>
      BY <1>2 DEF ApiFailure, adapterVars, clientVars
    <2>2. fails' + ssrs' > 0
      <3>1. engine.up \/ ssrs > 0
        BY <1>0, <2>1, TailPlaces DEF ForgetInv, OpenFirst
      <3> QED
        BY <1>0, <2>1, <3>1
    <2>3. Grows
      BY <2>1, <2>2, GrowsAlone
    <2> QED
      BY <2>1, <2>2, <2>3, RespondForgets
  <1>3. CASE ApiOpen
    <2> DEFINE m == [t |-> "engineUp"]
    <2>1. /\ api # << >> /\ engine' = [engine EXCEPT !.up = TRUE] /\ msgs' = Append(msgs, m)
          /\ api' = Tail(api) /\ Head(api).op = "open"
          /\ UNCHANGED <<answers, pending, issued, life, clients, ssrs, fails>>
      BY <1>3 DEF ApiOpen, adapterVars, clientVars
    <2>2. m \in Msg /\ MsgMatches(m)' /\ m.t = "engineUp"
      BY DEF Msg, MsgMatches
    <2> HIDE DEF m
    <2>3. Grows
      BY <2>1, GrowsAlone
    <2>4. OpenFirst'
      BY <1>0, <2>1 DEF OpenFirst
    <2>5. AddedInv'
      BY <2>1, <2>2, <2>3, PostedAdded DEF ForgetInv
    <2>6. MatchInv'
      <3>1. /\ Elements(msgs)' = Elements(msgs) \cup {m} /\ Elements(pending)' = Elements(pending)
            /\ Elements(api)' \subseteq Elements(api)
        BY <2>1, <2>2, ElementsOf DEF TypeOK
      <3> QED
        BY <2>2, <2>3, <3>1, MatchKept DEF ForgetInv
    <2>7. ASSUME NEW n \in DOMAIN issued
          PROVE  Carried(n)' \/ answers'[n] # 0 \/ Excused(n)'
      <3>1. MsgHas(msgs, n) => MsgHas(msgs', n)
        BY <2>1, <2>2, MsgHasAppend DEF TypeOK
      <3>2. ReqHas(api, n) => ReqHas(api', n)
        <4>1. ReqCmd(Head(api)) = NoCmd /\ n # NoCmd
          BY <2>1, IssuedType DEF ReqCmd
        <4> QED
          BY <1>0, <2>1, <4>1, ReqHasTail
      <3>3. Carried(n) \/ answers[n] # 0 \/ Excused(n)
        BY DEF ForgetInv, CarriedInv
      <3> QED
        BY <2>1, <2>3, <3>1, <3>2, <3>3, ExcusedKept DEF Carried
    <2>8. CarriedInv'
      BY <2>1, <2>7 DEF CarriedInv
    <2> QED
      BY <2>4, <2>5, <2>6, <2>8 DEF ForgetInv
  <1>4. CASE ModemCrash
    <2> DEFINE r == [op |-> "open"]
    <2>1. /\ ssrs' = ssrs + 1 /\ api' = Append(api, r)
          /\ UNCHANGED <<msgs, pending, answers, issued, life, clients, fails>>
      BY <1>4 DEF ModemCrash, adapterVars, clientVars
    <2>2. r \in Request /\ ReqMatches(r)
      BY DEF Request, ReqMatches
    <2> HIDE DEF r
    <2>3. ssrs' > 0 /\ fails' + ssrs' > 0
      BY <1>0, <2>1
    <2>4. Grows
      BY <2>1, <2>3, GrowsAlone
    <2>5. OpenFirst'
      BY <2>3 DEF OpenFirst
    <2>6. AddedInv'
      BY <2>1 DEF ForgetInv, AddedInv, Here
    <2>7. MatchInv'
      <3>1. /\ Elements(msgs)' = Elements(msgs) /\ Elements(pending)' = Elements(pending)
            /\ Elements(api)' = Elements(api) \cup {r}
        BY <1>0, <2>1, <2>2, ElementsOf
      <3> QED
        BY <2>2, <2>4, <3>1, MatchKept DEF ForgetInv
    <2>8. ASSUME NEW n \in DOMAIN issued
          PROVE  Carried(n)' \/ answers'[n] # 0 \/ Excused(n)'
      <3>1. ReqHas(api, n) => ReqHas(api', n)
        <4>1. api' = api \o <<r>> /\ <<r>> \in Seq(Request)
          BY <1>0, <2>1, <2>2, AppendIsConcat
        <4> QED
          BY <1>0, <4>1, ReqHasBoth
      <3>2. Carried(n) \/ answers[n] # 0 \/ Excused(n)
        BY DEF ForgetInv, CarriedInv
      <3> QED
        BY <2>1, <2>4, <3>1, <3>2, ExcusedKept DEF Carried
    <2>9. CarriedInv'
      BY <2>1, <2>8 DEF CarriedInv
    <2> QED
      BY <2>5, <2>6, <2>7, <2>9 DEF ForgetInv
  <1> QED
    BY <1>1, <1>2, <1>3, <1>4 DEF LocApiStep

LEMMA InitForgets == Init => ForgetInv
  <1> SUFFICES ASSUME Init PROVE ForgetInv
    OBVIOUS
  <1>1. /\ api = <<[op |-> "open"]>> /\ msgs = << >> /\ pending = << >> /\ issued = << >>
        /\ life = [c \in Clients |-> "none"]
    BY DEF Init
  <1>2. MatchInv
    BY <1>1 DEF MatchInv, Elements, ReqMatches
  <1>3. AddedInv
    BY <1>1 DEF AddedInv
  <1>4. OpenFirst
    BY <1>1 DEF OpenFirst
  <1>5. CarriedInv
    BY <1>1 DEF CarriedInv
  <1> QED
    BY <1>2, <1>3, <1>4, <1>5 DEF ForgetInv

LEMMA NextForgets ==
  ASSUME TypeOK, ForgetInv, [Next]_vars
  PROVE  ForgetInv'
  <1>1. CASE ClientStep
    BY <1>1, ClientForgets
  <1>2. CASE MsgTaskStep
    BY <1>2, RegistryForgets, StoppingForgets, WaitForgets, StartForgets, UpdateForgets,
       StopForgets, EngineUpForgets, ConfigForgets, ResponsesForget
       DEF MsgTaskStep, ProcResponse
  <1>3. CASE LocApiStep \/ ModemCrash
    BY <1>3, ModemForgets
  <1>4. CASE UNCHANGED vars
    BY <1>4 DEF vars, adapterVars, clientVars, modemVars, ForgetInv, MatchInv, AddedInv, OpenFirst,
                CarriedInv, Carried, Excused, Here, MsgMatches, CmdMatches, ReqMatches, ContMatches
  <1> QED
    BY <1>1, <1>2, <1>3, <1>4 DEF Next

\* When all queues have drained, every command that was issued has been answered
\* exactly once, unless nobody owes it an answer: also those that waited for the
\* engine's capabilities, those whose session was switched or restarted by a
\* chain of lambdas, and those whose request met a modem that was down.
THEOREM AllCommandsAnswered == Spec => []AllAnswered
  <1>1. TypeOK /\ AnswerInv /\ ForgetInv => AllAnswered
    <2> SUFFICES ASSUME TypeOK, AnswerInv, ForgetInv, Quiescent, NEW n \in DOMAIN issued
                 PROVE  answers[n] = 1 \/ Excused(n)
      BY DEF AllAnswered
    <2>1. ~Carried(n)
      BY DEF Quiescent, Carried, MsgHas, ReqHas
    <2>2. answers[n] \in {0, 1}
      BY IssuedType DEF AnswerInv, CarriedOnce
    <2> QED
      BY <2>1, <2>2 DEF ForgetInv, CarriedInv
  <1>2. Init => TypeOK /\ AnswerInv /\ ForgetInv
    BY InitType, InitOnce, InitForgets
  <1>3. TypeOK /\ AnswerInv /\ ForgetInv /\ [Next]_vars => TypeOK' /\ AnswerInv' /\ ForgetInv'
    BY NextType, NextOnce, NextForgets
  <1> QED
    BY <1>1, <1>2, <1>3, PTL DEF Spec

-----------------------------------------------------------------------------
(* Every session belongs to a client that exists.  A client that waits for *)
(* its answers has at most one command under way for a session, and none   *)
(* when it goes: nothing saves a session for it again, and the message of  *)
(* its removal ends those it has, at once or by the response to a request. *)

\* At most one command of a key lacks its answer, none once the client is gone;
\* the first command of a key is its start.
PatientInv ==
  /\ \A m, n \in DOMAIN issued :
       issued[m].id = issued[n].id /\ answers[m] = 0 /\ answers[n] = 0 => m = n
  /\ \A n \in DOMAIN issued : life[Owner[issued[n].id]] = "gone" => answers[n] # 0
  /\ \A n \in DOMAIN issued : KnownToClient(issued[n].id)

\* The continuations that change a session once the request has succeeded, and
\* the one that does so when it has failed.  All but that of a client which is
\* removed have a command.
Distances == {"distStopped", "distRestart", "distRestarted"}
Changing == Distances \cup {"clientDistStopped", "switched"}
ContChanges(c) ==
  c # NoCont /\ c.k \in Changing \cup {"updated"} =>
    /\ IF c.k = "clientDistStopped" THEN c.cmd = NoCmd /\ life[Owner[c.id]] = "gone"
                                    ELSE c.cmd # NoCmd
    /\ c.k = "switched" => ~c.opt.distance
    /\ c.k \in {"distRestart", "distRestarted"} => c.opt.distance
MsgChanges(m) == m.t = "resp" => ContChanges(m.cont)
ReqChanges(r) == r.op # "open" => ContChanges(r.cont)
ChangesInv ==
  /\ \A m \in Elements(msgs) : MsgChanges(m)
  /\ \A r \in Elements(api) : ReqChanges(r)

\* Continuations of some kinds about a session that are under way.
MsgIs(m, kinds, id) ==
  m.t = "resp" /\ m.cont.k # "ignore" /\ m.cont.k \in kinds /\ m.cont.id = id
ReqIs(r, kinds, id) ==
  r.op # "open" /\ r.cont # NoCont /\ r.cont.k # "ignore" /\ r.cont.k \in kinds /\ r.cont.id = id
Flying(kinds, id) ==
  \/ \E m \in Elements(msgs) : MsgIs(m, kinds, id)
  \/ \E r \in Elements(api) : ReqIs(r, kinds, id)
Removing(c) == \E m \in Elements(msgs) : m.t = "remove" /\ m.client = c
Ending(id) == Flying({"clientDistStopped"}, id)

OwnedInv ==
  /\ \A id \in Ids : Ending(id) => time[id] = None
  /\ fails + ssrs = 0 =>
       \A id \in Ids : life[Owner[id]] = "gone" =>
         Removing(Owner[id]) \/ (time[id] = None /\ (dist[id] = None \/ Ending(id)))
OwnInv == ChangesInv /\ OwnedInv

-----------------------------------------------------------------------------
\* Handlers and the modem leave what the clients issued alone, and take no
\* answer back.
Settled ==
  /\ UNCHANGED <<issued, life>>
  /\ \A n \in DOMAIN issued : answers[n] # 0 => answers'[n] # 0

LEMMA ReportSettles ==
  ASSUME TypeOK, UNCHANGED <<issued, life>>,
         (\E id, cmd : reportResponse(id, cmd)) \/ UNCHANGED answers
  PROVE  Settled
  <1>1. CASE UNCHANGED answers
    BY <1>1 DEF Settled
  <1>2. CASE \E id, cmd : reportResponse(id, cmd)
    <2>1. PICK id, cmd : reportResponse(id, cmd)
      BY <1>2
    <2>2. ASSUME NEW n \in DOMAIN issued, answers[n] # 0
          PROVE  answers'[n] # 0
      <3>1. n \in Cmds /\ answers \in [Cmds -> Nat]
        BY <2>2, IssuedType DEF TypeOK
      <3>2. answers' = answers \/ answers' = [answers EXCEPT ![cmd] = @ + 1]
        BY <2>1 DEF reportResponse
      <3>3. answers[n] \in Nat
        BY <3>1
      <3>4. CASE answers' = answers
        BY <2>2, <3>4
      <3>5. CASE answers' = [answers EXCEPT ![cmd] = @ + 1]
        <4>1. CASE n = cmd
          <5>1. answers'[n] = answers[n] + 1
            BY <3>1, <3>5, <4>1
          <5> QED
            BY <3>3, <5>1
        <4>2. CASE n # cmd
          BY <2>2, <3>1, <3>5, <4>2
        <4> QED
          BY <4>1, <4>2
      <3> QED
        BY <3>2, <3>4, <3>5
    <2> QED
      BY <2>2 DEF Settled
  <1> QED
    BY <1>1, <1>2

LEMMA HandlersSettle ==
  ASSUME TypeOK, MsgTaskStep \/ LocApiStep \/ ModemCrash
  PROVE  Settled
  <1> USE DEF clientVars, adapterVars, modemVars
  <1>1. ASSUME NEW reqs, NEW id, NEW cmd, SendOrReport(reqs, id, cmd)
        PROVE  (\E i, c : reportResponse(i, c)) \/ UNCHANGED answers
    BY <1>1 DEF SendOrReport
  <1>2. CASE \/ ProcAddClient \/ ProcRemoveClientTime \/ ProcRemoveClient \/ ProcWait
             \/ ProcStartRejected \/ ProcStartDistance \/ ProcUpdateDistanceToTime
             \/ ProcUpdateDistance \/ ProcStopDistance \/ ProcEngineUp
             \/ ProcConfigRobustLocation
    <2>1. UNCHANGED <<issued, life, answers>>
      BY <1>2 DEF ProcAddClient, ProcRemoveClientTime, ProcRemoveClient, ProcWait,
                  ProcStartRejected, ProcStartDistance, ProcUpdateDistanceToTime,
                  ProcUpdateDistance, ProcStopDistance, ProcEngineUp, ProcConfigRobustLocation
    <2> QED
      BY <2>1, ReportSettles
  <1>3. CASE ProcStartTime \/ ProcUpdateTime \/ ProcStopTime
    <2>1. UNCHANGED <<issued, life>> /\ \E reqs, id, cmd : SendOrReport(reqs, id, cmd)
      BY <1>3 DEF ProcStartTime, ProcUpdateTime, ProcStopTime
    <2> QED
      BY <1>1, <2>1, ReportSettles
  <1>4. CASE ProcUpdateRejected \/ ProcUpdateTimeToDistance \/ ProcStopUnknown
    <2>1. /\ UNCHANGED <<issued, life>>
          /\ (\E id, cmd : reportResponse(id, cmd)) \/ UNCHANGED answers
      BY <1>4 DEF ProcUpdateRejected, ProcUpdateTimeToDistance, ProcStopUnknown
    <2> QED
      BY <2>1, ReportSettles
  <1>5. CASE ProcStarted \/ ProcUpdated \/ ProcStopped \/ ProcDistStopped
             \/ ProcDistRestart \/ ProcDistRestarted \/ ProcIgnored
    <2>1. /\ UNCHANGED <<issued, life>>
          /\ (\E id, cmd : reportResponse(id, cmd)) \/ UNCHANGED answers
      BY <1>5 DEF ProcStarted, ProcUpdated, ProcStopped, ProcDistStopped,
                  ProcDistRestart, ProcDistRestarted, ProcIgnored, Response
    <2> QED
      BY <2>1, ReportSettles
  <1>6. CASE ProcSwitched
    <2>1. UNCHANGED <<issued, life>> /\ \E reqs, id, cmd : SendOrReport(reqs, id, cmd)
      BY <1>6 DEF ProcSwitched, Response
    <2> QED
      BY <1>1, <2>1, ReportSettles
  <1>7. CASE LocApiStep \/ ModemCrash
    <2>1. UNCHANGED <<issued, life, answers>>
      BY <1>7 DEF LocApiStep, ApiSuccess, ApiFailure, ApiOpen, ModemCrash
    <2> QED
      BY <2>1, ReportSettles
  <1> QED
    BY <1>2, <1>3, <1>4, <1>5, <1>6, <1>7 DEF MsgTaskStep

LEMMA SettledPatient ==
  ASSUME TypeOK, PatientInv, Settled
  PROVE  PatientInv'
  <1>1. \A n \in DOMAIN issued : issued'[n] = issued[n] /\ (answers'[n] = 0 => answers[n] = 0)
    BY DEF Settled
  <1>2. DOMAIN issued' = DOMAIN issued /\ life' = life /\ issued' = issued
    BY DEF Settled
  <1> QED
    BY <1>1, <1>2 DEF PatientInv, KnownToClient

\* A command is issued when those before it have their answers.
LEMMA IssuePatient ==
  ASSUME TypeOK, AnswerInv, PatientInv, Patient, NEW op \in {"start", "update", "stop"},
         NEW id \in Ids, NEW valid \in BOOLEAN, Issue(op, id, valid),
         op = "start" \/ KnownToClient(id), UNCHANGED <<life, answers>>
  PROVE  PatientInv'
  <1> DEFINE Issued == [op : {"start", "update", "stop"}, id : Ids, valid : BOOLEAN]
             new == [op |-> op, id |-> id, valid |-> valid]
             last == Len(issued) + 1
  <1>1. /\ issued \in Seq(Issued) /\ issued' = Append(issued, new) /\ Len(issued) \in Nat
        /\ NothingPending(id) /\ life[Owner[id]] = "live"
    BY DEF Issue, TypeOK
  <1>2. /\ DOMAIN issued' = DOMAIN issued \cup {last} /\ last \notin DOMAIN issued
        /\ \A n \in DOMAIN issued : issued'[n] = issued[n]
        /\ issued'[last] = new
    <2>1. new \in Issued
      OBVIOUS
    <2> HIDE DEF new, Issued
    <2> QED
      BY <1>1, <2>1
  <1>3. new.id = id /\ new.op = op
    OBVIOUS
  <1> HIDE DEF new, last, Issued
  <1>4. \A m, n \in DOMAIN issued' :
          issued'[m].id = issued'[n].id /\ answers'[m] = 0 /\ answers'[n] = 0 => m = n
    BY <1>1, <1>2, <1>3 DEF PatientInv, NothingPending
  <1>5. \A n \in DOMAIN issued' : life'[Owner[issued'[n].id]] = "gone" => answers'[n] # 0
    BY <1>1, <1>2, <1>3 DEF PatientInv
  <1>6. ASSUME NEW n \in DOMAIN issued'
        PROVE  \E i \in DOMAIN issued' : issued'[i].op = "start" /\ issued'[i].id = issued'[n].id
    <2>1. CASE n \in DOMAIN issued
      BY <1>2, <2>1 DEF PatientInv, KnownToClient
    <2>2. CASE n = last /\ op = "start"
      BY <1>2, <1>3, <2>2
    <2>3. CASE n = last /\ KnownToClient(id)
      BY <1>2, <1>3, <2>3 DEF KnownToClient
    <2> QED
      BY <1>2, <2>1, <2>2, <2>3
  <1>7. (\A n \in DOMAIN issued : KnownToClient(issued[n].id))'
    BY <1>6 DEF KnownToClient
  <1> QED
    BY <1>4, <1>5, <1>7 DEF PatientInv

LEMMA NextPatient ==
  ASSUME TypeOK, AnswerInv, PatientInv, Patient, [Next]_vars
  PROVE  PatientInv'
  <1>1. CASE MsgTaskStep \/ LocApiStep \/ ModemCrash
    BY <1>1, HandlersSettle, SettledPatient
  <1>2. CASE UNCHANGED vars \/ configRobustLocationCommand \/ \E c \in Clients : addClientCommand(c)
    <2>1. /\ UNCHANGED <<issued, answers>>
          /\ \A c \in Clients : life'[c] = "gone" => life[c] = "gone"
      BY <1>2 DEF vars, clientVars, configRobustLocationCommand, addClientCommand, TypeOK
    <2>2. \A n \in DOMAIN issued : Owner[issued[n].id] \in Clients
      BY IssuedType
    <2> QED
      BY <2>1, <2>2 DEF PatientInv, KnownToClient
  <1>3. CASE \E c \in Clients : removeClientCommand(c)
    <2>1. PICK c \in Clients : removeClientCommand(c)
      BY <1>3
    <2>2. /\ UNCHANGED <<issued, answers>> /\ life' = [life EXCEPT ![c] = "gone"]
          /\ \A id \in Ids : Owner[id] = c => NothingPending(id)
      BY <2>1 DEF removeClientCommand
    <2>3. \A n \in DOMAIN issued : issued[n].id \in Ids /\ Owner[issued[n].id] \in Clients
      BY IssuedType
    <2>4. \A n \in DOMAIN issued : life'[Owner[issued[n].id]] = "gone" => answers[n] # 0
      BY <2>2, <2>3 DEF PatientInv, NothingPending, TypeOK
    <2> QED
      BY <2>2, <2>4 DEF PatientInv, KnownToClient
  <1>4. ASSUME NEW id \in Ids, NEW opt \in Options,
               startTrackingCommand(id, opt) \/ updateTrackingOptionsCommand(id, opt)
               \/ stopTrackingCommand(id)
        PROVE  PatientInv'
    <2>1. UNCHANGED <<life, answers>>
      BY <1>4 DEF startTrackingCommand, updateTrackingOptionsCommand, stopTrackingCommand
    <2>2. PICK op \in {"start", "update", "stop"}, valid \in BOOLEAN :
            Issue(op, id, valid) /\ (op = "start" \/ KnownToClient(id))
      BY <1>4 DEF startTrackingCommand, updateTrackingOptionsCommand, stopTrackingCommand
    <2> QED
      BY <2>1, <2>2, IssuePatient
  <1>5. CASE \E id \in Ids : stopTrackingCommand(id)
    <2>1. PICK id \in Ids : stopTrackingCommand(id)
      BY <1>5
    <2> QED
      BY <2>1, IssuePatient DEF stopTrackingCommand
  <1> QED
    BY <1>1, <1>2, <1>3, <1>4, <1>5 DEF Next, ClientStep

-----------------------------------------------------------------------------
\* A message or request about a session that a command waits for.
Commanded == Distances \cup {"switched", "updated"}
Commands(m, id) == m.t \in {"start", "update", "stop"} /\ m.id = id

LEMMA MsgCarries ==
  ASSUME TypeOK, NEW m \in Msg, MsgMatches(m), MsgChanges(m), NEW id \in Ids,
         Commands(m, id) \/ MsgIs(m, Commanded, id)
  PROVE  MsgCmd(m) \in DOMAIN issued /\ issued[MsgCmd(m)].id = id /\ MsgCmd(m) \in Cmds
  <1>1. CASE Commands(m, id)
    <2>1. CmdMatches(m) /\ MsgCmd(m) = m.cmd
      BY <1>1 DEF Commands, MsgMatches, MsgCmd
    <2> QED
      BY <1>1, <2>1, IssuedType DEF Commands, CmdMatches
  <1>2. CASE MsgIs(m, Commanded, id)
    <2>1. m.t = "resp" /\ ContMatches(m.cont) /\ ContChanges(m.cont) /\ m.cont \in Cont
      BY <1>2, CommandType DEF MsgIs, MsgMatches, MsgChanges
    <2>2. m.cont # NoCont /\ m.cont.k # "clientDistStopped" /\ m.cont.k \in Changing \cup {"updated"}
      BY <1>2 DEF MsgIs, NoCont, Commanded, Distances, Changing
    <2>3. m.cont.cmd # NoCmd
      BY <2>1, <2>2 DEF ContChanges
    <2>4. m.cont.cmd \in DOMAIN issued /\ issued[m.cont.cmd].id = id /\ MsgCmd(m) = m.cont.cmd
      BY <1>2, <2>1, <2>2, <2>3 DEF ContMatches, MsgIs, MsgCmd
    <2> QED
      BY <2>4, IssuedType
  <1> QED
    BY <1>1, <1>2

LEMMA ReqCarries ==
  ASSUME TypeOK, NEW r \in Request, ReqMatches(r), ReqChanges(r), NEW id \in Ids,
         ReqIs(r, Commanded, id)
  PROVE  ReqCmd(r) \in DOMAIN issued /\ issued[ReqCmd(r)].id = id /\ ReqCmd(r) \in Cmds
  <1>1. r.op # "open" /\ ContMatches(r.cont) /\ ContChanges(r.cont) /\ r.cont # NoCont
    BY DEF ReqIs, ReqMatches, ReqChanges
  <1>2. r.cont.k # "clientDistStopped" /\ r.cont.k \in Changing \cup {"updated"}
    BY DEF ReqIs, Commanded, Distances, Changing
  <1>3. r.cont.cmd # NoCmd
    BY <1>1, <1>2 DEF ContChanges
  <1>4. r.cont.cmd \in DOMAIN issued /\ issued[r.cont.cmd].id = id /\ ReqCmd(r) = r.cont.cmd
    BY <1>1, <1>2, <1>3 DEF ContMatches, ReqIs, ReqCmd
  <1> QED
    BY <1>4, IssuedType

LEMMA EndingGone ==
  ASSUME ChangesInv, NEW id,
         \/ \E m \in Elements(msgs) : MsgIs(m, {"clientDistStopped"}, id)
         \/ \E r \in Elements(api) : ReqIs(r, {"clientDistStopped"}, id)
  PROVE  life[Owner[id]] = "gone"
  <1>1. ASSUME NEW m \in Elements(msgs), MsgIs(m, {"clientDistStopped"}, id)
        PROVE  life[Owner[id]] = "gone"
    <2>1. ContChanges(m.cont) /\ m.cont.k = "clientDistStopped" /\ m.cont.id = id
      BY <1>1 DEF MsgIs, ChangesInv, MsgChanges
    <2>2. m.cont # NoCont
      BY <2>1 DEF NoCont
    <2> QED
      BY <2>1, <2>2 DEF ContChanges, Changing
  <1>2. ASSUME NEW r \in Elements(api), ReqIs(r, {"clientDistStopped"}, id)
        PROVE  life[Owner[id]] = "gone"
    <2>1. ContChanges(r.cont) /\ r.cont.k = "clientDistStopped" /\ r.cont.id = id /\ r.cont # NoCont
      BY <1>2 DEF ReqIs, ChangesInv, ReqChanges
    <2> QED
      BY <2>1 DEF ContChanges, Changing
  <1> QED
    BY <1>1, <1>2

\* A session has one thing under way that a command waits for: when it is at the
\* front of the queue, the client is there and nothing else changes the session.
LEMMA HeadAlone ==
  ASSUME TypeOK, AnswerInv, ForgetInv, PatientInv, ChangesInv, msgs # << >>,
         NEW id \in Ids, NEW h, h = Head(msgs), Commands(h, id) \/ MsgIs(h, Commanded, id)
  PROVE  /\ life[Owner[id]] # "gone"
         /\ \A m \in Elements(Tail(msgs)) \cup Elements(pending) :
              ~Commands(m, id) /\ ~MsgIs(m, Changing, id)
         /\ \A r \in Elements(api) : ~ReqIs(r, Changing, id)
  <1> DEFINE n == MsgCmd(h)
  <1>1. /\ Head(msgs) = msgs[1] /\ 1 \in DOMAIN msgs
        /\ \A i \in DOMAIN Tail(msgs) : i + 1 \in DOMAIN msgs /\ i + 1 # 1 /\ Tail(msgs)[i] = msgs[i + 1]
    BY TailPlaces DEF TypeOK
  <1>2. /\ \A i \in DOMAIN msgs : msgs[i] \in Msg /\ MsgMatches(msgs[i]) /\ MsgChanges(msgs[i])
        /\ \A i \in DOMAIN pending : pending[i] \in Msg /\ MsgMatches(pending[i])
                                     /\ MsgChanges(pending[i]) /\ pending[i].t # "resp"
        /\ \A i \in DOMAIN api : api[i] \in Request /\ ReqMatches(api[i]) /\ ReqChanges(api[i])
    BY ElementsType, PendingType DEF ForgetInv, MatchInv, ChangesInv, Elements, MsgChanges
  <1>3. n \in DOMAIN issued /\ issued[n].id = id /\ n \in Cmds
    BY <1>1, <1>2, MsgCarries
  <1>4. answers[n] = 0 /\ CarriedOnce(n)
    BY <1>1, <1>3 DEF AnswerInv, CarriedOnce, MsgHas
  <1>5. life[Owner[id]] # "gone"
    BY <1>3, <1>4 DEF PatientInv
  <1>6. ~Ending(id)
    BY <1>5, EndingGone DEF Ending, Flying
  <1>7. Changing \subseteq Commanded \cup {"clientDistStopped"}
    BY DEF Changing, Commanded
  <1>8. ASSUME NEW k \in Cmds, CarriedOnce(k), MsgHas(msgs, k) \/ MsgHas(pending, k) \/ ReqHas(api, k),
               k \in DOMAIN issued, issued[k].id = id
        PROVE  k = n
    BY <1>3, <1>4, <1>8 DEF CarriedOnce, PatientInv
  <1> HIDE DEF n
  <1>9. ASSUME NEW i \in DOMAIN Tail(msgs), NEW m, m = Tail(msgs)[i],
               Commands(m, id) \/ MsgIs(m, Commanded, id)
        PROVE  FALSE
    <2>1. i + 1 \in DOMAIN msgs /\ i + 1 # 1 /\ m = msgs[i + 1]
      BY <1>1, <1>9
    <2>2. MsgCmd(m) \in DOMAIN issued /\ issued[MsgCmd(m)].id = id /\ MsgCmd(m) \in Cmds
      BY <1>2, <1>9, <2>1, MsgCarries
    <2>3. MsgHas(msgs, MsgCmd(m)) /\ CarriedOnce(MsgCmd(m))
      BY <2>1, <2>2 DEF MsgHas, AnswerInv
    <2>4. MsgCmd(m) = n
      BY <1>8, <2>2, <2>3
    <2> QED
      BY <1>1, <1>4, <2>1, <2>4 DEF CarriedOnce, MsgOnce, n
  <1>10. ASSUME NEW i \in DOMAIN pending, NEW m, m = pending[i],
                Commands(m, id) \/ MsgIs(m, Commanded, id)
         PROVE  FALSE
    <2>2. MsgCmd(m) \in DOMAIN issued /\ issued[MsgCmd(m)].id = id /\ MsgCmd(m) \in Cmds
      BY <1>2, <1>10, MsgCarries
    <2>3. MsgHas(pending, MsgCmd(m)) /\ CarriedOnce(MsgCmd(m))
      BY <1>10, <2>2 DEF MsgHas, AnswerInv
    <2>4. MsgCmd(m) = n
      BY <1>8, <2>2, <2>3
    <2> QED
      BY <1>1, <1>4, <2>3, <2>4 DEF CarriedOnce, MsgHas, n
  <1>11. ASSUME NEW i \in DOMAIN api, NEW r, r = api[i], ReqIs(r, Commanded, id)
         PROVE  FALSE
    <2>2. ReqCmd(r) \in DOMAIN issued /\ issued[ReqCmd(r)].id = id /\ ReqCmd(r) \in Cmds
      BY <1>2, <1>11, ReqCarries
    <2>3. ReqHas(api, ReqCmd(r)) /\ CarriedOnce(ReqCmd(r))
      BY <1>11, <2>2 DEF ReqHas, AnswerInv
    <2>4. ReqCmd(r) = n
      BY <1>8, <2>2, <2>3
    <2> QED
      BY <1>1, <1>4, <2>3, <2>4 DEF CarriedOnce, MsgHas, n
  <1>12. \A m, r : /\ MsgIs(m, Changing, id) => MsgIs(m, Commanded, id) \/ MsgIs(m, {"clientDistStopped"}, id)
                   /\ ReqIs(r, Changing, id) => ReqIs(r, Commanded, id) \/ ReqIs(r, {"clientDistStopped"}, id)
    BY <1>7 DEF MsgIs, ReqIs
  <1>13. ASSUME NEW m \in Elements(Tail(msgs)) \cup Elements(pending)
         PROVE  ~Commands(m, id) /\ ~MsgIs(m, Changing, id)
    <2>1. CASE m \in Elements(Tail(msgs))
      <3>1. m \in Elements(msgs)
        BY <2>1, ElementsOf DEF TypeOK
      <3>2. PICK i \in DOMAIN Tail(msgs) : m = Tail(msgs)[i]
        BY <2>1 DEF Elements
      <3> QED
        BY <1>6, <1>9, <1>12, <3>1, <3>2 DEF Ending, Flying
    <2>2. CASE m \in Elements(pending)
      <3>1. PICK i \in DOMAIN pending : m = pending[i]
        BY <2>2 DEF Elements
      <3>2. m.t # "resp"
        BY <1>2, <3>1
      <3> QED
        BY <1>10, <3>1, <3>2 DEF MsgIs
    <2> QED
      BY <1>13, <2>1, <2>2
  <1>14. ASSUME NEW r \in Elements(api)
         PROVE  ~ReqIs(r, Changing, id)
    <2>1. PICK i \in DOMAIN api : r = api[i]
      BY <1>14 DEF Elements
    <2> QED
      BY <1>6, <1>11, <1>12, <1>14, <2>1 DEF Ending, Flying
  <1> QED
    BY <1>5, <1>13, <1>14

\* When a session of a client that is gone is stopped, no command is about it.
LEMMA GoneAlone ==
  ASSUME TypeOK, AnswerInv, ForgetInv, PatientInv, ChangesInv,
         NEW id \in Ids, life[Owner[id]] = "gone"
  PROVE  /\ \A m \in Elements(msgs) \cup Elements(pending) :
              ~Commands(m, id) /\ ~MsgIs(m, Commanded, id)
         /\ \A r \in Elements(api) : ~ReqIs(r, Commanded, id)
  <1>1. ASSUME NEW k \in Cmds, k \in DOMAIN issued, issued[k].id = id
        PROVE  ~MsgHas(msgs, k) /\ ~MsgHas(pending, k) /\ ~ReqHas(api, k)
    BY <1>1 DEF AnswerInv, CarriedOnce, PatientInv
  <1>2. ASSUME NEW m \in Elements(msgs) \cup Elements(pending),
               Commands(m, id) \/ MsgIs(m, Commanded, id)
        PROVE  FALSE
    <2>1. m \in Msg /\ MsgMatches(m) /\ MsgChanges(m)
      <3>1. CASE m \in Elements(msgs)
        BY <3>1, ElementsType DEF ForgetInv, MatchInv, ChangesInv
      <3>2. CASE m \in Elements(pending)
        BY <3>2, ElementsType DEF ForgetInv, MatchInv, MsgChanges
      <3> QED
        BY <3>1, <3>2
    <2>2. MsgCmd(m) \in DOMAIN issued /\ issued[MsgCmd(m)].id = id /\ MsgCmd(m) \in Cmds
      BY <1>2, <2>1, MsgCarries
    <2>3. MsgHas(msgs, MsgCmd(m)) \/ MsgHas(pending, MsgCmd(m))
      BY DEF MsgHas, Elements
    <2> QED
      BY <1>1, <2>2, <2>3
  <1>3. ASSUME NEW r \in Elements(api), ReqIs(r, Commanded, id)
        PROVE  FALSE
    <2>1. r \in Request /\ ReqMatches(r) /\ ReqChanges(r)
      BY ElementsType DEF ForgetInv, MatchInv, ChangesInv
    <2>2. ReqCmd(r) \in DOMAIN issued /\ issued[ReqCmd(r)].id = id /\ ReqCmd(r) \in Cmds
      BY <1>3, <2>1, ReqCarries
    <2>3. ReqHas(api, ReqCmd(r))
      BY DEF ReqHas, Elements
    <2> QED
      BY <1>1, <2>2, <2>3
  <1> QED
    BY <1>2, <1>3

-----------------------------------------------------------------------------
\* Requests that start or stop the engine's session, or a distance session.
Engine == -1
Touches(r, x) ==
  IF x = Engine THEN SetsRun(r) ELSE r.op \in {"startDB", "stopDB"} /\ r.id = x
Starts(r) == r.op \in {"startTB", "startDB"}

\* Requests that a handler sends about the session key, and no other.
SentFor(r, key) ==
  /\ r.op # "open" /\ ReqChanges(r)
  /\ \A id \in Ids : ~ReqIs(r, {"clientDistStopped"}, id)
  /\ \A id \in Ids : id # key => ~Touches(r, id) /\ ~ReqIs(r, Changing, id)
Sent(reqs, key) == reqs \in Seq(Request) /\ \A i \in DOMAIN reqs : SentFor(reqs[i], key)

\* The multiplexers ask for the engine's session only: to stop it when it was
\* for the session alone, to run it for the first one, and else for a change or
\* nothing.
EngineConts == {"started", "updated", "stopped"}
ForEngine(r, on) ==
  /\ r \in Request /\ r.op = (IF on THEN "startTB" ELSE "stopFix")
  /\ r.cont # NoCont /\ r.cont.k \in EngineConts
  /\ r.cont.k = "updated" => r.cont.cmd # NoCmd
AtMost(reqs, on) == reqs = << >> \/ \E r : reqs = <<r>> /\ ForEngine(r, on)

LEMMA EngineOnly ==
  ASSUME NEW r, NEW on \in BOOLEAN, ForEngine(r, on), NEW key
  PROVE  /\ SentFor(r, key) /\ Touches(r, Engine) /\ (Starts(r) <=> on)
         /\ \A id \in Ids : ~Touches(r, id) /\ ~ReqIs(r, Changing, id)
  <1>1. Engine \notin Ids
    BY ConstantsOK DEF Engine
  <1>2. r.op \in {"startTB", "stopFix"} /\ r.cont.k \notin Changing
    BY DEF ForEngine, EngineConts, Changing, Distances
  <1>3. \A id : ~ReqIs(r, Changing, id) /\ ~ReqIs(r, {"clientDistStopped"}, id)
    BY <1>2 DEF ReqIs, Changing
  <1>4. ReqChanges(r)
    BY <1>2 DEF ForEngine, EngineConts, ReqChanges, ContChanges
  <1>5. \A id \in Ids : ~Touches(r, id)
    BY <1>1, <1>2 DEF Touches
  <1>6. Touches(r, Engine) /\ (Starts(r) <=> on)
    BY DEF ForEngine, Touches, SetsRun, Starts
  <1> QED
    BY <1>2, <1>3, <1>4, <1>5, <1>6 DEF SentFor

LEMMA SentEngine ==
  ASSUME NEW reqs, NEW on \in BOOLEAN, AtMost(reqs, on), NEW key
  PROVE  Sent(reqs, key)
  <1>1. CASE reqs = << >>
    BY <1>1 DEF Sent
  <1>2. CASE reqs # << >>
    <2>1. PICK r : reqs = <<r>> /\ ForEngine(r, on)
      BY <1>2 DEF AtMost
    <2>2. r \in Request /\ SentFor(r, key)
      BY <2>1, EngineOnly DEF ForEngine
    <2> QED
      BY <2>1, <2>2 DEF Sent
  <1> QED
    BY <1>1, <1>2

LEMMA MultiplexShape ==
  ASSUME TypeOK, NEW id \in Ids, NEW cmd \in Cmds \cup {NoCmd}, NEW opt \in OptionType
  PROVE  /\ LET reqs == startTimeBasedTrackingMultiplex(id, opt, cmd)
            IN  AtMost(reqs, TRUE) /\ (TimeIds = {} => reqs # << >>)
         /\ id \in TimeIds =>
            /\ cmd # NoCmd => AtMost(updateTrackingMultiplex(id, opt, cmd), TRUE)
            /\ LET reqs == stopTimeBasedTrackingMultiplex(id, cmd)
               IN  /\ AtMost(reqs, TimeIds \ {id} # {})
                   /\ TimeIds \ {id} = {} => reqs # << >>
  <1>1. ASSUME NEW r, r.op = "startTB", r \in Request, r.cont # NoCont, r.cont.k \in EngineConts,
               r.cont.k = "updated" => r.cont.cmd # NoCmd
        PROVE  AtMost(<<r>>, TRUE)
    BY <1>1 DEF AtMost, ForEngine
  <1>2. AtMost(<< >>, TRUE)
    BY DEF AtMost
  <1>3. \A q \in Seq(Request) : \A r : q = <<r>> => r \in Request
    <2> TAKE q \in Seq(Request)
    <2> TAKE r
    <2> HAVE q = <<r>>
    <2>1. q[1] = r /\ 1 \in DOMAIN q
      OBVIOUS
    <2> QED
      BY <2>1
  <1>4. ASSUME NEW q \in Seq(Request), NEW run, NEW c, q = <<StartTB(run, c)>>, c # NoCont,
               c.k \in EngineConts, c.k = "updated" => c.cmd # NoCmd
        PROVE  AtMost(q, TRUE)
    <2>1. /\ StartTB(run, c) \in Request /\ StartTB(run, c).op = "startTB"
          /\ StartTB(run, c).cont = c
      BY <1>3, <1>4 DEF StartTB
    <2> QED
      BY <1>1, <1>4, <2>1
  <1>5. /\ Started(id, cmd) # NoCont /\ Started(id, cmd).k \in EngineConts /\ Started(id, cmd).k # "updated"
        /\ \A o : LET c == [k |-> "updated", id |-> id, cmd |-> cmd, opt |-> o]
                  IN  c # NoCont /\ c.k \in EngineConts /\ c.cmd = cmd
    BY DEF Started, NoCont, EngineConts
  <1>6. LET reqs == startTimeBasedTrackingMultiplex(id, opt, cmd)
        IN  AtMost(reqs, TRUE) /\ (TimeIds = {} => reqs # << >>)
    <2> DEFINE reqs == startTimeBasedTrackingMultiplex(id, opt, cmd)
    <2>1. reqs \in Seq(Request)
      BY StartMultiplexType
    <2>2. reqs = << >> \/ \E run : reqs = <<StartTB(run, Started(id, cmd))>>
      BY DEF startTimeBasedTrackingMultiplex
    <2>3. TimeIds = {} => reqs = <<StartTB(opt, Started(id, cmd))>>
      BY DEF startTimeBasedTrackingMultiplex
    <2> HIDE DEF reqs
    <2>4. AtMost(reqs, TRUE)
      BY <1>2, <1>4, <1>5, <2>1, <2>2
    <2>5. TimeIds = {} => reqs # << >>
      BY <2>3
    <2> QED
      BY <2>4, <2>5 DEF reqs
  <1>7. ASSUME id \in TimeIds, cmd # NoCmd
        PROVE  AtMost(updateTrackingMultiplex(id, opt, cmd), TRUE)
    <2> DEFINE reqs == updateTrackingMultiplex(id, opt, cmd)
               up == [k |-> "updated", id |-> id, cmd |-> cmd, opt |-> time[id]]
    <2>1. reqs \in Seq(Request)
      BY <1>7, UpdateMultiplexType
    <2>2. reqs = << >> \/ \E run : reqs = <<StartTB(run, up)>>
      BY DEF updateTrackingMultiplex
    <2>3. up # NoCont /\ up.k \in EngineConts /\ up.cmd = cmd
      BY <1>5
    <2> HIDE DEF reqs, up
    <2> QED
      BY <1>2, <1>4, <1>7, <2>1, <2>2, <2>3 DEF reqs
  <1>8. ASSUME id \in TimeIds
        PROVE  LET reqs == stopTimeBasedTrackingMultiplex(id, cmd)
               IN  /\ AtMost(reqs, TimeIds \ {id} # {})
                   /\ TimeIds \ {id} = {} => reqs # << >>
    <2> DEFINE reqs == stopTimeBasedTrackingMultiplex(id, cmd)
               stopped == [k |-> "stopped", id |-> id, cmd |-> cmd]
               stop == [op |-> "stopFix", cont |-> stopped]
    <2>1. reqs \in Seq(Request)
      BY <1>8, StopMultiplexType
    <2>2. CASE TimeIds \ {id} = {}
      <3>1. reqs = <<stop>>
        BY <2>2 DEF stopTimeBasedTrackingMultiplex
      <3>2. stop \in Request
        BY <1>3, <2>1, <3>1
      <3>3. ForEngine(stop, FALSE)
        BY <3>2 DEF ForEngine, NoCont, EngineConts
      <3> HIDE DEF stop, reqs
      <3>4. AtMost(reqs, FALSE) /\ reqs # << >>
        BY <3>1, <3>3 DEF AtMost
      <3>5. (TimeIds \ {id} # {}) = FALSE
        BY <2>2
      <3> QED
        BY <3>4, <3>5 DEF reqs
    <2>3. CASE TimeIds \ {id} # {}
      <3>1. reqs = << >> \/ \E run : reqs = <<StartTB(run, Started(id, cmd))>>
        BY <2>3 DEF stopTimeBasedTrackingMultiplex
      <3> HIDE DEF reqs
      <3>2. AtMost(reqs, TRUE)
        BY <1>2, <1>4, <1>5, <2>1, <3>1
      <3> QED
        BY <2>3, <3>2 DEF reqs
    <2> QED
      BY <2>2, <2>3
  <1> QED
    BY <1>6, <1>7, <1>8

LEMMA SentAppend ==
  ASSUME NEW q, NEW key, Sent(q, key), NEW r \in Request, SentFor(r, key)
  PROVE  Sent(Append(q, r), key)
  BY AppendMembers DEF Sent

LEMMA ElementsTail ==
  ASSUME NEW S, NEW s \in Seq(S), s # << >>
  PROVE  Elements(s) = {Head(s)} \cup Elements(Tail(s))
  <1>1. /\ Head(s) = s[1] /\ 1 \in DOMAIN s
        /\ \A i \in DOMAIN Tail(s) : i + 1 \in DOMAIN s /\ Tail(s)[i] = s[i + 1]
        /\ \A i \in DOMAIN s : i # 1 => i - 1 \in DOMAIN Tail(s) /\ Tail(s)[i - 1] = s[i]
    BY TailPlaces
  <1>2. \A e \in Elements(s) : e = Head(s) \/ e \in Elements(Tail(s))
    BY <1>1 DEF Elements
  <1>3. Head(s) \in Elements(s) /\ Elements(Tail(s)) \subseteq Elements(s)
    BY ElementsOf
  <1> QED
    BY <1>2, <1>3

LEMMA ElementsConcat ==
  ASSUME NEW S, NEW s \in Seq(S), NEW t \in Seq(S)
  PROVE  Elements(s \o t) = Elements(s) \cup Elements(t)
  <1>1. /\ \A i \in DOMAIN s : i \in DOMAIN (s \o t) /\ (s \o t)[i] = s[i]
        /\ \A k \in DOMAIN t : Len(s) + k \in DOMAIN (s \o t) /\ (s \o t)[Len(s) + k] = t[k]
    BY ConcatPlaces
  <1>2. Elements(s) \subseteq Elements(s \o t) /\ Elements(t) \subseteq Elements(s \o t)
    BY <1>1 DEF Elements
  <1> QED
    BY <1>2, ElementsBoth

\* What a handler that sends requests for one session does to the others.
Alters(key) ==
  \A id \in Ids : id # key => time'[id] = time[id] /\ dist'[id] = dist[id]
Drops(key) == time'[key] \in {time[key], None} /\ dist'[key] \in {dist[key], None}

LEMMA HandledOwned ==
  ASSUME TypeOK, OwnInv, msgs # << >>, msgs' = Tail(msgs), UNCHANGED <<life, ssrs, fails>>,
         NEW key, NEW reqs, Sent(reqs, key), api' = api \o reqs,
         Head(msgs).t # "remove", Alters(key),
         key \in Ids => life[Owner[key]] # "gone" \/ Drops(key),
         \A id \in Ids : MsgIs(Head(msgs), {"clientDistStopped"}, id) /\ fails + ssrs = 0 =>
            time'[id] = None /\ dist'[id] = None
  PROVE  OwnInv'
  <1>1. /\ Elements(msgs) = {Head(msgs)} \cup Elements(msgs')
        /\ Elements(api') = Elements(api) \cup Elements(reqs)
    BY ElementsTail, ElementsConcat DEF TypeOK, Sent
  <1>2. \A r \in Elements(reqs) : SentFor(r, key)
    BY DEF Sent, Elements
  <1>3. ChangesInv'
    <2>1. \A m \in Elements(msgs') : MsgChanges(m)'
      BY <1>1 DEF OwnInv, ChangesInv, MsgChanges, ContChanges
    <2>2. \A r \in Elements(api') : ReqChanges(r)'
      BY <1>1, <1>2 DEF OwnInv, ChangesInv, ReqChanges, ContChanges, SentFor
    <2> QED
      BY <2>1, <2>2 DEF ChangesInv
  <1>4. \A id \in Ids : Ending(id)' => Ending(id)
    BY <1>1, <1>2 DEF Ending, Flying, SentFor
  <1>5. \A id \in Ids : Ending(id) => Ending(id)' \/ MsgIs(Head(msgs), {"clientDistStopped"}, id)
    BY <1>1 DEF Ending, Flying
  <1>6. \A c : Removing(c) => Removing(c)'
    BY <1>1 DEF Removing
  <1>7. ASSUME NEW id \in Ids, Ending(id)'
        PROVE  time'[id] = None
    <2>1. Ending(id) /\ time[id] = None
      BY <1>4, <1>7 DEF OwnInv, OwnedInv
    <2>2. life[Owner[id]] = "gone"
      BY <2>1, EndingGone DEF OwnInv, Ending, Flying
    <2> QED
      BY <2>1, <2>2 DEF Alters, Drops
  <1>8. ASSUME fails' + ssrs' = 0, NEW id \in Ids, life'[Owner[id]] = "gone", ~Removing(Owner[id])'
        PROVE  time'[id] = None /\ (dist'[id] = None \/ Ending(id)')
    <2>1. time[id] = None /\ (dist[id] = None \/ Ending(id))
      BY <1>6, <1>8 DEF OwnInv, OwnedInv
    <2>2. time'[id] = None /\ (dist'[id] = None \/ dist'[id] = dist[id])
      BY <1>8, <2>1 DEF Alters, Drops
    <2> QED
      BY <1>5, <1>8, <2>1, <2>2
  <1>9. OwnedInv'
    BY <1>7, <1>8 DEF OwnedInv
  <1> QED
    BY <1>3, <1>9 DEF OwnInv

\* The message at the front is a command or a response for the session id.
HeadFor(id) == Commands(Head(msgs), id) \/ MsgIs(Head(msgs), Commanded, id)

LEMMA HeadOwned ==
  ASSUME TypeOK, AnswerInv, ForgetInv, PatientInv, OwnInv, msgs # << >>, msgs' = Tail(msgs),
         UNCHANGED <<life, ssrs, fails>>, NEW id \in Ids, HeadFor(id),
         NEW reqs, Sent(reqs, id), api' = api \o reqs, Alters(id)
  PROVE  OwnInv'
  <1> DEFINE h == Head(msgs)
  <1>1. life[Owner[id]] # "gone"
    BY HeadAlone DEF HeadFor, OwnInv
  <1>2. h.t # "remove" /\ \A i : ~MsgIs(h, {"clientDistStopped"}, i)
    BY DEF HeadFor, Commands, MsgIs, Commanded, Distances
  <1> QED
    BY <1>1, <1>2, HandledOwned

LEMMA SavesAlters ==
  ASSUME TypeOK, NEW id \in Ids, NEW opt,
         saveTrackingSession(id, opt) \/ eraseTrackingSession(id)
  PROVE  Alters(id)
  BY DEF saveTrackingSession, eraseTrackingSession, Alters, TypeOK

LEMMA ErasesDrops ==
  ASSUME TypeOK, NEW id \in Ids, eraseTrackingSession(id)
  PROVE  /\ Alters(id) /\ Drops(id)
         /\ time[id] = None => dist'[id] = None /\ time'[id] = None
         /\ dist[id] = None => dist'[id] = None /\ time'[id] = None
  BY DEF eraseTrackingSession, Alters, Drops, TypeOK

LEMMA SentNone ==
  ASSUME TypeOK, UNCHANGED api, NEW key
  PROVE  Sent(<< >>, key) /\ api' = api \o << >>
  BY DEF Sent, TypeOK

LEMMA SentDistance ==
  ASSUME NEW id \in Ids, NEW r, r \in Request, r.op \in {"startDB", "stopDB"}, r.id = id,
         r.cont.k = "ignore" \/ (r.cont.id = id /\ r.cont.k # "clientDistStopped"), ReqChanges(r)
  PROVE  SentFor(r, id) /\ Sent(<<r>>, id)
  <1>1. SentFor(r, id)
    BY ConstantsOK DEF SentFor, Touches, ReqIs, SetsRun
  <1>2. Sent(<<r>>, id)
    BY <1>1 DEF Sent
  <1> QED
    BY <1>1, <1>2

-----------------------------------------------------------------------------
\* One request, when it is about the session, keeps the handler's obligations.
LEMMA OneOwned ==
  ASSUME TypeOK, AnswerInv, ForgetInv, PatientInv, OwnInv, msgs # << >>, msgs' = Tail(msgs),
         UNCHANGED <<life, ssrs, fails>>, NEW id \in Ids, HeadFor(id), NEW r \in Request,
         r.op \in {"startDB", "stopDB"}, r.id = id,
         r.cont.k = "ignore" \/ (r.cont.id = id /\ r.cont.k # "clientDistStopped"), ReqChanges(r),
         api' = Append(api, r), Alters(id)
  PROVE  OwnInv'
  <1> DEFINE reqs == <<r>>
  <1>1. Sent(reqs, id)
    BY SentDistance
  <1>2. api' = api \o reqs
    BY DEF TypeOK
  <1> HIDE DEF reqs
  <1> QED
    BY <1>1, <1>2, HeadOwned

LEMMA CommandHead ==
  ASSUME TypeOK, ForgetInv, NEW t \in {"start", "update", "stop"}, Handle(t),
         NEW m, m = Head(msgs)
  PROVE  /\ msgs # << >> /\ m \in Msg /\ m.id \in Ids /\ m.cmd \in Cmds /\ m.cmd # NoCmd
         /\ HeadFor(m.id) /\ (t # "stop" => m.opt \in OptionType)
  <1>1. msgs # << >> /\ m.t = t /\ m \in Msg /\ m.id \in Ids /\ m.cmd \in Cmds
    BY HeadCommand
  <1>2. m.cmd # NoCmd
    BY <1>1, ConstantsOK DEF Cmds, NoCmd
  <1> QED
    BY <1>1, <1>2, CommandType DEF HeadFor, Commands

LEMMA StartOwned ==
  ASSUME TypeOK, AnswerInv, ForgetInv, PatientInv, OwnInv,
         ProcStartRejected \/ ProcStartDistance \/ ProcStartTime
  PROVE  OwnInv'
  <1> DEFINE m == Head(msgs)
  <1>1. /\ msgs # << >> /\ m \in Msg /\ m.id \in Ids /\ m.cmd \in Cmds /\ m.cmd # NoCmd
        /\ HeadFor(m.id) /\ m.opt \in OptionType
    BY CommandHead DEF ProcStartRejected, ProcStartDistance, ProcStartTime
  <1>2. msgs' = Tail(msgs) /\ UNCHANGED <<life, ssrs, fails>>
    BY DEF ProcStartRejected, ProcStartDistance, ProcStartTime, clientVars, modemVars
  <1>3. CASE ProcStartRejected
    <2>1. UNCHANGED <<api, time, dist>>
      BY <1>3 DEF ProcStartRejected, adapterVars
    <2>2. Alters(m.id)
      BY <2>1 DEF Alters
    <2> QED
      BY <1>1, <1>2, <2>1, <2>2, SentNone, HeadOwned
  <1>4. CASE ProcStartDistance
    <2> DEFINE r == [op |-> "startDB", id |-> m.id, cont |-> Started(m.id, m.cmd)]
    <2>1. /\ r \in Request /\ r.op = "startDB" /\ r.id = m.id
          /\ r.cont.id = m.id /\ r.cont.k = "started"
      BY <1>1 DEF Request, Started, Cont
    <2>2. api' = Append(api, r) /\ \E opt : saveTrackingSession(m.id, opt)
      BY <1>4 DEF ProcStartDistance
    <2> HIDE DEF r, m
    <2>3. ReqChanges(r)
      BY <2>1 DEF ReqChanges, ContChanges, Changing, Distances
    <2> QED
      BY <1>1, <1>2, <2>1, <2>2, <2>3, SavesAlters, OneOwned
  <1>5. CASE ProcStartTime
    <2> DEFINE opt == TbmFallback(ClampInterval(m.opt))
               reqs == startTimeBasedTrackingMultiplex(m.id, opt, m.cmd)
    <2>1. opt \in OptionType
      BY <1>1, ClampType, FallbackType
    <2>2. api' = api \o reqs /\ saveTrackingSession(m.id, opt)
      BY <1>5 DEF ProcStartTime, SendOrReport
    <2> HIDE DEF opt, m
    <2>3. AtMost(reqs, TRUE)
      BY <1>1, <2>1, MultiplexShape
    <2> HIDE DEF reqs
    <2> QED
      BY <1>1, <1>2, <2>2, <2>3, SentEngine, SavesAlters, HeadOwned
  <1> QED
    BY <1>3, <1>4, <1>5

LEMMA UpdateOwned ==
  ASSUME TypeOK, AnswerInv, ForgetInv, PatientInv, OwnInv,
         \/ ProcUpdateRejected \/ ProcUpdateTimeToDistance
         \/ ProcUpdateDistanceToTime \/ ProcUpdateTime \/ ProcUpdateDistance
  PROVE  OwnInv'
  <1> DEFINE m == Head(msgs)
             opt == UpdatedOptions
  <1>0. Handle("update")
    BY DEF ProcUpdateRejected, ProcUpdateTimeToDistance, ProcUpdateDistanceToTime,
           ProcUpdateTime, ProcUpdateDistance, UpdateAccepted
  <1>1. /\ msgs # << >> /\ m \in Msg /\ m.id \in Ids /\ m.cmd \in Cmds /\ m.cmd # NoCmd
        /\ HeadFor(m.id) /\ m.opt \in OptionType
    BY <1>0, CommandHead
  <1>2. msgs' = Tail(msgs) /\ UNCHANGED <<life, ssrs, fails>>
    BY DEF ProcUpdateRejected, ProcUpdateTimeToDistance, ProcUpdateDistanceToTime,
           ProcUpdateTime, ProcUpdateDistance, clientVars, modemVars
  <1>3. opt \in OptionType /\ opt.distance = m.opt.distance
    BY <1>1, ClampType, FallbackType
       DEF UpdatedOptions, ClampInterval, TbmFallback, OptionType
  <1>4. CASE ProcUpdateRejected
    <2>1. UNCHANGED <<api, time, dist>>
      BY <1>4 DEF ProcUpdateRejected, adapterVars
    <2>2. Alters(m.id)
      BY <2>1 DEF Alters
    <2> QED
      BY <1>1, <1>2, <2>1, <2>2, SentNone, HeadOwned
  <1>5. CASE ProcUpdateTimeToDistance
    <2> DEFINE reqs == stopTimeBasedTrackingMultiplex(m.id, m.cmd)
               start == [op |-> "startDB", id |-> m.id, cont |-> [k |-> "ignore"]]
               both == reqs \o <<start>>
    <2>1. /\ api' = Append(api \o reqs, start) /\ m.id \in TimeIds
          /\ time' = [time EXCEPT ![m.id] = IF IsDistance(opt) THEN None ELSE opt]
          /\ dist' = [dist EXCEPT ![m.id] = IF IsDistance(opt) THEN opt ELSE @]
      BY <1>5 DEF ProcUpdateTimeToDistance, UpdateAccepted
    <2>2. /\ start \in Request /\ start.op = "startDB" /\ start.id = m.id
          /\ start.cont.k = "ignore"
      BY <1>1 DEF Request, Cont
    <2> HIDE DEF m, start, opt
    <2>3. AtMost(reqs, TimeIds \ {m.id} # {})
      BY <1>1, <2>1, MultiplexShape
    <2>4. Alters(m.id)
      BY <2>1 DEF Alters, TypeOK
    <2> HIDE DEF reqs
    <2>5. Sent(reqs, m.id) /\ reqs \in Seq(Request)
      BY <2>3, SentEngine DEF Sent
    <2>6. ReqChanges(start)
      BY <2>2 DEF ReqChanges, ContChanges, Changing, Distances
    <2>7. SentFor(start, m.id)
      BY <1>1, <2>2, <2>6, SentDistance
    <2>8. both = Append(reqs, start)
      BY <2>2, <2>5, AppendIsConcat
    <2>9. Sent(both, m.id)
      BY <2>2, <2>5, <2>7, <2>8, SentAppend
    <2>10. api' = api \o both
      <3>1. api \in Seq(Request)
        BY DEF TypeOK
      <3> QED
        BY <2>1, <2>2, <2>5, <3>1, AppendLast
    <2> HIDE DEF both
    <2> QED
      BY <1>1, <1>2, <2>4, <2>9, <2>10, HeadOwned
  <1>6. CASE ProcUpdateDistanceToTime
    <2> DEFINE c == [k |-> "switched", id |-> m.id, cmd |-> m.cmd, opt |-> opt]
               stop == [op |-> "stopDB", id |-> m.id, cont |-> c]
    <2>1. /\ stop \in Request /\ stop.op = "stopDB" /\ stop.id = m.id /\ stop.cont = c
          /\ c.id = m.id /\ c.k = "switched" /\ c.cmd = m.cmd /\ c.opt = opt
      BY <1>1, <1>3, ContTypes DEF Request
    <2>2. api' = Append(api, stop) /\ eraseTrackingSession(m.id) /\ ~m.opt.distance
      BY <1>6 DEF ProcUpdateDistanceToTime, UpdateAccepted
    <2> HIDE DEF stop, c, m, opt
    <2>3. ReqChanges(stop)
      BY <1>1, <1>3, <2>1, <2>2 DEF ReqChanges, ContChanges
    <2> QED
      BY <1>1, <1>2, <2>1, <2>2, <2>3, SavesAlters, OneOwned
  <1>7. CASE ProcUpdateTime
    <2> DEFINE reqs == updateTrackingMultiplex(m.id, opt, m.cmd)
    <2>1. api' = api \o reqs /\ saveTrackingSession(m.id, opt) /\ m.id \in TimeIds
      BY <1>7 DEF ProcUpdateTime, SendOrReport, UpdateAccepted
    <2> HIDE DEF opt, m
    <2>2. AtMost(reqs, TRUE)
      BY <1>1, <1>3, <2>1, MultiplexShape
    <2> HIDE DEF reqs
    <2> QED
      BY <1>1, <1>2, <2>1, <2>2, SentEngine, SavesAlters, HeadOwned
  <1>8. CASE ProcUpdateDistance
    <2> DEFINE c == [k |-> "distRestart", id |-> m.id, cmd |-> m.cmd, opt |-> opt]
               stop == [op |-> "stopDB", id |-> m.id, cont |-> c]
    <2>1. /\ stop \in Request /\ stop.op = "stopDB" /\ stop.id = m.id /\ stop.cont = c
          /\ c.id = m.id /\ c.k = "distRestart" /\ c.cmd = m.cmd /\ c.opt = opt
      BY <1>1, <1>3, ContTypes DEF Request
    <2>2. api' = Append(api, stop) /\ UNCHANGED <<time, dist>> /\ m.opt.distance
      BY <1>8 DEF ProcUpdateDistance, UpdateAccepted, adapterVars
    <2>3. Alters(m.id)
      BY <2>2 DEF Alters
    <2> HIDE DEF stop, c, m, opt
    <2>4. ReqChanges(stop)
      BY <1>1, <1>3, <2>1, <2>2 DEF ReqChanges, ContChanges
    <2> QED
      BY <1>1, <1>2, <2>1, <2>2, <2>3, <2>4, OneOwned
  <1> QED
    BY <1>4, <1>5, <1>6, <1>7, <1>8

LEMMA StopOwned ==
  ASSUME TypeOK, AnswerInv, ForgetInv, PatientInv, OwnInv,
         ProcStopTime \/ ProcStopDistance \/ ProcStopUnknown
  PROVE  OwnInv'
  <1> DEFINE m == Head(msgs)
  <1>1. /\ msgs # << >> /\ m \in Msg /\ m.id \in Ids /\ m.cmd \in Cmds /\ m.cmd # NoCmd
        /\ HeadFor(m.id)
    BY CommandHead DEF ProcStopTime, ProcStopDistance, ProcStopUnknown
  <1>2. msgs' = Tail(msgs) /\ UNCHANGED <<life, ssrs, fails>>
    BY DEF ProcStopTime, ProcStopDistance, ProcStopUnknown, clientVars, modemVars
  <1>3. CASE ProcStopTime
    <2> DEFINE reqs == stopTimeBasedTrackingMultiplex(m.id, m.cmd)
    <2>1. api' = api \o reqs /\ eraseTrackingSession(m.id) /\ m.id \in TimeIds
      BY <1>3 DEF ProcStopTime, SendOrReport
    <2> HIDE DEF m
    <2>2. AtMost(reqs, TimeIds \ {m.id} # {})
      BY <1>1, <2>1, SessionOptions, MultiplexShape
    <2> HIDE DEF reqs
    <2>3. Sent(reqs, m.id)
      BY <2>2, SentEngine
    <2> QED
      BY <1>1, <1>2, <2>1, <2>3, SavesAlters, HeadOwned
  <1>4. CASE ProcStopDistance
    <2> DEFINE c == [k |-> "distStopped", id |-> m.id, cmd |-> m.cmd]
               stop == [op |-> "stopDB", id |-> m.id, cont |-> c]
    <2>1. /\ stop \in Request /\ stop.op = "stopDB" /\ stop.id = m.id /\ stop.cont = c
          /\ c.id = m.id /\ c.k = "distStopped" /\ c.cmd = m.cmd
      BY <1>1 DEF Request, Cont
    <2>2. api' = Append(api, stop) /\ UNCHANGED <<time, dist>>
      BY <1>4 DEF ProcStopDistance, adapterVars
    <2>3. Alters(m.id)
      BY <2>2 DEF Alters
    <2> HIDE DEF stop, c, m
    <2>4. ReqChanges(stop)
      BY <1>1, <2>1 DEF ReqChanges, ContChanges
    <2> QED
      BY <1>1, <1>2, <2>1, <2>2, <2>3, <2>4, OneOwned
  <1>5. CASE ProcStopUnknown
    <2>1. UNCHANGED <<api, time, dist>>
      BY <1>5 DEF ProcStopUnknown, adapterVars
    <2>2. Alters(m.id)
      BY <2>1 DEF Alters
    <2> QED
      BY <1>1, <1>2, <2>1, <2>2, SentNone, HeadOwned
  <1> QED
    BY <1>3, <1>4, <1>5

\* Responses: those of a command are alone with the session, and the others only
\* take it away.
LEMMA ResponsesOwned ==
  ASSUME TypeOK, AnswerInv, ForgetInv, PatientInv, OwnInv, ProcResponse
  PROVE  OwnInv'
  <1> DEFINE h == Head(msgs)
             c == TheCont
  <1>1. \A k : Response(k) =>
          /\ msgs # << >> /\ msgs' = Tail(msgs) /\ h.t = "resp" /\ c \in Cont /\ c.k = k
          /\ UNCHANGED <<life, ssrs, fails>>
          /\ k # "ignore" => c.id \in Ids /\ c.cmd \in Cmds \cup {NoCmd}
          /\ Err => fails + ssrs > 0
    BY HeadCont
  <1>2. \A k : Response(k) => ContChanges(c)
    <2>1. ASSUME NEW k, Response(k)
          PROVE  ContChanges(c)
      <3>1. h \in Elements(msgs) /\ h.t = "resp" /\ c = h.cont
        BY <1>1, <2>1, ElementsOf DEF TypeOK, TheCont
      <3> QED
        BY <3>1 DEF OwnInv, ChangesInv, MsgChanges
    <2> QED
      BY <2>1
  <1>3. \A k : Response(k) /\ k \in Commanded => HeadFor(c.id)
    BY <1>1 DEF HeadFor, MsgIs, TheCont, Commanded, Distances
  <1>4. \A k, id : Response(k) /\ k # "clientDistStopped" => ~MsgIs(h, {"clientDistStopped"}, id)
    BY <1>1 DEF MsgIs, TheCont
  <1>5. CASE ProcStarted
    <2>1. /\ Response("started") /\ UNCHANGED api
          /\ eraseTrackingSession(c.id) \/ UNCHANGED <<time, dist>>
      BY <1>5 DEF ProcStarted
    <2> HIDE DEF c, h
    <2>2. Alters(c.id) /\ Drops(c.id)
      BY <1>1, <2>1, ErasesDrops DEF Alters, Drops
    <2>3. h.t # "remove" /\ \A id : ~MsgIs(h, {"clientDistStopped"}, id)
      BY <1>1, <1>4, <2>1
    <2> QED
      BY <1>1, <2>1, <2>2, <2>3, SentNone, HandledOwned DEF h
  <1>6. CASE ProcStopped \/ ProcIgnored
    <2>1. PICK k \in {"stopped", "ignore"} : Response(k) /\ UNCHANGED <<api, time, dist>>
      BY <1>6 DEF ProcStopped, ProcIgnored
    <2>2. Alters(0) /\ Drops(0)
      BY <2>1 DEF Alters, Drops
    <2>3. h.t # "remove" /\ \A id : ~MsgIs(h, {"clientDistStopped"}, id)
      BY <1>1, <1>4, <2>1
    <2> HIDE DEF h
    <2> QED
      BY <1>1, <2>1, <2>2, <2>3, SentNone, HandledOwned DEF h
  <1>7. CASE ProcUpdated
    <2>1. /\ Response("updated") /\ UNCHANGED api
          /\ saveTrackingSession(c.id, c.opt) \/ UNCHANGED <<time, dist>>
      BY <1>7 DEF ProcUpdated
    <2>2. HeadFor(c.id)
      BY <1>3, <2>1 DEF Commanded
    <2> HIDE DEF c
    <2>3. Alters(c.id)
      BY <1>1, <2>1, SavesAlters DEF Alters
    <2> DEFINE reqs == << >>
    <2>4. Sent(reqs, c.id) /\ api' = api \o reqs
      BY <2>1, SentNone
    <2> HIDE DEF reqs
    <2> QED
      BY <1>1, <2>1, <2>2, <2>3, <2>4, HeadOwned
  <1>8. CASE ProcDistStopped
    <2>1. PICK k \in {"distStopped", "clientDistStopped"} : Response(k)
      BY <1>8 DEF ProcDistStopped
    <2>2. /\ UNCHANGED api
          /\ IF Err THEN UNCHANGED <<time, dist>> ELSE eraseTrackingSession(c.id)
      BY <1>8 DEF ProcDistStopped
    <2>3. c.id \in Ids /\ Alters(c.id) /\ Drops(c.id)
      <3> HIDE DEF c
      <3> QED
        BY <1>1, <2>1, <2>2, ErasesDrops DEF Alters, Drops
    <2>4. ASSUME NEW id \in Ids, MsgIs(h, {"clientDistStopped"}, id), fails + ssrs = 0
          PROVE  time'[id] = None /\ dist'[id] = None
      <3>1. id = c.id /\ h \in Elements(msgs)
        BY <1>1, <2>1, <2>4, ElementsOf DEF MsgIs, TheCont, TypeOK
      <3>2. time[id] = None
        BY <2>4, <3>1 DEF OwnInv, OwnedInv, Ending, Flying
      <3>3. ~Err
        BY <1>1, <2>1, <2>4 DEF TypeOK
      <3> HIDE DEF c, h
      <3> QED
        BY <2>2, <2>3, <3>1, <3>2, <3>3, ErasesDrops
    <2>5. h.t # "remove"
      BY <1>1, <2>1
    <2> HIDE DEF c, h
    <2> QED
      BY <1>1, <2>1, <2>2, <2>3, <2>4, <2>5, SentNone, HandledOwned DEF h
  <1>9. CASE ProcDistRestarted
    <2>1. /\ Response("distRestarted") /\ UNCHANGED api
          /\ saveTrackingSession(c.id, c.opt) \/ UNCHANGED <<time, dist>>
      BY <1>9 DEF ProcDistRestarted
    <2>2. HeadFor(c.id)
      BY <1>3, <2>1 DEF Commanded, Distances
    <2> HIDE DEF c
    <2>3. Alters(c.id)
      BY <1>1, <2>1, SavesAlters DEF Alters
    <2> DEFINE reqs == << >>
    <2>4. Sent(reqs, c.id) /\ api' = api \o reqs
      BY <2>1, SentNone
    <2> HIDE DEF reqs
    <2> QED
      BY <1>1, <2>1, <2>2, <2>3, <2>4, HeadOwned
  <1>10. CASE ProcSwitched
    <2> DEFINE reqs == startTimeBasedTrackingMultiplex(c.id, c.opt, c.cmd)
    <2>1. Response("switched") /\ api' = api \o reqs /\ saveTrackingSession(c.id, c.opt)
      BY <1>10 DEF ProcSwitched, SendOrReport
    <2>2. HeadFor(c.id)
      BY <1>3, <2>1 DEF Commanded
    <2>3. c.opt \in OptionType
      BY <2>1, ResponseFields
    <2> HIDE DEF c
    <2>4. AtMost(reqs, TRUE)
      BY <1>1, <2>1, <2>3, MultiplexShape
    <2>5. Alters(c.id)
      BY <1>1, <2>1, SavesAlters
    <2> HIDE DEF reqs
    <2>6. Sent(reqs, c.id)
      BY <2>4, SentEngine
    <2> QED
      BY <1>1, <2>1, <2>2, <2>5, <2>6, HeadOwned
  <1>11. CASE ProcDistRestart
    <2> DEFINE again == [c EXCEPT !.k = "distRestarted"]
               start == [op |-> "startDB", id |-> c.id, cont |-> again]
    <2>1. /\ Response("distRestart") /\ UNCHANGED <<time, dist>>
          /\ api' = IF Err THEN api ELSE Append(api, start)
      BY <1>11 DEF ProcDistRestart
    <2>2. HeadFor(c.id)
      BY <1>3, <2>1 DEF Commanded, Distances
    <2>3. c \in Cont /\ c.k = "distRestart" /\ c.id \in Ids /\ again \in Cont
      BY <2>1, ResponseType, ResponseFields
    <2>4. /\ start \in Request /\ start.op = "startDB" /\ start.id = c.id /\ start.cont = again
          /\ again.k = "distRestarted" /\ again.id = c.id /\ again.cmd = c.cmd
          /\ again.opt = c.opt
      <3>1. start \in Request /\ start.op = "startDB" /\ start.id = c.id /\ start.cont = again
        BY <2>3 DEF Request
      <3> HIDE DEF c
      <3> QED
        BY <2>3, <3>1 DEF Cont
    <2>5. c.cmd # NoCmd /\ c.opt.distance
      <3> HIDE DEF c
      <3> QED
        BY <1>2, <2>1, <2>3 DEF ContChanges, Changing, Distances, NoCont
    <2> HIDE DEF start, again, c
    <2>6. ReqChanges(start)
      BY <2>4, <2>5 DEF ReqChanges, ContChanges
    <2>7. Alters(c.id)
      BY <2>1 DEF Alters
    <2>8. CASE Err
      BY <1>1, <2>1, <2>2, <2>3, <2>7, <2>8, SentNone, HeadOwned
    <2>9. CASE ~Err
      BY <1>1, <2>1, <2>2, <2>3, <2>4, <2>6, <2>7, <2>9, OneOwned
    <2> QED
      BY <2>8, <2>9
  <1> QED
    BY <1>5, <1>6, <1>7, <1>8, <1>9, <1>10, <1>11 DEF ProcResponse

-----------------------------------------------------------------------------
\* The steps that save no session: what is new in the queues ends sessions only
\* where there is none in the map of the time based ones.
LEMMA ContChangesKept ==
  ASSUME NEW c \in Cont \cup {NoCont}, ContChanges(c),
         \A d \in Clients : life[d] = "gone" => life'[d] = "gone"
  PROVE  ContChanges(c)'
  <1>1. c # NoCont /\ c.k # "ignore" => Owner[c.id] \in Clients
    BY ContFields, OwnerHere
  <1>2. c.k = "clientDistStopped" => c.k # "ignore"
    OBVIOUS
  <1> QED
    BY <1>1, <1>2 DEF ContChanges

LEMMA QuietOwned ==
  ASSUME TypeOK, OwnInv,
         \A c \in Clients : life[c] = "gone" => life'[c] = "gone",
         \A c \in Clients : life'[c] = "gone" => life[c] = "gone" \/ Removing(c)',
         fails' + ssrs' = 0 => fails + ssrs = 0,
         \A m \in Elements(msgs)' : m \in Elements(msgs) \/
            (/\ MsgChanges(m)'
             /\ \A id \in Ids : MsgIs(m, {"clientDistStopped"}, id) => time[id] = None),
         \A r \in Elements(api)' : r \in Elements(api) \/
            (/\ ReqChanges(r)'
             /\ \A id \in Ids : ReqIs(r, {"clientDistStopped"}, id) => time[id] = None),
         \A id \in Ids : Ending(id) => Ending(id)',
         \A c \in Clients : Removing(c) => Removing(c)' \/
            \A id \in Ids : Owner[id] = c => time[id] = None /\ (dist[id] = None \/ Ending(id)'),
         \A id \in Ids : Drops(id)
  PROVE  OwnInv'
  <1>1. \A m \in Elements(msgs) : MsgChanges(m)'
    <2>1. ASSUME NEW m \in Elements(msgs), m.t = "resp"
          PROVE  ContChanges(m.cont)'
      <3>1. m.cont \in Cont /\ ContChanges(m.cont)
        BY <2>1, ElementsType, CommandType DEF OwnInv, ChangesInv, MsgChanges
      <3> QED
        BY <3>1, ContChangesKept
    <2> QED
      BY <2>1 DEF MsgChanges
  <1>2. \A r \in Elements(api) : ReqChanges(r)'
    <2>1. ASSUME NEW r \in Elements(api), r.op # "open"
          PROVE  ContChanges(r.cont)'
      <3>1. r.cont \in Cont \cup {NoCont} /\ ContChanges(r.cont)
        BY <2>1, ElementsType, RequestFields DEF OwnInv, ChangesInv, ReqChanges
      <3> QED
        BY <3>1, ContChangesKept
    <2> QED
      BY <2>1 DEF ReqChanges
  <1>3. ChangesInv'
    BY <1>1, <1>2 DEF ChangesInv
  <1>4. ASSUME NEW id \in Ids, Ending(id)'
        PROVE  time'[id] = None
    <2>1. Ending(id) \/ time[id] = None
      BY <1>4 DEF Ending, Flying
    <2>2. time[id] = None
      BY <2>1 DEF OwnInv, OwnedInv
    <2> QED
      BY <2>2 DEF Drops
  <1>5. ASSUME fails' + ssrs' = 0, NEW id \in Ids, life'[Owner[id]] = "gone", ~Removing(Owner[id])'
        PROVE  time'[id] = None /\ (dist'[id] = None \/ Ending(id)')
    <2>1. Owner[id] \in Clients /\ life[Owner[id]] = "gone"
      BY <1>5, OwnerHere
    <2>2. \/ Removing(Owner[id])
          \/ time[id] = None /\ (dist[id] = None \/ Ending(id))
      BY <1>5, <2>1 DEF OwnInv, OwnedInv
    <2>3. time[id] = None /\ (dist[id] = None \/ Ending(id)')
      BY <1>5, <2>1, <2>2
    <2> QED
      BY <2>3 DEF Drops
  <1>6. OwnedInv'
    BY <1>4, <1>5 DEF OwnedInv
  <1> QED
    BY <1>3, <1>6 DEF OwnInv

\* New messages and requests that end nothing.
LEMMA PostsOwned ==
  ASSUME TypeOK, OwnInv,
         \A c \in Clients : life[c] = "gone" => life'[c] = "gone",
         \A c \in Clients : life'[c] = "gone" => life[c] = "gone" \/ Removing(c)',
         fails' + ssrs' = 0 => fails + ssrs = 0,
         \A m \in Elements(msgs)' : m \in Elements(msgs) \/ m.t # "resp",
         \A r \in Elements(api)' : r \in Elements(api) \/ r.op = "open" \/ ~(r.cont # NoCont /\ r.cont.k \in Changing \cup {"updated"}),
         \A m \in Elements(msgs) : m.t \in {"resp", "remove"} => m \in Elements(msgs)',
         Elements(api) \subseteq Elements(api)',
         \A id \in Ids : Drops(id)
  PROVE  OwnInv'
  <1>1. \A m \in Elements(msgs)' : m \in Elements(msgs) \/
            (/\ MsgChanges(m)'
             /\ \A id \in Ids : MsgIs(m, {"clientDistStopped"}, id) => time[id] = None)
    BY DEF MsgChanges, MsgIs
  <1>2. \A r \in Elements(api)' : r \in Elements(api) \/
            (/\ ReqChanges(r)'
             /\ \A id \in Ids : ReqIs(r, {"clientDistStopped"}, id) => time[id] = None)
    BY DEF ReqChanges, ContChanges, ReqIs, Changing
  <1>3. \A id \in Ids : Ending(id) => Ending(id)'
    BY DEF Ending, Flying, MsgIs
  <1>4. \A c : Removing(c) => Removing(c)'
    BY DEF Removing
  <1> QED
    BY <1>1, <1>2, <1>3, <1>4, QuietOwned

LEMMA RestartEnds ==
  ASSUME TypeOK, NEW reqs \in restartSessions
  PROVE  /\ reqs \in Seq(Request)
         /\ \A i \in DOMAIN reqs : reqs[i].cont = NoCont \/ reqs[i].cont.k = "ignore"
  <1> DEFINE first == checkAndRestartTimeBasedSession
             Good(q) == \A i \in DOMAIN q : q[i].cont = NoCont \/ q[i].cont.k = "ignore"
  <1>1. first \in Seq(Request) /\ Good(first)
    <2>1. Good(first)
      BY DEF checkAndRestartTimeBasedSession, StartTB
    <2> QED
      BY <2>1, CheckRestartType
  <1>2. PICK q \in InOrder(DistIds) :
          reqs = first \o [i \in DOMAIN q |-> [op |-> "startDB", id |-> q[i],
                                               cont |-> [k |-> "ignore"]]]
    BY DEF restartSessions
  <1> DEFINE rest == [i \in DOMAIN q |-> [op |-> "startDB", id |-> q[i],
                                          cont |-> [k |-> "ignore"]]]
  <1>3. rest \in Seq(Request) /\ Good(rest)
    <2>1. \A id \in Ids : [op |-> "startDB", id |-> id, cont |-> [k |-> "ignore"]]
                            \in Request
      BY DEF Request, Cont
    <2>2. rest \in Seq(Request)
      BY <2>1, InOrderType, SessionOptions, MapType
    <2>3. Good(rest)
      OBVIOUS
    <2> QED
      BY <2>2, <2>3
  <1>4. reqs = first \o rest
    BY <1>2
  <1> HIDE DEF first, rest
  <1>5. \A i \in DOMAIN reqs : \/ i \in DOMAIN first /\ reqs[i] = first[i]
                               \/ \E k \in DOMAIN rest : reqs[i] = rest[k]
    BY <1>1, <1>3, <1>4, ReqMembers
  <1> QED
    BY <1>1, <1>3, <1>5, RestartType

LEMMA MessagesTaken ==
  ASSUME TypeOK, msgs # << >>, Head(msgs).t \notin {"resp", "remove"}, msgs' = Tail(msgs)
  PROVE  /\ Elements(msgs)' \subseteq Elements(msgs)
         /\ \A m \in Elements(msgs) : m.t \in {"resp", "remove"} => m \in Elements(msgs)'
  <1>1. Elements(msgs) = {Head(msgs)} \cup Elements(msgs')
    BY ElementsTail DEF TypeOK
  <1>2. Elements(msgs)' = Elements(msgs')
    OBVIOUS
  <1> QED
    BY <1>1, <1>2

LEMMA OthersOwned ==
  ASSUME TypeOK, OwnInv, ProcAddClient \/ ProcWait \/ ProcEngineUp \/ ProcConfigRobustLocation
  PROVE  OwnInv'
  <1>1. /\ msgs # << >> /\ Head(msgs).t \in {"add", "start", "update", "engineUp", "config"}
        /\ UNCHANGED <<life, fails, ssrs, time, dist>>
    BY DEF ProcAddClient, ProcWait, ProcEngineUp, ProcConfigRobustLocation, Handle,
           clientVars, modemVars, adapterVars
  <1>2. \A id \in Ids : Drops(id)
    BY <1>1 DEF Drops
  <1>3. /\ \A c \in Clients : life[c] = "gone" => life'[c] = "gone"
        /\ \A c \in Clients : life'[c] = "gone" => life[c] = "gone"
        /\ fails' + ssrs' = 0 => fails + ssrs = 0
        /\ Head(msgs).t \notin {"resp", "remove"}
    BY <1>1
  <1>4. CASE ProcAddClient \/ ProcWait
    <2>1. msgs' = Tail(msgs) /\ UNCHANGED api
      BY <1>4 DEF ProcAddClient, ProcWait
    <2> QED
      BY <1>1, <1>2, <1>3, <2>1, MessagesTaken, PostsOwned
  <1>5. CASE ProcConfigRobustLocation
    <2> DEFINE stop == IF TimeIds = {} THEN << >>
                       ELSE <<[op |-> "stopFix", cont |-> NoCont]>>
    <2>1. PICK reqs \in restartSessions : api' = (api \o stop) \o reqs
      BY <1>5 DEF ProcConfigRobustLocation
    <2>2. /\ reqs \in Seq(Request)
          /\ \A r \in Elements(reqs) : r.cont = NoCont \/ r.cont.k = "ignore"
      BY RestartEnds DEF Elements
    <2>3. stop \in Seq(Request) /\ \A r \in Elements(stop) : r.cont = NoCont
      <3>1. [op |-> "stopFix", cont |-> NoCont] \in Request
        BY DEF Request
      <3> HIDE DEF NoCont
      <3>2. stop = << >> \/ stop = <<[op |-> "stopFix", cont |-> NoCont]>>
        OBVIOUS
      <3>3. stop \in Seq(Request)
        BY <3>1, <3>2
      <3>4. \A i \in DOMAIN stop : stop[i].cont = NoCont
        BY <3>2
      <3> QED
        BY <3>3, <3>4 DEF Elements
    <2> HIDE DEF stop
    <2>4. Elements(api)' = Elements(api) \cup Elements(stop) \cup Elements(reqs)
      <3>1. Elements(api \o stop) = Elements(api) \cup Elements(stop) /\ api \o stop \in Seq(Request)
        BY <2>3, ElementsConcat DEF TypeOK
      <3> DEFINE base == api \o stop
      <3>2. base \in Seq(Request) /\ Elements(base) = Elements(api) \cup Elements(stop)
            /\ api' = base \o reqs
        BY <2>1, <3>1
      <3> HIDE DEF base
      <3>3. reqs \in Seq(Request)
        BY <2>2
      <3>4. Elements(base \o reqs) = Elements(base) \cup Elements(reqs)
        BY <3>2, <3>3, ElementsConcat
      <3> QED
        BY <3>2, <3>4
    <2>5. msgs' = Tail(msgs)
      BY <1>5 DEF ProcConfigRobustLocation
    <2>6. \A r \in Elements(api)' : r \in Elements(api) \/ r.cont = NoCont \/ r.cont.k = "ignore"
      BY <2>2, <2>3, <2>4
    <2>7. \A r \in Elements(api)' : r \in Elements(api) \/ r.op = "open" \/
            ~(r.cont # NoCont /\ r.cont.k \in Changing \cup {"updated"})
      BY <2>6 DEF Changing, Distances
    <2> QED
      BY <1>1, <1>2, <1>3, <2>4, <2>5, <2>7, MessagesTaken, PostsOwned
  <1>6. CASE ProcEngineUp
    <2>1. PICK reqs \in restartSessions : api' = api \o reqs
      BY <1>6 DEF ProcEngineUp
    <2>2. /\ reqs \in Seq(Request)
          /\ \A r \in Elements(reqs) : r.cont = NoCont \/ r.cont.k = "ignore"
      BY RestartEnds DEF Elements
    <2>3. Elements(api)' = Elements(api) \cup Elements(reqs)
      BY <2>1, <2>2, ElementsConcat DEF TypeOK
    <2>4. \A r \in Elements(api)' : r \in Elements(api) \/ r.op = "open" \/
            ~(r.cont # NoCont /\ r.cont.k \in Changing \cup {"updated"})
      BY <2>2, <2>3 DEF Changing, Distances
    <2>5. msgs' = Tail(msgs) \o pending
      BY <1>6 DEF ProcEngineUp
    <2>6. /\ msgs \in Seq(Msg) /\ Tail(msgs) \in Seq(Msg) /\ pending \in Seq(Msg)
      BY <1>1, PendingType DEF TypeOK
    <2>7. Elements(msgs)' = Elements(Tail(msgs)) \cup Elements(pending)
      BY <2>5, <2>6, ElementsConcat
    <2>8. Elements(msgs) = {Head(msgs)} \cup Elements(Tail(msgs))
      BY <1>1, <2>6, ElementsTail
    <2>9. \A m \in Elements(msgs)' : m \in Elements(msgs) \/ m.t # "resp"
      BY <2>7, <2>8, ElementsType
    <2>10. \A m \in Elements(msgs) : m.t \in {"resp", "remove"} => m \in Elements(msgs)'
      BY <1>3, <2>7, <2>8
    <2> QED
      BY <1>1, <1>2, <1>3, <2>3, <2>4, <2>9, <2>10, PostsOwned
  <1> QED
    BY <1>4, <1>5, <1>6

LEMMA PostedOwned ==
  ASSUME TypeOK, OwnInv, UNCHANGED <<api, time, dist, fails, ssrs>>, NEW m \in Msg, m.t # "resp",
         msgs' = Append(msgs, m),
         \A c \in Clients : life[c] = "gone" => life'[c] = "gone",
         \A c \in Clients : life'[c] = "gone" =>
            life[c] = "gone" \/ (m.t = "remove" /\ m.client = c)
  PROVE  OwnInv'
  <1>1. Elements(msgs)' = Elements(msgs) \cup {m} /\ Elements(api)' = Elements(api)
    BY ElementsOf DEF TypeOK
  <1>2. \A c \in Clients : life'[c] = "gone" => life[c] = "gone" \/ Removing(c)'
    BY <1>1 DEF Removing
  <1>3. \A id \in Ids : Drops(id)
    BY DEF Drops
  <1>4. fails' + ssrs' = 0 => fails + ssrs = 0
    OBVIOUS
  <1> QED
    BY <1>1, <1>2, <1>3, <1>4, PostsOwned

LEMMA ClientOwned ==
  ASSUME TypeOK, OwnInv, ClientStep
  PROVE  OwnInv'
  <1>1. UNCHANGED <<api, time, dist, fails, ssrs>>
    BY DEF ClientStep, addClientCommand, removeClientCommand, configRobustLocationCommand,
           startTrackingCommand, updateTrackingOptionsCommand, stopTrackingCommand,
           adapterVars, modemVars
  <1>2. CASE \E c \in Clients : addClientCommand(c)
    <2>1. PICK c \in Clients : addClientCommand(c)
      BY <1>2
    <2> DEFINE m == [t |-> "add", client |-> c]
    <2>2. life[c] = "none" /\ life' = [life EXCEPT ![c] = "live"] /\ msgs' = Append(msgs, m)
      BY <2>1 DEF addClientCommand
    <2>3. m \in Msg /\ m.t = "add"
      BY DEF Msg
    <2>4. \A d \in Clients : life'[d] = "gone" <=> life[d] = "gone"
      BY <2>2 DEF TypeOK
    <2> HIDE DEF m
    <2> QED
      BY <1>1, <2>2, <2>3, <2>4, PostedOwned
  <1>3. CASE \E c \in Clients : removeClientCommand(c)
    <2>1. PICK c \in Clients : removeClientCommand(c)
      BY <1>3
    <2> DEFINE m == [t |-> "remove", client |-> c]
    <2>2. life' = [life EXCEPT ![c] = "gone"] /\ msgs' = Append(msgs, m)
      BY <2>1 DEF removeClientCommand
    <2>3. m \in Msg /\ m.t = "remove" /\ m.client = c
      BY DEF Msg
    <2>4. \A d \in Clients : life[d] = "gone" => life'[d] = "gone"
      BY <2>2 DEF TypeOK
    <2>5. \A d \in Clients : life'[d] = "gone" => life[d] = "gone" \/ d = c
      BY <2>2 DEF TypeOK
    <2> HIDE DEF m
    <2> QED
      BY <1>1, <2>2, <2>3, <2>4, <2>5, PostedOwned
  <1>4. CASE configRobustLocationCommand
    <2> DEFINE m == [t |-> "config"]
    <2>1. msgs' = Append(msgs, m) /\ UNCHANGED life
      BY <1>4 DEF configRobustLocationCommand
    <2>2. m \in Msg /\ m.t = "config"
      BY DEF Msg
    <2> HIDE DEF m
    <2> QED
      BY <1>1, <2>1, <2>2, PostedOwned
  <1>5. ASSUME NEW id \in Ids, NEW opt \in Options,
               startTrackingCommand(id, opt) \/ updateTrackingOptionsCommand(id, opt)
        PROVE  OwnInv'
    <2>1. PICK t \in {"start", "update"} :
            /\ Issue(t, id, opt.size # 0)
            /\ msgs' = Append(msgs, [t |-> t, id |-> id, opt |-> opt, cmd |-> Len(issued) + 1])
            /\ UNCHANGED life
      BY <1>5 DEF startTrackingCommand, updateTrackingOptionsCommand
    <2>2. Len(issued) + 1 \in Cmds /\ opt \in OptionType
      BY <2>1, IssueType, ConstantsOK
    <2>3. PICK m : m = [t |-> t, id |-> id, opt |-> opt, cmd |-> Len(issued) + 1]
      OBVIOUS
    <2>4. m \in Msg /\ m.t = t
      BY <2>2, <2>3 DEF Msg, Command
    <2> QED
      BY <1>1, <2>1, <2>3, <2>4, PostedOwned
  <1>6. ASSUME NEW id \in Ids, stopTrackingCommand(id)
        PROVE  OwnInv'
    <2>1. /\ Issue("stop", id, TRUE) /\ UNCHANGED life
          /\ msgs' = Append(msgs, [t |-> "stop", id |-> id, cmd |-> Len(issued) + 1])
      BY <1>6 DEF stopTrackingCommand
    <2>2. Len(issued) + 1 \in Cmds
      BY <2>1, IssueType
    <2>3. PICK m : m = [t |-> "stop", id |-> id, cmd |-> Len(issued) + 1]
      OBVIOUS
    <2>4. m \in Msg /\ m.t = "stop"
      BY <2>2, <2>3 DEF Msg, Command
    <2> QED
      BY <1>1, <2>1, <2>3, <2>4, PostedOwned
  <1> QED
    BY <1>2, <1>3, <1>4, <1>5, <1>6 DEF ClientStep

\* An enumeration of a finite set misses none of its members.
LEMMA InOrderOnto ==
  ASSUME NEW S \in SUBSET Ids, NEW q \in InOrder(S)
  PROVE  \A id \in S : \E i \in DOMAIN q : q[i] = id
  <1>1. IsFiniteSet(S)
    BY ConstantsOK, FS_Subset
  <1> DEFINE n == Cardinality(S)
             D == 1 .. n
  <1>2. n \in Nat /\ DOMAIN q = D /\ q \in [D -> S] /\ \A i, j \in D : i < j => q[i] < q[j]
    BY <1>1, InOrderType DEF InOrder
  <1>3. \A i \in D : q[i] \in Nat
    BY <1>2, ConstantsOK
  <1>4. \A i, j \in D : q[i] = q[j] => i = j
    <2> SUFFICES ASSUME NEW i \in D, NEW j \in D, i # j
                 PROVE  q[i] # q[j]
      OBVIOUS
    <2>1. i < j \/ j < i
      BY <1>2
    <2>2. (q[i] < q[j] \/ q[j] < q[i]) /\ q[i] \in Nat /\ q[j] \in Nat
      BY <1>2, <1>3, <2>1
    <2> QED
      BY <2>2
  <1>5. Cardinality(D) = n
    BY <1>2, FS_Interval
  <1> HIDE DEF n, D
  <1>6. q \in Injection(D, S)
    BY <1>2, <1>4 DEF Injection, IsInjective
  <1>7. q \in Surjection(D, S)
    BY <1>1, <1>5, <1>6, FS_Injection DEF n
  <1> QED
    BY <1>2, <1>7 DEF Surjection

\* Removing a client: its time based sessions one by one, then the others, which
\* the modem has to stop first.
LEMMA RemovesOwned ==
  ASSUME TypeOK, ForgetInv, OwnInv, ProcRemoveClientTime \/ ProcRemoveClient
  PROVE  OwnInv'
  <1>1. /\ msgs # << >> /\ Head(msgs).t = "remove" /\ life[Head(msgs).client] = "gone"
        /\ Head(msgs).client \in Clients
    <2>1. msgs # << >> /\ Head(msgs).t = "remove"
      BY DEF ProcRemoveClientTime, ProcRemoveClient, Handle
    <2> QED
      BY <2>1, HeadMatches, CommandType DEF MsgMatches
  <1>2. UNCHANGED <<life, fails, ssrs>>
    BY DEF ProcRemoveClientTime, ProcRemoveClient, clientVars, modemVars
  <1>3. CASE ProcRemoveClientTime
    <2>1. PICK id \in TimeIds : /\ api' = api \o stopTimeBasedTrackingMultiplex(id, NoCmd)
                                /\ eraseTrackingSession(id)
      BY <1>3 DEF ProcRemoveClientTime
    <2> DEFINE reqs == stopTimeBasedTrackingMultiplex(id, NoCmd)
    <2>2. msgs' = msgs /\ id \in Ids
      BY <1>3, SessionOptions DEF ProcRemoveClientTime
    <2>3. AtMost(reqs, TimeIds \ {id} # {})
      BY <2>1, <2>2, SessionOptions, MultiplexShape
    <2>4. api' = api \o reqs
      BY <2>1
    <2> HIDE DEF reqs
    <2>5. Sent(reqs, id)
      BY <2>3, SentEngine
    <2>6. Elements(api)' = Elements(api) \cup Elements(reqs) /\ Elements(msgs)' = Elements(msgs)
      BY <2>2, <2>4, <2>5, ElementsConcat DEF TypeOK, Sent
    <2>7. \A r \in Elements(reqs) : SentFor(r, id)
      BY <2>5 DEF Sent, Elements
    <2>8. \A i \in Ids : Drops(i)
      BY <2>1, <2>2, ErasesDrops DEF Alters, Drops
    <2>9. \A r \in Elements(api)' : r \in Elements(api) \/
            (/\ ReqChanges(r)'
             /\ \A i \in Ids : ReqIs(r, {"clientDistStopped"}, i) => time[i] = None)
      BY <1>2, <2>6, <2>7 DEF SentFor, ReqChanges, ContChanges
    <2>10. \A i \in Ids : Ending(i) => Ending(i)'
      BY <2>6 DEF Ending, Flying
    <2>11. \A c : Removing(c) => Removing(c)'
      BY <2>6 DEF Removing
    <2> QED
      BY <1>2, <2>6, <2>8, <2>9, <2>10, <2>11, QuietOwned
  <1>4. CASE ProcRemoveClient
    <2> DEFINE c == Head(msgs).client
               S == {id \in DistIds : Owner[id] = c}
               Stop(id) == [op |-> "stopDB", id |-> id,
                            cont |-> [k |-> "clientDistStopped", id |-> id, cmd |-> NoCmd]]
    <2>1. PICK q \in InOrder(S) : api' = api \o [i \in DOMAIN q |-> Stop(q[i])]
      BY <1>4 DEF ProcRemoveClient
    <2> DEFINE reqs == [i \in DOMAIN q |-> Stop(q[i])]
    <2>2. reqs \in Seq(Request)
      BY ClientStopsIdle
    <2>3. Elements(reqs) = {Stop(id) : id \in S}
      <3>1. S \in SUBSET Ids
        BY SessionOptions
      <3> HIDE DEF S, Stop
      <3>2. \A i \in DOMAIN q : q[i] \in S
        BY <3>1, InOrderType
      <3>3. \A id \in S : \E i \in DOMAIN q : q[i] = id
        BY <3>1, InOrderOnto
      <3>4. DOMAIN reqs = DOMAIN q /\ \A i \in DOMAIN q : reqs[i] = Stop(q[i])
        OBVIOUS
      <3> HIDE DEF reqs
      <3> QED
        BY <3>2, <3>3, <3>4 DEF Elements
    <2>4. /\ msgs' = Tail(msgs) /\ UNCHANGED <<time, dist>> /\ api' = api \o reqs
          /\ \A id \in TimeIds : Owner[id] # c
      BY <1>4, <2>1 DEF ProcRemoveClient
    <2> HIDE DEF reqs
    <2>5. /\ Elements(api)' = Elements(api) \cup {Stop(id) : id \in S}
          /\ Elements(msgs) = {Head(msgs)} \cup Elements(msgs')
      BY <1>1, <2>2, <2>3, <2>4, ElementsConcat, ElementsTail DEF TypeOK
    <2>6. ASSUME NEW id \in S
          PROVE  /\ Stop(id).op = "stopDB" /\ Stop(id).cont # NoCont
                 /\ Stop(id).cont.k = "clientDistStopped" /\ Stop(id).cont.id = id
                 /\ Stop(id).cont.cmd = NoCmd /\ id \in Ids /\ time[id] = None
                 /\ life[Owner[id]] = "gone"
      BY <1>1, <2>4, SessionOptions DEF NoCont, TimeIds
    <2> HIDE DEF Stop
    <2>7. \A r \in Elements(api)' : r \in Elements(api) \/
            (/\ ReqChanges(r)'
             /\ \A i \in Ids : ReqIs(r, {"clientDistStopped"}, i) => time[i] = None)
      <3>1. ASSUME NEW id \in S
            PROVE  /\ ReqChanges(Stop(id))'
                   /\ \A i \in Ids : ReqIs(Stop(id), {"clientDistStopped"}, i) => time[i] = None
        BY <1>2, <2>6 DEF ReqChanges, ContChanges, ReqIs
      <3> HIDE DEF S
      <3> QED
        BY <2>5, <3>1
    <2>8. \A i \in Ids : Ending(i) => Ending(i)'
      BY <1>1, <2>5 DEF Ending, Flying, MsgIs
    <2>9. \A i \in S : Ending(i)'
      BY <2>5, <2>6 DEF Ending, Flying, ReqIs
    <2>10. ASSUME NEW d \in Clients, Removing(d), ~Removing(d)', NEW id \in Ids, Owner[id] = d
           PROVE  time[id] = None /\ (dist[id] = None \/ Ending(id)')
      <3>1. d = c
        BY <1>1, <2>5, <2>10 DEF Removing
      <3>2. time[id] = None
        BY <2>4, <2>10, <3>1 DEF TimeIds
      <3>3. dist[id] # None => id \in S
        BY <2>10, <3>1 DEF DistIds
      <3> QED
        BY <2>9, <3>2, <3>3
    <2>11. \A i \in Ids : Drops(i)
      BY <2>4 DEF Drops
    <2>12. Elements(msgs)' \subseteq Elements(msgs)
      BY <2>5
    <2> HIDE DEF S, c
    <2> QED
      BY <1>2, <2>7, <2>8, <2>10, <2>11, <2>12, QuietOwned
  <1> QED
    BY <1>3, <1>4

\* LocApi hands a continuation on from the request to its response; a crash makes
\* the promise void.
LEMMA ModemOwned ==
  ASSUME TypeOK, OwnInv, LocApiStep \/ ModemCrash
  PROVE  OwnInv'
  <1>1. /\ UNCHANGED <<life, time, dist>>
        /\ fails' + ssrs' = 0 => fails + ssrs = 0
    <2>1. UNCHANGED <<life, time, dist>>
      BY DEF LocApiStep, ApiSuccess, ApiFailure, ApiOpen, ModemCrash, adapterVars, clientVars
    <2>2. fails \in Nat /\ ssrs \in Nat
      BY ConstantsOK DEF TypeOK
    <2>3. /\ fails' = fails \/ fails' = fails + 1
          /\ ssrs' = ssrs \/ ssrs' = ssrs + 1
      BY DEF LocApiStep, ApiSuccess, ApiFailure, ApiOpen, ModemCrash
    <2> QED
      BY <2>1, <2>2, <2>3
  <1>2. \A id \in Ids : Drops(id)
    BY <1>1 DEF Drops
  <1>3. CASE ModemCrash
    <2> DEFINE r == [op |-> "open"]
    <2>1. api' = Append(api, r) /\ msgs' = msgs
      BY <1>3 DEF ModemCrash
    <2>2. r \in Request /\ r.op = "open"
      BY DEF Request
    <2> HIDE DEF r
    <2>3. Elements(api)' = Elements(api) \cup {r} /\ Elements(msgs)' = Elements(msgs)
      BY <2>1, <2>2, ElementsOf DEF TypeOK
    <2> QED
      BY <1>1, <1>2, <2>2, <2>3, PostsOwned
  <1>4. CASE LocApiStep
    <2>1. api # << >> /\ api' = Tail(api) /\ api \in Seq(Request) /\ msgs \in Seq(Msg)
      BY <1>4 DEF LocApiStep, ApiSuccess, ApiFailure, ApiOpen, TypeOK
    <2>2. PICK r : r = Head(api)
      OBVIOUS
    <2>3. Elements(api) = {r} \cup Elements(api)' /\ r \in Request /\ r \in Elements(api)
      BY <2>1, <2>2, ElementsTail, ElementsOf
    <2>4. CASE ApiOpen
      <3> DEFINE m == [t |-> "engineUp"]
      <3>1. msgs' = Append(msgs, m) /\ r.op = "open"
        BY <2>2, <2>4 DEF ApiOpen
      <3>2. m \in Msg /\ m.t = "engineUp"
        BY DEF Msg
      <3> HIDE DEF m
      <3>3. Elements(msgs)' = Elements(msgs) \cup {m}
        BY <2>1, <3>1, <3>2, ElementsOf
      <3>4. \A id \in Ids : Ending(id) => Ending(id)'
        BY <2>3, <3>1, <3>3 DEF Ending, Flying, ReqIs
      <3>5. \A c : Removing(c) => Removing(c)'
        BY <3>3 DEF Removing
      <3>6. \A k \in Elements(msgs)' : k \in Elements(msgs) \/ k.t # "resp"
        BY <3>2, <3>3
      <3>7. \A k \in Elements(msgs)' : k \in Elements(msgs) \/
            (/\ MsgChanges(k)'
             /\ \A id \in Ids : MsgIs(k, {"clientDistStopped"}, id) => time[id] = None)
        BY <3>6 DEF MsgChanges, MsgIs
      <3> QED
        BY <1>1, <1>2, <2>3, <3>4, <3>5, <3>7, QuietOwned
    <2>5. CASE ApiSuccess \/ ApiFailure
      <3>1. PICK ok \in BOOLEAN : Respond(r, ok)
        BY <2>2, <2>5 DEF ApiSuccess, ApiFailure
      <3>2. r.op # "open"
        BY <2>2, <2>5 DEF ApiSuccess, ApiFailure
      <3>3. CASE r.cont = NoCont
        <4>1. Elements(msgs)' = Elements(msgs)
          BY <3>1, <3>3 DEF Respond
        <4>2. \A id \in Ids : Ending(id) => Ending(id)'
          BY <2>3, <3>3, <4>1 DEF Ending, Flying, ReqIs
        <4>3. \A c : Removing(c) => Removing(c)'
          BY <4>1 DEF Removing
        <4> QED
          BY <1>1, <1>2, <2>3, <4>1, <4>2, <4>3, QuietOwned
      <3>4. CASE r.cont # NoCont
        <4> DEFINE m == [t |-> "resp", cont |-> r.cont, ok |-> ok]
        <4>1. msgs' = Append(msgs, m)
          BY <3>1, <3>4 DEF Respond
        <4>2. m \in Msg /\ m.t = "resp" /\ m.cont = r.cont
          BY <2>3, <3>2, <3>4, RequestFields DEF Msg
        <4> HIDE DEF m
        <4>3. Elements(msgs)' = Elements(msgs) \cup {m}
          BY <2>1, <4>1, <4>2, ElementsOf
        <4>4. \A id, kinds : ReqIs(r, kinds, id) <=> MsgIs(m, kinds, id)
          BY <3>2, <3>4, <4>2 DEF ReqIs, MsgIs
        <4>5. \A id \in Ids : Ending(id) => Ending(id)'
          BY <2>3, <4>3, <4>4 DEF Ending, Flying
        <4>6. \A c : Removing(c) => Removing(c)'
          BY <4>3 DEF Removing
        <4>7. MsgChanges(m)'
          BY <1>1, <2>3, <3>2, <4>2 DEF OwnInv, ChangesInv, ReqChanges, MsgChanges, ContChanges
        <4>8. \A id \in Ids : MsgIs(m, {"clientDistStopped"}, id) => time[id] = None
          BY <2>3, <4>4 DEF OwnInv, OwnedInv, Ending, Flying
        <4> QED
          BY <1>1, <1>2, <2>3, <4>3, <4>5, <4>6, <4>7, <4>8, QuietOwned
      <3> QED
        BY <3>3, <3>4
    <2> QED
      BY <1>4, <2>4, <2>5 DEF LocApiStep
  <1> QED
    BY <1>3, <1>4

LEMMA NextOwned ==
  ASSUME TypeOK, AnswerInv, ForgetInv, PatientInv, OwnInv, [Next]_vars
  PROVE  OwnInv'
  <1>1. CASE ClientStep
    BY <1>1, ClientOwned
  <1>2. CASE MsgTaskStep
    BY <1>2, OthersOwned, RemovesOwned, StartOwned, UpdateOwned, StopOwned, ResponsesOwned
       DEF MsgTaskStep, ProcResponse
  <1>3. CASE LocApiStep \/ ModemCrash
    BY <1>3, ModemOwned
  <1>4. CASE UNCHANGED vars
    BY <1>4 DEF vars, adapterVars, clientVars, modemVars, OwnInv, ChangesInv, OwnedInv,
                MsgChanges, ReqChanges, ContChanges, Ending, Flying, Removing
  <1> QED
    BY <1>1, <1>2, <1>3, <1>4 DEF Next

LEMMA InitOwned == Init => PatientInv /\ OwnInv
  <1> SUFFICES ASSUME Init PROVE PatientInv /\ OwnInv
    OBVIOUS
  <1>1. /\ api = <<[op |-> "open"]>> /\ msgs = << >> /\ issued = << >>
        /\ \A id \in Ids : time[id] = None /\ dist[id] = None
    BY DEF Init
  <1>2. Elements(api) = {[op |-> "open"]} /\ Elements(msgs) = {}
    BY <1>1 DEF Elements
  <1>3. PatientInv
    BY <1>1 DEF PatientInv
  <1>4. OwnInv
    BY <1>1, <1>2 DEF OwnInv, ChangesInv, OwnedInv, ReqChanges
  <1> QED
    BY <1>3, <1>4

\* When clients wait for their answers, destroying one ends its sessions for
\* good: once the queues have drained, no session in the maps belongs to a client
\* that is gone, however its removal was interleaved with the requests of others,
\* with the commands that waited for the engine and with the responses of the
\* modem, as long as no request fails and the modem does not crash.
THEOREM SessionsHaveOwners == Patient => (Spec => []SessionsOwned)
  <1> SUFFICES ASSUME Patient PROVE Spec => []SessionsOwned
    OBVIOUS
  <1> DEFINE Inv == TypeOK /\ AnswerInv /\ ForgetInv /\ PatientInv /\ OwnInv
  <1>1. Inv => SessionsOwned
    <2> SUFFICES ASSUME TypeOK, OwnInv, Quiescent, fails = 0, ssrs = 0,
                        NEW id \in TimeIds \cup DistIds, life[Owner[id]] = "gone"
                 PROVE  FALSE
      BY DEF SessionsOwned
    <2>1. id \in Ids /\ (time[id] # None \/ dist[id] # None)
      BY DEF TimeIds, DistIds
    <2>2. ~Removing(Owner[id]) /\ ~Ending(id)
      BY DEF Quiescent, Removing, Ending, Flying, Elements
    <2> QED
      BY <2>1, <2>2 DEF OwnInv, OwnedInv
  <1>2. Init => Inv
    BY InitType, InitOnce, InitForgets, InitOwned
  <1>3. Inv /\ [Next]_vars => Inv'
    BY NextType, NextOnce, NextForgets, NextPatient, NextOwned
  <1> HIDE DEF Inv
  <1> QED
    BY <1>1, <1>2, <1>3, PTL DEF Spec

-----------------------------------------------------------------------------
(* The power state reported is the truth about the modem.  While no request *)
(* has failed, the last request about the engine's session, or about a      *)
(* distance session, leaves it as the maps of the adapter have it, except   *)
(* for distance sessions that are being stopped.                            *)

Calm == fails + ssrs = 0 /\ configs = 0
Untouched(q, x) == \A i \in DOMAIN q : ~Touches(q[i], x)
LastTouch(q, x, i) == Touches(q[i], x) /\ \A j \in DOMAIN q : Touches(q[j], x) => j <= i
EndsOn(q, x, now, on) ==
  /\ Untouched(q, x) => (now <=> on)
  /\ \A i \in DOMAIN q : LastTouch(q, x, i) => (Starts(q[i]) <=> on)

\* Continuations of the requests that stop a distance session.
StopKinds == {"distStopped", "clientDistStopped", "distRestart"}
StartWaits(id) == \E m \in Elements(msgs) \cup Elements(pending) : m.t = "start" /\ m.id = id
Nowhere(id) == time[id] = None /\ dist[id] = None
SessionTrue(id) ==
  /\ EndsOn(api, id, id \in engine.db, dist[id] # None /\ ~Flying(StopKinds, id))
  /\ time[id] = None \/ dist[id] = None
  /\ Flying(Distances, id) => dist[id] # None
  /\ Flying({"switched"}, id) \/ StartWaits(id) => Nowhere(id)

\* Sessions have been asked for, and the power state is that of the maps.
FreshInv ==
  /\ \A id \in Ids : KnownToClient(id) \/ Nowhere(id)
  /\ powerOn <=> \E id \in Ids : ~Nowhere(id)
\* The engine comes up once before any crash, and no distance session is started
\* before it has.
FirstUpInv ==
  /\ \A i, j \in DOMAIN msgs : msgs[i].t = "engineUp" /\ msgs[j].t = "engineUp" => i = j
  /\ \A i, j \in DOMAIN api : api[i].op = "open" /\ api[j].op = "open" => i = j
  /\ ~(HasUp(msgs) /\ HasOpen(api))
  /\ capsKnown => ~HasUp(msgs) /\ ~HasOpen(api)
  /\ ~capsKnown => \A id \in Ids : dist[id] = None
  /\ \A m \in Elements(msgs) : m.t # "config"
EngineTrue == EndsOn(api, Engine, engine.tb # None, TimeIds # {})
MapsTrue == FirstUpInv /\ EngineTrue /\ \A id \in Ids : SessionTrue(id)
TruthInv == FreshInv /\ (Calm => MapsTrue)

-----------------------------------------------------------------------------
\* The last request that touches a session, when requests are added or executed.
LEMMA TouchedBoth ==
  ASSUME NEW q \in Seq(Request), NEW t \in Seq(Request), NEW x
  PROVE  /\ Untouched(t, x) =>
              /\ Untouched(q \o t, x) => Untouched(q, x)
              /\ \A i \in DOMAIN (q \o t) : LastTouch(q \o t, x, i) =>
                   i \in DOMAIN q /\ LastTouch(q, x, i) /\ (q \o t)[i] = q[i]
         /\ ~Untouched(t, x) =>
              /\ ~Untouched(q \o t, x)
              /\ \A i \in DOMAIN (q \o t) : LastTouch(q \o t, x, i) =>
                   \E k \in DOMAIN t : Touches(t[k], x) /\ (q \o t)[i] = t[k]
  <1> DEFINE b == q \o t
             n == Len(q)
  <1>1. /\ n \in Nat
        /\ \A i \in DOMAIN q : i \in DOMAIN b /\ b[i] = q[i] /\ i \in Nat /\ i <= n
        /\ \A k \in DOMAIN t : n + k \in DOMAIN b /\ k \in Nat /\ 1 <= k /\ b[n + k] = t[k]
        /\ \A i \in DOMAIN b : \/ i \in DOMAIN q /\ b[i] = q[i]
                               \/ \E k \in DOMAIN t : i = n + k /\ b[i] = t[k]
    BY ConcatPlaces
  <1> HIDE DEF b, n
  <1>2. ASSUME Untouched(t, x)
        PROVE  /\ Untouched(b, x) => Untouched(q, x)
               /\ \A i \in DOMAIN b : LastTouch(b, x, i) =>
                    i \in DOMAIN q /\ LastTouch(q, x, i) /\ b[i] = q[i]
    <2>1. Untouched(b, x) => Untouched(q, x)
      BY <1>1 DEF Untouched
    <2>2. ASSUME NEW i \in DOMAIN b, LastTouch(b, x, i)
          PROVE  i \in DOMAIN q /\ LastTouch(q, x, i) /\ b[i] = q[i]
      <3>1. i \in DOMAIN q /\ b[i] = q[i]
        BY <1>1, <1>2, <2>2 DEF LastTouch, Untouched
      <3>2. \A j \in DOMAIN q : Touches(q[j], x) => j <= i
        BY <1>1, <2>2 DEF LastTouch
      <3> QED
        BY <2>2, <3>1, <3>2 DEF LastTouch
    <2> QED
      BY <2>1, <2>2
  <1>3. ASSUME ~Untouched(t, x)
        PROVE  /\ ~Untouched(b, x)
               /\ \A i \in DOMAIN b : LastTouch(b, x, i) =>
                    \E k \in DOMAIN t : Touches(t[k], x) /\ b[i] = t[k]
    <2>1. PICK k \in DOMAIN t : Touches(t[k], x)
      BY <1>3 DEF Untouched
    <2>2. n + k \in DOMAIN b /\ Touches(b[n + k], x) /\ k \in Nat /\ 1 <= k
      BY <1>1, <2>1
    <2>3. ASSUME NEW i \in DOMAIN b, LastTouch(b, x, i)
          PROVE  \E l \in DOMAIN t : Touches(t[l], x) /\ b[i] = t[l]
      <3>1. n + k <= i /\ Touches(b[i], x)
        BY <2>2, <2>3 DEF LastTouch
      <3>2. i \notin DOMAIN q
        BY <1>1, <2>2, <3>1
      <3> QED
        BY <1>1, <3>1, <3>2
    <2>4. ~Untouched(b, x)
      BY <2>2 DEF Untouched
    <2> QED
      BY <2>3, <2>4
  <1> QED
    BY <1>2, <1>3 DEF b

LEMMA TouchedTail ==
  ASSUME NEW q \in Seq(Request), q # << >>, NEW x
  PROVE  /\ 1 \in DOMAIN q /\ Head(q) = q[1]
         /\ Untouched(Tail(q), x) => IF Touches(Head(q), x) THEN LastTouch(q, x, 1)
                                                            ELSE Untouched(q, x)
         /\ \A i \in DOMAIN Tail(q) : LastTouch(Tail(q), x, i) =>
              i + 1 \in DOMAIN q /\ LastTouch(q, x, i + 1) /\ Tail(q)[i] = q[i + 1]
  <1>1. /\ 1 \in DOMAIN q /\ Head(q) = q[1]
        /\ \A i \in DOMAIN Tail(q) : /\ i \in Nat /\ 1 <= i /\ i + 1 \in DOMAIN q
                                     /\ Tail(q)[i] = q[i + 1]
        /\ \A i \in DOMAIN q : i # 1 => /\ i \in Nat /\ i - 1 \in DOMAIN Tail(q)
                                        /\ Tail(q)[i - 1] = q[i]
    BY TailPlaces
  <1>2. PICK t : t = Tail(q)
    OBVIOUS
  <1>3. ASSUME Untouched(t, x)
        PROVE  IF Touches(Head(q), x) THEN LastTouch(q, x, 1) ELSE Untouched(q, x)
    <2>1. \A i \in DOMAIN q : i # 1 => ~Touches(q[i], x)
      BY <1>1, <1>2, <1>3 DEF Untouched
    <2> QED
      BY <1>1, <2>1 DEF LastTouch, Untouched
  <1>4. ASSUME NEW i \in DOMAIN t, LastTouch(t, x, i)
        PROVE  i + 1 \in DOMAIN q /\ LastTouch(q, x, i + 1) /\ t[i] = q[i + 1]
    <2>1. i \in Nat /\ 1 <= i /\ i + 1 \in DOMAIN q /\ t[i] = q[i + 1]
      BY <1>1, <1>2
    <2>2. ASSUME NEW j \in DOMAIN q, Touches(q[j], x)
          PROVE  j <= i + 1
      <3>1. CASE j = 1
        BY <2>1, <3>1
      <3>2. CASE j # 1
        <4>1. j \in Nat /\ j - 1 \in DOMAIN t /\ Touches(t[j - 1], x)
          BY <1>1, <1>2, <2>2, <3>2
        <4>2. j - 1 <= i
          BY <1>4, <4>1 DEF LastTouch
        <4> QED
          BY <2>1, <4>1, <4>2
      <3> QED
        BY <3>1, <3>2
    <2> QED
      BY <1>4, <2>1, <2>2 DEF LastTouch
  <1> QED
    BY <1>1, <1>2, <1>3, <1>4

-----------------------------------------------------------------------------
\* What the requests of a handler have to say of the engine's session and of the
\* session it is about.
EngineAsked(reqs) ==
  /\ \A k \in DOMAIN reqs : Touches(reqs[k], Engine) => (Starts(reqs[k]) <=> TimeIds' # {})
  /\ Untouched(reqs, Engine) => (TimeIds' = {} <=> TimeIds = {})
Carries(reqs, kinds, id) == \E r \in Elements(reqs) : ReqIs(r, kinds, id)
SessionAsked(reqs, key) ==
  /\ \A k \in DOMAIN reqs : Touches(reqs[k], key) =>
       (Starts(reqs[k]) <=> dist'[key] # None /\ ~Carries(reqs, StopKinds, key))
  /\ Untouched(reqs, key) =>
       /\ ~Carries(reqs, StopKinds, key)
       /\ dist'[key] # None <=> dist[key] # None /\ ~Flying(StopKinds, key)
  /\ time'[key] = None \/ dist'[key] = None
  /\ Carries(reqs, Distances, key) => dist'[key] # None
  /\ Carries(reqs, {"switched"}, key) => time'[key] = None /\ dist'[key] = None

LEMMA EngineKept ==
  ASSUME TypeOK, EngineTrue, UNCHANGED engine, NEW reqs \in Seq(Request), api' = api \o reqs,
         EngineAsked(reqs)
  PROVE  EngineTrue'
  <1> DEFINE b == api \o reqs
  <1>1. /\ Untouched(reqs, Engine) =>
             /\ Untouched(b, Engine) => Untouched(api, Engine)
             /\ \A i \in DOMAIN b : LastTouch(b, Engine, i) =>
                  i \in DOMAIN api /\ LastTouch(api, Engine, i) /\ b[i] = api[i]
        /\ ~Untouched(reqs, Engine) =>
             /\ ~Untouched(b, Engine)
             /\ \A i \in DOMAIN b : LastTouch(b, Engine, i) =>
                  \E k \in DOMAIN reqs : Touches(reqs[k], Engine) /\ b[i] = reqs[k]
    BY TouchedBoth DEF TypeOK
  <1>2. api' = b
    OBVIOUS
  <1> HIDE DEF b
  <1>3. EndsOn(b, Engine, engine.tb # None, TimeIds' # {})
    BY <1>1 DEF EngineTrue, EndsOn, EngineAsked
  <1>4. EngineTrue' <=> EndsOn(b, Engine, engine.tb # None, TimeIds' # {})
    BY <1>2 DEF EngineTrue, EndsOn
  <1> QED
    BY <1>3, <1>4

\* A session that no new request is about.
LEMMA SessionKept ==
  ASSUME TypeOK, NEW id \in Ids, SessionTrue(id), UNCHANGED engine,
         NEW reqs \in Seq(Request), api' = api \o reqs, Untouched(reqs, id),
         time'[id] = time[id] \/ time'[id] = None, dist'[id] = dist[id],
         Flying(StopKinds, id)' <=> Flying(StopKinds, id),
         Flying(Distances, id)' <=> Flying(Distances, id),
         Flying({"switched"}, id)' <=> Flying({"switched"}, id),
         StartWaits(id)' => StartWaits(id)
  PROVE  SessionTrue(id)'
  <1> DEFINE b == api \o reqs
  <1>1. /\ Untouched(b, id) => Untouched(api, id)
        /\ \A i \in DOMAIN b : LastTouch(b, id, i) =>
             i \in DOMAIN api /\ LastTouch(api, id, i) /\ b[i] = api[i]
    BY TouchedBoth DEF TypeOK
  <1>2. api' = b
    OBVIOUS
  <1> HIDE DEF b
  <1>3. EndsOn(api, id, id \in engine.db, dist[id] # None /\ ~Flying(StopKinds, id))'
    BY <1>1, <1>2 DEF SessionTrue, EndsOn
  <1> QED
    BY <1>3 DEF SessionTrue, Nowhere

\* The session a handler is about, which nothing else is about.
LEMMA SessionSet ==
  ASSUME TypeOK, NEW key \in Ids, SessionTrue(key), UNCHANGED engine,
         NEW reqs \in Seq(Request), api' = api \o reqs, SessionAsked(reqs, key),
         Flying(StopKinds, key)' <=> Carries(reqs, StopKinds, key),
         Flying(Distances, key)' <=> Carries(reqs, Distances, key),
         Flying({"switched"}, key)' <=> Carries(reqs, {"switched"}, key),
         ~StartWaits(key)'
  PROVE  SessionTrue(key)'
  <1> DEFINE b == api \o reqs
  <1>1. /\ Untouched(reqs, key) =>
             /\ Untouched(b, key) => Untouched(api, key)
             /\ \A i \in DOMAIN b : LastTouch(b, key, i) =>
                  i \in DOMAIN api /\ LastTouch(api, key, i) /\ b[i] = api[i]
        /\ ~Untouched(reqs, key) =>
             /\ ~Untouched(b, key)
             /\ \A i \in DOMAIN b : LastTouch(b, key, i) =>
                  \E k \in DOMAIN reqs : Touches(reqs[k], key) /\ b[i] = reqs[k]
    BY TouchedBoth DEF TypeOK
  <1>2. api' = b
    OBVIOUS
  <1> HIDE DEF b
  <1>3. EndsOn(api, key, key \in engine.db, dist[key] # None /\ ~Flying(StopKinds, key))'
    BY <1>1, <1>2 DEF SessionTrue, EndsOn, SessionAsked
  <1> QED
    BY <1>3 DEF SessionTrue, SessionAsked, Nowhere

\* Requests and messages that come and go, with no engine coming up.
LEMMA FirstUpKept ==
  ASSUME TypeOK, FirstUpInv, UNCHANGED capsKnown,
         UNCHANGED msgs \/ (msgs # << >> /\ msgs' = Tail(msgs)),
         NEW reqs \in Seq(Request), api' = api \o reqs,
         \A i \in DOMAIN reqs : reqs[i].op # "open",
         ~capsKnown => \A id \in Ids : dist'[id] = None
  PROVE  FirstUpInv'
  <1>1. PICK d \in {0, 1} : \A i \in DOMAIN msgs' : /\ i \in Nat /\ i + d \in DOMAIN msgs
                                                    /\ msgs'[i] = msgs[i + d]
    <2>1. CASE UNCHANGED msgs
      <3>1. \A i \in DOMAIN msgs' : i \in Nat /\ i + 0 \in DOMAIN msgs /\ msgs'[i] = msgs[i + 0]
        BY <2>1 DEF TypeOK
      <3> QED
        BY <3>1
    <2>2. CASE msgs # << >> /\ msgs' = Tail(msgs)
      BY <2>2, TailPlaces DEF TypeOK
    <2> QED
      BY <2>1, <2>2
  <1>2. \A i \in DOMAIN api' : api'[i].op = "open" => i \in DOMAIN api /\ api[i].op = "open"
    <2>1. \A i \in DOMAIN api' : \/ i \in DOMAIN api /\ api'[i] = api[i]
                                 \/ \E k \in DOMAIN reqs : api'[i] = reqs[k]
      BY ReqMembers DEF TypeOK
    <2> QED
      BY <2>1
  <1>3. HasUp(msgs)' => HasUp(msgs)
    BY <1>1 DEF HasUp
  <1>4. HasOpen(api)' => HasOpen(api)
    BY <1>2 DEF HasOpen
  <1>5. ASSUME NEW i \in DOMAIN msgs', NEW j \in DOMAIN msgs',
               msgs'[i].t = "engineUp", msgs'[j].t = "engineUp"
        PROVE  i = j
    <2>1. i + d = j + d /\ i \in Nat /\ j \in Nat
      BY <1>1, <1>5 DEF FirstUpInv
    <2> QED
      BY <2>1
  <1>6. Elements(msgs)' \subseteq Elements(msgs)
    BY <1>1 DEF Elements
  <1> QED
    BY <1>2, <1>3, <1>4, <1>5, <1>6 DEF FirstUpInv

\* A handler whose message is the one about the session, and sends requests for
\* it and for the engine only.
LEMMA HandledTrue ==
  ASSUME TypeOK, AnswerInv, ForgetInv, PatientInv, OwnInv, MapsTrue, msgs # << >>,
         msgs' = Tail(msgs), UNCHANGED <<engine, pending, capsKnown>>,
         NEW key \in Ids, HeadFor(key), NEW reqs, Sent(reqs, key), api' = api \o reqs, Alters(key),
         EngineAsked(reqs), SessionAsked(reqs, key), capsKnown \/ dist'[key] = None
  PROVE  MapsTrue'
  <1> DEFINE h == Head(msgs)
  <1>0. Elements(msgs) = {h} \cup Elements(msgs')
    BY ElementsTail DEF TypeOK
  <1>1. /\ Elements(msgs) = {h} \cup Elements(msgs') /\ Elements(msgs)' = Elements(msgs')
        /\ Elements(api') = Elements(api) \cup Elements(reqs) /\ Elements(api)' = Elements(api')
        /\ reqs \in Seq(Request) /\ \A r \in Elements(reqs) : SentFor(r, key)
    <2>1. reqs \in Seq(Request) /\ \A r \in Elements(reqs) : SentFor(r, key)
      BY DEF Sent, Elements
    <2>2. Elements(api') = Elements(api) \cup Elements(reqs)
      BY <2>1, ElementsConcat DEF TypeOK
    <2> QED
      BY <1>0, <2>1, <2>2
  <1>2. /\ \A m \in Elements(msgs') \cup Elements(pending) :
             ~Commands(m, key) /\ ~MsgIs(m, Changing, key)
        /\ \A r \in Elements(api) : ~ReqIs(r, Changing, key)
    BY HeadAlone DEF HeadFor, OwnInv
  <1>3. FirstUpInv'
    <2>1. ~capsKnown => \A id \in Ids : dist'[id] = None
      BY DEF MapsTrue, FirstUpInv, Alters
    <2>2. \A i \in DOMAIN reqs : reqs[i].op # "open"
      BY DEF Sent, SentFor
    <2> QED
      BY <1>1, <2>1, <2>2, FirstUpKept DEF MapsTrue
  <1>4. EngineTrue'
    BY <1>1, EngineKept DEF MapsTrue
  <1> HIDE DEF h
  <1>5. \A kinds \in {StopKinds, Distances, {"switched"}} : kinds \subseteq Changing
    BY DEF StopKinds, Distances, Changing
  <1>6. \A kinds \in {StopKinds, Distances, {"switched"}} : \A id :
          /\ \A m : MsgIs(m, kinds, id) => MsgIs(m, Changing, id)
          /\ \A r : ReqIs(r, kinds, id) => ReqIs(r, Changing, id)
    BY <1>5 DEF MsgIs, ReqIs
  <1>7. SessionTrue(key)'
    <2>1. \A kinds \in {StopKinds, Distances, {"switched"}} :
            Flying(kinds, key)' <=> Carries(reqs, kinds, key)
      BY <1>1, <1>2, <1>6 DEF Flying, Carries
    <2>2. ~StartWaits(key)'
      BY <1>1, <1>2 DEF StartWaits, Commands
    <2> QED
      BY <1>1, <2>1, <2>2, SessionSet DEF MapsTrue
  <1>8. ASSUME NEW id \in Ids, id # key
        PROVE  SessionTrue(id)'
    <2>1. Untouched(reqs, id) /\ ~Carries(reqs, Changing, id)
      BY <1>1, <1>8 DEF Untouched, Carries, SentFor, Elements
    <2>2. \A kinds : ~MsgIs(h, kinds, id)
      BY <1>8 DEF HeadFor, Commands, MsgIs, h
    <2>3. ASSUME NEW kinds \in {StopKinds, Distances, {"switched"}}
          PROVE  Flying(kinds, id)' <=> Flying(kinds, id)
      <3>1. \A r \in Elements(reqs) : ~ReqIs(r, kinds, id)
        BY <1>6, <2>1 DEF Carries
      <3> QED
        BY <1>1, <2>2, <3>1 DEF Flying
    <2>4. StartWaits(id)' => StartWaits(id)
      BY <1>1 DEF StartWaits
    <2>5. time'[id] = time[id] /\ dist'[id] = dist[id]
      BY <1>8 DEF Alters
    <2> QED
      BY <1>1, <2>1, <2>3, <2>4, <2>5, SessionKept DEF MapsTrue
  <1> QED
    BY <1>3, <1>4, <1>7, <1>8 DEF MapsTrue

-----------------------------------------------------------------------------
\* Before a handler runs, the message at the front is all there is about its
\* session that changes it.
LEMMA HeadFlies ==
  ASSUME TypeOK, AnswerInv, ForgetInv, PatientInv, OwnInv, msgs # << >>,
         NEW key \in Ids, HeadFor(key), NEW kinds, kinds \subseteq Changing
  PROVE  Flying(kinds, key) <=> MsgIs(Head(msgs), kinds, key)
  <1>1. Elements(msgs) = {Head(msgs)} \cup Elements(Tail(msgs))
    BY ElementsTail DEF TypeOK
  <1>2. /\ \A m \in Elements(Tail(msgs)) : ~MsgIs(m, Changing, key)
        /\ \A r \in Elements(api) : ~ReqIs(r, Changing, key)
    BY HeadAlone DEF HeadFor, OwnInv
  <1>3. /\ \A m : MsgIs(m, kinds, key) => MsgIs(m, Changing, key)
        /\ \A r : ReqIs(r, kinds, key) => ReqIs(r, Changing, key)
    BY DEF MsgIs, ReqIs
  <1> QED
    BY <1>1, <1>2, <1>3 DEF Flying

LEMMA SaveSets ==
  ASSUME TypeOK, NEW id \in Ids, NEW opt \in OptionType, saveTrackingSession(id, opt)
  PROVE  IF IsDistance(opt)
           THEN dist'[id] # None /\ time' = time /\ TimeIds' = TimeIds
           ELSE time'[id] # None /\ dist' = dist /\ TimeIds' = TimeIds \cup {id}
  <1>1. opt # None
    BY ConstantsOK
  <1>2. CASE IsDistance(opt)
    <2>1. dist' = [dist EXCEPT ![id] = opt] /\ time' = time
      BY <1>2 DEF saveTrackingSession
    <2> QED
      BY <1>1, <1>2, <2>1 DEF TypeOK, TimeIds
  <1>3. CASE ~IsDistance(opt)
    <2>1. time' = [time EXCEPT ![id] = opt] /\ dist' = dist
      BY <1>3 DEF saveTrackingSession
    <2>2. \A j \in Ids : time'[j] = IF j = id THEN opt ELSE time[j]
      BY <2>1 DEF TypeOK
    <2> QED
      BY <1>1, <1>3, <2>1, <2>2 DEF TimeIds
  <1> QED
    BY <1>2, <1>3

LEMMA EraseSets ==
  ASSUME TypeOK, NEW id \in Ids, eraseTrackingSession(id)
  PROVE  IF time[id] # None
           THEN time'[id] = None /\ dist' = dist /\ TimeIds' = TimeIds \ {id}
           ELSE dist'[id] = None /\ time' = time /\ TimeIds' = TimeIds
  <1>1. CASE time[id] # None
    <2>1. time' = [time EXCEPT ![id] = None] /\ dist' = dist
      BY <1>1 DEF eraseTrackingSession
    <2>2. \A j \in Ids : time'[j] = IF j = id THEN None ELSE time[j]
      BY <2>1 DEF TypeOK
    <2> QED
      BY <1>1, <2>1, <2>2 DEF TimeIds
  <1>2. CASE time[id] = None
    <2>1. dist' = [dist EXCEPT ![id] = None] /\ time' = time
      BY <1>2 DEF eraseTrackingSession
    <2> QED
      BY <1>2, <2>1 DEF TypeOK, TimeIds
  <1> QED
    BY <1>1, <1>2

\* What the multiplexers send is all a handler has to say of the engine's session
\* and says nothing of the session's own.
LEMMA MultiplexAsks ==
  ASSUME NEW reqs \in Seq(Request), NEW on \in BOOLEAN, AtMost(reqs, on), NEW key \in Ids,
         TimeIds' # {} <=> on, reqs = << >> => (TimeIds' = {} <=> TimeIds = {})
  PROVE  /\ EngineAsked(reqs)
         /\ Untouched(reqs, key) /\ \A kinds \in SUBSET Changing : ~Carries(reqs, kinds, key)
  <1>1. \A i \in DOMAIN reqs : ForEngine(reqs[i], on)
    BY DEF AtMost
  <1>2. \A i \in DOMAIN reqs : /\ Touches(reqs[i], Engine) /\ (Starts(reqs[i]) <=> on)
                               /\ ~Touches(reqs[i], key) /\ ~ReqIs(reqs[i], Changing, key)
    BY <1>1, EngineOnly
  <1>3. Untouched(reqs, Engine) => reqs = << >>
    <2>1. reqs # << >> => 1 \in DOMAIN reqs
      BY TailPlaces
    <2> QED
      BY <1>2, <2>1 DEF Untouched
  <1>4. EngineAsked(reqs)
    BY <1>2, <1>3 DEF EngineAsked
  <1>5. Untouched(reqs, key)
    BY <1>2 DEF Untouched
  <1>6. \A kinds \in SUBSET Changing : ~Carries(reqs, kinds, key)
    BY <1>2 DEF Carries, Elements, ReqIs
  <1> QED
    BY <1>4, <1>5, <1>6

\* One request about the session itself.
LEMMA DistanceAsks ==
  ASSUME NEW r \in Request, NEW key \in Ids, r.op \in {"startDB", "stopDB"}, r.id = key,
         TimeIds' = {} <=> TimeIds = {}
  PROVE  /\ EngineAsked(<<r>>)
         /\ ~Untouched(<<r>>, key)
         /\ \A k \in DOMAIN <<r>> : Touches(<<r>>[k], key) /\ (Starts(<<r>>[k]) <=> r.op = "startDB")
         /\ \A kinds : Carries(<<r>>, kinds, key) <=> ReqIs(r, kinds, key)
  <1>1. key # Engine
    BY ConstantsOK DEF Engine
  <1>2. DOMAIN <<r>> = {1} /\ <<r>>[1] = r
    OBVIOUS
  <1>3. ~Touches(r, Engine) /\ Touches(r, key) /\ (Starts(r) <=> r.op = "startDB")
    BY <1>1 DEF Touches, SetsRun, Starts
  <1>4. Elements(<<r>>) = {r}
    BY <1>2 DEF Elements
  <1> QED
    BY <1>2, <1>3, <1>4 DEF EngineAsked, Untouched, Carries

\* Kinds of continuations the sessions depend on.
LEMMA KindsChange ==
  /\ StopKinds \subseteq Changing /\ Distances \subseteq Changing /\ {"switched"} \subseteq Changing
  /\ StopKinds = {"distStopped", "clientDistStopped", "distRestart"}
  /\ Distances = {"distStopped", "distRestart", "distRestarted"}
  BY DEF StopKinds, Distances, Changing

\* Messages that change nothing when they are handled, or wait.
LEMMA PassedTrue ==
  ASSUME TypeOK, MapsTrue, msgs # << >>, msgs' = Tail(msgs),
         UNCHANGED <<api, time, dist, engine, capsKnown>>,
         Elements(pending)' \subseteq Elements(pending) \cup {Head(msgs)},
         \A id \in Ids : ~MsgIs(Head(msgs), Changing, id)
  PROVE  MapsTrue'
  <1> DEFINE none == << >>
  <1>1. none \in Seq(Request) /\ api' = api \o none /\ \A i \in DOMAIN none : FALSE
    BY DEF TypeOK
  <1> HIDE DEF none
  <1>2. FirstUpInv'
    BY <1>1, FirstUpKept DEF MapsTrue, FirstUpInv
  <1>3. EngineTrue'
    <2>1. EngineAsked(none)
      BY <1>1 DEF EngineAsked, TimeIds
    <2> QED
      BY <1>1, <2>1, EngineKept DEF MapsTrue
  <1>4. Elements(msgs) = {Head(msgs)} \cup Elements(msgs') /\ Elements(msgs)' = Elements(msgs')
    BY ElementsTail DEF TypeOK
  <1>5. ASSUME NEW id \in Ids
        PROVE  SessionTrue(id)'
    <2>1. Untouched(none, id)
      BY <1>1 DEF Untouched
    <2>2. ASSUME NEW kinds \in SUBSET Changing
          PROVE  Flying(kinds, id)' <=> Flying(kinds, id)
      <3>1. ~MsgIs(Head(msgs), kinds, id)
        BY DEF MsgIs
      <3> QED
        BY <1>4, <3>1 DEF Flying
    <2>3. StartWaits(id)' => StartWaits(id)
      BY <1>4 DEF StartWaits
    <2> QED
      BY <1>1, <2>1, <2>2, <2>3, KindsChange, SessionKept DEF MapsTrue
  <1> QED
    BY <1>2, <1>3, <1>5 DEF MapsTrue

LEMMA QuietTrue ==
  ASSUME TypeOK, MapsTrue, msgs # << >>, msgs' = Tail(msgs),
         UNCHANGED <<api, time, dist, engine, pending, capsKnown>>,
         \A id \in Ids : ~MsgIs(Head(msgs), Changing, id)
  PROVE  MapsTrue'
  <1>1. Elements(pending)' \subseteq Elements(pending) \cup {Head(msgs)}
    OBVIOUS
  <1> QED
    BY <1>1, PassedTrue

LEMMA OneMore ==
  ASSUME TypeOK, NEW r \in Request, api' = Append(api, r)
  PROVE  api' = api \o <<r>>
  BY DEF TypeOK

-----------------------------------------------------------------------------
\* The commands of a session.
LEMMA CommandFacts ==
  ASSUME TypeOK, AnswerInv, ForgetInv, PatientInv, OwnInv, MapsTrue,
         NEW t \in {"start", "update", "stop"}, Handle(t), NEW m, m = Head(msgs)
  PROVE  /\ m.t = t /\ msgs # << >> /\ m.id \in Ids /\ m.cmd \in Cmds /\ m.cmd # NoCmd
         /\ HeadFor(m.id) /\ (t # "stop" => m.opt \in OptionType)
         /\ SessionTrue(m.id) /\ ~Flying(StopKinds, m.id)
         /\ t = "start" => Nowhere(m.id)
         /\ time[m.id] = None \/ dist[m.id] = None
         /\ capsKnown \/ dist[m.id] = None
         /\ \A id \in Ids : ~MsgIs(m, Changing, id)
  <1>1. /\ m.t = t /\ msgs # << >> /\ m.id \in Ids /\ m.cmd \in Cmds /\ m.cmd # NoCmd
        /\ HeadFor(m.id) /\ (t # "stop" => m.opt \in OptionType)
    BY CommandHead DEF Handle
  <1>2. SessionTrue(m.id) /\ (capsKnown \/ dist[m.id] = None)
    BY <1>1 DEF MapsTrue, FirstUpInv
  <1>3. \A kinds, id : ~MsgIs(m, kinds, id)
    BY <1>1 DEF MsgIs
  <1>4. ~Flying(StopKinds, m.id)
    BY <1>1, <1>3, HeadFlies, KindsChange
  <1>5. t = "start" => Nowhere(m.id)
    <2>1. Head(msgs) \in Elements(msgs)
      BY <1>1, ElementsOf DEF TypeOK
    <2> QED
      BY <1>1, <1>2, <2>1 DEF StartWaits, SessionTrue
  <1> QED
    BY <1>1, <1>2, <1>3, <1>4, <1>5 DEF SessionTrue

LEMMA StartTrue ==
  ASSUME TypeOK, AnswerInv, ForgetInv, PatientInv, OwnInv, MapsTrue,
         ProcStartRejected \/ ProcStartDistance \/ ProcStartTime
  PROVE  MapsTrue'
  <1> DEFINE m == Head(msgs)
  <1>1. /\ m.t = "start" /\ msgs # << >> /\ m.id \in Ids /\ m.cmd \in Cmds /\ m.cmd # NoCmd
        /\ HeadFor(m.id) /\ m.opt \in OptionType
        /\ ~Flying(StopKinds, m.id) /\ Nowhere(m.id)
        /\ \A id \in Ids : ~MsgIs(m, Changing, id)
    BY CommandFacts DEF ProcStartRejected, ProcStartDistance, ProcStartTime
  <1>2. msgs' = Tail(msgs) /\ UNCHANGED <<engine, pending, capsKnown>>
    BY DEF ProcStartRejected, ProcStartDistance, ProcStartTime, adapterVars, modemVars
  <1>3. CASE ProcStartRejected
    BY <1>1, <1>2, <1>3, QuietTrue DEF ProcStartRejected, adapterVars
  <1>4. CASE ProcStartDistance
    <2> DEFINE opt == ClampInterval(m.opt)
               r == [op |-> "startDB", id |-> m.id, cont |-> Started(m.id, m.cmd)]
               reqs == <<r>>
    <2>1. /\ r \in Request /\ r.op = "startDB" /\ r.id = m.id
          /\ r.cont.id = m.id /\ r.cont.k = "started"
      BY <1>1 DEF Request, Started, Cont
    <2>2. /\ api' = Append(api, r) /\ saveTrackingSession(m.id, opt)
          /\ ~MustWait(m) /\ IsDistance(m.opt)
      BY <1>4 DEF ProcStartDistance
    <2>3. opt \in OptionType /\ IsDistance(opt) /\ capsKnown
      BY <1>1, <2>2, ClampType DEF IsDistance, ClampInterval, MustWait, OptionType
    <2> HIDE DEF r, m, opt
    <2>4. dist'[m.id] # None /\ time' = time /\ TimeIds' = TimeIds /\ Alters(m.id)
      BY <1>1, <2>2, <2>3, SaveSets, SavesAlters
    <2>5. Sent(reqs, m.id) /\ api' = api \o reqs
      <3>1. ReqChanges(r)
        BY <2>1 DEF ReqChanges, ContChanges, Changing, Distances
      <3>2. api' = api \o reqs
        BY <2>1, <2>2, OneMore
      <3> QED
        BY <1>1, <2>1, <3>1, <3>2, SentDistance
    <2>6. /\ EngineAsked(reqs) /\ ~Untouched(reqs, m.id)
          /\ \A k \in DOMAIN reqs : Starts(reqs[k])
          /\ \A kinds : Carries(reqs, kinds, m.id) <=> ReqIs(r, kinds, m.id)
      BY <1>1, <2>1, <2>4, DistanceAsks
    <2>7. ~Carries(reqs, StopKinds, m.id) /\ ~Carries(reqs, {"switched"}, m.id)
      BY <2>1, <2>6, KindsChange DEF ReqIs
    <2>8. SessionAsked(reqs, m.id)
      BY <1>1, <2>4, <2>6, <2>7 DEF SessionAsked, Nowhere
    <2> HIDE DEF reqs
    <2> QED
      BY <1>1, <1>2, <2>3, <2>4, <2>5, <2>6, <2>8, HandledTrue
  <1>5. CASE ProcStartTime
    <2> DEFINE opt == TbmFallback(ClampInterval(m.opt))
               reqs == startTimeBasedTrackingMultiplex(m.id, opt, m.cmd)
    <2>1. /\ api' = api \o reqs /\ saveTrackingSession(m.id, opt) /\ ~IsDistance(m.opt)
      BY <1>5 DEF ProcStartTime, SendOrReport
    <2>2. opt \in OptionType /\ ~IsDistance(opt)
      BY <1>1, <2>1, ClampType, FallbackType
         DEF IsDistance, TbmFallback, ClampInterval, OptionType
    <2> HIDE DEF opt, m
    <2>3. /\ time'[m.id] # None /\ dist' = dist /\ TimeIds' = TimeIds \cup {m.id}
          /\ Alters(m.id)
      BY <1>1, <2>1, <2>2, SaveSets, SavesAlters
    <2>4. AtMost(reqs, TRUE) /\ (TimeIds = {} => reqs # << >>) /\ reqs \in Seq(Request)
      BY <1>1, <2>2, MultiplexShape, StartMultiplexType
    <2> HIDE DEF reqs
    <2>5. Sent(reqs, m.id)
      BY <2>4, SentEngine
    <2>6. /\ EngineAsked(reqs) /\ Untouched(reqs, m.id)
          /\ \A kinds \in SUBSET Changing : ~Carries(reqs, kinds, m.id)
      BY <1>1, <2>3, <2>4, MultiplexAsks
    <2>7. SessionAsked(reqs, m.id)
      BY <1>1, <2>3, <2>6, KindsChange DEF SessionAsked, Nowhere, Untouched
    <2> QED
      BY <1>1, <1>2, <2>1, <2>3, <2>5, <2>6, <2>7, HandledTrue DEF Nowhere
  <1> QED
    BY <1>3, <1>4, <1>5

LEMMA StopTrue ==
  ASSUME TypeOK, AnswerInv, ForgetInv, PatientInv, OwnInv, MapsTrue,
         ProcStopTime \/ ProcStopDistance \/ ProcStopUnknown
  PROVE  MapsTrue'
  <1> DEFINE m == Head(msgs)
  <1>1. /\ m.t = "stop" /\ msgs # << >> /\ m.id \in Ids /\ m.cmd \in Cmds /\ m.cmd # NoCmd
        /\ HeadFor(m.id) /\ ~Flying(StopKinds, m.id)
        /\ time[m.id] = None \/ dist[m.id] = None
        /\ capsKnown \/ dist[m.id] = None
        /\ \A id \in Ids : ~MsgIs(m, Changing, id)
    BY CommandFacts DEF ProcStopTime, ProcStopDistance, ProcStopUnknown
  <1>2. msgs' = Tail(msgs) /\ UNCHANGED <<engine, pending, capsKnown>>
    BY DEF ProcStopTime, ProcStopDistance, ProcStopUnknown, adapterVars, modemVars
  <1>3. CASE ProcStopUnknown
    BY <1>1, <1>2, <1>3, QuietTrue DEF ProcStopUnknown, adapterVars
  <1>4. CASE ProcStopDistance
    <2> DEFINE c == [k |-> "distStopped", id |-> m.id, cmd |-> m.cmd]
               r == [op |-> "stopDB", id |-> m.id, cont |-> c]
               reqs == <<r>>
    <2>1. /\ r \in Request /\ r.op = "stopDB" /\ r.id = m.id /\ r.cont = c
          /\ c.id = m.id /\ c.k = "distStopped" /\ c.cmd = m.cmd
      BY <1>1 DEF Request, Cont
    <2>2. api' = Append(api, r) /\ UNCHANGED <<time, dist>> /\ m.id \in DistIds
      BY <1>4 DEF ProcStopDistance, adapterVars
    <2>3. Alters(m.id) /\ TimeIds' = TimeIds /\ dist[m.id] # None
      BY <2>2 DEF Alters, TimeIds, DistIds
    <2> HIDE DEF r, c, m
    <2>4. Sent(reqs, m.id) /\ api' = api \o reqs
      <3>1. ReqChanges(r)
        BY <1>1, <2>1 DEF ReqChanges, ContChanges
      <3>2. api' = api \o reqs
        BY <2>1, <2>2, OneMore
      <3> QED
        BY <1>1, <2>1, <3>1, <3>2, SentDistance
    <2>5. /\ EngineAsked(reqs) /\ ~Untouched(reqs, m.id)
          /\ \A k \in DOMAIN reqs : ~Starts(reqs[k])
          /\ \A kinds : Carries(reqs, kinds, m.id) <=> ReqIs(r, kinds, m.id)
      BY <1>1, <2>1, <2>3, DistanceAsks
    <2>6. Carries(reqs, StopKinds, m.id) /\ ~Carries(reqs, {"switched"}, m.id)
      BY <2>1, <2>5, KindsChange DEF ReqIs, NoCont
    <2>7. SessionAsked(reqs, m.id)
      BY <1>1, <2>2, <2>3, <2>5, <2>6 DEF SessionAsked
    <2> HIDE DEF reqs
    <2> QED
      BY <1>1, <1>2, <2>2, <2>3, <2>4, <2>5, <2>7, HandledTrue
  <1>5. CASE ProcStopTime
    <2> DEFINE reqs == stopTimeBasedTrackingMultiplex(m.id, m.cmd)
    <2>1. /\ api' = api \o reqs /\ eraseTrackingSession(m.id) /\ m.id \in TimeIds
      BY <1>5 DEF ProcStopTime, SendOrReport
    <2> HIDE DEF m
    <2>2. /\ time'[m.id] = None /\ dist' = dist /\ TimeIds' = TimeIds \ {m.id}
          /\ Alters(m.id) /\ dist[m.id] = None
      <3>1. time[m.id] # None
        BY <2>1 DEF TimeIds
      <3> QED
        BY <1>1, <2>1, <3>1, EraseSets, SavesAlters
    <2>3. /\ AtMost(reqs, TimeIds \ {m.id} # {}) /\ (TimeIds \ {m.id} = {} => reqs # << >>)
          /\ reqs \in Seq(Request)
      BY <1>1, <2>1, SessionOptions, MultiplexShape, StopMultiplexType
    <2> HIDE DEF reqs
    <2>4. Sent(reqs, m.id)
      BY <2>3, SentEngine
    <2>5. PICK on \in BOOLEAN : on <=> TimeIds \ {m.id} # {}
      OBVIOUS
    <2>6. AtMost(reqs, on)
      BY <2>3, <2>5
    <2>7. (TimeIds' # {} <=> on) /\ (reqs = << >> => (TimeIds' = {} <=> TimeIds = {}))
      BY <2>1, <2>2, <2>3, <2>5
    <2>8. /\ EngineAsked(reqs) /\ Untouched(reqs, m.id)
          /\ \A kinds \in SUBSET Changing : ~Carries(reqs, kinds, m.id)
      BY <1>1, <2>3, <2>6, <2>7, MultiplexAsks
    <2>9. SessionAsked(reqs, m.id)
      BY <1>1, <2>2, <2>8, KindsChange DEF SessionAsked, Untouched
    <2> QED
      BY <1>1, <1>2, <2>1, <2>2, <2>4, <2>8, <2>9, HandledTrue
  <1> QED
    BY <1>3, <1>4, <1>5

LEMMA UpdateTrue ==
  ASSUME TypeOK, AnswerInv, ForgetInv, PatientInv, OwnInv, MapsTrue, DistanceSupported,
         \/ ProcUpdateRejected \/ ProcUpdateTimeToDistance
         \/ ProcUpdateDistanceToTime \/ ProcUpdateTime \/ ProcUpdateDistance
  PROVE  MapsTrue'
  <1> DEFINE m == Head(msgs)
             opt == UpdatedOptions
  <1>0. Handle("update")
    BY DEF ProcUpdateRejected, ProcUpdateTimeToDistance, ProcUpdateDistanceToTime,
           ProcUpdateTime, ProcUpdateDistance, UpdateAccepted
  <1>1. /\ m.t = "update" /\ msgs # << >> /\ m.id \in Ids /\ m.cmd \in Cmds /\ m.cmd # NoCmd
        /\ HeadFor(m.id) /\ m.opt \in OptionType /\ ~Flying(StopKinds, m.id)
        /\ time[m.id] = None \/ dist[m.id] = None
        /\ capsKnown \/ dist[m.id] = None
        /\ \A id \in Ids : ~MsgIs(m, Changing, id)
    BY <1>0, CommandFacts
  <1>2. msgs' = Tail(msgs) /\ UNCHANGED <<engine, pending, capsKnown>>
    BY DEF ProcUpdateRejected, ProcUpdateTimeToDistance, ProcUpdateDistanceToTime,
           ProcUpdateTime, ProcUpdateDistance, adapterVars, modemVars
  <1>3. opt \in OptionType /\ (IsDistance(opt) <=> m.opt.distance)
    BY <1>1, ClampType, FallbackType
       DEF UpdatedOptions, ClampInterval, TbmFallback, OptionType, IsDistance
  <1>4. CASE ProcUpdateRejected
    BY <1>1, <1>2, <1>4, QuietTrue DEF ProcUpdateRejected, adapterVars
  <1>5. CASE ProcUpdateTimeToDistance
    <2> DEFINE reqs == stopTimeBasedTrackingMultiplex(m.id, m.cmd)
               start == [op |-> "startDB", id |-> m.id, cont |-> [k |-> "ignore"]]
               both == reqs \o <<start>>
    <2>1. /\ api' = Append(api \o reqs, start) /\ m.id \in TimeIds
          /\ time' = [time EXCEPT ![m.id] = IF IsDistance(opt) THEN None ELSE opt]
          /\ dist' = [dist EXCEPT ![m.id] = IF IsDistance(opt) THEN opt ELSE @]
          /\ m.opt.distance /\ capsKnown
      BY <1>5 DEF ProcUpdateTimeToDistance, UpdateAccepted, MustWait
    <2>2. /\ start \in Request /\ start.op = "startDB" /\ start.id = m.id
          /\ start.cont.k = "ignore"
      BY <1>1 DEF Request, Cont
    <2> HIDE DEF m, start, opt
    <2>3. /\ AtMost(reqs, TimeIds \ {m.id} # {}) /\ (TimeIds \ {m.id} = {} => reqs # << >>)
          /\ reqs \in Seq(Request)
      BY <1>1, <2>1, MultiplexShape, StopMultiplexType
    <2>4. /\ Alters(m.id) /\ time'[m.id] = None /\ dist'[m.id] # None
          /\ TimeIds' = TimeIds \ {m.id}
      <3>1. IsDistance(opt) /\ opt # None
        BY <1>3, <2>1, ConstantsOK
      <3>2. time' = [time EXCEPT ![m.id] = None] /\ dist' = [dist EXCEPT ![m.id] = opt]
        BY <2>1, <3>1
      <3>3. \A j \in Ids : time'[j] = IF j = m.id THEN None ELSE time[j]
        BY <3>2 DEF TypeOK
      <3> QED
        BY <1>1, <3>1, <3>2, <3>3 DEF Alters, TypeOK, TimeIds
    <2> HIDE DEF reqs
    <2>5. Sent(reqs, m.id)
      BY <2>3, SentEngine
    <2>6. ReqChanges(start)
      BY <2>2 DEF ReqChanges, ContChanges, Changing, Distances
    <2>7. SentFor(start, m.id)
      BY <1>1, <2>2, <2>6, SentDistance
    <2>8. both = Append(reqs, start)
      BY <2>2, <2>3, AppendIsConcat
    <2>9. Sent(both, m.id)
      BY <2>2, <2>5, <2>7, <2>8, SentAppend
    <2>10. api' = api \o both
      <3>1. api \in Seq(Request)
        BY DEF TypeOK
      <3> QED
        BY <2>1, <2>2, <2>3, <3>1, AppendLast
    <2>11. \A i \in DOMAIN reqs : ForEngine(reqs[i], TimeIds \ {m.id} # {})
      BY <2>3 DEF AtMost
    <2>12. \A i \in DOMAIN both : \/ \E k \in DOMAIN reqs : both[i] = reqs[k]
                                  \/ both[i] = start
      BY <2>2, <2>3, <2>8, AppendMembers
    <2>13. \A i \in DOMAIN reqs : i \in DOMAIN both /\ both[i] = reqs[i]
      BY <2>2, <2>3, ConcatPlaces
    <2>14. \E i \in DOMAIN both : both[i] = start
      BY <2>2, <2>3, <2>8
    <2> HIDE DEF both
    <2>15. \A i \in DOMAIN reqs :
             /\ Touches(reqs[i], Engine) /\ (Starts(reqs[i]) <=> TimeIds' # {})
             /\ ~Touches(reqs[i], m.id) /\ ~ReqIs(reqs[i], Changing, m.id)
      <3>1. PICK on \in BOOLEAN : on <=> TimeIds \ {m.id} # {}
        OBVIOUS
      <3>2. \A i \in DOMAIN reqs : ForEngine(reqs[i], on)
        BY <2>11, <3>1
      <3> QED
        BY <1>1, <2>4, <3>1, <3>2, EngineOnly
    <2>16. ~Touches(start, Engine) /\ Touches(start, m.id) /\ Starts(start)
           /\ \A kinds : ~ReqIs(start, kinds, m.id)
      <3>1. m.id # Engine
        BY <1>1, ConstantsOK DEF Engine
      <3> QED
        BY <2>2, <3>1 DEF Touches, SetsRun, Starts, ReqIs
    <2>17. EngineAsked(both)
      <3>1. \A k \in DOMAIN both : Touches(both[k], Engine) => (Starts(both[k]) <=> TimeIds' # {})
        BY <2>12, <2>15, <2>16
      <3>2. Untouched(both, Engine) => reqs = << >>
        <4>1. reqs # << >> => 1 \in DOMAIN reqs
          BY <2>3, TailPlaces
        <4> QED
          BY <2>13, <2>15, <4>1 DEF Untouched
      <3>3. reqs = << >> => (TimeIds' = {} <=> TimeIds = {})
        BY <2>1, <2>3, <2>4
      <3> QED
        BY <3>1, <3>2, <3>3 DEF EngineAsked
    <2>18. \A kinds \in SUBSET Changing : ~Carries(both, kinds, m.id)
      BY <2>12, <2>15, <2>16 DEF Carries, Elements, ReqIs
    <2>19. SessionAsked(both, m.id)
      <3>1. ~Untouched(both, m.id)
        BY <2>14, <2>16 DEF Untouched
      <3>2. \A k \in DOMAIN both : Touches(both[k], m.id) => Starts(both[k])
        BY <2>12, <2>15, <2>16
      <3> QED
        BY <2>4, <2>18, <3>1, <3>2, KindsChange DEF SessionAsked
    <2> QED
      BY <1>1, <1>2, <2>1, <2>4, <2>9, <2>10, <2>17, <2>19, HandledTrue
  <1>6. CASE ProcUpdateDistanceToTime
    <2> DEFINE c == [k |-> "switched", id |-> m.id, cmd |-> m.cmd, opt |-> opt]
               r == [op |-> "stopDB", id |-> m.id, cont |-> c]
               reqs == <<r>>
    <2>1. /\ r \in Request /\ r.op = "stopDB" /\ r.id = m.id /\ r.cont = c
          /\ c.id = m.id /\ c.k = "switched" /\ c.cmd = m.cmd /\ c.opt = opt
      BY <1>1, <1>3, ContTypes DEF Request
    <2>2. /\ api' = Append(api, r) /\ eraseTrackingSession(m.id) /\ ~m.opt.distance
          /\ m.id \in DistIds
      BY <1>6 DEF ProcUpdateDistanceToTime, UpdateAccepted
    <2> HIDE DEF r, c, m
    <2>3. opt.distance = FALSE
      BY <1>1, <2>2 DEF UpdatedOptions, ClampInterval, TbmFallback, OptionType, m
    <2> HIDE DEF opt
    <2>4. /\ Alters(m.id) /\ TimeIds' = TimeIds /\ time'[m.id] = None /\ dist'[m.id] = None
      <3>1. time[m.id] = None
        BY <1>1, <2>2 DEF DistIds
      <3> QED
        BY <1>1, <2>2, <3>1, EraseSets, SavesAlters
    <2>5. Sent(reqs, m.id) /\ api' = api \o reqs
      <3>1. ReqChanges(r)
        BY <1>1, <2>1, <2>3 DEF ReqChanges, ContChanges
      <3>2. api' = api \o reqs
        BY <2>1, <2>2, OneMore
      <3> QED
        BY <1>1, <2>1, <3>1, <3>2, SentDistance
    <2>6. /\ EngineAsked(reqs) /\ ~Untouched(reqs, m.id)
          /\ \A k \in DOMAIN reqs : ~Starts(reqs[k])
          /\ \A kinds : Carries(reqs, kinds, m.id) <=> ReqIs(r, kinds, m.id)
      BY <1>1, <2>1, <2>4, DistanceAsks
    <2>7. ~Carries(reqs, StopKinds, m.id) /\ ~Carries(reqs, Distances, m.id)
      BY <2>1, <2>6, KindsChange DEF ReqIs
    <2>8. SessionAsked(reqs, m.id)
      BY <1>1, <2>4, <2>6, <2>7 DEF SessionAsked
    <2> HIDE DEF reqs
    <2> QED
      BY <1>1, <1>2, <2>4, <2>5, <2>6, <2>8, HandledTrue
  <1>7. CASE ProcUpdateTime
    <2> DEFINE reqs == updateTrackingMultiplex(m.id, opt, m.cmd)
    <2>1. /\ api' = api \o reqs /\ saveTrackingSession(m.id, opt) /\ m.id \in TimeIds
          /\ ~m.opt.distance
      BY <1>7 DEF ProcUpdateTime, SendOrReport, UpdateAccepted
    <2> HIDE DEF opt, m
    <2>2. /\ time'[m.id] # None /\ dist' = dist /\ TimeIds' = TimeIds
          /\ Alters(m.id) /\ dist[m.id] = None
      <3>1. time[m.id] # None
        BY <2>1 DEF TimeIds
      <3>2. TimeIds' = TimeIds \cup {m.id} /\ time'[m.id] # None /\ dist' = dist /\ Alters(m.id)
        BY <1>1, <1>3, <2>1, SaveSets, SavesAlters
      <3> QED
        BY <1>1, <2>1, <3>1, <3>2
    <2>3. AtMost(reqs, TRUE) /\ reqs \in Seq(Request)
      BY <1>1, <1>3, <2>1, MultiplexShape, UpdateMultiplexType
    <2> HIDE DEF reqs
    <2>4. Sent(reqs, m.id)
      BY <2>3, SentEngine
    <2>5. TimeIds' # {}
      BY <2>1, <2>2
    <2>6. /\ EngineAsked(reqs) /\ Untouched(reqs, m.id)
          /\ \A kinds \in SUBSET Changing : ~Carries(reqs, kinds, m.id)
      BY <1>1, <2>2, <2>3, <2>5, MultiplexAsks
    <2>7. SessionAsked(reqs, m.id)
      BY <1>1, <2>2, <2>6, KindsChange DEF SessionAsked, Untouched
    <2> QED
      BY <1>1, <1>2, <2>1, <2>2, <2>4, <2>6, <2>7, HandledTrue
  <1>8. CASE ProcUpdateDistance
    <2> DEFINE c == [k |-> "distRestart", id |-> m.id, cmd |-> m.cmd, opt |-> opt]
               r == [op |-> "stopDB", id |-> m.id, cont |-> c]
               reqs == <<r>>
    <2>1. /\ r \in Request /\ r.op = "stopDB" /\ r.id = m.id /\ r.cont = c
          /\ c.id = m.id /\ c.k = "distRestart" /\ c.cmd = m.cmd /\ c.opt = opt
      BY <1>1, <1>3, ContTypes DEF Request
    <2>2. /\ api' = Append(api, r) /\ UNCHANGED <<time, dist>> /\ m.opt.distance
          /\ m.id \in DistIds
      BY <1>8 DEF ProcUpdateDistance, UpdateAccepted, adapterVars
    <2>3. Alters(m.id) /\ TimeIds' = TimeIds /\ dist[m.id] # None
      BY <2>2 DEF Alters, TimeIds, DistIds
    <2> HIDE DEF r, c, m, opt
    <2>4. Sent(reqs, m.id) /\ api' = api \o reqs
      <3>1. ReqChanges(r)
        BY <1>1, <1>3, <2>1, <2>2 DEF ReqChanges, ContChanges, IsDistance
      <3>2. api' = api \o reqs
        BY <2>1, <2>2, OneMore
      <3> QED
        BY <1>1, <2>1, <3>1, <3>2, SentDistance
    <2>5. /\ EngineAsked(reqs) /\ ~Untouched(reqs, m.id)
          /\ \A k \in DOMAIN reqs : ~Starts(reqs[k])
          /\ \A kinds : Carries(reqs, kinds, m.id) <=> ReqIs(r, kinds, m.id)
      BY <1>1, <2>1, <2>3, DistanceAsks
    <2>6. Carries(reqs, StopKinds, m.id) /\ ~Carries(reqs, {"switched"}, m.id)
      BY <2>1, <2>5, KindsChange DEF ReqIs, NoCont
    <2>7. SessionAsked(reqs, m.id)
      BY <1>1, <2>2, <2>3, <2>5, <2>6 DEF SessionAsked
    <2> HIDE DEF reqs
    <2> QED
      BY <1>1, <1>2, <2>2, <2>3, <2>4, <2>5, <2>7, HandledTrue
  <1> QED
    BY <1>4, <1>5, <1>6, <1>7, <1>8

-----------------------------------------------------------------------------
\* The session of a client that is gone, which the modem has stopped.  Another
\* such stop can be under way only when the session has been stopped before.
LEMMA EndedTrue ==
  ASSUME TypeOK, AnswerInv, ForgetInv, PatientInv, OwnInv, MapsTrue, msgs # << >>,
         msgs' = Tail(msgs), UNCHANGED <<engine, pending, capsKnown, api>>,
         NEW key \in Ids, MsgIs(Head(msgs), {"clientDistStopped"}, key), eraseTrackingSession(key)
  PROVE  MapsTrue'
  <1> DEFINE none == << >>
             h == Head(msgs)
  <1>1. none \in Seq(Request) /\ api' = api \o none /\ \A i \in DOMAIN none : FALSE
    BY DEF TypeOK
  <1> HIDE DEF none
  <1>2. Elements(msgs) = {h} \cup Elements(msgs') /\ Elements(msgs)' = Elements(msgs')
    BY ElementsTail DEF TypeOK
  <1>3. Ending(key) /\ time[key] = None /\ Flying(StopKinds, key)
    <2>1. Ending(key)
      BY <1>2 DEF Ending, Flying
    <2>2. MsgIs(h, StopKinds, key)
      BY KindsChange DEF MsgIs
    <2> QED
      BY <1>2, <2>1, <2>2 DEF OwnInv, OwnedInv, Flying
  <1>4. dist'[key] = None /\ time' = time /\ TimeIds' = TimeIds /\ Alters(key)
    BY <1>3, EraseSets, SavesAlters
  <1>5. FirstUpInv'
    <2>1. ~capsKnown => \A id \in Ids : dist'[id] = None
      BY <1>4 DEF MapsTrue, FirstUpInv, Alters
    <2> QED
      BY <1>1, <2>1, FirstUpKept DEF MapsTrue
  <1>6. EngineTrue'
    <2>1. EngineAsked(none)
      BY <1>1, <1>4 DEF EngineAsked
    <2> QED
      BY <1>1, <2>1, EngineKept DEF MapsTrue
  <1>7. ASSUME NEW id \in Ids, id # key
        PROVE  SessionTrue(id)'
    <2>1. Untouched(none, id)
      BY <1>1 DEF Untouched
    <2>2. \A kinds : ~MsgIs(h, kinds, id)
      BY <1>7 DEF MsgIs
    <2>3. \A kinds : Flying(kinds, id)' <=> Flying(kinds, id)
      BY <1>2, <2>2 DEF Flying
    <2>4. StartWaits(id)' => StartWaits(id)
      BY <1>2 DEF StartWaits
    <2>5. time'[id] = time[id] /\ dist'[id] = dist[id]
      BY <1>4, <1>7 DEF Alters
    <2> QED
      BY <1>1, <2>1, <2>3, <2>4, <2>5, SessionKept DEF MapsTrue
  <1>8. SessionTrue(key)'
    <2>1. SessionTrue(key)
      BY DEF MapsTrue
    <2>2. api' = api /\ engine' = engine
      OBVIOUS
    <2>3. EndsOn(api, key, key \in engine.db, dist[key] # None /\ ~Flying(StopKinds, key))'
      BY <1>3, <1>4, <2>1, <2>2 DEF SessionTrue, EndsOn
    <2>4. ~Flying(Distances, key)'
      <3>1. life[Owner[key]] = "gone"
        BY <1>3, EndingGone DEF Ending, Flying, OwnInv
      <3>2. /\ \A m \in Elements(msgs) : ~MsgIs(m, Commanded, key)
            /\ \A r \in Elements(api) : ~ReqIs(r, Commanded, key)
        BY <3>1, GoneAlone DEF OwnInv
      <3>3. /\ \A m : MsgIs(m, Distances, key) => MsgIs(m, Commanded, key)
            /\ \A r : ReqIs(r, Distances, key) => ReqIs(r, Commanded, key)
        BY DEF MsgIs, ReqIs, Commanded
      <3> QED
        BY <1>2, <3>2, <3>3 DEF Flying
    <2> QED
      BY <1>3, <1>4, <2>3, <2>4 DEF SessionTrue, Nowhere
  <1> QED
    BY <1>5, <1>6, <1>7, <1>8 DEF MapsTrue

\* Responses, none of which reports a failure.
LEMMA ResponsesTrue ==
  ASSUME TypeOK, AnswerInv, ForgetInv, PatientInv, OwnInv, MapsTrue, DistanceSupported, Calm,
         ProcResponse
  PROVE  MapsTrue'
  <1> DEFINE h == Head(msgs)
             c == TheCont
  <1>1. \A k : Response(k) =>
          /\ msgs # << >> /\ msgs' = Tail(msgs) /\ h.t = "resp" /\ c \in Cont /\ c.k = k
          /\ UNCHANGED <<engine, pending, capsKnown>>
          /\ k # "ignore" => c.id \in Ids /\ c.cmd \in Cmds \cup {NoCmd}
          /\ ~Err
    <2>1. ASSUME NEW k, Response(k)
          PROVE  ~Err /\ UNCHANGED <<engine, pending, capsKnown>>
      <3>1. Err => fails + ssrs > 0
        BY <2>1, HeadCont
      <3>2. fails + ssrs = 0
        BY DEF Calm
      <3> QED
        BY <2>1, <3>1, <3>2 DEF Response, modemVars
    <2> QED
      BY <2>1, HeadCont
  <1>2. \A k : Response(k) => ContChanges(c) /\ h \in Elements(msgs) /\ h.cont = c
    <2>1. ASSUME NEW k, Response(k)
          PROVE  ContChanges(c) /\ h \in Elements(msgs) /\ h.cont = c
      <3>1. h \in Elements(msgs) /\ h.t = "resp" /\ c = h.cont
        BY <1>1, <2>1, ElementsOf DEF TypeOK, TheCont
      <3> QED
        BY <3>1 DEF OwnInv, ChangesInv, MsgChanges
    <2> QED
      BY <2>1
  <1>3. \A k : Response(k) /\ k \in Commanded => HeadFor(c.id)
    BY <1>1 DEF HeadFor, MsgIs, TheCont, Commanded, Distances
  \* What a session is before the response of a command that changes it.
  <1>4. ASSUME NEW k \in Distances \cup {"switched"}, Response(k)
        PROVE  /\ c.id \in Ids /\ HeadFor(c.id) /\ SessionTrue(c.id)
               /\ Flying(StopKinds, c.id) <=> k \in StopKinds
               /\ k \in Distances => dist[c.id] # None /\ time[c.id] = None /\ capsKnown
               /\ k = "switched" => Nowhere(c.id)
    <2>1. c.id \in Ids /\ HeadFor(c.id) /\ SessionTrue(c.id) /\ c.k = k /\ k # "ignore"
      BY <1>1, <1>3, <1>4 DEF MapsTrue, Commanded, Distances
    <2>2. \A kinds : MsgIs(h, kinds, c.id) <=> k \in kinds
      BY <1>1, <1>2, <1>4, <2>1 DEF MsgIs
    <2>3. \A kinds \in SUBSET Changing : Flying(kinds, c.id) <=> k \in kinds
      BY <1>1, <1>4, <2>1, <2>2, HeadFlies
    <2>4. k \in Distances => dist[c.id] # None /\ time[c.id] = None
      BY <2>1, <2>3, KindsChange DEF SessionTrue
    <2>5. k \in Distances => capsKnown
      BY <2>1, <2>4 DEF MapsTrue, FirstUpInv
    <2>6. k = "switched" => Nowhere(c.id)
      BY <2>1, <2>3, KindsChange DEF SessionTrue
    <2> QED
      BY <2>1, <2>3, <2>4, <2>5, <2>6, KindsChange
  <1>5. CASE ProcStarted \/ ProcUpdated \/ ProcStopped \/ ProcIgnored
    <2>1. PICK k \in {"started", "updated", "stopped", "ignore"} : Response(k)
      BY <1>5 DEF ProcStarted, ProcUpdated, ProcStopped, ProcIgnored
    <2>2. UNCHANGED <<api, time, dist>>
      <3>1. ~Err
        BY <1>1, <2>1
      <3> QED
        BY <1>5, <3>1 DEF ProcStarted, ProcUpdated, ProcStopped, ProcIgnored
    <2>3. \A id \in Ids : ~MsgIs(h, Changing, id)
      BY <1>1, <1>2, <2>1 DEF MsgIs, Changing, Distances
    <2> QED
      BY <1>1, <2>1, <2>2, <2>3, QuietTrue
  <1>6. CASE ProcDistStopped /\ Response("distStopped")
    <2> DEFINE reqs == << >>
    <2>1. eraseTrackingSession(c.id) /\ UNCHANGED api
      BY <1>1, <1>6 DEF ProcDistStopped
    <2>2. /\ c.id \in Ids /\ HeadFor(c.id) /\ Flying(StopKinds, c.id)
          /\ dist[c.id] # None /\ time[c.id] = None
      BY <1>4, <1>6, KindsChange
    <2> HIDE DEF c
    <2>3. dist'[c.id] = None /\ time'[c.id] = None /\ TimeIds' = TimeIds /\ Alters(c.id)
      BY <2>1, <2>2, EraseSets, SavesAlters
    <2>4. Sent(reqs, c.id) /\ api' = api \o reqs /\ \A i \in DOMAIN reqs : FALSE
      BY <2>1, SentNone
    <2> HIDE DEF reqs
    <2>5. EngineAsked(reqs) /\ SessionAsked(reqs, c.id)
      BY <2>2, <2>3, <2>4 DEF EngineAsked, SessionAsked, Carries, Untouched, Elements
    <2> QED
      BY <1>1, <1>6, <2>2, <2>3, <2>4, <2>5, HandledTrue
  <1>7. CASE ProcDistRestarted
    <2> DEFINE reqs == << >>
    <2>1. saveTrackingSession(c.id, c.opt) /\ UNCHANGED api /\ Response("distRestarted")
      BY <1>1, <1>7 DEF ProcDistRestarted
    <2>2. /\ c.id \in Ids /\ HeadFor(c.id) /\ ~Flying(StopKinds, c.id)
          /\ dist[c.id] # None /\ time[c.id] = None /\ capsKnown
      BY <1>4, <2>1, KindsChange
    <2>3. c.opt \in OptionType /\ IsDistance(c.opt)
      <3>1. c \in Cont /\ c.k = "distRestarted" /\ ContChanges(c) /\ c.opt \in OptionType
        BY <1>1, <1>2, <2>1, ResponseFields
      <3> HIDE DEF c
      <3> QED
        BY <3>1 DEF ContChanges, Changing, Distances, NoCont, IsDistance
    <2> HIDE DEF c
    <2>4. dist'[c.id] # None /\ time'[c.id] = None /\ TimeIds' = TimeIds /\ Alters(c.id)
      BY <2>1, <2>2, <2>3, SaveSets, SavesAlters
    <2>5. Sent(reqs, c.id) /\ api' = api \o reqs /\ \A i \in DOMAIN reqs : FALSE
      BY <2>1, SentNone
    <2> HIDE DEF reqs
    <2>6. EngineAsked(reqs) /\ SessionAsked(reqs, c.id)
      BY <2>2, <2>4, <2>5 DEF EngineAsked, SessionAsked, Carries, Untouched, Elements
    <2> QED
      BY <1>1, <2>1, <2>2, <2>4, <2>5, <2>6, HandledTrue
  <1>8. CASE ProcSwitched
    <2> DEFINE reqs == startTimeBasedTrackingMultiplex(c.id, c.opt, c.cmd)
    <2>1. Response("switched") /\ api' = api \o reqs /\ saveTrackingSession(c.id, c.opt)
      BY <1>8 DEF ProcSwitched, SendOrReport
    <2>2. /\ c.id \in Ids /\ HeadFor(c.id) /\ ~Flying(StopKinds, c.id) /\ Nowhere(c.id)
          /\ c.cmd \in Cmds \cup {NoCmd}
      BY <1>1, <1>4, <2>1, KindsChange
    <2>3. c.opt \in OptionType /\ ~IsDistance(c.opt)
      <3>1. c \in Cont /\ c.k = "switched" /\ ContChanges(c) /\ c.opt \in OptionType
        BY <1>1, <1>2, <2>1, ResponseFields
      <3> HIDE DEF c
      <3> QED
        BY <3>1 DEF ContChanges, Changing, Distances, NoCont, IsDistance
    <2> HIDE DEF c
    <2>4. time'[c.id] # None /\ dist' = dist /\ TimeIds' = TimeIds \cup {c.id} /\ Alters(c.id)
      BY <2>1, <2>2, <2>3, SaveSets, SavesAlters
    <2>5. AtMost(reqs, TRUE) /\ (TimeIds = {} => reqs # << >>) /\ reqs \in Seq(Request)
      BY <2>2, <2>3, MultiplexShape, StartMultiplexType
    <2> HIDE DEF reqs
    <2>6. Sent(reqs, c.id)
      BY <2>5, SentEngine
    <2>7. /\ EngineAsked(reqs) /\ Untouched(reqs, c.id)
          /\ \A kinds \in SUBSET Changing : ~Carries(reqs, kinds, c.id)
      BY <2>2, <2>4, <2>5, MultiplexAsks
    <2>8. SessionAsked(reqs, c.id)
      BY <2>2, <2>4, <2>7, KindsChange DEF SessionAsked, Nowhere, Untouched
    <2> QED
      BY <1>1, <2>1, <2>2, <2>4, <2>6, <2>7, <2>8, HandledTrue DEF Nowhere
  <1>9. CASE ProcDistRestart
    <2> DEFINE again == [c EXCEPT !.k = "distRestarted"]
               r == [op |-> "startDB", id |-> c.id, cont |-> again]
               reqs == <<r>>
    <2>1. /\ Response("distRestart") /\ UNCHANGED <<time, dist>> /\ api' = Append(api, r)
      BY <1>1, <1>9 DEF ProcDistRestart
    <2>2. /\ c.id \in Ids /\ HeadFor(c.id)
          /\ dist[c.id] # None /\ time[c.id] = None /\ capsKnown
      BY <1>4, <2>1, KindsChange
    <2>3. c \in Cont /\ c.k = "distRestart" /\ again \in Cont
      BY <2>1, ResponseType, ResponseFields
    <2>4. /\ r \in Request /\ r.op = "startDB" /\ r.id = c.id /\ r.cont = again
          /\ again.k = "distRestarted" /\ again.id = c.id /\ again.cmd = c.cmd
          /\ again.opt = c.opt
      <3>1. r \in Request /\ r.op = "startDB" /\ r.id = c.id /\ r.cont = again
        BY <2>2, <2>3 DEF Request
      <3> HIDE DEF c
      <3> QED
        BY <2>3, <3>1 DEF Cont
    <2>5. c.cmd # NoCmd /\ c.opt.distance
      <3>1. ContChanges(c)
        BY <1>2, <2>1
      <3> HIDE DEF c
      <3> QED
        BY <2>3, <3>1 DEF ContChanges, Changing, Distances, NoCont
    <2> HIDE DEF r, again, c
    <2>6. Alters(c.id) /\ TimeIds' = TimeIds
      BY <2>1 DEF Alters, TimeIds
    <2>7. Sent(reqs, c.id) /\ api' = api \o reqs
      <3>1. ReqChanges(r)
        BY <2>4, <2>5 DEF ReqChanges, ContChanges
      <3>2. api' = api \o reqs
        BY <2>1, <2>4, OneMore
      <3> QED
        BY <2>2, <2>4, <3>1, <3>2, SentDistance
    <2>8. /\ EngineAsked(reqs) /\ ~Untouched(reqs, c.id)
          /\ \A k \in DOMAIN reqs : Starts(reqs[k])
          /\ \A kinds : Carries(reqs, kinds, c.id) <=> ReqIs(r, kinds, c.id)
      BY <2>2, <2>4, <2>6, DistanceAsks
    <2>9. ~Carries(reqs, StopKinds, c.id) /\ ~Carries(reqs, {"switched"}, c.id)
      BY <2>4, <2>8, KindsChange DEF ReqIs
    <2>10. SessionAsked(reqs, c.id)
      BY <2>1, <2>2, <2>8, <2>9 DEF SessionAsked
    <2> HIDE DEF reqs
    <2> QED
      BY <1>1, <2>1, <2>2, <2>6, <2>7, <2>8, <2>10, HandledTrue
  <1>10. CASE ProcDistStopped /\ Response("clientDistStopped")
    <2>1. eraseTrackingSession(c.id) /\ UNCHANGED api
      BY <1>1, <1>10 DEF ProcDistStopped
    <2>2. c.id \in Ids /\ MsgIs(h, {"clientDistStopped"}, c.id)
      BY <1>1, <1>2, <1>10 DEF MsgIs
    <2> HIDE DEF c
    <2> QED
      BY <1>1, <1>10, <2>1, <2>2, EndedTrue
  <1> QED
    BY <1>5, <1>6, <1>7, <1>8, <1>9, <1>10 DEF ProcResponse, ProcDistStopped

-----------------------------------------------------------------------------
\* Sessions that are being stopped once more.
LEMMA SessionStopped ==
  ASSUME TypeOK, NEW id \in Ids, SessionTrue(id), UNCHANGED <<engine, time, dist>>,
         NEW reqs \in Seq(Request), api' = api \o reqs, ~Untouched(reqs, id),
         \A k \in DOMAIN reqs : ~Starts(reqs[k]), Flying(StopKinds, id)',
         Flying(Distances, id)' => Flying(Distances, id),
         Flying({"switched"}, id)' => Flying({"switched"}, id),
         StartWaits(id)' => StartWaits(id)
  PROVE  SessionTrue(id)'
  <1> DEFINE b == api \o reqs
  <1>1. /\ ~Untouched(b, id)
        /\ \A i \in DOMAIN b : LastTouch(b, id, i) =>
             \E k \in DOMAIN reqs : Touches(reqs[k], id) /\ b[i] = reqs[k]
    BY TouchedBoth DEF TypeOK
  <1>2. api' = b
    OBVIOUS
  <1> HIDE DEF b
  <1>3. EndsOn(api, id, id \in engine.db, dist[id] # None /\ ~Flying(StopKinds, id))'
    BY <1>1, <1>2 DEF EndsOn
  <1> QED
    BY <1>3 DEF SessionTrue, Nowhere

\* Removing a client.
LEMMA RemovesTrue ==
  ASSUME TypeOK, MapsTrue, ProcRemoveClientTime \/ ProcRemoveClient
  PROVE  MapsTrue'
  <1>1. msgs # << >> /\ Head(msgs).t = "remove" /\ UNCHANGED <<engine, pending, capsKnown>>
    BY DEF ProcRemoveClientTime, ProcRemoveClient, Handle, modemVars
  <1>2. CASE ProcRemoveClientTime
    <2>1. PICK id \in TimeIds : /\ api' = api \o stopTimeBasedTrackingMultiplex(id, NoCmd)
                                /\ eraseTrackingSession(id)
      BY <1>2 DEF ProcRemoveClientTime
    <2> DEFINE reqs == stopTimeBasedTrackingMultiplex(id, NoCmd)
    <2>2. msgs' = msgs /\ id \in Ids /\ time[id] # None
      BY <1>2, SessionOptions DEF ProcRemoveClientTime, TimeIds
    <2>3. /\ AtMost(reqs, TimeIds \ {id} # {}) /\ (TimeIds \ {id} = {} => reqs # << >>)
          /\ reqs \in Seq(Request)
      BY <2>1, <2>2, SessionOptions, MultiplexShape, StopMultiplexType
    <2>4. api' = api \o reqs
      BY <2>1
    <2> HIDE DEF reqs
    <2>5. time'[id] = None /\ dist' = dist /\ TimeIds' = TimeIds \ {id} /\ Alters(id)
      BY <2>1, <2>2, EraseSets, SavesAlters
    <2>6. PICK on \in BOOLEAN : on <=> TimeIds \ {id} # {}
      OBVIOUS
    <2>7. AtMost(reqs, on)
      BY <2>3, <2>6
    <2>8. (TimeIds' # {} <=> on) /\ (reqs = << >> => (TimeIds' = {} <=> TimeIds = {}))
      BY <2>1, <2>3, <2>5, <2>6
    <2>9. ASSUME NEW key \in Ids
          PROVE  /\ EngineAsked(reqs) /\ Untouched(reqs, key)
                 /\ \A kinds \in SUBSET Changing : ~Carries(reqs, kinds, key)
      BY <2>3, <2>7, <2>8, MultiplexAsks
    <2>10. Elements(api)' = Elements(api) \cup Elements(reqs) /\ Elements(msgs)' = Elements(msgs)
      BY <2>2, <2>3, <2>4, ElementsConcat DEF TypeOK
    <2>11. FirstUpInv'
      <3>1. \A i \in DOMAIN reqs : reqs[i].op # "open"
        BY <2>3, SentEngine DEF Sent, SentFor
      <3>2. ~capsKnown => \A i \in Ids : dist'[i] = None
        BY <2>5 DEF MapsTrue, FirstUpInv
      <3> QED
        BY <1>1, <2>2, <2>3, <2>4, <3>1, <3>2, FirstUpKept DEF MapsTrue
    <2>12. EngineTrue'
      BY <1>1, <2>2, <2>3, <2>4, <2>9, EngineKept DEF MapsTrue
    <2>13. ASSUME NEW key \in Ids
           PROVE  SessionTrue(key)'
      <3>1. \A kinds \in SUBSET Changing : Flying(kinds, key)' <=> Flying(kinds, key)
        BY <2>9, <2>10 DEF Flying, Carries
      <3>2. StartWaits(key)' => StartWaits(key)
        BY <1>1, <2>10 DEF StartWaits
      <3>3. (time'[key] = time[key] \/ time'[key] = None) /\ dist'[key] = dist[key]
        BY <2>5 DEF Alters
      <3> QED
        BY <1>1, <2>3, <2>4, <2>9, <3>1, <3>2, <3>3, KindsChange, SessionKept DEF MapsTrue
    <2> QED
      BY <2>11, <2>12, <2>13 DEF MapsTrue
  <1>3. CASE ProcRemoveClient
    <2> DEFINE c == Head(msgs).client
               S == {id \in DistIds : Owner[id] = c}
               Stop(id) == [op |-> "stopDB", id |-> id,
                            cont |-> [k |-> "clientDistStopped", id |-> id, cmd |-> NoCmd]]
    <2>1. PICK q \in InOrder(S) : api' = api \o [i \in DOMAIN q |-> Stop(q[i])]
      BY <1>3 DEF ProcRemoveClient
    <2> DEFINE reqs == [i \in DOMAIN q |-> Stop(q[i])]
    <2>2. reqs \in Seq(Request)
      BY ClientStopsIdle
    <2>3. /\ \A i \in DOMAIN reqs : \E id \in S : reqs[i] = Stop(id)
          /\ \A id \in S : \E i \in DOMAIN reqs : reqs[i] = Stop(id)
      <3>1. S \in SUBSET Ids
        BY SessionOptions
      <3> HIDE DEF S, Stop
      <3>2. \A i \in DOMAIN q : q[i] \in S
        BY <3>1, InOrderType
      <3>3. \A id \in S : \E i \in DOMAIN q : q[i] = id
        BY <3>1, InOrderOnto
      <3>4. DOMAIN reqs = DOMAIN q /\ \A i \in DOMAIN q : reqs[i] = Stop(q[i])
        OBVIOUS
      <3> HIDE DEF reqs
      <3> QED
        BY <3>2, <3>3, <3>4
    <2>4. /\ msgs' = Tail(msgs) /\ UNCHANGED <<time, dist>> /\ api' = api \o reqs
      BY <1>3, <2>1 DEF ProcRemoveClient
    <2>5. S \subseteq Ids
      BY SessionOptions
    <2> HIDE DEF reqs, S
    <2>6. ASSUME NEW id \in S
          PROVE  /\ Stop(id).op = "stopDB" /\ Stop(id).id = id
                 /\ Stop(id).cont # NoCont /\ Stop(id).cont.k = "clientDistStopped"
                 /\ Stop(id).cont.id = id
      BY DEF NoCont
    <2> HIDE DEF Stop, c
    <2>7. ASSUME NEW r, NEW s \in S, r = Stop(s)
          PROVE  /\ r.op # "open" /\ ~Starts(r) /\ ~Touches(r, Engine)
                 /\ \A id \in Ids : Touches(r, id) <=> id = s
                 /\ \A id \in Ids : \A kinds : ReqIs(r, kinds, id) <=> id = s /\ "clientDistStopped" \in kinds
      <3>1. \A id \in Ids : id # Engine
        BY ConstantsOK DEF Engine
      <3> QED
        BY <2>5, <2>6, <2>7, <3>1 DEF Touches, SetsRun, Starts, ReqIs
    <2>8. /\ Elements(msgs) = {Head(msgs)} \cup Elements(msgs') /\ Elements(msgs)' = Elements(msgs')
          /\ Elements(api)' = Elements(api) \cup Elements(reqs)
      BY <1>1, <2>2, <2>4, ElementsConcat, ElementsTail DEF TypeOK
    <2>9. FirstUpInv'
      <3>1. \A i \in DOMAIN reqs : reqs[i].op # "open"
        BY <2>3, <2>7
      <3>2. ~capsKnown => \A i \in Ids : dist'[i] = None
        BY <2>4 DEF MapsTrue, FirstUpInv
      <3> QED
        BY <1>1, <2>2, <2>4, <3>1, <3>2, FirstUpKept DEF MapsTrue
    <2>10. EngineTrue'
      <3>1. \A i \in DOMAIN reqs : ~Touches(reqs[i], Engine)
        BY <2>3, <2>7
      <3>2. EngineAsked(reqs)
        BY <2>4, <3>1 DEF EngineAsked, TimeIds
      <3> QED
        BY <1>1, <2>2, <2>4, <3>2, EngineKept DEF MapsTrue
    <2>11. ASSUME NEW id \in Ids
           PROVE  SessionTrue(id)'
      <3>1. ASSUME NEW kinds, "clientDistStopped" \notin kinds
            PROVE  Flying(kinds, id)' <=> Flying(kinds, id)
        <4>1. \A r \in Elements(reqs) : ~ReqIs(r, kinds, id)
          BY <2>3, <2>7, <3>1 DEF Elements
        <4>2. ~MsgIs(Head(msgs), kinds, id)
          BY <1>1 DEF MsgIs
        <4> QED
          BY <2>8, <4>1, <4>2 DEF Flying
      <3>2. StartWaits(id)' => StartWaits(id)
        BY <1>1, <2>8 DEF StartWaits
      <3>3. "clientDistStopped" \notin Distances /\ "clientDistStopped" \notin {"switched"}
            /\ "clientDistStopped" \in StopKinds
        BY KindsChange
      <3>4. CASE id \in S
        <4>1. PICK i \in DOMAIN reqs : reqs[i] = Stop(id)
          BY <2>3, <3>4
        <4>2. ~Untouched(reqs, id)
          BY <2>7, <3>4, <4>1 DEF Untouched
        <4>3. reqs[i] \in Elements(api)' /\ ReqIs(reqs[i], StopKinds, id)
          BY <2>7, <2>8, <3>3, <3>4, <4>1 DEF Elements
        <4>4. Flying(StopKinds, id)'
          BY <4>3 DEF Flying
        <4>5. \A k \in DOMAIN reqs : ~Starts(reqs[k])
          BY <2>3, <2>7
        <4> QED
          BY <1>1, <2>2, <2>4, <3>1, <3>2, <3>3, <4>2, <4>4, <4>5, SessionStopped DEF MapsTrue
      <3>5. CASE id \notin S
        <4>1. Untouched(reqs, id)
          BY <2>3, <2>7, <3>5 DEF Untouched
        <4>2. Flying(StopKinds, id)' <=> Flying(StopKinds, id)
          <5>1. \A r \in Elements(reqs) : ~ReqIs(r, StopKinds, id)
            BY <2>3, <2>7, <3>5 DEF Elements
          <5>2. ~MsgIs(Head(msgs), StopKinds, id)
            BY <1>1 DEF MsgIs
          <5> QED
            BY <2>8, <5>1, <5>2 DEF Flying
        <4> QED
          BY <1>1, <2>2, <2>4, <3>1, <3>2, <3>3, <4>1, <4>2, SessionKept DEF MapsTrue
      <3> QED
        BY <3>4, <3>5
    <2> QED
      BY <2>9, <2>10, <2>11 DEF MapsTrue
  <1> QED
    BY <1>2, <1>3

\* The other messages: the first time the engine comes up, no distance session
\* has been started; the configuration does not change.
LEMMA OthersTrue ==
  ASSUME TypeOK, MapsTrue,
         ProcAddClient \/ ProcWait \/ ProcEngineUp \/ ProcConfigRobustLocation
  PROVE  MapsTrue'
  <1>1. /\ msgs # << >> /\ Head(msgs).t \in {"add", "start", "update", "engineUp", "config"}
        /\ UNCHANGED <<engine, time, dist>> /\ Head(msgs) \in Elements(msgs)
        /\ Head(msgs) \in Msg
    <2>1. /\ msgs # << >> /\ Head(msgs).t \in {"add", "start", "update", "engineUp", "config"}
          /\ UNCHANGED <<engine, time, dist>>
      BY DEF ProcAddClient, ProcWait, ProcEngineUp, ProcConfigRobustLocation, Handle,
             modemVars, adapterVars
    <2> QED
      BY <2>1, ElementsOf, HandleType DEF TypeOK
  <1>2. \A kinds, id : ~MsgIs(Head(msgs), kinds, id)
    BY <1>1 DEF MsgIs
  <1>3. CASE ProcAddClient
    BY <1>1, <1>2, <1>3, QuietTrue DEF ProcAddClient
  <1>4. CASE ProcWait
    <2>1. /\ msgs' = Tail(msgs) /\ UNCHANGED <<api, capsKnown>>
          /\ pending' = Append(pending, Head(msgs))
      BY <1>4 DEF ProcWait
    <2>2. Elements(pending)' \subseteq Elements(pending) \cup {Head(msgs)}
      <3>1. pending \in Seq(Msg)
        BY PendingType DEF TypeOK
      <3> QED
        BY <1>1, <2>1, <3>1, ElementsOf
    <2> QED
      BY <1>1, <1>2, <2>1, <2>2, PassedTrue
  <1>5. CASE ProcConfigRobustLocation
    <2>1. Head(msgs).t = "config"
      BY <1>5 DEF ProcConfigRobustLocation, Handle
    <2> QED
      BY <1>1, <2>1 DEF MapsTrue, FirstUpInv
  <1>6. CASE ProcEngineUp
    <2>1. /\ Head(msgs).t = "engineUp" /\ capsKnown' = TRUE
          /\ msgs' = Tail(msgs) \o pending /\ pending' = << >>
      BY <1>6 DEF ProcEngineUp, Handle
    <2>2. PICK reqs \in restartSessions : api' = api \o reqs
      BY <1>6 DEF ProcEngineUp
    <2>3. /\ HasUp(msgs) /\ ~capsKnown /\ ~HasOpen(api) /\ DistIds = {}
      <3>1. HasUp(msgs)
        BY <1>1, <2>1, TailPlaces DEF HasUp, TypeOK
      <3> QED
        BY <3>1 DEF MapsTrue, FirstUpInv, DistIds
    <2>4. /\ reqs \in Seq(Request)
          /\ \A i \in DOMAIN reqs : /\ reqs[i].op = "startTB" /\ reqs[i].cont = NoCont
                                    /\ TimeIds # {}
      <3> DEFINE first == checkAndRestartTimeBasedSession
      <3>1. PICK q \in InOrder(DistIds) :
              reqs = first \o [i \in DOMAIN q |-> [op |-> "startDB", id |-> q[i],
                                                   cont |-> [k |-> "ignore"]]]
        BY DEF restartSessions
      <3> DEFINE rest == [i \in DOMAIN q |-> [op |-> "startDB", id |-> q[i],
                                              cont |-> [k |-> "ignore"]]]
      <3>2. first \in Seq(Request)
        BY CheckRestartType
      <3>3. \A i \in DOMAIN first : first[i].op = "startTB" /\ first[i].cont = NoCont
                                    /\ TimeIds # {}
        BY DEF checkAndRestartTimeBasedSession, StartTB
      <3>4. DOMAIN rest = {} /\ rest \in Seq(Request)
        <4>1. \A i \in DOMAIN q : q[i] \in DistIds
          BY SessionOptions, InOrderType
        <4>2. DOMAIN q = {}
          BY <2>3, <4>1
        <4>3. \A id \in Ids : [op |-> "startDB", id |-> id, cont |-> [k |-> "ignore"]]
                                \in Request
          BY DEF Request, Cont
        <4>4. rest \in Seq(Request)
          BY <4>3, InOrderType, SessionOptions, MapType
        <4> QED
          BY <4>2, <4>4
      <3>5. reqs = first \o rest
        BY <3>1
      <3> HIDE DEF first, rest
      <3>6. \A i \in DOMAIN reqs : \/ i \in DOMAIN first /\ reqs[i] = first[i]
                                   \/ \E k \in DOMAIN rest : reqs[i] = rest[k]
        BY <3>2, <3>4, <3>5, ReqMembers
      <3> QED
        BY <3>3, <3>4, <3>6, RestartType
    <2>5. \A i \in DOMAIN reqs : /\ Touches(reqs[i], Engine) /\ Starts(reqs[i])
                                 /\ reqs[i].op # "open"
                                 /\ \A id \in Ids : ~Touches(reqs[i], id)
                                 /\ \A kinds, id : ~ReqIs(reqs[i], kinds, id)
      BY <2>4, ConstantsOK DEF Touches, SetsRun, Starts, ReqIs, Engine
    <2>6. /\ Elements(msgs) = {Head(msgs)} \cup Elements(Tail(msgs))
          /\ Elements(msgs)' = Elements(Tail(msgs)) \cup Elements(pending)
          /\ Elements(pending)' = {}
          /\ Elements(api)' = Elements(api) \cup Elements(reqs)
          /\ \A m \in Elements(pending) : m.t \in {"start", "update", "stop"}
      <3>1. /\ msgs \in Seq(Msg) /\ Tail(msgs) \in Seq(Msg) /\ pending \in Seq(Msg)
        BY <1>1, PendingType DEF TypeOK
      <3>2. Elements(msgs)' = Elements(Tail(msgs)) \cup Elements(pending)
        BY <2>1, <3>1, ElementsConcat
      <3>3. Elements(api)' = Elements(api) \cup Elements(reqs)
        BY <2>2, <2>4, ElementsConcat DEF TypeOK
      <3>4. Elements(pending)' = {}
        BY <2>1 DEF Elements
      <3>5. \A m \in Elements(pending) : m.t \in {"start", "update", "stop"}
        BY DEF Elements, TypeOK, Command
      <3> QED
        BY <1>1, <3>1, <3>2, <3>3, <3>4, <3>5, ElementsTail
    <2>7. FirstUpInv'
      <3>1. \A i \in DOMAIN Tail(msgs) : Tail(msgs)[i].t # "engineUp"
        <4>1. /\ Head(msgs) = msgs[1] /\ 1 \in DOMAIN msgs
              /\ \A i \in DOMAIN Tail(msgs) : i + 1 \in DOMAIN msgs /\ i + 1 # 1
                                              /\ Tail(msgs)[i] = msgs[i + 1]
          BY <1>1, TailPlaces DEF TypeOK
        <4> QED
          BY <2>1, <4>1 DEF MapsTrue, FirstUpInv
      <3>2. \A m \in Elements(msgs)' : m.t # "engineUp" /\ m.t # "config"
        <4>1. \A m \in Elements(Tail(msgs)) : m.t # "engineUp" /\ m.t # "config"
          BY <2>6, <3>1 DEF Elements, MapsTrue, FirstUpInv
        <4> QED
          BY <2>6, <4>1
      <3>3. \A i \in DOMAIN msgs' : msgs'[i].t # "engineUp"
        BY <3>2 DEF Elements
      <3>4. \A i \in DOMAIN api' : api'[i].op # "open"
        <4>1. \A i \in DOMAIN api' : \/ i \in DOMAIN api /\ api'[i] = api[i]
                                     \/ \E k \in DOMAIN reqs : api'[i] = reqs[k]
          BY <2>2, <2>4, ReqMembers DEF TypeOK
        <4> QED
          BY <2>3, <2>5, <4>1 DEF HasOpen
      <3> QED
        BY <2>1, <3>2, <3>3, <3>4 DEF FirstUpInv, HasUp, HasOpen
    <2>8. EngineTrue'
      <3>1. EngineAsked(reqs)
        BY <1>1, <2>4, <2>5 DEF EngineAsked, TimeIds
      <3> QED
        BY <1>1, <2>2, <2>4, <3>1, EngineKept DEF MapsTrue
    <2>9. ASSUME NEW id \in Ids
          PROVE  SessionTrue(id)'
      <3>1. Untouched(reqs, id)
        BY <2>5 DEF Untouched
      <3>2. \A kinds : Flying(kinds, id)' <=> Flying(kinds, id)
        <4>1. \A kinds : \A r \in Elements(reqs) : ~ReqIs(r, kinds, id)
          BY <2>5 DEF Elements
        <4>2. \A kinds : \A m \in Elements(pending) : ~MsgIs(m, kinds, id)
          BY <2>6 DEF MsgIs
        <4> QED
          BY <1>2, <2>6, <4>1, <4>2 DEF Flying
      <3>3. StartWaits(id)' => StartWaits(id)
        BY <2>6 DEF StartWaits
      <3> QED
        BY <1>1, <2>2, <2>4, <3>1, <3>2, <3>3, SessionKept DEF MapsTrue
    <2> QED
      BY <2>7, <2>8, <2>9 DEF MapsTrue
  <1> QED
    BY <1>3, <1>4, <1>5, <1>6

-----------------------------------------------------------------------------
\* A command or a client joins the queue.
LEMMA PostedTrue ==
  ASSUME TypeOK, MapsTrue, UNCHANGED <<api, time, dist, pending, engine, capsKnown>>,
         NEW m \in Msg, m.t \notin {"resp", "engineUp", "config"}, msgs' = Append(msgs, m),
         m.t = "start" => Nowhere(m.id)
  PROVE  MapsTrue'
  <1>1. Elements(msgs)' = Elements(msgs) \cup {m}
    BY ElementsOf DEF TypeOK
  <1>2. \A i \in DOMAIN msgs' : msgs'[i] # m => i \in DOMAIN msgs /\ msgs'[i] = msgs[i]
    BY DEF TypeOK
  <1>3. FirstUpInv'
    <2>1. \A i \in DOMAIN msgs' : msgs'[i].t = "engineUp" => i \in DOMAIN msgs /\ msgs'[i] = msgs[i]
      BY <1>2
    <2>2. \A i, j \in DOMAIN msgs' : msgs'[i].t = "engineUp" /\ msgs'[j].t = "engineUp" => i = j
      BY <2>1 DEF MapsTrue, FirstUpInv
    <2>3. HasUp(msgs)' => HasUp(msgs)
      BY <2>1 DEF HasUp
    <2>4. HasOpen(api)' <=> HasOpen(api)
      BY DEF HasOpen
    <2> QED
      BY <1>1, <2>2, <2>3, <2>4 DEF MapsTrue, FirstUpInv
  <1>4. EngineTrue'
    BY DEF MapsTrue, EngineTrue, EndsOn, TimeIds
  <1>5. ASSUME NEW id \in Ids
        PROVE  SessionTrue(id)'
    <2>1. \A kinds : Flying(kinds, id)' <=> Flying(kinds, id)
      BY <1>1 DEF Flying, MsgIs
    <2>2. StartWaits(id)' => StartWaits(id) \/ Nowhere(id)
      BY <1>1 DEF StartWaits
    <2>3. SessionTrue(id)
      BY DEF MapsTrue
    <2>4. EndsOn(api, id, id \in engine.db, dist[id] # None /\ ~Flying(StopKinds, id))'
      BY <2>1, <2>3 DEF SessionTrue, EndsOn
    <2> QED
      BY <2>1, <2>2, <2>3, <2>4 DEF SessionTrue, Nowhere
  <1> QED
    BY <1>3, <1>4, <1>5 DEF MapsTrue

LEMMA ClientTrue ==
  ASSUME TypeOK, FreshInv, MapsTrue, Calm', ClientStep
  PROVE  MapsTrue'
  <1>1. UNCHANGED <<api, time, dist, pending, engine, capsKnown>>
    BY DEF ClientStep, addClientCommand, removeClientCommand, configRobustLocationCommand,
           startTrackingCommand, updateTrackingOptionsCommand, stopTrackingCommand,
           adapterVars, modemVars
  <1>2. CASE \E c \in Clients : addClientCommand(c) \/ removeClientCommand(c)
    <2>1. PICK c \in Clients, t \in {"add", "remove"} : msgs' = Append(msgs, [t |-> t, client |-> c])
      BY <1>2 DEF addClientCommand, removeClientCommand
    <2>2. PICK m : m = [t |-> t, client |-> c]
      OBVIOUS
    <2>3. m \in Msg /\ m.t = t
      BY <2>2 DEF Msg
    <2> QED
      BY <1>1, <2>1, <2>2, <2>3, PostedTrue
  <1>3. CASE configRobustLocationCommand
    <2>1. configs' = configs + 1 /\ configs \in Nat
      BY <1>3 DEF configRobustLocationCommand, TypeOK
    <2> QED
      BY <2>1 DEF Calm
  <1>4. ASSUME NEW id \in Ids, NEW opt \in Options,
               startTrackingCommand(id, opt) \/ updateTrackingOptionsCommand(id, opt)
        PROVE  MapsTrue'
    <2>1. PICK t \in {"start", "update"} :
            /\ Issue(t, id, opt.size # 0)
            /\ msgs' = Append(msgs, [t |-> t, id |-> id, opt |-> opt, cmd |-> Len(issued) + 1])
            /\ t = "start" => ~KnownToClient(id)
      BY <1>4 DEF startTrackingCommand, updateTrackingOptionsCommand
    <2>2. Len(issued) + 1 \in Cmds /\ opt \in OptionType
      BY <2>1, IssueType, ConstantsOK
    <2>3. PICK m : m = [t |-> t, id |-> id, opt |-> opt, cmd |-> Len(issued) + 1]
      OBVIOUS
    <2>4. m \in Msg /\ m.t = t /\ m.id = id
      BY <2>2, <2>3 DEF Msg, Command
    <2>5. t = "start" => Nowhere(id)
      BY <2>1 DEF FreshInv
    <2> QED
      BY <1>1, <2>1, <2>3, <2>4, <2>5, PostedTrue
  <1>5. ASSUME NEW id \in Ids, stopTrackingCommand(id)
        PROVE  MapsTrue'
    <2>1. /\ Issue("stop", id, TRUE)
          /\ msgs' = Append(msgs, [t |-> "stop", id |-> id, cmd |-> Len(issued) + 1])
      BY <1>5 DEF stopTrackingCommand
    <2>2. Len(issued) + 1 \in Cmds
      BY <2>1, IssueType
    <2>3. PICK m : m = [t |-> "stop", id |-> id, cmd |-> Len(issued) + 1]
      OBVIOUS
    <2>4. m \in Msg /\ m.t = "stop"
      BY <2>2, <2>3 DEF Msg, Command
    <2> QED
      BY <1>1, <2>1, <2>3, <2>4, PostedTrue
  <1> QED
    BY <1>2, <1>3, <1>4, <1>5 DEF ClientStep

-----------------------------------------------------------------------------
\* What LocApi takes from its queue happens to the modem.
LEMMA EndsTaken ==
  ASSUME NEW q \in Seq(Request), q # << >>, NEW x, NEW now \in BOOLEAN, NEW on \in BOOLEAN,
         EndsOn(q, x, now, on), NEW next \in BOOLEAN,
         next <=> IF Touches(Head(q), x) THEN Starts(Head(q)) ELSE now
  PROVE  EndsOn(Tail(q), x, next, on)
  <1>1. PICK t : t = Tail(q)
    OBVIOUS
  <1>2. /\ 1 \in DOMAIN q /\ Head(q) = q[1]
        /\ Untouched(t, x) => IF Touches(Head(q), x) THEN LastTouch(q, x, 1)
                                                     ELSE Untouched(q, x)
        /\ \A i \in DOMAIN t : LastTouch(t, x, i) =>
             i + 1 \in DOMAIN q /\ LastTouch(q, x, i + 1) /\ t[i] = q[i + 1]
    BY <1>1, TouchedTail
  <1>3. ASSUME Untouched(t, x)
        PROVE  next <=> on
    <2>1. CASE Touches(Head(q), x)
      BY <1>2, <1>3, <2>1 DEF EndsOn
    <2>2. CASE ~Touches(Head(q), x)
      BY <1>2, <1>3, <2>2 DEF EndsOn
    <2> QED
      BY <2>1, <2>2
  <1>4. ASSUME NEW i \in DOMAIN t, LastTouch(t, x, i)
        PROVE  Starts(t[i]) <=> on
    BY <1>2, <1>4 DEF EndsOn
  <1>5. EndsOn(t, x, next, on)
    BY <1>3, <1>4 DEF EndsOn
  <1> QED
    BY <1>1, <1>5

LEMMA TakenTrue ==
  ASSUME TypeOK, MapsTrue, UNCHANGED <<time, dist, pending, capsKnown>>,
         api # << >>, api' = Tail(api),
         engine'.tb # None <=>
           IF Touches(Head(api), Engine) THEN Starts(Head(api)) ELSE engine.tb # None,
         \A id \in Ids : id \in engine'.db <=>
           IF Touches(Head(api), id) THEN Starts(Head(api)) ELSE id \in engine.db,
         \A id \in Ids : \A kinds : Flying(kinds, id)' <=> Flying(kinds, id),
         \A id \in Ids : StartWaits(id)' => StartWaits(id), FirstUpInv'
  PROVE  MapsTrue'
  <1>1. api \in Seq(Request)
    BY DEF TypeOK
  <1>2. EngineTrue'
    <2>1. PICK now \in BOOLEAN, on \in BOOLEAN, next \in BOOLEAN :
            /\ now <=> engine.tb # None
            /\ on <=> TimeIds # {}
            /\ next <=> engine'.tb # None
      OBVIOUS
    <2>2. EndsOn(api, Engine, now, on)
      BY <2>1 DEF MapsTrue, EngineTrue, EndsOn
    <2>3. next <=> IF Touches(Head(api), Engine) THEN Starts(Head(api)) ELSE now
      BY <2>1
    <2>4. EndsOn(Tail(api), Engine, next, on)
      BY <1>1, <2>2, <2>3, EndsTaken
    <2>5. TimeIds' = TimeIds
      BY DEF TimeIds
    <2> QED
      BY <2>1, <2>4, <2>5 DEF EngineTrue, EndsOn
  <1>3. ASSUME NEW id \in Ids
        PROVE  SessionTrue(id)'
    <2>0. SessionTrue(id)
      BY DEF MapsTrue
    <2>1. PICK now \in BOOLEAN, on \in BOOLEAN, next \in BOOLEAN :
            /\ now <=> id \in engine.db
            /\ on <=> dist[id] # None /\ ~Flying(StopKinds, id)
            /\ next <=> id \in engine'.db
      OBVIOUS
    <2>2. EndsOn(api, id, now, on)
      BY <2>0, <2>1 DEF SessionTrue, EndsOn
    <2>3. next <=> IF Touches(Head(api), id) THEN Starts(Head(api)) ELSE now
      BY <2>1
    <2>4. EndsOn(Tail(api), id, next, on)
      BY <1>1, <2>2, <2>3, EndsTaken
    <2>5. EndsOn(api, id, id \in engine.db, dist[id] # None /\ ~Flying(StopKinds, id))'
      BY <2>1, <2>4 DEF EndsOn
    <2> QED
      BY <2>0, <2>5 DEF SessionTrue, Nowhere
  <1> QED
    BY <1>2, <1>3 DEF MapsTrue

LEMMA EffectSets ==
  ASSUME TypeOK, NEW r \in Request, r.op # "open", engine' = Effect(r)
  PROVE  /\ engine'.tb # None <=> IF Touches(r, Engine) THEN Starts(r) ELSE engine.tb # None
         /\ \A id \in Ids : id \in engine'.db <=>
              IF Touches(r, id) THEN Starts(r) ELSE id \in engine.db
  <1>1. engine \in [up : BOOLEAN, tb : OptionType \cup {None}, db : SUBSET Ids]
    BY DEF TypeOK
  <1>2. \A id \in Ids : id # Engine
    BY ConstantsOK DEF Engine
  <1>3. CASE r.op = "startTB"
    <2>1. r.opt # None /\ engine'.tb = r.opt /\ engine'.db = engine.db
      BY <1>1, <1>3, RequestFields, ConstantsOK DEF Effect
    <2> QED
      BY <1>2, <1>3, <2>1 DEF Touches, SetsRun, Starts
  <1>4. CASE r.op = "stopFix"
    <2>1. engine'.tb = None /\ engine'.db = engine.db
      BY <1>1, <1>4 DEF Effect
    <2> QED
      BY <1>2, <1>4, <2>1 DEF Touches, SetsRun, Starts
  <1>5. CASE r.op = "startDB"
    <2>1. engine'.tb = engine.tb /\ engine'.db = engine.db \cup {r.id}
      BY <1>1, <1>5 DEF Effect
    <2> QED
      BY <1>2, <1>5, <2>1 DEF Touches, SetsRun, Starts
  <1>6. CASE r.op = "stopDB"
    <2>1. engine'.tb = engine.tb /\ engine'.db = engine.db \ {r.id}
      BY <1>1, <1>6 DEF Effect
    <2> QED
      BY <1>2, <1>6, <2>1 DEF Touches, SetsRun, Starts
  <1> QED
    BY <1>3, <1>4, <1>5, <1>6, RequestFields

\* The message a request leaves behind says what the request did.
LEMMA ModemTrue ==
  ASSUME TypeOK, OpenFirst, MapsTrue, Calm, Calm', LocApiStep \/ ModemCrash
  PROVE  MapsTrue'
  <1>1. CASE ModemCrash
    <2>1. ssrs' = ssrs + 1 /\ UNCHANGED fails /\ ssrs \in Nat /\ fails \in Nat
      BY <1>1, ConstantsOK DEF ModemCrash, TypeOK
    <2> QED
      BY <2>1 DEF Calm
  <1>2. CASE LocApiStep
    <2>1. /\ api # << >> /\ api' = Tail(api) /\ api \in Seq(Request) /\ msgs \in Seq(Msg)
          /\ UNCHANGED <<time, dist, pending, capsKnown>>
      BY <1>2 DEF LocApiStep, ApiSuccess, ApiFailure, ApiOpen, adapterVars, TypeOK
    <2>2. PICK r : r = Head(api)
      OBVIOUS
    <2>3. /\ Elements(api) = {r} \cup Elements(api)' /\ r \in Request
          /\ r = api[1] /\ 1 \in DOMAIN api
          /\ \A i \in DOMAIN api' : i \in Nat /\ 1 <= i /\ i + 1 \in DOMAIN api /\ api'[i] = api[i + 1]
      BY <2>1, <2>2, ElementsTail, TailPlaces
    <2>4. /\ \A i, j \in DOMAIN api' : api'[i].op = "open" /\ api'[j].op = "open" => i = j
          /\ HasOpen(api)' => HasOpen(api) /\ r.op # "open"
      <3>1. \A i, j \in DOMAIN api : api[i].op = "open" /\ api[j].op = "open" => i = j
        BY DEF MapsTrue, FirstUpInv
      <3>2. ASSUME NEW i \in DOMAIN api', NEW j \in DOMAIN api',
                   api'[i].op = "open", api'[j].op = "open"
            PROVE  i = j
        <4>1. i + 1 = j + 1 /\ i \in Nat /\ j \in Nat
          BY <2>3, <3>1, <3>2
        <4> QED
          BY <4>1
      <3>3. ASSUME NEW i \in DOMAIN api', api'[i].op = "open"
            PROVE  HasOpen(api) /\ r.op # "open"
        <4>1. i + 1 \in DOMAIN api /\ api[i + 1].op = "open" /\ i + 1 # 1
          BY <2>3, <3>3
        <4> QED
          BY <2>3, <3>1, <4>1 DEF HasOpen
      <3> QED
        BY <3>2, <3>3 DEF HasOpen
    <2>5. CASE ApiOpen
      <3> DEFINE m == [t |-> "engineUp"]
      <3>1. /\ msgs' = Append(msgs, m) /\ r.op = "open" /\ engine' = [engine EXCEPT !.up = TRUE]
        BY <2>2, <2>5 DEF ApiOpen
      <3>2. m \in Msg /\ m.t = "engineUp"
        BY DEF Msg
      <3> HIDE DEF m
      <3>3. Elements(msgs)' = Elements(msgs) \cup {m}
        BY <2>1, <3>1, <3>2, ElementsOf
      <3>4. engine'.tb = engine.tb /\ engine'.db = engine.db
        BY <3>1 DEF TypeOK
      <3>5. ~Touches(r, Engine) /\ \A id \in Ids : ~Touches(r, id)
        BY <3>1 DEF Touches, SetsRun
      <3>6. \A id \in Ids : \A kinds : Flying(kinds, id)' <=> Flying(kinds, id)
        BY <2>3, <3>1, <3>2, <3>3 DEF Flying, ReqIs, MsgIs
      <3>7. \A id \in Ids : StartWaits(id)' => StartWaits(id)
        BY <2>1, <3>2, <3>3 DEF StartWaits
      <3>8. FirstUpInv'
        <4>1. HasOpen(api) /\ ~HasUp(msgs) /\ ~capsKnown
          BY <2>3, <3>1 DEF MapsTrue, FirstUpInv, HasOpen
        <4>2. \A i \in DOMAIN msgs' : msgs'[i].t = "engineUp" => i = Len(msgs) + 1
          <5>1. \A i \in DOMAIN msgs' : i # Len(msgs) + 1 => i \in DOMAIN msgs /\ msgs'[i] = msgs[i]
            BY <2>1, <3>1, <3>2
          <5> QED
            BY <4>1, <5>1 DEF HasUp
        <4>3. \A i, j \in DOMAIN msgs' : msgs'[i].t = "engineUp" /\ msgs'[j].t = "engineUp" => i = j
          BY <4>2
        <4>4. ~HasOpen(api)'
          BY <2>4, <3>1
        <4>5. \A k \in Elements(msgs)' : k.t # "config"
          BY <3>2, <3>3 DEF MapsTrue, FirstUpInv
        <4>6. ~capsKnown' /\ \A id \in Ids : dist'[id] = None
          BY <2>1, <4>1 DEF MapsTrue, FirstUpInv
        <4> QED
          BY <2>4, <4>3, <4>4, <4>5, <4>6 DEF FirstUpInv
      <3> QED
        BY <2>1, <2>2, <3>4, <3>5, <3>6, <3>7, <3>8, TakenTrue
    <2>6. CASE ApiFailure
      <3>1. r.op # "open" /\ fails' = (IF engine.up THEN fails + 1 ELSE fails) /\ UNCHANGED ssrs
        BY <2>2, <2>6 DEF ApiFailure
      <3>2. ssrs \in Nat /\ fails \in Nat
        BY ConstantsOK DEF TypeOK
      <3>3. engine.up \/ ssrs > 0
        BY <2>3, <3>1 DEF OpenFirst
      <3> QED
        BY <3>1, <3>2, <3>3 DEF Calm
    <2>7. CASE ApiSuccess
      <3>1. r.op # "open" /\ engine' = Effect(r) /\ Respond(r, TRUE)
        BY <2>2, <2>7 DEF ApiSuccess
      <3>2. \A id \in Ids : /\ \A kinds : Flying(kinds, id)' <=> Flying(kinds, id)
                            /\ StartWaits(id)' => StartWaits(id)
        <4>1. CASE r.cont = NoCont
          <5>1. Elements(msgs)' = Elements(msgs)
            BY <3>1, <4>1 DEF Respond
          <5> QED
            BY <2>1, <2>3, <4>1, <5>1 DEF Flying, StartWaits, ReqIs
        <4>2. CASE r.cont # NoCont
          <5> DEFINE m == [t |-> "resp", cont |-> r.cont, ok |-> TRUE]
          <5>1. msgs' = Append(msgs, m)
            BY <3>1, <4>2 DEF Respond
          <5>2. m \in Msg /\ m.t = "resp" /\ m.cont = r.cont
            BY <2>3, <3>1, <4>2, RequestFields DEF Msg
          <5> HIDE DEF m
          <5>3. Elements(msgs)' = Elements(msgs) \cup {m}
            BY <2>1, <5>1, <5>2, ElementsOf
          <5>4. \A id, kinds : ReqIs(r, kinds, id) <=> MsgIs(m, kinds, id)
            BY <3>1, <4>2, <5>2 DEF ReqIs, MsgIs
          <5> QED
            BY <2>1, <2>3, <5>2, <5>3, <5>4 DEF Flying, StartWaits
        <4> QED
          BY <4>1, <4>2
      <3>3. FirstUpInv'
        <4>1. \A i \in DOMAIN msgs' : msgs'[i].t = "resp" \/ (i \in DOMAIN msgs /\ msgs'[i] = msgs[i])
          BY <2>1, <3>1 DEF Respond
        <4>2. \A i \in DOMAIN msgs' : msgs'[i].t = "engineUp" => i \in DOMAIN msgs /\ msgs'[i] = msgs[i]
          BY <4>1
        <4>3. \A i, j \in DOMAIN msgs' : msgs'[i].t = "engineUp" /\ msgs'[j].t = "engineUp" => i = j
          BY <4>2 DEF MapsTrue, FirstUpInv
        <4>4. HasUp(msgs)' => HasUp(msgs)
          BY <4>2 DEF HasUp
        <4>5. \A k \in Elements(msgs)' : k.t # "config"
          BY <4>1 DEF Elements, MapsTrue, FirstUpInv
        <4> QED
          BY <2>1, <2>4, <4>3, <4>4, <4>5 DEF MapsTrue, FirstUpInv
      <3> QED
        BY <2>1, <2>2, <2>3, <3>1, <3>2, <3>3, EffectSets, TakenTrue
    <2> QED
      BY <1>2, <2>5, <2>6, <2>7 DEF LocApiStep
  <1> QED
    BY <1>1, <1>2

-----------------------------------------------------------------------------
\* The power state is that of the maps, and only sessions that were asked for
\* get into them.
LEMMA HeadKnown ==
  ASSUME TypeOK, ForgetInv, PatientInv, OwnInv, msgs # << >>, NEW key \in Ids, HeadFor(key)
  PROVE  KnownToClient(key)
  <1> DEFINE h == Head(msgs)
  <1>1. h \in Elements(msgs) /\ h \in Msg
    BY ElementsOf, HandleType DEF TypeOK
  <1>2. MsgMatches(h) /\ MsgChanges(h) /\ (Commands(h, key) \/ MsgIs(h, Commanded, key))
    BY <1>1 DEF ForgetInv, MatchInv, OwnInv, ChangesInv, HeadFor
  <1> HIDE DEF h
  <1>3. MsgCmd(h) \in DOMAIN issued /\ issued[MsgCmd(h)].id = key
    BY <1>1, <1>2, MsgCarries
  <1> QED
    BY <1>3 DEF PatientInv

LEMMA FreshKept ==
  ASSUME FreshInv, UNCHANGED issued, NEW key, Alters(key),
         key \in Ids => Drops(key) \/ KnownToClient(key),
         reportPowerStateIfChanged \/ UNCHANGED <<time, dist, powerOn>>
  PROVE  FreshInv'
  <1>1. \A id : KnownToClient(id)' <=> KnownToClient(id)
    BY DEF KnownToClient
  <1>2. \A id \in Ids : KnownToClient(id)' \/ Nowhere(id)'
    BY <1>1 DEF FreshInv, Alters, Drops, Nowhere
  <1>3. powerOn' <=> \E id \in Ids : ~Nowhere(id)'
    <2>1. CASE reportPowerStateIfChanged
      BY <2>1 DEF reportPowerStateIfChanged, Nowhere
    <2>2. CASE UNCHANGED <<time, dist, powerOn>>
      <3>1. \A id : Nowhere(id)' <=> Nowhere(id)
        BY <2>2 DEF Nowhere
      <3> QED
        BY <2>2, <3>1 DEF FreshInv
    <2> QED
      BY <2>1, <2>2
  <1> QED
    BY <1>2, <1>3 DEF FreshInv

LEMMA HandlersFresh ==
  ASSUME TypeOK, ForgetInv, PatientInv, OwnInv, FreshInv, MsgTaskStep
  PROVE  FreshInv'
  <1>1. UNCHANGED issued
    BY DEF MsgTaskStep, ProcAddClient, ProcRemoveClientTime, ProcRemoveClient, ProcWait,
           ProcStartRejected, ProcStartDistance, ProcStartTime, ProcUpdateRejected,
           ProcUpdateTimeToDistance, ProcUpdateDistanceToTime, ProcUpdateTime,
           ProcUpdateDistance, ProcStopTime, ProcStopDistance, ProcStopUnknown, ProcEngineUp,
           ProcConfigRobustLocation, ProcStarted, ProcUpdated, ProcStopped, ProcDistStopped,
           ProcSwitched, ProcDistRestart, ProcDistRestarted, ProcIgnored, Response, clientVars
  <1>2. ASSUME UNCHANGED <<time, dist, powerOn>>
        PROVE  FreshInv'
    <2>1. Alters(0) /\ Drops(0)
      BY <1>2 DEF Alters, Drops
    <2> QED
      BY <1>1, <1>2, <2>1, FreshKept
  <1>3. ASSUME NEW id \in Ids, NEW opt, saveTrackingSession(id, opt), KnownToClient(id)
        PROVE  FreshInv'
    <2>1. Alters(id) /\ reportPowerStateIfChanged
      BY <1>3, SavesAlters DEF saveTrackingSession
    <2> QED
      BY <1>1, <1>3, <2>1, FreshKept
  <1>4. ASSUME NEW id \in Ids, eraseTrackingSession(id)
        PROVE  FreshInv'
    <2>1. Alters(id) /\ Drops(id) /\ reportPowerStateIfChanged
      BY <1>4, ErasesDrops DEF eraseTrackingSession
    <2> QED
      BY <1>1, <2>1, FreshKept
  <1>5. CASE \/ ProcAddClient \/ ProcRemoveClient \/ ProcWait \/ ProcStartRejected
             \/ ProcUpdateRejected \/ ProcUpdateDistance \/ ProcStopDistance \/ ProcStopUnknown
             \/ ProcEngineUp \/ ProcConfigRobustLocation \/ ProcStopped \/ ProcDistRestart
             \/ ProcIgnored
    <2>1. UNCHANGED <<time, dist, powerOn>>
      BY <1>5 DEF ProcAddClient, ProcRemoveClient, ProcWait, ProcStartRejected,
                  ProcUpdateRejected, ProcUpdateDistance, ProcStopDistance, ProcStopUnknown,
                  ProcEngineUp, ProcConfigRobustLocation, ProcStopped, ProcDistRestart,
                  ProcIgnored, adapterVars
    <2> QED
      BY <1>2, <2>1
  <1>6. CASE ProcRemoveClientTime
    <2>1. PICK id \in TimeIds : eraseTrackingSession(id)
      BY <1>6 DEF ProcRemoveClientTime
    <2> QED
      BY <1>4, <2>1, SessionOptions
  <1>7. ASSUME NEW t \in {"start", "update", "stop"}, Handle(t)
        PROVE  Head(msgs).id \in Ids /\ KnownToClient(Head(msgs).id)
    BY <1>7, CommandHead, HeadKnown
  <1>8. CASE \/ ProcStartDistance \/ ProcStartTime \/ ProcUpdateTime
    <2>1. Handle("start") \/ Handle("update")
      BY <1>8 DEF ProcStartDistance, ProcStartTime, ProcUpdateTime, UpdateAccepted
    <2>2. PICK id, opt : id = Head(msgs).id /\ saveTrackingSession(id, opt)
      BY <1>8 DEF ProcStartDistance, ProcStartTime, ProcUpdateTime
    <2> QED
      BY <1>3, <1>7, <2>1, <2>2
  <1>9. CASE ProcUpdateDistanceToTime \/ ProcStopTime
    <2>1. Handle("update") \/ Handle("stop")
      BY <1>9 DEF ProcUpdateDistanceToTime, ProcStopTime, UpdateAccepted
    <2>2. PICK id : id = Head(msgs).id /\ eraseTrackingSession(id)
      BY <1>9 DEF ProcUpdateDistanceToTime, ProcStopTime
    <2> QED
      BY <1>4, <1>7, <2>1, <2>2
  <1>10. CASE ProcUpdateTimeToDistance
    <2>1. Handle("update") /\ reportPowerStateIfChanged
      BY <1>10 DEF ProcUpdateTimeToDistance, UpdateAccepted
    <2>2. PICK id, f, g : /\ id = Head(msgs).id
                          /\ time' = [time EXCEPT ![id] = f] /\ dist' = [dist EXCEPT ![id] = g]
      BY <1>10 DEF ProcUpdateTimeToDistance
    <2>3. id \in Ids /\ KnownToClient(id)
      BY <1>7, <2>1, <2>2
    <2>4. Alters(id)
      BY <2>2 DEF Alters, TypeOK
    <2> QED
      BY <1>1, <2>1, <2>3, <2>4, FreshKept
  <1>11. ASSUME NEW k, Response(k), k # "ignore"
         PROVE  /\ TheCont.id \in Ids
                /\ k \in Commanded => KnownToClient(TheCont.id)
    <2>1. /\ msgs # << >> /\ TheCont.id \in Ids /\ TheCont.k = k /\ Head(msgs).t = "resp"
      BY <1>11, HeadCont
    <2>2. k \in Commanded => HeadFor(TheCont.id)
      BY <1>11, <2>1 DEF HeadFor, MsgIs, TheCont
    <2> QED
      BY <2>1, <2>2, HeadKnown
  <1>12. CASE ProcStarted \/ ProcDistStopped
    <2>1. PICK k : Response(k) /\ k # "ignore"
      BY <1>12 DEF ProcStarted, ProcDistStopped
    <2>2. eraseTrackingSession(TheCont.id) \/ UNCHANGED <<time, dist, powerOn>>
      BY <1>12 DEF ProcStarted, ProcDistStopped
    <2> HIDE DEF TheCont
    <2> QED
      BY <1>2, <1>4, <1>11, <2>1, <2>2
  <1>13. CASE ProcUpdated \/ ProcDistRestarted \/ ProcSwitched
    <2>1. PICK k : Response(k) /\ k \in Commanded /\ k # "ignore"
      BY <1>13 DEF ProcUpdated, ProcDistRestarted, ProcSwitched, Commanded, Distances
    <2>2. (\E opt : saveTrackingSession(TheCont.id, opt)) \/ UNCHANGED <<time, dist, powerOn>>
      BY <1>13 DEF ProcUpdated, ProcDistRestarted, ProcSwitched
    <2> QED
      BY <1>2, <1>3, <1>11, <2>1, <2>2
  <1> QED
    BY <1>5, <1>6, <1>8, <1>9, <1>10, <1>12, <1>13 DEF MsgTaskStep

LEMMA NextFresh ==
  ASSUME TypeOK, ForgetInv, PatientInv, OwnInv, FreshInv, [Next]_vars
  PROVE  FreshInv'
  <1>1. CASE MsgTaskStep
    BY <1>1, HandlersFresh
  <1>2. CASE ClientStep \/ LocApiStep \/ ModemCrash \/ UNCHANGED vars
    <2>1. UNCHANGED <<time, dist, powerOn>>
      BY <1>2 DEF ClientStep, addClientCommand, removeClientCommand, configRobustLocationCommand,
             startTrackingCommand, updateTrackingOptionsCommand, stopTrackingCommand,
             LocApiStep, ApiSuccess, ApiFailure, ApiOpen, ModemCrash, adapterVars, vars
    <2>2. \A id : KnownToClient(id) => KnownToClient(id)'
      <3> DEFINE Issued == [op : {"start", "update", "stop"}, id : Ids, valid : BOOLEAN]
      <3>1. \/ UNCHANGED issued
            \/ \E op \in {"start", "update", "stop"}, id \in Ids, valid \in BOOLEAN :
                 Issue(op, id, valid)
        BY <1>2 DEF ClientStep, addClientCommand, removeClientCommand,
             configRobustLocationCommand, startTrackingCommand, updateTrackingOptionsCommand,
             stopTrackingCommand, LocApiStep, ApiSuccess, ApiFailure, ApiOpen, ModemCrash,
             clientVars, vars
      <3>2. \A i \in DOMAIN issued : i \in DOMAIN issued' /\ issued'[i] = issued[i]
        <4>1. UNCHANGED issued \/ \E i \in Issued : issued' = Append(issued, i)
          BY <3>1 DEF Issue
        <4> HIDE DEF Issued
        <4>2. issued \in Seq(Issued)
          BY DEF TypeOK, Issued
        <4> QED
          BY <4>1, <4>2
      <3> QED
        BY <3>2 DEF KnownToClient
    <2>3. \A id : Nowhere(id)' <=> Nowhere(id)
      BY <2>1 DEF Nowhere
    <2> QED
      BY <2>1, <2>2, <2>3 DEF FreshInv
  <1> QED
    BY <1>1, <1>2 DEF Next

LEMMA NextTruth ==
  ASSUME TypeOK, AnswerInv, ForgetInv, PatientInv, OwnInv, TruthInv, DistanceSupported,
         [Next]_vars
  PROVE  TruthInv'
  <1>1. FreshInv /\ FreshInv'
    BY NextFresh DEF TruthInv
  <1>2. ASSUME Calm'
        PROVE  MapsTrue'
    <2>1. Calm
      <3>1. fails \in Nat /\ ssrs \in Nat /\ configs \in Nat
        BY ConstantsOK DEF TypeOK
      <3>2. CASE MsgTaskStep \/ UNCHANGED vars
        <4>1. UNCHANGED <<fails, ssrs, configs>>
          BY <3>2 DEF vars, modemVars, clientVars, MsgTaskStep, ProcAddClient,
             ProcRemoveClientTime, ProcRemoveClient, ProcWait, ProcStartRejected,
             ProcStartDistance, ProcStartTime, ProcUpdateRejected, ProcUpdateTimeToDistance,
             ProcUpdateDistanceToTime, ProcUpdateTime, ProcUpdateDistance, ProcStopTime,
             ProcStopDistance, ProcStopUnknown, ProcEngineUp, ProcConfigRobustLocation,
             ProcStarted, ProcUpdated, ProcStopped, ProcDistStopped, ProcSwitched,
             ProcDistRestart, ProcDistRestarted, ProcIgnored, Response
        <4> QED
          BY <1>2, <4>1 DEF Calm
      <3>3. CASE ClientStep \/ LocApiStep \/ ModemCrash
        <4>1. /\ UNCHANGED fails \/ fails' = fails + 1
              /\ UNCHANGED ssrs \/ ssrs' = ssrs + 1
              /\ UNCHANGED configs \/ configs' = configs + 1
          BY <3>3 DEF ClientStep, addClientCommand, removeClientCommand,
             configRobustLocationCommand, startTrackingCommand, updateTrackingOptionsCommand,
             stopTrackingCommand, LocApiStep, ApiSuccess, ApiFailure, ApiOpen, ModemCrash,
             modemVars, clientVars
        <4> QED
          BY <1>2, <3>1, <4>1 DEF Calm
      <3> QED
        BY <3>2, <3>3 DEF Next
    <2>2. MapsTrue
      BY <2>1 DEF TruthInv
    <2>3. CASE ClientStep
      BY <1>1, <1>2, <2>2, <2>3, ClientTrue
    <2>4. CASE MsgTaskStep
      BY <2>1, <2>2, <2>4, OthersTrue, RemovesTrue, StartTrue, UpdateTrue, StopTrue,
         ResponsesTrue DEF MsgTaskStep, ProcResponse
    <2>5. CASE LocApiStep \/ ModemCrash
      BY <1>2, <2>1, <2>2, <2>5, ModemTrue DEF ForgetInv
    <2>6. CASE UNCHANGED vars
      <3> USE DEF vars, adapterVars, clientVars, modemVars
      <3>1. FirstUpInv'
        BY <2>2, <2>6 DEF MapsTrue, FirstUpInv, HasUp, HasOpen
      <3>2. EngineTrue'
        BY <2>2, <2>6 DEF MapsTrue, EngineTrue, EndsOn, TimeIds
      <3>3. ASSUME NEW id \in Ids
            PROVE  SessionTrue(id)'
        BY <2>2, <2>6 DEF MapsTrue, SessionTrue, EndsOn, Flying, StartWaits, Nowhere
      <3> QED
        BY <3>1, <3>2, <3>3 DEF MapsTrue
    <2> QED
      BY <2>3, <2>4, <2>5, <2>6 DEF Next
  <1> QED
    BY <1>1, <1>2 DEF TruthInv

LEMMA InitTruth == Init => TruthInv
  <1> SUFFICES ASSUME Init PROVE TruthInv
    OBVIOUS
  <1>1. /\ api = <<[op |-> "open"]>> /\ msgs = << >> /\ pending = << >>
        /\ powerOn = FALSE /\ capsKnown = FALSE
        /\ engine = [up |-> FALSE, tb |-> None, db |-> {}]
        /\ \A id \in Ids : time[id] = None /\ dist[id] = None
    BY DEF Init
  <1>2. /\ DOMAIN api = {1} /\ api[1].op = "open" /\ Elements(msgs) = {} /\ Elements(pending) = {}
        /\ DOMAIN msgs = {} /\ Elements(api) = {[op |-> "open"]} /\ TimeIds = {}
    BY <1>1 DEF Elements, TimeIds
  <1>3. \A id \in Ids : Nowhere(id)
    BY <1>1 DEF Nowhere
  <1>4. FreshInv
    BY <1>1, <1>3 DEF FreshInv
  <1>5. FirstUpInv
    BY <1>1, <1>2 DEF FirstUpInv, HasUp, HasOpen
  <1>6. \A x : \A i \in DOMAIN api : ~Touches(api[i], x)
    BY <1>2 DEF Touches, SetsRun
  <1>7. EngineTrue
    BY <1>1, <1>2, <1>6 DEF EngineTrue, EndsOn, LastTouch
  <1>8. \A id \in Ids : \A kinds : ~Flying(kinds, id)
    BY <1>2 DEF Flying, ReqIs
  <1>9. ASSUME NEW id \in Ids
        PROVE  SessionTrue(id)
    <2>1. EndsOn(api, id, id \in engine.db, dist[id] # None /\ ~Flying(StopKinds, id))
      BY <1>1, <1>6 DEF EndsOn, LastTouch
    <2> QED
      BY <1>1, <1>2, <1>3, <1>8, <2>1 DEF SessionTrue
  <1> QED
    BY <1>4, <1>5, <1>7, <1>9 DEF TruthInv, MapsTrue

\* The power state reported to the framework is the truth about the modem, when
\* clients wait for their answers and the modem knows distance based tracking:
\* once the queues have drained it runs a session iff mPowerOn says so, its time
\* based session is there iff the map has one, its distance sessions are those of
\* the map, and no session is in both, whatever commands were queued, waited for
\* the engine or switched sessions from one kind to the other, as long as no
\* request fails, the modem does not crash and its configuration stays.
THEOREM PowerStateReported ==
  Patient /\ DistanceSupported => (Spec => []PowerStateTrue)
  <1> SUFFICES ASSUME Patient, DistanceSupported PROVE Spec => []PowerStateTrue
    OBVIOUS
  <1> DEFINE Inv == TypeOK /\ AnswerInv /\ ForgetInv /\ PatientInv /\ OwnInv /\ TruthInv
  <1>1. Inv => PowerStateTrue
    <2> SUFFICES ASSUME TypeOK, TruthInv, Quiescent, fails = 0, ssrs = 0, configs = 0
                 PROVE  /\ powerOn <=> engine.tb # None \/ engine.db # {}
                        /\ TimeIds = {} <=> engine.tb = None
                        /\ engine.db = DistIds
                        /\ TimeIds \cap DistIds = {}
      BY DEF PowerStateTrue
    <2>1. MapsTrue /\ FreshInv
      BY DEF TruthInv, Calm
    <2>2. DOMAIN api = {} /\ Elements(msgs) = {} /\ Elements(api) = {}
      BY DEF Quiescent, Elements
    <2>3. engine.tb # None <=> TimeIds # {}
      BY <2>1, <2>2 DEF MapsTrue, EngineTrue, EndsOn, Untouched
    <2>4. \A id \in Ids : (id \in engine.db <=> dist[id] # None) /\ (time[id] = None \/ dist[id] = None)
      <3>1. \A id \in Ids : ~Flying(StopKinds, id)
        BY <2>2 DEF Flying
      <3> QED
        BY <2>1, <2>2, <3>1 DEF MapsTrue, SessionTrue, EndsOn, Untouched
    <2>5. engine.db \subseteq Ids
      BY DEF TypeOK
    <2>6. engine.db = DistIds /\ TimeIds \cap DistIds = {}
      BY <2>4, <2>5 DEF DistIds, TimeIds
    <2>7. powerOn <=> TimeIds # {} \/ DistIds # {}
      BY <2>1 DEF FreshInv, Nowhere, TimeIds, DistIds
    <2> QED
      BY <2>3, <2>6, <2>7
  <1>2. Init => Inv
    BY InitType, InitOnce, InitForgets, InitOwned, InitTruth
  <1>3. Inv /\ [Next]_vars => Inv'
    BY NextType, NextOnce, NextForgets, NextPatient, NextOwned, NextTruth
  <1> HIDE DEF Inv
  <1> QED
    BY <1>1, <1>2, <1>3, PTL DEF Spec
=============================================================================
