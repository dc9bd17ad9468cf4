---------------------------- MODULE NiRequests ----------------------------
(***************************************************************************)
(* Network initiated requests (GnssAdapter.cpp): the modem asks whether    *)
(* the device may be located, the adapter decides or asks the user, and a  *)
(* thread spawned for the request waits for the user's answer or for a     *)
(* time out.  A session (one for SUPL, one for emergency SUPL) is shared   *)
(* by the adapter's thread and by the threads of its requests, under a     *)
(* lock that the adapter takes only around some of its accesses.           *)
(* The modem and the user are external.                                    *)
(***************************************************************************)
EXTENDS Naturals, Sequences, FiniteSets, Pointers

CONSTANTS MaxNi,       \* bound: requests of the modem
          MaxNiMsgs    \* bound: the user and the modem wait at this many messages
ASSUME NiAssumption == MaxNi \in Nat /\ MaxNiMsgs \in Nat

Requests == 1 .. MaxNi
NiSessions == {"session", "sessionEs"}
UserAnswers == {"ACCEPT", "DENY"}

VARIABLES
  niSession,   \* NiData: rawRequest, reqID, respRecvd, and resp with the id it answers
  reqIDCounter,
  niThreads,   \* threads of requests: waiting, or past the unlock with what they send
  gnssNiCb,    \* some client has the callback
  niMsgs,      \* messages of the adapter's thread
  answering,   \* the answer between the test of its session and the lock, or Null
  asked,       \* requests the modem made
  shown,       \* ids shown to the user and not answered yet
  ended        \* how each request ended: what the modem was told, or "freed"

niVars == <<niSession, reqIDCounter, niThreads, gnssNiCb, niMsgs, answering, asked, shown, ended>>

NoAnswer == [to |-> 0, resp |-> "NO_RESPONSE"]
NiInit ==
  /\ niSession = [s \in NiSessions |-> [rawRequest |-> Null, reqID |-> 0, respRecvd |-> FALSE, resp |-> NoAnswer]]
  /\ reqIDCounter = 0 /\ niThreads = {} /\ gnssNiCb = FALSE /\ niMsgs = <<>> /\ answering = Null
  /\ asked = 0 /\ shown = {} /\ ended = [r \in Requests |-> {}]

NMsg(op, r, type, answer) == [op |-> op, request |-> r, type |-> type, answer |-> answer]
Busy(s) == niSession[s].rawRequest # Null
NiRoom == Len(niMsgs) < MaxNiMsgs
End(r, how) == ended' = [ended EXCEPT ![r] = @ \cup {how}]

\* External: the modem asks; the user answers, once, what was shown.
requestNiNotifyEvent(type) ==
  /\ NiRoom /\ asked < MaxNi /\ asked' = asked + 1
  /\ niMsgs' = Append(niMsgs, NMsg("notify", asked + 1, type, NoAnswer))
  /\ UNCHANGED <<niSession, reqIDCounter, niThreads, gnssNiCb, answering, shown, ended>>
UserAnswer(id, resp) ==
  /\ NiRoom /\ id \in shown /\ shown' = shown \ {id}
  /\ niMsgs' = Append(niMsgs, NMsg("answer", 0, "supl", [to |-> id, resp |-> resp]))
  /\ UNCHANGED <<niSession, reqIDCounter, niThreads, gnssNiCb, answering, asked, ended>>
SetNiCallback ==
  /\ gnssNiCb' = ~gnssNiCb
  /\ UNCHANGED <<niSession, reqIDCounter, niThreads, niMsgs, answering, asked, shown, ended>>

Reply(s, answer) == [niSession EXCEPT ![s].resp = answer, ![s].respRecvd = TRUE]
Ignore == [to |-> 0, resp |-> "IGNORE"]
\* Emergency state, lock and configuration decide: refuse, accept, ask the user.
TakeNi == answering = Null /\ niMsgs # <<>> /\ niMsgs' = Tail(niMsgs)
informNiResponse(r, resp) == End(r, resp)
Decide ==
  /\ TakeNi /\ Head(niMsgs).op = "notify"
  /\ LET m == Head(niMsgs)
     IN informNiResponse(m.request, IF m.type = "control_plane" THEN "ACCEPT" ELSE "DENY")
  /\ UNCHANGED <<niSession, reqIDCounter, niThreads, gnssNiCb, answering, asked, shown>>
\* What a handler has tested and is about to write: its session gets the answer,
\* and the other one is to be ignored or not.
Writing(s, answer, other) == [session |-> s, answer |-> answer, other |-> other]
\* Nobody to ask: an accepted emergency ends the other session's request; any
\* other request is left without an answer.
NobodyToAsk ==
  /\ TakeNi /\ Head(niMsgs).op = "notify" /\ ~gnssNiCb
  /\ IF Head(niMsgs).type = "supl_es"
     THEN /\ informNiResponse(Head(niMsgs).request, "ACCEPT")
          /\ answering' = IF Busy("session") THEN Writing("session", Ignore, FALSE) ELSE Null
     ELSE UNCHANGED <<ended, answering>>
  /\ UNCHANGED <<niSession, reqIDCounter, niThreads, gnssNiCb, asked, shown>>
SessionOf(type) == IF type = "supl_es" THEN "sessionEs" ELSE "session"
Occupied(type) == Busy("sessionEs") \/ (type # "supl_es" /\ Busy("session"))
\* A request while one is in progress is freed; otherwise it gets a thread.
requestNiNotify ==
  /\ TakeNi /\ Head(niMsgs).op = "notify" /\ gnssNiCb
  /\ LET m == Head(niMsgs)  s == SessionOf(m.type)
     IN IF Occupied(m.type)
        THEN End(m.request, "freed") /\ UNCHANGED <<niSession, reqIDCounter, niThreads, shown>>
        ELSE /\ reqIDCounter' = reqIDCounter + 1 /\ shown' = shown \cup {reqIDCounter + 1}
             /\ niSession' = [niSession EXCEPT ![s].rawRequest = m.request, ![s].reqID = reqIDCounter + 1]
             /\ niThreads' = niThreads \cup {[session |-> s, of |-> reqIDCounter + 1, waits |-> TRUE, sends |-> Null]}
             /\ UNCHANGED ended
  /\ UNCHANGED <<gnssNiCb, answering, asked>>

\* The user's answer: the session is tested first, then locked and written.
Matching(id) == {s \in NiSessions : Busy(s) /\ niSession[s].reqID = id}
gnssNiResponseCommand ==
  /\ TakeNi /\ Head(niMsgs).op = "answer"
  /\ LET a == Head(niMsgs).answer
     IN answering' =
          IF ~gnssNiCb \/ Matching(a.to) = {} THEN Null
          ELSE IF "sessionEs" \in Matching(a.to)
               THEN Writing("sessionEs", a, a.resp = "ACCEPT" /\ Busy("session"))
               ELSE Writing("session", a, FALSE)
  /\ UNCHANGED <<niSession, reqIDCounter, niThreads, gnssNiCb, asked, shown, ended>>
\* An accepted emergency makes the other session's request be ignored.
WriteAnswer ==
  /\ answering # Null /\ answering' = Null
  /\ niSession' = [s \in NiSessions |->
                     IF s = answering.session THEN Reply(s, answering.answer)[s]
                     ELSE IF answering.other THEN Reply(s, Ignore)[s] ELSE niSession[s]]
  /\ UNCHANGED <<reqIDCounter, niThreads, gnssNiCb, niMsgs, asked, shown, ended>>

\* niThreadProc up to the unlock, with an answer or after the time (a time out
\* that races with the answer overwrites it); then what it writes without the
\* lock, and the message with the answer.
Finish(t, resp) ==
  LET r == niSession[t.session].rawRequest
      sends == IF r = Null \/ resp.resp = "IGNORE" THEN Null ELSE [request |-> r, answer |-> resp]
  IN /\ niThreads' = (niThreads \ {t}) \cup {[t EXCEPT !.waits = FALSE, !.sends = sends]}
     /\ niSession' = [niSession EXCEPT ![t.session] =
                        [@ EXCEPT !.rawRequest = Null, !.respRecvd = FALSE, !.resp = resp]]
     /\ IF r # Null /\ sends = Null THEN End(r, "freed") ELSE UNCHANGED ended
Answered(t) == niSession[t.session].respRecvd /\ Finish(t, niSession[t.session].resp)
TimedOutQuietly(t) == niThreads' = niThreads \ {t} /\ UNCHANGED <<niSession, ended>>
TimedOut(t) == Finish(t, NoAnswer)
niThreadProc(t) ==
  /\ t.waits /\ (Answered(t) \/ TimedOut(t))
  /\ UNCHANGED <<reqIDCounter, gnssNiCb, niMsgs, answering, asked, shown>>
NiThreadEnds(t) ==
  /\ ~t.waits /\ niThreads' = niThreads \ {t}
  /\ niSession' = [niSession EXCEPT ![t.session].reqID = 0]
  /\ niMsgs' = IF t.sends = Null THEN niMsgs
               ELSE Append(niMsgs, NMsg("tell", t.sends.request, "supl", t.sends.answer))
  /\ UNCHANGED <<reqIDCounter, gnssNiCb, answering, asked, shown, ended>>
Tell ==
  /\ TakeNi /\ Head(niMsgs).op = "tell"
  /\ informNiResponse(Head(niMsgs).request, Head(niMsgs).answer.resp)
  /\ UNCHANGED <<niSession, reqIDCounter, niThreads, gnssNiCb, answering, asked, shown>>

NiAdapter == Decide \/ NobodyToAsk \/ requestNiNotify \/ gnssNiResponseCommand \/ WriteAnswer \/ Tell
NiThread == \E t \in niThreads : niThreadProc(t) \/ NiThreadEnds(t)
NiNext ==
  \/ \E type \in {"supl", "supl_es", "control_plane"} : requestNiNotifyEvent(type)
  \/ \E id \in shown, resp \in UserAnswers : UserAnswer(id, resp)
  \/ SetNiCallback \/ NiAdapter \/ NiThread

\* A request that a session holds is in the end answered or freed, whatever
\* answers come late, early or not at all (GnssAdapter.cpp:4041, :4129).
NiEnds ==
  \A r \in Requests :
    (\E s \in NiSessions : niSession[s].rawRequest = r) ~> (ended[r] # {})

\* What the modem is told of a request is what the user answered to that one
\* ("Reset the user response flag for the next session", GnssAdapter.cpp:4054).
NiAnswerOwn ==
  \A t \in niThreads :
    t.sends # Null => t.sends.answer.to \in {0, t.of}
=============================================================================
