----------------------------- MODULE DirectWake -----------------------------
(***************************************************************************)
(* The direct transport: read the material of the credential, send one     *)
(* request over host.http.do, repeat it while the provider answers 401,    *)
(* judge the answer, and decide whether to fall back on the scheduler.     *)
(*                                                                         *)
(* The decision is read from the text of the failure.  Of a text only the  *)
(* phrase matters that the two lists of markers are searched for.          *)
(***************************************************************************)
EXTENDS WakePath

\* The failures of wakeDirect: the call failed; the answer of the provider is
\* no success, in the words of a listed marker or of none (an Antigravity
\* answer without candidates); the material cannot be read, or is of no use.
Messages == {"upstream", "refused", "noCandidates", "material", "protocol"}
BusinessMarkers == {"refused", "protocol"}

\* Of the three phrases of the list only one is still in use: wakeDirect now
\* says of material it cannot read something else.
TransportMarkers_AnyFailure == Messages
TransportMarkers == {"upstream"}

\* shouldFallbackToSchedulerBoost, asked on the direct path only.
FallsBack(message) ==
  /\ config.fallback
  /\ message \notin BusinessMarkers
  /\ message \in TransportMarkers

\* A failure of the direct call: the boost path starts from a clean result.
Fail(c, message) ==
  /\ tries' = [tries EXCEPT ![c] = 0]
  /\ IF FallsBack(message) THEN Goto(c, "boost") /\ UNCHANGED result
     ELSE Store(c, "failed", "ended")

\* One pass over the listing and the keys of the credential; the pause before
\* the next one ends with the context.
Material(c) ==
  /\ pc[c] = "material"
  /\ \/ /\ ~cancelled[c]
        /\ \/ Goto(c, "send") /\ tries' = [tries EXCEPT ![c] = 0] /\ UNCHANGED result
           \/ Fail(c, "protocol")
     \/ /\ ~cancelled[c] /\ tries[c] + 1 < MaterialAttempts
        /\ tries' = [tries EXCEPT ![c] = @ + 1]
        /\ UNCHANGED <<pc, result>>
     \/ Fail(c, "material")
  /\ UNCHANGED <<setup, hostVars, cancelled, boostVars, call, verdict>>

Send(c) ==
  /\ pc[c] = "send"
  /\ \/ ~cancelled[c] /\ Goto(c, "sent") /\ UNCHANGED <<tries, result>>
     \/ Fail(c, "upstream")
  /\ UNCHANGED <<setup, hostVars, cancelled, boostVars, call, verdict>>

Decides(c) == verdict' = [verdict EXCEPT ![c] = TRUE]

\* The provider wakes the credential and its answer arrives.
DirectAccepted(c) ==
  /\ pc[c] = "sent"
  /\ Decides(c)
  /\ Store(c, "success", "ended")
  /\ UNCHANGED <<setup, hostVars, cancelled, tries, boostVars, call>>

\* The call fails, before or after the provider has done its work.
DirectLost(c) ==
  /\ pc[c] = "sent"
  /\ Fail(c, "upstream")
  /\ UNCHANGED <<setup, hostVars, cancelled, boostVars, call, verdict>>

LastTry_OneMore(c) == tries[c] = MaxUnauthorized
LastTry(c) == tries[c] + 1 = MaxUnauthorized

\* 401: again after a pause, and after the last one a skip.
Unauthorized(c) ==
  /\ pc[c] = "sent"
  /\ verdict' = [verdict EXCEPT ![c] = tries[c] + 1 >= MaxUnauthorized]
  /\ IF LastTry(c)
     THEN Store(c, "skipped", "ended") /\ UNCHANGED tries
     ELSE \/ /\ tries' = [tries EXCEPT ![c] = @ + 1]
             /\ Goto(c, "send")
             /\ UNCHANGED result
          \/ Fail(c, "upstream")
  /\ UNCHANGED <<setup, hostVars, cancelled, boostVars, call>>

\* Any other answer that is no success.
DirectRefused(c) ==
  /\ pc[c] = "sent"
  /\ Decides(c)
  /\ \E message \in {"refused", "noCandidates"} : Fail(c, message)
  /\ UNCHANGED <<setup, hostVars, cancelled, boostVars, call>>

DirectStep(c) ==
  \/ Material(c) \/ Send(c) \/ DirectAccepted(c) \/ DirectLost(c)
  \/ Unauthorized(c) \/ DirectRefused(c)
=============================================================================
