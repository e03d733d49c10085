--------------------------- MODULE PriorityBoost ---------------------------
(***************************************************************************)
(* The scheduler transport: raise the credential over its peers, confirm   *)
(* that the host routes by it, ask the host for one completion, and put    *)
(* the old document back.  A lock of the provider is held from the second  *)
(* listing to the restore.                                                 *)
(*                                                                         *)
(* Everything up to the confirmation, and the rollback, runs in the parent *)
(* context of the activation; the completion adds the request timeout to   *)
(* it; the restore runs in a context nobody cancels.                       *)
(***************************************************************************)
EXTENDS WakePath

\* A host call fails when its context is over, or for reasons of the host.
Refusable(c) == cancelled[c] \/ HostMayRefuse

\* The lock is freed, and what was read under it forgotten.
Unlock(c) ==
  /\ lock' = None
  /\ copy' = [copy EXCEPT ![c] = Stub]
  /\ seen' = [seen EXCEPT ![c] = Unseen]
  /\ written' = [written EXCEPT ![c] = FALSE]

\* An error of the boost is the result of the activation.
Abort(c) == Unlock(c) /\ Store(c, "failed", "ended")

-----------------------------------------------------------------------------
(* What a listing says *)

\* providerMaxPriorityStats
Top == CHOOSE p \in {Listed(a) : a \in Auths} : \A a \in Auths : Listed(a) <= p
PeersAtTop == {a \in Auths : Listed(a) = Top}
Stats(a) ==
  [top |-> Top, tied |-> Cardinality(PeersAtTop) >= 2, own |-> Listed(a)]

NeedsBoost(priority, stats) ==
  priority < stats.top \/ (priority = stats.top /\ stats.tied)

Boosted(c) == IF seen[c].top + 1 < Floor THEN Floor ELSE seen[c].top + 1

\* uniqueTopInProvider: no peer is listed at or over the confirmed priority.
UniqueTop(c) == \A a \in Auths \ {AuthOf(c)} : Listed(a) < Boosted(c)

-----------------------------------------------------------------------------
(* Up to the save *)

\* The first listing finds the provider, and with it the lock.  A credential
\* the host does not list is asked for as it is, without lock and boost.
BoostList(c) ==
  /\ pc[c] = "boost"
  /\ \/ ~cancelled[c] /\ Goto(c, "lock") /\ UNCHANGED result
     \/ ~cancelled[c] /\ c \in Unlisted /\ Goto(c, "execute") /\ UNCHANGED result
     \/ Refusable(c) /\ Store(c, "failed", "ended")
  /\ UNCHANGED <<setup, hostVars, cancelled, tries, boostVars, call, verdict>>

\* The wait for the lock does not end with the context.
TakeLock(c) ==
  /\ pc[c] = "lock"
  /\ lock = None
  /\ lock' = c
  /\ Goto(c, "relist")
  /\ UNCHANGED <<setup, hostVars, cancelled, tries, copy, seen, written, unsaved,
                 call, outcomeVars>>

\* The document in hand decides: no stub is ever written.  A document without
\* a priority counts as one of the priority that was listed, and is put back
\* with it.
LooksFull_Skipped(document) == TRUE
LooksFull(document) == document.whole

Decide(c, document, stats) ==
  LET current == PriorityIn(document, stats.own) IN
  IF ~LooksFull(document) THEN Abort(c)
  ELSE /\ copy' = [copy EXCEPT ![c] = [document EXCEPT !.priority = current]]
       /\ seen' = [seen EXCEPT ![c] = stats]
       /\ Goto(c, IF NeedsBoost(current, stats) THEN "save" ELSE "execute")
       /\ UNCHANGED <<lock, written, result>>

Relist(c) ==
  LET a == AuthOf(c) IN
  /\ pc[c] = "relist"
  /\ \/ /\ ~cancelled[c] /\ c \in Unlisted
        /\ Unlock(c)
        /\ Goto(c, "execute")
        /\ UNCHANGED result
     \/ /\ ~cancelled[c]
        /\ ~NeedsBoost(Listed(a), Stats(a))
        /\ Goto(c, "execute")
        /\ UNCHANGED <<lock, copy, seen, written, result>>
     \/ /\ ~cancelled[c]
        /\ NeedsBoost(Listed(a), Stats(a))
        /\ \/ Decide(c, doc[a], Stats(a))
           \/ /\ a \in Stubbed
              /\ seen' = [seen EXCEPT ![c] = Stats(a)]
              /\ Goto(c, "read")
              /\ UNCHANGED <<lock, copy, written, result>>
     \/ Refusable(c) /\ Abort(c)
  /\ UNCHANGED <<setup, hostVars, cancelled, tries, unsaved, call, verdict>>

\* loadPhysicalAuthJSON: for a stub the file itself, or the stub as it is.
Read(c) ==
  /\ pc[c] = "read"
  /\ \/ ~cancelled[c] /\ Decide(c, doc[AuthOf(c)], seen[c])
     \/ Refusable(c) /\ Decide(c, Stub, seen[c])
  /\ UNCHANGED <<setup, hostVars, cancelled, tries, unsaved, call, verdict>>

\* A save the host reports as failed is never undone, done or not.
SaveBoost(c) ==
  LET boosted == [copy[c] EXCEPT !.priority = Boosted(c)] IN
  /\ pc[c] = "save"
  /\ \/ /\ ~cancelled[c]
        /\ Write(AuthOf(c), boosted)
        /\ written' = [written EXCEPT ![c] = TRUE]
        /\ Goto(c, "confirm")
        /\ UNCHANGED <<lock, copy, seen, result, unsaved>>
     \/ Refusable(c) /\ Abort(c) /\ UNCHANGED <<doc, unsaved>>
     \/ /\ ~cancelled[c] /\ HostMayRefuse
        /\ Write(AuthOf(c), boosted)
        /\ unsaved' = unsaved \cup {c}
        /\ Abort(c)
  /\ UNCHANGED <<setup, index, cancelled, tries, call, verdict>>

-----------------------------------------------------------------------------
(* Confirmation and rollback *)

\* One attempt has failed.  The next one comes after a pause, which ends at
\* once in a context that is over.
Retry(c) ==
  IF tries[c] + 1 = BoostConfirmAttempts \/ cancelled[c]
  THEN Goto(c, "rollback") /\ tries' = [tries EXCEPT ![c] = 0]
  ELSE Goto(c, "confirm") /\ tries' = [tries EXCEPT ![c] = @ + 1]

\* readRuntimePriority: what the host routes by, or, where that is 0 and the
\* answer carries the document, the priority in it.
Runtime_Saved(a) == {PriorityIn(doc[a], 0)}
Runtime(a) == {index[a], Listed(a)}

\* The runtime must show the boosted priority...
Confirm(c) ==
  /\ pc[c] = "confirm"
  /\ \E priority \in Runtime(AuthOf(c)) :
       \/ /\ ~cancelled[c]
          /\ priority >= Boosted(c)
          /\ Goto(c, "confirmList")
          /\ UNCHANGED tries
       \/ Retry(c) /\ (Refusable(c) \/ priority < Boosted(c))
  /\ UNCHANGED <<setup, hostVars, cancelled, boostVars, call, outcomeVars>>

\* ...and a listing must show no peer up there.
ConfirmList(c) ==
  /\ pc[c] = "confirmList"
  /\ \/ /\ ~cancelled[c]
        /\ UniqueTop(c)
        /\ Goto(c, "execute")
        /\ tries' = [tries EXCEPT ![c] = 0]
     \/ Retry(c) /\ (Refusable(c) \/ ~UniqueTop(c))
  /\ UNCHANGED <<setup, hostVars, cancelled, boostVars, call, outcomeVars>>

\* The document goes back as it was read, with the priority it had.
PutBack_Fresh(c) == Write(AuthOf(c), doc[AuthOf(c)])
PutBack(c) == Write(AuthOf(c), copy[c])

\* The rollback saves the old document in the context of the activation, and
\* nobody looks at its error.
Rollback(c) ==
  /\ pc[c] = "rollback"
  /\ \/ ~cancelled[c] /\ PutBack(c) /\ UNCHANGED unsaved
     \/ Refusable(c) /\ unsaved' = unsaved \cup {c} /\ UNCHANGED doc
  /\ Abort(c)
  /\ UNCHANGED <<setup, index, cancelled, tries, call, verdict>>

-----------------------------------------------------------------------------
(* execute and restore *)

\* Only a caller with the lock has something to restore.
AfterCall_OnlyIfRaised(c) == IF written[c] THEN "restore" ELSE "ended"
AfterCall(c) == IF lock = c THEN "restore" ELSE "ended"

\* Session, model and body, each of which may fail; then host.model.execute,
\* whose context is looked at before it starts.
Execute(c) ==
  /\ pc[c] = "execute"
  /\ \/ ~cancelled[c] /\ Goto(c, "asked") /\ UNCHANGED result
     \/ Store(c, "failed", AfterCall(c))
  /\ UNCHANGED <<setup, hostVars, cancelled, tries, boostVars, call, verdict>>

\* The host offers scheduler.pick the credentials of the highest priority,
\* among those it has not tried for this completion.
Offered(c) ==
  {a \in call[c].left : \A b \in call[c].left : index[b] <= index[a]}

\* The host tries a, and has found or left the nonce so.  If it was trying
\* another one, that attempt has failed.
Tries(c, a, nonce) ==
  call' = [call EXCEPT ![c] = [nonce |-> nonce, left |-> @.left \ {a}, at |-> a]]

\* A live session and its credential among the candidates: the pick consumes
\* the one and takes the other.
HostTakesPick(c) ==
  /\ pc[c] = "asked"
  /\ call[c].nonce = "live" /\ AuthOf(c) \in Offered(c)
  /\ Tries(c, AuthOf(c), "picked")
  /\ UNCHANGED <<setup, hostVars, pc, cancelled, tries, boostVars, outcomeVars>>

\* Or the pick hands the choice back: the nonce is gone; the credential is not
\* among the candidates; a reload has put a picker in place that does not know
\* the nonce; the session is over, and the lookup removes it.
HostChooses(c) ==
  /\ pc[c] = "asked"
  /\ \E a \in Offered(c) :
       \/ Tries(c, a, call[c].nonce)
       \/ call[c].nonce = "live" /\ Tries(c, a, "expired")
  /\ UNCHANGED <<setup, hostVars, pc, cancelled, tries, boostVars, outcomeVars>>

EndCall(c, status) ==
  /\ call' = [call EXCEPT ![c] = NotCalled]
  /\ Store(c, status, AfterCall(c))

Consumed_NotAsked(c) == TRUE
\* activationSessionConsumed: the nonce is gone, whoever removed it, and
\* whichever credential has answered.
Consumed(c) == call[c].nonce # "live"

\* An attempt is accepted and the host answers 2xx: a success if the session
\* has been consumed.
ExecAnswered(c) ==
  /\ pc[c] = "asked" /\ call[c].at # None
  /\ verdict' = [verdict EXCEPT ![c] = TRUE]
  /\ EndCall(c, IF Consumed(c) THEN "success" ELSE "failed")
  /\ UNCHANGED <<setup, hostVars, cancelled, tries, boostVars>>

\* Or the call fails, before or after the provider has done its work, or
\* what comes back is no success for the provider.
ExecFailed(c) ==
  /\ pc[c] = "asked"
  /\ EndCall(c, "failed")
  /\ UNCHANGED <<setup, hostVars, cancelled, tries, boostVars, verdict>>

\* The restore frees the lock even if there is nothing to put back.
Restore(c) ==
  /\ pc[c] = "restore"
  /\ \/ written[c] /\ PutBack(c) /\ UNCHANGED unsaved
     \/ written[c] /\ HostMayRefuse /\ unsaved' = unsaved \cup {c} /\ UNCHANGED doc
     \/ ~written[c] /\ UNCHANGED <<doc, unsaved>>
  /\ Unlock(c)
  /\ Goto(c, "ended")
  /\ UNCHANGED <<setup, index, cancelled, tries, call, outcomeVars>>

BoostStep(c) ==
  \/ BoostList(c) \/ TakeLock(c) \/ Relist(c) \/ Read(c) \/ SaveBoost(c)
  \/ Confirm(c) \/ ConfirmList(c) \/ Rollback(c)
  \/ Execute(c) \/ HostTakesPick(c) \/ HostChooses(c)
  \/ ExecAnswered(c) \/ ExecFailed(c) \/ Restore(c)
=============================================================================
