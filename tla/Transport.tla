----------------------------- MODULE Transport -----------------------------
(***************************************************************************)
(* Activations of one provider that run side by side, each over the direct *)
(* transport, over the scheduler, or over the first and then the second.   *)
(* They meet in the provider's lock, in the priorities the host routes by  *)
(* and in the documents it keeps.                                          *)
(***************************************************************************)
EXTENDS DirectWake, PriorityBoost

Step(c) ==
  \/ EnableList(c) \/ EnableSave(c) \/ Choose(c)
  \/ DirectStep(c)
  \/ BoostStep(c)

Ended(c) == pc[c] = "ended"

\* All activations have returned.
Quiet == (\A c \in Callers : Ended(c)) /\ UNCHANGED vars

Next ==
  \/ \E c \in Callers : Step(c) \/ Cancel(c)
  \/ \E a \in Auths : Sync(a)
  \/ Quiet

\* A goroutine that can go on does; every host call returns.  Nothing is
\* assumed of the host's index, of cancellation.
Fairness == \A c \in Callers : WF_vars(Step(c))

Spec == Init /\ [][Next]_vars /\ Fairness

-----------------------------------------------------------------------------
(* Safety *)

InExecute(c) == pc[c] \in {"execute", "asked"}

\* While an activation that has raised its credential asks the host for a
\* completion, the host lists this credential alone on top, as long as no save
\* has been refused: the lock keeps every other activation from raising a peer
\* in the meantime.
AloneOnTop ==
  \A c \in Callers :
    (written[c] /\ InExecute(c) /\ unsaved = {}) =>
      \A a \in Auths \ {AuthOf(c)} : Listed(a) < Listed(AuthOf(c))

\* A document is off its priority only while an activation of its credential
\* holds the lock and has still to put it back, or after a save of such an
\* activation was refused: whichever way the activations end, side by side on
\* one credential too, none takes a raised priority for the original one.
PriorityComesBack ==
  \A a \in Auths :
    Routing(a) # original[a] =>
      \E c \in Callers :
        AuthOf(c) = a /\ ((written[c] /\ lock = c) \/ c \in unsaved)

\* When all activations have returned every priority is what it was, as the
\* comments on the rollback and on the restore have it.
RollbackIsCertain ==
  (\A c \in Callers : Ended(c)) => \A a \in Auths : Routing(a) = original[a]

\* No transport replaces a document with tokens by one without: what is
\* written has been read from the file and not from a stub of the listing.
TokensSurvive == \A a \in Auths : doc[a].whole

\* After an answer that settles the wake - accepted, refused, or the last
\* 401 - no second request is made for it, over either transport.
NoWakeAfterVerdict == \A c \in Callers : verdict[c] => pc[c] \in {"restore", "ended"}

\* The host has tried the credential of c, and given it up for another.
GivenUp(c) == call[c].at # AuthOf(c) /\ AuthOf(c) \notin call[c].left

\* A wake becomes a success only on an answer to a request for this very
\* credential.  Over the scheduler execute knows no more than that the nonce is
\* gone, and so there are two exceptions: the host tried the credential and
\* answers with another one, or the session outlived its TTL and a late pick
\* removed it.
SuccessIsEarned ==
  [][\A c \in Callers :
       result[c] # "success" /\ result'[c] = "success" =>
         \/ pc[c] = "sent" \/ call[c].at = AuthOf(c)
         \/ GivenUp(c) \/ call[c].nonce = "expired"]_vars

\* The first credential the host tries for an activation that has raised its
\* own is that one, whether the pick takes it or hands the choice back, as long
\* as no save has been refused.  Excepted is a host whose index is still at 0:
\* for the runtime's 0 readRuntimePriority takes the priority in the document,
\* and confirms a boost the host does not route by yet.
BoostIsTriedFirst ==
  [][\A c \in Callers :
       /\ written[c] /\ unsaved = {} /\ index[AuthOf(c)] # 0
       /\ call[c] = NotCalled /\ call'[c].at # None
       => call'[c].at = AuthOf(c)]_vars

-----------------------------------------------------------------------------
(* Liveness *)

\* Every activation returns: none waits for the lock for ever, and no retry
\* loop goes on for ever.
AllEnd == <>(\A c \in Callers : Ended(c))
=============================================================================
