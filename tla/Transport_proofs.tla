-------------------------- MODULE Transport_proofs --------------------------
(***************************************************************************)
(* Whichever way activations run side by side, a raised priority is undone *)
(* by the activation that raised it, and no document loses its tokens, for *)
(* every number of activations and of credentials.                         *)
(*                                                                         *)
(* The first invariants are about each activation alone: its result and    *)
(* the answers of the provider, its nonce and the host's attempts, and the *)
(* types of what both transports keep.  The next one says who may have     *)
(* changed a document: an activation that has written is the one with the  *)
(* lock, and the copy it will put back has the original priority, unless   *)
(* an earlier save of the same credential was refused.  A document without *)
(* a priority needs one more, on what is listed for it.  The last follows  *)
(* what a caller has listed under the lock until the host routes by the    *)
(* priority that was raised over it.                                       *)
(***************************************************************************)
EXTENDS Transport, FiniteSetTheorems, WellFoundedInduction, TLAPS

-----------------------------------------------------------------------------
(* What the provider has done, and what the activation makes of it.  Nothing *)
(* is asked of the activations here.                                         *)

OutcomeShape ==
  /\ pc \in [Callers -> WakePc]
  /\ verdict \in [Callers -> BOOLEAN]
  /\ tries \in [Callers -> Nat]
  /\ result \in [Callers -> {"none", "success", "failed", "skipped"}]

\* What the outcome of c rests on: a request that is still to be answered is not
\* the one after the last.
Earned(c) ==
  /\ pc[c] \in {"send", "sent"} => tries[c] < MaxUnauthorized
  /\ verdict[c] => pc[c] \in {"restore", "ended"}

OutcomeInv == OutcomeShape /\ \A c \in Callers : Earned(c)

\* A step of c that changes the account of c alone.
LEMMA OwnAccount ==
  ASSUME OutcomeInv, NEW c \in Callers,
         NEW p \in WakePc, NEW n \in Nat, NEW v \in BOOLEAN,
         NEW r \in {"none", "success", "failed", "skipped"},
         pc' = [pc EXCEPT ![c] = p], tries' = [tries EXCEPT ![c] = n],
         verdict' = [verdict EXCEPT ![c] = v],
         result' = [result EXCEPT ![c] = r],
         p \in {"send", "sent"} => n < MaxUnauthorized,
         v => p \in {"restore", "ended"}
  PROVE  OutcomeInv'
<1>1. OutcomeShape'
  BY DEF OutcomeInv, OutcomeShape
<1>2. ASSUME NEW d \in Callers PROVE Earned(d)'
  BY DEF OutcomeInv, OutcomeShape, Earned
<1> QED BY <1>1, <1>2 DEF OutcomeInv

\* What a step leaves alone keeps its value at c.
LEMMA Same ==
  ASSUME OutcomeInv, NEW c \in Callers
  PROVE  /\ pc' = pc => pc' = [pc EXCEPT ![c] = pc[c]]
         /\ tries' = tries => tries' = [tries EXCEPT ![c] = tries[c]]
         /\ verdict' = verdict => verdict' = [verdict EXCEPT ![c] = verdict[c]]
         /\ result' = result => result' = [result EXCEPT ![c] = result[c]]
         /\ pc[c] \in WakePc /\ tries[c] \in Nat
         /\ verdict[c] \in BOOLEAN
         /\ result[c] \in {"none", "success", "failed", "skipped"}
         /\ Earned(c)
BY DEF OutcomeInv, OutcomeShape

LEMMA InitOutcome == Init => OutcomeInv
BY DEF Init, OutcomeInv, OutcomeShape, Earned, WakePc

LEMMA StaysOutcome ==
  ASSUME OutcomeInv, UNCHANGED <<pc, tries, verdict, result>>
  PROVE  OutcomeInv'
BY DEF OutcomeInv, OutcomeShape, Earned

\* A step of c by which the provider does nothing for it.
LEMMA QuietOutcome ==
  ASSUME OutcomeInv, NEW c \in Callers,
         pc[c] \notin {"restore", "ended"},
         NEW p \in WakePc, pc' = [pc EXCEPT ![c] = p],
         \/ tries' = tries /\ p \notin {"send", "sent"}
         \/ \E n \in Nat : /\ tries' = [tries EXCEPT ![c] = n]
                           /\ p \in {"send", "sent"} => n < MaxUnauthorized,
         result' = result \/ result' = [result EXCEPT ![c] = "failed"],
         verdict' = verdict
  PROVE  OutcomeInv'
<1>1. PICK n \in Nat : /\ tries' = [tries EXCEPT ![c] = n]
                       /\ p \in {"send", "sent"} => n < MaxUnauthorized
  BY Same
<1>2. PICK r \in {"none", "success", "failed", "skipped"} :
        result' = [result EXCEPT ![c] = r]
  BY Same
<1>3. verdict' = [verdict EXCEPT ![c] = FALSE]
  BY Same DEF Earned
<1> QED BY <1>1, <1>2, <1>3, OwnAccount

LEMMA EnableOutcome ==
  ASSUME OutcomeInv, NEW c \in Callers,
         EnableList(c) \/ EnableSave(c) \/ Choose(c)
  PROVE  OutcomeInv'
<1>1. /\ pc[c] \in {"enable", "enableSave", "choose"}
      /\ \E p \in {"enableSave", "choose", "boost", "material", "ended"} :
           pc' = [pc EXCEPT ![c] = p]
      /\ result' = result \/ result' = [result EXCEPT ![c] = "failed"]
      /\ UNCHANGED <<tries, verdict>>
  BY DEF EnableList, EnableSave, Choose, Goto, Store, setup, hostVars, boostVars, outcomeVars
<1> QED BY <1>1, QuietOutcome DEF WakePc, DirectPc, BoostPc

\* Where a failure of the direct call leads, and what it does to the account.
LEMMA FailOutcome ==
  ASSUME NEW c \in Callers, NEW m, Fail(c, m)
  PROVE  /\ tries' = [tries EXCEPT ![c] = 0]
         /\ \/ m = "upstream" /\ pc' = [pc EXCEPT ![c] = "boost"] /\ result' = result
            \/ /\ pc' = [pc EXCEPT ![c] = "ended"]
               /\ result' = [result EXCEPT ![c] = "failed"]
BY DEF Fail, FallsBack, TransportMarkers, Goto, Store

LEMMA DirectOutcome ==
  ASSUME OutcomeInv, NEW c \in Callers, DirectStep(c)
  PROVE  OutcomeInv'
<1> USE DEF Goto, Store
<1>0. /\ pc[c] \in DirectPc
      /\ pc[c] \in {"send", "sent"} => tries[c] < MaxUnauthorized
      /\ tries[c] \in Nat /\ 0 < MaxUnauthorized /\ MaxUnauthorized \in Nat
      /\ {"boost", "ended", "send", "sent", "material"} \subseteq WakePc
      /\ ~verdict[c] /\ verdict[c] \in BOOLEAN
      /\ result[c] \in {"none", "success", "failed", "skipped"}
  <2>1. pc[c] \in DirectPc
    BY DEF DirectStep, Material, Send, DirectAccepted, DirectLost, Unauthorized,
       DirectRefused, DirectPc
  <2>2. MaxUnauthorized \in Nat /\ 0 < MaxUnauthorized
    BY WakePathConstants
  <2> QED BY <2>1, <2>2, Same DEF Earned, WakePc, DirectPc, BoostPc
<1>1. CASE Material(c)
  <2>1. verdict' = verdict
    BY <1>1 DEF Material
  <2>2. CASE \E m : Fail(c, m)
    BY <2>1, <2>2, <1>0, FailOutcome, QuietOutcome DEF DirectPc
  <2>3. CASE pc' = [pc EXCEPT ![c] = "send"] /\ tries' = [tries EXCEPT ![c] = 0]
             /\ result' = result
    BY <2>1, <2>3, <1>0, QuietOutcome DEF DirectPc
  <2>4. CASE /\ pc[c] = "material" /\ tries' = [tries EXCEPT ![c] = tries[c] + 1]
             /\ UNCHANGED <<pc, result>>
    BY <2>1, <2>4, <1>0 DEF OutcomeInv, OutcomeShape, Earned
  <2> QED BY <1>1, <2>2, <2>3, <2>4 DEF Material
<1>2. CASE Send(c)
  <2>1. verdict' = verdict /\ pc[c] = "send"
    BY <1>2 DEF Send
  <2>2. CASE Fail(c, "upstream")
    BY <2>1, <2>2, <1>0, FailOutcome, QuietOutcome
  <2>3. CASE pc' = [pc EXCEPT ![c] = "sent"] /\ UNCHANGED <<tries, result>>
    <3>1. tries' = [tries EXCEPT ![c] = tries[c]]
      BY <2>3, Same
    <3> QED BY <3>1, <2>1, <2>3, <1>0, QuietOutcome
  <2> QED BY <1>2, <2>2, <2>3 DEF Send
<1>3. CASE DirectAccepted(c)
  <2>1. tries' = [tries EXCEPT ![c] = tries[c]]
    BY <1>3, Same DEF DirectAccepted
  <2> QED BY <1>3, <2>1, <1>0, OwnAccount DEF DirectAccepted, Decides
<1>4. CASE DirectLost(c)
  <2>1. verdict' = verdict /\ Fail(c, "upstream") /\ pc[c] = "sent"
    BY <1>4 DEF DirectLost
  <2> QED BY <2>1, <1>0, FailOutcome, QuietOutcome
<1>5. CASE Unauthorized(c)
  <2>1. pc[c] = "sent" /\ tries[c] < MaxUnauthorized
    BY <1>5, <1>0 DEF Unauthorized
  <2>2. CASE LastTry(c)
    <3>1. tries' = [tries EXCEPT ![c] = tries[c]]
      BY <1>5, <2>2, Same DEF Unauthorized
    <3> DEFINE last == tries[c] + 1 >= MaxUnauthorized
    <3>2. /\ verdict' = [verdict EXCEPT ![c] = last]
          /\ last \in BOOLEAN
          /\ pc' = [pc EXCEPT ![c] = "ended"]
          /\ result' = [result EXCEPT ![c] = "skipped"]
      BY <1>5, <2>2 DEF Unauthorized
    <3> HIDE DEF last
    <3> QED BY <3>1, <3>2, <2>1, <1>0, OwnAccount
  <2>3. CASE ~LastTry(c)
    <3>1. tries[c] + 1 < MaxUnauthorized
      BY <2>1, <2>3, <1>0 DEF LastTry
    <3>2. verdict' = verdict
      <4> DEFINE last == tries[c] + 1 >= MaxUnauthorized
      <4>1. ~last /\ last \in BOOLEAN
        BY <3>1, <1>0
      <4>2. verdict' = [verdict EXCEPT ![c] = last]
        BY <1>5 DEF Unauthorized
      <4> HIDE DEF last
      <4>3. last = verdict[c] /\ verdict = [verdict EXCEPT ![c] = verdict[c]]
        BY <4>1, <1>0 DEF OutcomeInv, OutcomeShape
      <4>4. verdict' = [verdict EXCEPT ![c] = verdict[c]]
        BY <4>2, <4>3, Zenon
      <4> QED BY <4>2, <4>3, <4>4
    <3>3. CASE Fail(c, "upstream")
      BY <3>2, <3>3, <2>1, <1>0, FailOutcome, QuietOutcome
    <3>4. CASE /\ tries' = [tries EXCEPT ![c] = tries[c] + 1]
               /\ pc' = [pc EXCEPT ![c] = "send"] /\ result' = result
      <4> DEFINE n == tries[c] + 1
      <4>1. n \in Nat /\ n < MaxUnauthorized
        BY <3>1, <1>0
      <4>2. tries' = [tries EXCEPT ![c] = n]
        BY <3>4
      <4> HIDE DEF n
      <4> QED BY <4>1, <4>2, <3>2, <3>4, <2>1, <1>0, QuietOutcome
    <3> QED BY <1>5, <2>3, <3>3, <3>4 DEF Unauthorized
  <2> QED BY <2>2, <2>3
<1>6. CASE DirectRefused(c)
  <2>1. verdict' = [verdict EXCEPT ![c] = TRUE]
    BY <1>6 DEF DirectRefused, Decides
  <2>2. PICK m \in {"refused", "noCandidates"} : Fail(c, m)
    BY <1>6 DEF DirectRefused
  <2>3. /\ tries' = [tries EXCEPT ![c] = 0]
        /\ pc' = [pc EXCEPT ![c] = "ended"]
        /\ result' = [result EXCEPT ![c] = "failed"]
    BY <2>2, FailOutcome
  <2> QED BY <2>1, <2>3, <1>0, OwnAccount
<1> QED BY <1>1, <1>2, <1>3, <1>4, <1>5, <1>6 DEF DirectStep

\* Of the boost only the completion and its answer reach the account.
LEMMA BoostOutcome ==
  ASSUME OutcomeInv, NEW c \in Callers, BoostStep(c)
  PROVE  OutcomeInv'
<1> USE DEF Goto, Store
<1>0. /\ BoostPc \cup {"ended"} \subseteq WakePc
      /\ BoostPc \cap {"send", "sent"} = {}
      /\ AfterCall(c) \in {"restore", "ended"}
      /\ verdict[c] \in BOOLEAN /\ tries[c] \in Nat
      /\ Earned(c)
  BY Same DEF WakePc, BoostPc, AfterCall
<1>1. ASSUME verdict' = verdict,
             pc[c] \in BoostPc \ {"restore"},
             \E p \in BoostPc \cup {"ended"} : pc' = [pc EXCEPT ![c] = p],
             tries' = tries \/ \E n \in Nat : tries' = [tries EXCEPT ![c] = n],
             result' = result \/ result' = [result EXCEPT ![c] = "failed"]
      PROVE  OutcomeInv'
  <2>1. pc[c] \notin {"restore", "ended"}
    BY <1>1 DEF BoostPc
  <2> QED BY <1>0, <1>1, <2>1, QuietOutcome
<1>2. CASE BoostList(c) \/ TakeLock(c) \/ Execute(c)
  BY <1>0, <1>1, <1>2 DEF BoostList, TakeLock, Execute, BoostPc, outcomeVars
<1>3. CASE Relist(c)
  BY <1>1, <1>3 DEF Relist, Decide, Abort, BoostPc
<1>4. CASE Read(c)
  BY <1>1, <1>4 DEF Read, Decide, Abort, BoostPc
<1>5. CASE SaveBoost(c) \/ Rollback(c)
  BY <1>1, <1>5 DEF SaveBoost, Rollback, Abort, BoostPc
<1>6. CASE Confirm(c) \/ ConfirmList(c)
  BY <1>0, <1>1, <1>6 DEF Confirm, ConfirmList, Retry, BoostPc, outcomeVars
<1>7. CASE ExecAnswered(c)
  <2>1. PICK r \in {"success", "failed"} :
        /\ tries' = [tries EXCEPT ![c] = tries[c]]
        /\ pc' = [pc EXCEPT ![c] = AfterCall(c)]
        /\ verdict' = [verdict EXCEPT ![c] = TRUE]
        /\ result' = [result EXCEPT ![c] = r]
    BY <1>7, Same DEF ExecAnswered, EndCall
  <2>2. AfterCall(c) \in WakePc
    BY <1>0 DEF BoostPc
  <2> QED BY <2>1, <2>2, <1>0, OwnAccount
<1>8. CASE ExecFailed(c)
  <2>1. /\ tries' = [tries EXCEPT ![c] = tries[c]]
        /\ pc' = [pc EXCEPT ![c] = AfterCall(c)]
        /\ verdict' = [verdict EXCEPT ![c] = FALSE]
        /\ result' = [result EXCEPT ![c] = "failed"]
    BY <1>8, Same DEF ExecFailed, EndCall, Earned
  <2>2. AfterCall(c) \in WakePc
    BY <1>0 DEF BoostPc
  <2> QED BY <2>1, <2>2, <1>0, OwnAccount
<1>9. CASE Restore(c)
  <2>1. /\ tries' = [tries EXCEPT ![c] = tries[c]]
        /\ pc' = [pc EXCEPT ![c] = "ended"]
        /\ verdict' = [verdict EXCEPT ![c] = verdict[c]]
        /\ result' = [result EXCEPT ![c] = result[c]]
        /\ result[c] \in {"none", "success", "failed", "skipped"}
    BY <1>9, Same DEF Restore, outcomeVars
  <2> QED BY <2>1, <1>0, OwnAccount DEF Earned
<1>10. CASE HostTakesPick(c) \/ HostChooses(c)
  BY <1>10, StaysOutcome DEF HostTakesPick, HostChooses, outcomeVars
<1> QED BY <1>2, <1>3, <1>4, <1>5, <1>6, <1>7, <1>8, <1>9, <1>10 DEF BoostStep

LEMMA OutcomeInductive == Spec => []OutcomeInv
<1>1. OutcomeInv /\ [Next]_vars => OutcomeInv'
  <2> SUFFICES ASSUME OutcomeInv, [Next]_vars PROVE OutcomeInv'
    OBVIOUS
  <2>1. ASSUME NEW c \in Callers, Step(c) PROVE OutcomeInv'
    BY <2>1, EnableOutcome, DirectOutcome, BoostOutcome DEF Step
  <2>2. ASSUME NEW c \in Callers, Cancel(c) PROVE OutcomeInv'
    BY <2>2, StaysOutcome DEF Cancel, outcomeVars
  <2>3. ASSUME NEW a \in Auths, Sync(a) PROVE OutcomeInv'
    BY <2>3, StaysOutcome DEF Sync, outcomeVars
  <2>4. ASSUME UNCHANGED vars PROVE OutcomeInv'
    BY <2>4, StaysOutcome DEF vars, outcomeVars
  <2> QED BY <2>1, <2>2, <2>3, <2>4 DEF Next, Quiet
<1> QED BY <1>1, InitOutcome, PTL DEF Spec

\* For any number of activations and any limit of attempts, none sends a
\* request after an answer that settled its wake (shouldFallbackToSchedulerBoost,
\* the retry loop of wakeDirect).
THEOREM SettledWakesRest == Spec => []NoWakeAfterVerdict
<1>1. OutcomeInv => NoWakeAfterVerdict
  BY DEF OutcomeInv, Earned, NoWakeAfterVerdict
<1> QED BY <1>1, OutcomeInductive, PTL

-----------------------------------------------------------------------------
(* The nonce and the host's attempts *)

\* A pick that took the credential has made the host try it.
Picked(c) == call[c].nonce = "picked" => AuthOf(c) \notin call[c].left

CallInv ==
  /\ call \in [Callers -> Completions]
  /\ \A c \in Callers : Picked(c)

\* Only the completion touches the call.
LEMMA CallSteps ==
  ASSUME NEW c \in Callers, Step(c)
  PROVE  \/ call' = call
         \/ HostTakesPick(c) \/ HostChooses(c) \/ ExecAnswered(c) \/ ExecFailed(c)
<1>1. CASE EnableList(c) \/ EnableSave(c) \/ Choose(c)
  BY <1>1 DEF EnableList, EnableSave, Choose
<1>2. CASE DirectStep(c)
  BY <1>2 DEF DirectStep, Material, Send, DirectAccepted, DirectLost, Unauthorized,
     DirectRefused
<1>3. CASE BoostStep(c)
  BY <1>3 DEF BoostStep, BoostList, TakeLock, Relist, Read, SaveBoost, Confirm, ConfirmList,
     Rollback, Execute, Restore
<1> QED BY <1>1, <1>2, <1>3 DEF Step

LEMMA CallStep ==
  ASSUME CallInv, NEW c \in Callers, Step(c)
  PROVE  CallInv'
<1>0. AuthOf(c) \in Auths /\ call[c] \in Completions /\ NotCalled \in Completions
  BY WakePathConstants DEF CallInv, NotCalled, Completions
<1>1. ASSUME NEW called \in Completions, call' = [call EXCEPT ![c] = called],
             called.nonce = "picked" => AuthOf(c) \notin called.left
      PROVE  CallInv'
  BY <1>1 DEF CallInv, Picked
<1>2. ASSUME NEW a \in Auths, NEW nonce \in {"live", "picked", "expired"},
             Tries(c, a, nonce),
             nonce = "picked" => a = AuthOf(c) \/ call[c].nonce = "picked"
      PROVE  CallInv'
  <2> DEFINE called == [nonce |-> nonce, left |-> call[c].left \ {a}, at |-> a]
  <2>1. call' = [call EXCEPT ![c] = called]
    BY <1>2 DEF Tries, CallInv
  <2>2. called \in Completions
    BY <1>0 DEF Completions
  <2>3. called.nonce = "picked" => AuthOf(c) \notin called.left
    BY <1>2 DEF CallInv, Picked
  <2> HIDE DEF called
  <2> QED BY <2>1, <2>2, <2>3, <1>1
<1>3. CASE HostTakesPick(c)
  BY <1>0, <1>2, <1>3 DEF HostTakesPick
<1>4. CASE HostChooses(c)
  <2>1. PICK a \in Offered(c) :
          Tries(c, a, call[c].nonce) \/ Tries(c, a, "expired")
    BY <1>4 DEF HostChooses
  <2>2. a \in Auths /\ call[c].nonce \in {"live", "picked", "expired"}
    BY <1>0 DEF Offered, Completions
  <2> QED BY <1>2, <2>1, <2>2
<1>5. CASE ExecAnswered(c) \/ ExecFailed(c)
  <2>1. call' = [call EXCEPT ![c] = NotCalled] /\ NotCalled.nonce # "picked"
    BY <1>5 DEF ExecAnswered, ExecFailed, EndCall, NotCalled
  <2> QED BY <1>0, <1>1, <2>1
<1>6. CASE call' = call
  BY <1>6 DEF CallInv, Picked
<1> QED BY <1>3, <1>4, <1>5, <1>6, CallSteps

LEMMA CallInductive == Spec => []CallInv
<1>1. Init => CallInv
  BY WakePathConstants DEF Init, CallInv, Picked, NotCalled, Completions
<1>2. CallInv /\ [Next]_vars => CallInv'
  <2> SUFFICES ASSUME CallInv, [Next]_vars PROVE CallInv'
    OBVIOUS
  <2>1. ASSUME NEW c \in Callers, Step(c) PROVE CallInv'
    BY <2>1, CallStep
  <2>2. CASE call' = call
    BY <2>2 DEF CallInv, Picked
  <2> QED BY <2>1, <2>2 DEF Next, Quiet, Cancel, Sync, vars
<1> QED BY <1>1, <1>2, PTL DEF Spec

\* A wake that becomes a success has been answered on a request for its own
\* credential, unless the host gave that one up for another or the session had
\* outlived its TTL: whatever the host tries in turn, a nonce that a pick
\* consumed tells that the credential was tried (activationSessionConsumed).
THEOREM SuccessesAreEarned == Spec => SuccessIsEarned
<1> DEFINE Earns ==
      \A c \in Callers :
        result[c] # "success" /\ result'[c] = "success" =>
          \/ pc[c] = "sent" \/ call[c].at = AuthOf(c)
          \/ GivenUp(c) \/ call[c].nonce = "expired"
<1>1. ASSUME CallInv, OutcomeInv, [Next]_vars PROVE Earns
  <2> SUFFICES ASSUME NEW c \in Callers, result[c] # "success", result'[c] = "success"
               PROVE  \/ pc[c] = "sent" \/ call[c].at = AuthOf(c)
                      \/ GivenUp(c) \/ call[c].nonce = "expired"
    OBVIOUS
  <2>1. PICK d \in Callers : Step(d)
    BY <1>1 DEF Next, Quiet, Cancel, Sync, vars, outcomeVars
  <2>2. result \in [Callers -> {"none", "success", "failed", "skipped"}]
    BY <1>1 DEF OutcomeInv, OutcomeShape
  <2>3. \/ result' = result
        \/ \E r \in {"failed", "skipped"} : result' = [result EXCEPT ![d] = r]
        \/ DirectAccepted(d) \/ ExecAnswered(d)
    <3> USE DEF Store
    <3>1. CASE EnableList(d) \/ EnableSave(d) \/ Choose(d)
      BY <3>1 DEF EnableList, EnableSave, Choose, outcomeVars
    <3>2. CASE DirectStep(d)
      <4>1. \A m : Fail(d, m) =>
              result' = result \/ result' = [result EXCEPT ![d] = "failed"]
        BY DEF Fail
      <4> QED BY <3>2, <4>1 DEF DirectStep, Material, Send, DirectLost, Unauthorized,
             DirectRefused
    <3>3. CASE BoostStep(d)
      <4>1. CASE BoostList(d) \/ TakeLock(d) \/ Confirm(d) \/ ConfirmList(d) \/ Execute(d)
                 \/ HostTakesPick(d) \/ HostChooses(d) \/ ExecFailed(d) \/ Restore(d)
        BY <4>1 DEF BoostList, TakeLock, Confirm, ConfirmList, Execute, HostTakesPick,
           HostChooses, ExecFailed, EndCall, Restore, outcomeVars
      <4>2. CASE Relist(d) \/ Read(d)
        BY <4>2 DEF Relist, Read, Decide, Abort
      <4>3. CASE SaveBoost(d) \/ Rollback(d)
        BY <4>3 DEF SaveBoost, Rollback, Abort
      <4> QED BY <3>3, <4>1, <4>2, <4>3 DEF BoostStep
    <3> QED BY <2>1, <3>1, <3>2, <3>3 DEF Step
  <2>4. CASE DirectAccepted(d)
    BY <2>2, <2>4 DEF DirectAccepted, Store
  <2>5. CASE ExecAnswered(d)
    <3>1. d = c /\ Consumed(c)
      BY <2>2, <2>5 DEF ExecAnswered, EndCall, Store
    <3>2. call[c].nonce \in {"picked", "expired"} /\ Picked(c)
      BY <1>1, <3>1 DEF CallInv, Completions, Consumed
    <3> QED BY <3>2 DEF Picked, GivenUp
  <2> QED BY <2>2, <2>3, <2>4, <2>5
<1> QED BY <1>1, CallInductive, OutcomeInductive, PTL DEF Spec, SuccessIsEarned

-----------------------------------------------------------------------------
(* Finite sets *)

\* Induction over the subsets of a finite set: one that is bad has a smallest
\* bad subset.
LEMMA SmallestSubset ==
  ASSUME NEW S, IsFiniteSet(S), NEW Bad \in SUBSET (SUBSET S), Bad # {}
  PROVE  \E T \in Bad : \A x \in T : T \ {x} \notin Bad
<1>1. IsWellFoundedOn(StrictSubsetOrdering(S), SUBSET S)
  BY FS_StrictSubsetOrderingWellFounded, FS_FiniteSubsetsOfFinite
<1>2. PICK T \in Bad : \A U \in Bad : <<U, T>> \notin StrictSubsetOrdering(S)
  BY <1>1, WFMin
<1>3. ASSUME NEW x \in T, T \ {x} \in Bad PROVE FALSE
  BY <1>2, <1>3 DEF StrictSubsetOrdering
<1> QED BY <1>2, <1>3

\* A finite set of numbers has a greatest one.
LEMMA FiniteMax ==
  ASSUME NEW S, IsFiniteSet(S), S # {}, S \subseteq Int
  PROVE  \E m \in S : \A x \in S : x <= m
<1> DEFINE Bad == {T \in SUBSET S : T # {} /\ ~ \E m \in T : \A x \in T : x <= m}
<1>1. SUFFICES ASSUME Bad # {} PROVE FALSE
  OBVIOUS
<1>2. PICK T \in Bad : \A x \in T : T \ {x} \notin Bad
  BY <1>1, SmallestSubset
<1>3. PICK x \in T : TRUE
  OBVIOUS
<1>4. CASE T \ {x} = {}
  <2>1. T = {x} /\ x \in Int
    BY <1>4
  <2> QED BY <2>1
<1>5. CASE T \ {x} # {}
  <2>1. PICK m \in T \ {x} : \A y \in T \ {x} : y <= m
    BY <1>2, <1>5
  <2>2. x \in Int /\ m \in Int
    OBVIOUS
  <2>3. CASE x <= m
    <3>1. m \in T /\ \A y \in T : y <= m
      BY <2>1, <2>3
    <3> QED BY <3>1
  <2>4. CASE ~(x <= m)
    <3>1. \A y \in T : y <= x
      BY <2>1, <2>2, <2>4
    <3> QED BY <3>1, <1>3
  <2> QED BY <2>3, <2>4
<1> QED BY <1>4, <1>5

-----------------------------------------------------------------------------
(* Types.  Nothing is asked of the activations here either. *)

\* The attempts counted are those of the loop the caller is in.
CountFits(p, n) ==
  /\ n \in Nat
  /\ p \in {"send", "sent", "ended"} => n < MaxUnauthorized
  /\ p = "material" => n < MaterialAttempts
  /\ p \in {"confirm", "confirmList"} => n < BoostConfirmAttempts
  /\ p \notin {"send", "sent", "ended", "material", "confirm", "confirmList"} => n = 0

HostTypes ==
  /\ config \in Configs
  /\ original \in [Auths -> Nat]
  /\ doc \in [Auths -> Documents]
  /\ index \in [Auths -> Nat]

LockTypes ==
  /\ lock \in Callers \cup {None}
  /\ copy \in [Callers -> Documents]
  /\ seen \in [Callers -> [top : Nat, tied : BOOLEAN, own : Nat]]
  /\ {cancelled, written} \subseteq [Callers -> BOOLEAN]
  /\ unsaved \subseteq Callers

CountTypes ==
  /\ pc \in [Callers -> WakePc]
  /\ tries \in [Callers -> Nat]
  /\ \A c \in Callers : CountFits(pc[c], tries[c])

TypeInv == HostTypes /\ LockTypes /\ CountTypes

\* A listing has a highest priority.
LEMMA TopIsHighest ==
  ASSUME HostTypes
  PROVE  /\ \A a \in Auths : Listed(a) \in Nat
         /\ Auths # {} => Top \in Nat /\ \A a \in Auths : Listed(a) <= Top
<1>1. ASSUME NEW a \in Auths PROVE Listed(a) \in Nat
  BY DEF HostTypes, Listed, PriorityIn, Documents
<1> DEFINE L == {Listed(a) : a \in Auths}
<1>2. ASSUME Auths # {} PROVE Top \in L /\ \A a \in Auths : Listed(a) <= Top
  <2>1. L # {} /\ L \subseteq Int
    BY <1>1, <1>2
  <2>2. IsFiniteSet(L)
    <3>1. IsFiniteSet(Auths)
      BY WakePathConstants
    <3> DEFINE f == [a \in Auths |-> Listed(a)]
    <3>2. f \in Surjection(Auths, L)
      BY DEF Surjection
    <3> QED BY <3>1, <3>2, FS_Surjection
  <2>3. PICK p \in L : \A x \in L : x <= p
    BY <2>1, <2>2, FiniteMax
  <2>4. \A a \in Auths : Listed(a) <= p
    BY <2>3
  <2> QED BY <2>3, <2>4 DEF Top
<1> QED BY <1>1, <1>2

LEMMA BoostedIsOver ==
  ASSUME LockTypes, NEW c \in Callers
  PROVE  Boosted(c) \in Nat /\ Boosted(c) > seen[c].top /\ seen[c].top \in Nat
BY WakePathConstants DEF LockTypes, Boosted

LEMMA InitTypes == Init => TypeInv
<1> SUFFICES ASSUME Init PROVE TypeInv
    OBVIOUS
<1>1. HostTypes
  <2>1. original \in [Auths -> Nat]
    BY WakePathConstants DEF Init
  <2>2. ASSUME NEW a \in Auths
        PROVE  [priority |-> IF a \in Keyless THEN None ELSE original[a], whole |-> TRUE,
                disabled |-> \E c \in Disabled : AuthOf(c) = a] \in Documents
    BY <2>1 DEF Documents
  <2> QED BY <2>1, <2>2 DEF Init, HostTypes
<1>2. LockTypes
  BY DEF Init, LockTypes, Stub, Documents, Unseen
<1>3. CountTypes
  <2>1. ASSUME NEW c \in Callers PROVE CountFits(pc[c], tries[c])
    BY WakePathConstants DEF Init, CountFits
  <2> QED BY <2>1 DEF Init, CountTypes, WakePc
<1> QED BY <1>1, <1>2, <1>3 DEF TypeInv

\* A step of c that ends at p with n attempts.
LEMMA CountStep ==
  ASSUME CountTypes, NEW c \in Callers, NEW p \in WakePc, NEW n \in Nat,
         CountFits(p, n),
         pc' = [pc EXCEPT ![c] = p], tries' = [tries EXCEPT ![c] = n]
  PROVE  CountTypes'
<1>1. pc' \in [Callers -> WakePc] /\ tries' \in [Callers -> Nat]
  BY DEF CountTypes
<1>2. ASSUME NEW d \in Callers PROVE CountFits(pc'[d], tries'[d])
  BY DEF CountTypes
<1> QED BY <1>1, <1>2 DEF CountTypes, CountFits

\* Where the attempts stay as they are.
LEMMA SameCount ==
  ASSUME CountTypes, NEW c \in Callers, NEW p \in WakePc, CountFits(p, tries[c]),
         pc' = [pc EXCEPT ![c] = p], tries' = tries
  PROVE  CountTypes'
<1>1. tries[c] \in Nat /\ tries' = [tries EXCEPT ![c] = tries[c]]
  BY DEF CountTypes
<1> QED BY <1>1, CountStep

LEMMA Labels ==
  /\ WakePc = {"enable", "enableSave", "choose", "ended", "material", "send", "sent",
               "boost", "lock", "relist", "read", "save", "confirm", "confirmList",
               "rollback", "execute", "asked", "restore"}
  /\ {MaxUnauthorized, MaterialAttempts, BoostConfirmAttempts} \subseteq Nat \ {0}
BY WakePathConstants DEF WakePc, DirectPc, BoostPc

LEMMA HostStep ==
  ASSUME TypeInv, NEW c \in Callers, Step(c) \/ Cancel(c)
  PROVE  HostTypes'
<1>1. HostTypes /\ LockTypes /\ AuthOf(c) \in Auths
  BY WakePathConstants DEF TypeInv
<1>2. /\ copy[c] \in Documents
      /\ [copy[c] EXCEPT !.disabled = FALSE] \in Documents
      /\ [copy[c] EXCEPT !.priority = Boosted(c)] \in Documents
  BY <1>1, BoostedIsOver DEF LockTypes, Documents
<1>3. UNCHANGED setup /\ UNCHANGED index
      /\ \/ doc' = doc
         \/ doc' = [doc EXCEPT ![AuthOf(c)] = [copy[c] EXCEPT !.disabled = FALSE]]
         \/ doc' = [doc EXCEPT ![AuthOf(c)] = [copy[c] EXCEPT !.priority = Boosted(c)]]
         \/ doc' = [doc EXCEPT ![AuthOf(c)] = copy[c]]
  <2>1. CASE EnableList(c) \/ EnableSave(c) \/ Choose(c)
    BY <2>1 DEF EnableList, EnableSave, Choose, Write, hostVars
  <2>2. CASE DirectStep(c)
    BY <2>2 DEF DirectStep, Material, Send, DirectAccepted, DirectLost, Unauthorized,
       DirectRefused, hostVars
  <2>3. CASE BoostList(c) \/ TakeLock(c) \/ Relist(c) \/ Read(c)
    BY <2>3 DEF BoostList, TakeLock, Relist, Read, hostVars
  <2>4. CASE SaveBoost(c)
    BY <2>4 DEF SaveBoost, Write
  <2>5. CASE Confirm(c) \/ ConfirmList(c) \/ Execute(c) \/ HostTakesPick(c)
             \/ HostChooses(c) \/ ExecAnswered(c) \/ ExecFailed(c)
    BY <2>5 DEF Confirm, ConfirmList, Execute, HostTakesPick, HostChooses, ExecAnswered,
       ExecFailed, hostVars
  <2>6. CASE Rollback(c) \/ Restore(c)
    BY <2>6 DEF Rollback, Restore, PutBack, Write
  <2>7. CASE Cancel(c)
    BY <2>7 DEF Cancel, hostVars
  <2> QED BY <2>1, <2>2, <2>3, <2>4, <2>5, <2>6, <2>7 DEF Step, BoostStep
<1> QED BY <1>1, <1>2, <1>3 DEF HostTypes, setup

\* What a step does to the lock and to what is held under it.
LEMMA LockStep ==
  ASSUME TypeInv, NEW c \in Callers, Step(c) \/ Cancel(c)
  PROVE  LockTypes'
<1> DEFINE Sights == [top : Nat, tied : BOOLEAN, own : Nat]
<1>0. HostTypes /\ LockTypes /\ AuthOf(c) \in Auths /\ Stub \in Documents
  BY WakePathConstants DEF TypeInv, Stub, Documents
<1>1. /\ doc[AuthOf(c)] \in Documents
      /\ Stats(AuthOf(c)) \in Sights /\ seen[c] \in Sights
      /\ Unseen \in Sights
  <2>1. Top \in Nat
    BY <1>0, TopIsHighest
  <2>2. Listed(AuthOf(c)) \in Nat
    BY <1>0, TopIsHighest
  <2> QED BY <1>0, <2>1, <2>2 DEF HostTypes, LockTypes, Stats, Unseen
<1>2. ASSUME Unlock(c), cancelled' = cancelled,
             unsaved' = unsaved \/ unsaved' = unsaved \cup {c}
      PROVE  LockTypes'
  BY <1>0, <1>1, <1>2 DEF Unlock, LockTypes
<1>3. ASSUME NEW document \in Documents, NEW stats \in Sights,
             Decide(c, document, stats), UNCHANGED <<cancelled, unsaved>>
      PROVE  LockTypes'
  <2>1. CASE Abort(c)
    BY <1>2, <1>3, <2>1 DEF Abort
  <2>2. CASE ~Abort(c)
    <3> DEFINE kept == [document EXCEPT !.priority = PriorityIn(document, stats.own)]
    <3>1. /\ copy' = [copy EXCEPT ![c] = kept]
          /\ seen' = [seen EXCEPT ![c] = stats]
          /\ UNCHANGED <<lock, written>>
      BY <1>3, <2>2 DEF Decide
    <3>2. kept \in Documents
      BY <1>3 DEF Documents, PriorityIn
    <3> HIDE DEF kept
    <3> QED BY <1>0, <1>3, <3>1, <3>2 DEF LockTypes
  <2> QED BY <2>1, <2>2
<1>4. CASE UNCHANGED <<lock, copy, seen, cancelled, written, unsaved>>
  BY <1>0, <1>4 DEF LockTypes
<1>5. CASE EnableList(c) \/ EnableSave(c) \/ Choose(c)
  <2>1. /\ \/ copy' = copy
           \/ \E document \in Documents : copy' = [copy EXCEPT ![c] = document]
        /\ UNCHANGED <<lock, seen, cancelled, written, unsaved>>
    BY <1>0, <1>1, <1>5 DEF EnableList, EnableSave, Choose, Listings, boostVars
  <2> QED BY <1>0, <2>1 DEF LockTypes
<1>6. CASE DirectStep(c)
  BY <1>4, <1>6 DEF DirectStep, Material, Send, DirectAccepted, DirectLost, Unauthorized,
     DirectRefused, boostVars
<1>7. CASE TakeLock(c)
  BY <1>0, <1>7 DEF TakeLock, LockTypes
<1>8. CASE Relist(c)
  <2>1. unsaved' = unsaved /\ cancelled' = cancelled
    BY <1>8 DEF Relist
  <2>2. CASE Unlock(c)
    BY <1>2, <2>1, <2>2
  <2>3. CASE UNCHANGED <<lock, copy, seen, written>>
    BY <1>4, <2>1, <2>3
  <2>4. CASE Decide(c, doc[AuthOf(c)], Stats(AuthOf(c)))
    BY <1>1, <1>3, <2>1, <2>4
  <2>5. CASE /\ seen' = [seen EXCEPT ![c] = Stats(AuthOf(c))]
             /\ UNCHANGED <<lock, copy, written>>
    BY <1>0, <1>1, <2>1, <2>5 DEF LockTypes
  <2> QED BY <1>8, <2>2, <2>3, <2>4, <2>5 DEF Relist, Abort
<1>9. CASE Read(c)
  BY <1>0, <1>1, <1>3, <1>9 DEF Read
<1>10. CASE SaveBoost(c)
  <2>1. CASE written' = [written EXCEPT ![c] = TRUE]
             /\ UNCHANGED <<lock, copy, seen, cancelled, unsaved>>
    BY <1>0, <2>1 DEF LockTypes
  <2> QED BY <1>2, <1>10, <2>1 DEF SaveBoost, Abort
<1>11. CASE Rollback(c) \/ Restore(c)
  BY <1>2, <1>11 DEF Rollback, Restore, Abort
<1>12. CASE BoostList(c) \/ Confirm(c) \/ ConfirmList(c) \/ Execute(c) \/ HostTakesPick(c)
            \/ HostChooses(c) \/ ExecAnswered(c) \/ ExecFailed(c)
  BY <1>4, <1>12 DEF BoostList, Confirm, ConfirmList, Execute, HostTakesPick, HostChooses,
     ExecAnswered, ExecFailed, boostVars
<1>13. CASE Cancel(c)
  BY <1>0, <1>13 DEF Cancel, LockTypes, boostVars
<1> QED BY <1>5, <1>6, <1>7, <1>8, <1>9, <1>10, <1>11, <1>12, <1>13 DEF Step, BoostStep

LEMMA DirectCount ==
  ASSUME CountTypes, NEW c \in Callers, DirectStep(c)
  PROVE  CountTypes'
<1> USE Labels DEF Goto, Store
<1>0. CountFits(pc[c], tries[c]) /\ tries[c] \in Nat
  BY DEF CountTypes
<1>1. ASSUME NEW m, Fail(c, m) PROVE CountTypes'
  <2>1. PICK q \in {"boost", "ended"} : pc' = [pc EXCEPT ![c] = q]
    BY <1>1 DEF Fail
  <2>2. tries' = [tries EXCEPT ![c] = 0]
    BY <1>1 DEF Fail
  <2>3. CountFits(q, 0)
    BY DEF CountFits
  <2> QED BY <2>1, <2>2, <2>3, CountStep
<1>2. ASSUME pc[c] = "sent", tries[c] + 1 # MaxUnauthorized,
             tries' = [tries EXCEPT ![c] = @ + 1], pc' = [pc EXCEPT ![c] = "send"]
      PROVE  CountTypes'
  <2> DEFINE n == tries[c] + 1
  <2>1. CountFits("send", n) /\ n \in Nat
    BY <1>0, <1>2 DEF CountFits
  <2>2. tries' = [tries EXCEPT ![c] = n]
    BY <1>2
  <2> HIDE DEF n
  <2> QED BY <1>2, <2>1, <2>2, CountStep
<1>3. CASE Material(c)
  <2>1. CASE tries' = [tries EXCEPT ![c] = 0] /\ pc' = [pc EXCEPT ![c] = "send"]
    <3>1. CountFits("send", 0)
      BY DEF CountFits
    <3> QED BY <2>1, <3>1, CountStep
  <2>2. CASE tries[c] + 1 < MaterialAttempts
             /\ tries' = [tries EXCEPT ![c] = @ + 1] /\ pc' = pc
    <3> DEFINE n == tries[c] + 1
    <3>1. CountFits("material", n) /\ n \in Nat
      BY <1>0, <2>2 DEF CountFits
    <3>2. tries' = [tries EXCEPT ![c] = n]
      BY <2>2
    <3>3. pc' = [pc EXCEPT ![c] = "material"]
      BY <1>3, <2>2 DEF CountTypes, Material
    <3> HIDE DEF n
    <3> QED BY <3>1, <3>2, <3>3, CountStep
  <2> QED BY <1>1, <1>3, <2>1, <2>2 DEF Material
<1>4. CASE Send(c)
  <2>1. CASE tries' = tries /\ pc' = [pc EXCEPT ![c] = "sent"]
    <3>1. CountFits("sent", tries[c])
      BY <1>0, <1>4 DEF Send, CountFits
    <3> QED BY <2>1, <3>1, SameCount
  <2> QED BY <1>1, <1>4, <2>1 DEF Send
<1>5. CASE DirectAccepted(c)
  <2>1. CountFits("ended", tries[c])
    BY <1>0, <1>5 DEF DirectAccepted, CountFits
  <2> QED BY <1>5, <2>1, SameCount DEF DirectAccepted
<1>6. CASE DirectLost(c)
  BY <1>1, <1>6 DEF DirectLost
<1>7. CASE Unauthorized(c)
  <2>1. CASE LastTry(c)
    <3>1. CountFits("ended", tries[c])
      BY <1>0, <1>7 DEF Unauthorized, CountFits
    <3> QED BY <1>7, <2>1, <3>1, SameCount DEF Unauthorized
  <2>2. CASE ~LastTry(c)
    BY <1>1, <1>2, <1>7, <2>2 DEF Unauthorized, LastTry
  <2> QED BY <2>1, <2>2
<1>8. CASE DirectRefused(c)
  BY <1>1, <1>8 DEF DirectRefused
<1> QED BY <1>3, <1>4, <1>5, <1>6, <1>7, <1>8 DEF DirectStep

LEMMA OtherCount ==
  ASSUME CountTypes, NEW c \in Callers,
         EnableList(c) \/ EnableSave(c) \/ Choose(c) \/ BoostStep(c)
  PROVE  CountTypes'
<1> USE Labels DEF Goto, Store
<1>0. CountFits(pc[c], tries[c]) /\ tries[c] \in Nat
  BY DEF CountTypes
<1>1. ASSUME NEW p \in WakePc, pc' = [pc EXCEPT ![c] = p], tries' = tries, tries[c] = 0
      PROVE  CountTypes'
  <2>1. CountFits(p, tries[c])
    BY <1>1 DEF CountFits
  <2> QED BY <1>1, <2>1, SameCount
<1>2. CASE pc[c] \notin {"send", "sent", "ended", "material", "confirm", "confirmList"}
  <2>1. tries[c] = 0
    BY <1>0, <1>2 DEF CountFits
  <2>2. tries' = tries /\ \E p \in WakePc : pc' = [pc EXCEPT ![c] = p]
    <3>1. CASE EnableList(c) \/ EnableSave(c) \/ Choose(c)
      BY <3>1 DEF EnableList, EnableSave, Choose
    <3>2. CASE BoostList(c) \/ TakeLock(c) \/ Relist(c) \/ Read(c)
      BY <3>2 DEF BoostList, TakeLock, Relist, Read, Decide, Abort
    <3>3. CASE SaveBoost(c) \/ Rollback(c) \/ Restore(c)
      BY <3>3 DEF SaveBoost, Rollback, Restore, Abort
    <3>4. CASE Execute(c) \/ ExecAnswered(c) \/ ExecFailed(c)
      BY <3>4 DEF Execute, ExecAnswered, ExecFailed, EndCall, AfterCall
    <3>5. CASE HostTakesPick(c) \/ HostChooses(c)
      <4>1. tries' = tries /\ pc' = pc
        BY <3>5 DEF HostTakesPick, HostChooses
      <4>2. pc' = [pc EXCEPT ![c] = pc[c]] /\ pc[c] \in WakePc
        BY <4>1 DEF CountTypes
      <4> QED BY <4>1, <4>2
    <3>6. ~Confirm(c) /\ ~ConfirmList(c)
      BY <1>2 DEF Confirm, ConfirmList
    <3> QED BY <3>1, <3>2, <3>3, <3>4, <3>5, <3>6 DEF BoostStep
  <2> QED BY <1>1, <2>1, <2>2
<1>3. CASE pc[c] \in {"send", "sent", "ended", "material", "confirm", "confirmList"}
  <2>1. Confirm(c) \/ ConfirmList(c)
    BY <1>3 DEF EnableList, EnableSave, Choose, BoostStep, BoostList, TakeLock, Relist, Read,
       SaveBoost, Rollback, Restore, Execute, HostTakesPick, HostChooses, ExecAnswered,
       ExecFailed
  <2>2. tries[c] < BoostConfirmAttempts
    BY <1>0, <2>1 DEF CountFits, Confirm, ConfirmList
  <2>3. CASE \E p \in {"rollback", "execute"} :
               pc' = [pc EXCEPT ![c] = p] /\ tries' = [tries EXCEPT ![c] = 0]
    <3>1. CountFits("rollback", 0) /\ CountFits("execute", 0)
      BY DEF CountFits
    <3> QED BY <2>3, <3>1, CountStep
  <2>4. CASE pc' = [pc EXCEPT ![c] = "confirmList"] /\ tries' = tries
    <3>1. CountFits("confirmList", tries[c])
      BY <1>0, <2>2 DEF CountFits
    <3> QED BY <2>4, <3>1, SameCount
  <2>5. CASE /\ tries[c] + 1 # BoostConfirmAttempts
             /\ pc' = [pc EXCEPT ![c] = "confirm"]
             /\ tries' = [tries EXCEPT ![c] = @ + 1]
    <3> DEFINE n == tries[c] + 1
    <3>1. CountFits("confirm", n) /\ n \in Nat
      BY <1>0, <2>2, <2>5 DEF CountFits
    <3>2. tries' = [tries EXCEPT ![c] = n]
      BY <2>5
    <3> HIDE DEF n
    <3> QED BY <2>5, <3>1, <3>2, CountStep
  <2> QED BY <2>1, <2>3, <2>4, <2>5 DEF Confirm, ConfirmList, Retry
<1> QED BY <1>2, <1>3

LEMMA TypesInductive == Spec => []TypeInv
<1>1. TypeInv /\ [Next]_vars => TypeInv'
  <2> SUFFICES ASSUME TypeInv, [Next]_vars PROVE TypeInv'
    OBVIOUS
  <2>1. ASSUME NEW c \in Callers, Step(c) PROVE TypeInv'
    BY <2>1, HostStep, LockStep, DirectCount, OtherCount DEF Step, TypeInv
  <2>2. ASSUME NEW c \in Callers, Cancel(c) PROVE TypeInv'
    <3>1. CountTypes'
      BY <2>2 DEF Cancel, TypeInv, CountTypes, CountFits
    <3> QED BY <2>2, <3>1, HostStep, LockStep DEF TypeInv
  <2>3. ASSUME NEW a \in Auths, Sync(a) PROVE TypeInv'
    <3>1. HostTypes'
      BY <2>3 DEF Sync, setup, TypeInv, HostTypes, Documents, Routing, PriorityIn
    <3>2. LockTypes' /\ CountTypes'
      BY <2>3 DEF Sync, boostVars, TypeInv, LockTypes, CountTypes, CountFits
    <3> QED BY <3>1, <3>2 DEF TypeInv
  <2>4. ASSUME UNCHANGED vars PROVE TypeInv'
    BY <2>4 DEF vars, setup, hostVars, boostVars, TypeInv, HostTypes, LockTypes, CountTypes,
       CountFits
  <2> QED BY <2>1, <2>2, <2>3, <2>4 DEF Next, Quiet
<1> QED BY <1>1, InitTypes, PTL DEF Spec

\* Every variable of the two transports stays in its range, the attempts of
\* each retry loop within its limit, for any number of activations (auth_material.go,
\* wake_direct.go, priority_boost_confirm.go).
THEOREM WakePathTypes == Spec => []TypeOK
<1>1. TypeInv /\ OutcomeInv /\ CallInv => TypeOK
  <2> SUFFICES ASSUME TypeInv, OutcomeInv, CallInv PROVE TypeOK
    OBVIOUS
  <2>1. ASSUME NEW c \in Callers
        PROVE  \E n \in {MaxUnauthorized, MaterialAttempts, BoostConfirmAttempts} :
                 tries[c] \in 0 .. n - 1
    <3>1. CountFits(pc[c], tries[c])
      BY DEF TypeInv, CountTypes
    <3> QED BY <3>1, Labels DEF CountFits
  <2> QED BY <2>1 DEF TypeInv, HostTypes, LockTypes, CountTypes, OutcomeInv, OutcomeShape,
     CallInv, TypeOK
<1> QED BY <1>1, TypesInductive, OutcomeInductive, CallInductive, PTL

-----------------------------------------------------------------------------
(* Who may have changed a document *)

\* What the proof asks of the activations that enable their credential: they
\* are the only ones of it, and its listing is no stub.  enableIfNeeded saves
\* what it has listed, outside the lock.
EnabledApart ==
  /\ \A c \in Disabled, d \in Callers : AuthOf(d) = AuthOf(c) => d = c
  /\ \A c \in Disabled : AuthOf(c) \notin Stubbed

Enabling == {"enable", "enableSave"}
UnderLock == {"relist", "read", "save", "confirm", "confirmList", "rollback", "restore"}
Confirming == {"confirm", "confirmList", "rollback"}
AfterSave == {"confirm", "confirmList", "rollback", "execute", "asked", "restore"}

Spoilt(a) == \E c \in unsaved : AuthOf(c) = a

\* A document, up to the type of its priority.
Fields(document) == DOMAIN document = {"priority", "whole", "disabled"}

Shape ==
  /\ doc = [a \in Auths |-> doc[a]]
  /\ copy = [c \in Callers |-> copy[c]]
  /\ pc \in [Callers -> WakePc]
  /\ written \in [Callers -> BOOLEAN]
  /\ unsaved \subseteq Callers
  /\ \A a \in Auths : Fields(doc[a]) /\ doc[a].whole
  /\ \A c \in Callers : Fields(copy[c])

\* The copy that goes to the host is whole and has the priority to return to.
GoodCopy(c) ==
  /\ copy[c].whole /\ copy[c].priority # None
  /\ copy[c].priority = original[AuthOf(c)] \/ Spoilt(AuthOf(c))

Mine(c) ==
  /\ pc[c] \in Enabling =>
       c \in Disabled /\ c \notin unsaved /\ ~written[c]
  /\ pc[c] = "enableSave" =>
       copy[c].whole /\ copy[c].priority \in {None, original[AuthOf(c)]}
  /\ pc[c] \in UnderLock => lock = c
  /\ pc[c] \in Confirming => written[c]
  /\ written[c] => pc[c] \in AfterSave /\ lock = c
  /\ (pc[c] = "save" \/ written[c]) => GoodCopy(c)
  /\ c \in unsaved => pc[c] = "ended"

Raised(a) == \E c \in Callers : AuthOf(c) = a /\ written[c]

\* A credential whose document has no priority, or is still to be enabled, is
\* routed by its original one; and that is what was listed for it.
Untouched(a) ==
  \/ doc[a].priority = None
  \/ \E c \in Callers : AuthOf(c) = a /\ pc[c] \in Enabling

KeyInv ==
  /\ \A a \in Auths : Untouched(a) => index[a] = original[a]
  /\ \A c \in Callers :
       pc[c] = "read" /\ doc[AuthOf(c)].priority = None => seen[c].own = original[AuthOf(c)]

PriorityInv ==
  /\ Shape
  /\ \A c \in Callers : Mine(c)
  /\ \A a \in Auths : Routing(a) = original[a] \/ Spoilt(a) \/ Raised(a)

-----------------------------------------------------------------------------

LEMMA InitPriorityInv == ASSUME EnabledApart, Init PROVE PriorityInv
<1> USE DEF Init
<1>1. Shape
  BY WakePathConstants DEF Shape, Fields, Stub, WakePc
<1>2. ASSUME NEW c \in Callers PROVE Mine(c)
  BY DEF Mine, Enabling, UnderLock, Confirming, GoodCopy
<1>3. ASSUME NEW a \in Auths PROVE Routing(a) = original[a]
  BY DEF Routing, PriorityIn
<1> QED BY <1>1, <1>2, <1>3 DEF PriorityInv

-----------------------------------------------------------------------------
(* Three kinds of step *)

\* A caller goes on, and leaves documents, copies and the lock alone.
LEMMA MoveKeeps ==
  ASSUME PriorityInv, NEW c \in Callers, NEW q \in WakePc \ (Enabling \cup {"save"}),
         pc' = [pc EXCEPT ![c] = q], c \notin unsaved,
         q \in UnderLock => lock = c,
         q \in Confirming => written[c],
         written[c] => q \in AfterSave,
         UNCHANGED <<original, doc, copy, written, unsaved, lock>>
  PROVE  PriorityInv'
<1>1. Shape'
  BY DEF PriorityInv, Shape, Fields
<1>2. ASSUME NEW d \in Callers PROVE Mine(d)'
  <2>1. Mine(d)
    BY DEF PriorityInv
  <2>2. pc'[d] = IF d = c THEN q ELSE pc[d]
    BY DEF PriorityInv, Shape
  <2>3. GoodCopy(d) => GoodCopy(d)'
    BY DEF GoodCopy, Spoilt
  <2>4. CASE d = c
    BY <2>1, <2>2, <2>3, <2>4 DEF Mine, Enabling
  <2>5. CASE d # c
    BY <2>1, <2>2, <2>3, <2>5 DEF Mine
  <2> QED BY <2>4, <2>5
<1>3. \A a \in Auths : (Routing(a) = original[a] \/ Spoilt(a) \/ Raised(a))'
  BY DEF PriorityInv, Spoilt, Raised, Routing
<1> QED BY <1>1, <1>2, <1>3 DEF PriorityInv

\* Under the lock nobody but its holder has written.
LEMMA OnlyHolderWrites ==
  ASSUME PriorityInv, NEW c \in Callers, lock = c, NEW d \in Callers, written[d]
  PROVE  d = c
BY DEF PriorityInv, Mine

\* The holder frees the lock.  It has put the document back, or has not
\* changed it, or leaves the credential spoilt.
LEMMA ReleaseKeeps ==
  ASSUME PriorityInv, NEW c \in Callers, NEW q \in {"ended", "execute"}, lock = c,
         pc' = [pc EXCEPT ![c] = q], Unlock(c), original' = original,
         c \notin unsaved,
         \/ unsaved' = unsaved
         \/ unsaved' = unsaved \cup {c} /\ q = "ended",
         \/ doc' = doc /\ (~written[c] \/ unsaved' = unsaved \cup {c})
         \/ doc' = [doc EXCEPT ![AuthOf(c)] = copy[c]] /\ GoodCopy(c)
         \/ /\ doc' = [doc EXCEPT ![AuthOf(c)] = [copy[c] EXCEPT !.priority = Boosted(c)]]
            /\ unsaved' = unsaved \cup {c} /\ GoodCopy(c)
  PROVE  PriorityInv'
<1> DEFINE a == AuthOf(c)
<1> a \in Auths
  BY WakePathConstants
<1>0. Shape /\ Mine(c) /\ \A d \in Callers : Mine(d)
  BY DEF PriorityInv
<1>1. /\ doc' = [b \in Auths |-> doc'[b]]
      /\ \A b \in Auths \ {a} : doc'[b] = doc[b]
      /\ Fields(doc'[a]) /\ doc'[a].whole
  <2>1. /\ Fields([copy[c] EXCEPT !.priority = Boosted(c)])
        /\ [copy[c] EXCEPT !.priority = Boosted(c)].whole = copy[c].whole
    BY <1>0 DEF Shape, Fields
  <2>2. CASE doc' = doc
    BY <2>2, <1>0 DEF Shape
  <2>3. CASE doc' = [doc EXCEPT ![a] = copy[c]] /\ GoodCopy(c)
    BY <2>3, <1>0 DEF Shape, GoodCopy
  <2>4. CASE /\ doc' = [doc EXCEPT ![a] = [copy[c] EXCEPT !.priority = Boosted(c)]]
             /\ GoodCopy(c)
    BY <2>4, <2>1, <1>0 DEF Shape, GoodCopy
  <2> QED BY <2>2, <2>3, <2>4
<1>2. /\ unsaved' \subseteq Callers
      /\ \A d \in unsaved' : d \in unsaved \/ d = c
      /\ \A b \in Auths : Spoilt(b) => Spoilt(b)'
  BY <1>0 DEF Shape, Spoilt
<1>3. /\ \A d \in Callers : ~written'[d]
      /\ written' \in [Callers -> BOOLEAN]
  BY <1>0, OnlyHolderWrites DEF Unlock, Shape
<1>4. /\ copy' = [d \in Callers |-> copy'[d]]
      /\ \A d \in Callers \ {c} : copy'[d] = copy[d]
      /\ \A d \in Callers : Fields(copy'[d])
  BY <1>0 DEF Unlock, Shape, Fields, Stub
<1>5. /\ pc' \in [Callers -> WakePc]
      /\ pc'[c] = q
      /\ \A d \in Callers \ {c} : pc'[d] = pc[d]
  BY <1>0 DEF Shape, WakePc, DirectPc, BoostPc
<1>6. Shape'
  BY <1>0, <1>1, <1>2, <1>3, <1>4, <1>5 DEF Shape
<1>7. ASSUME NEW d \in Callers PROVE Mine(d)'
  <2>1. CASE d = c
    <3>1. q = "ended" \/ c \notin unsaved'
      BY <1>2
    <3> QED BY <3>1, <2>1, <1>3, <1>5 DEF Mine, Enabling, UnderLock, Confirming
  <2>2. CASE d # c
    <3>1. Mine(d) /\ pc[d] \notin UnderLock
      BY <1>0, <2>2 DEF Mine
    <3>2. pc'[d] = pc[d] /\ copy'[d] = copy[d] /\ ~written'[d]
      BY <2>2, <1>3, <1>4, <1>5
    <3> QED BY <3>1, <3>2, <2>2, <1>2 DEF Mine, UnderLock
  <2> QED BY <2>1, <2>2
<1>8. ASSUME NEW b \in Auths
      PROVE  (Routing(b) = original[b] \/ Spoilt(b) \/ Raised(b))'
  <2>1. Routing(b) = original[b] \/ Spoilt(b) \/ Raised(b)
    BY DEF PriorityInv
  <2>2. CASE unsaved' = unsaved \cup {c} /\ b = a
    BY <2>2 DEF Spoilt
  <2>3. CASE b # a
    <3>1. ~Raised(b)
      BY <2>3, OnlyHolderWrites DEF Raised
    <3> QED BY <3>1, <2>1, <2>3, <1>1, <1>2 DEF Routing
  <2>4. CASE b = a /\ doc' = doc /\ ~written[c]
    <3>1. ~Raised(b)
      BY <2>4, OnlyHolderWrites DEF Raised
    <3> QED BY <3>1, <2>1, <2>4, <1>2 DEF Routing
  <2>5. CASE b = a /\ doc' = [doc EXCEPT ![a] = copy[c]] /\ GoodCopy(c)
    <3>1. doc'[b] = copy[c]
      BY <2>5, <1>0 DEF Shape
    <3> QED BY <3>1, <2>5, <1>2 DEF GoodCopy, Routing, PriorityIn
  <2> QED BY <2>2, <2>3, <2>4, <2>5
<1> QED BY <1>6, <1>7, <1>8 DEF PriorityInv

LEMMA StayKeeps ==
  ASSUME PriorityInv, UNCHANGED <<original, doc, copy, written, unsaved, lock, pc>>
  PROVE  PriorityInv'
BY DEF PriorityInv, Shape, Fields, Mine, GoodCopy, Spoilt, Raised, Routing

-----------------------------------------------------------------------------
(* Enabling *)

LEMMA EnableKeeps ==
  ASSUME EnabledApart, PriorityInv, NEW c \in Callers,
         EnableList(c) \/ EnableSave(c) \/ Choose(c)
  PROVE  PriorityInv'
<1> DEFINE a == AuthOf(c)
<1>0. /\ Shape /\ Mine(c) /\ a \in Auths
      /\ \A d \in Callers : Mine(d)
  BY WakePathConstants DEF PriorityInv
<1>1. CASE Choose(c)
  <2> PICK q \in {"boost", "material"} : pc' = [pc EXCEPT ![c] = q]
    BY <1>1 DEF Choose, Goto
  <2>1. c \notin unsaved /\ ~written[c]
    BY <1>1, <1>0 DEF Choose, Mine, AfterSave
  <2> QED
    BY <1>1, <2>1, MoveKeeps DEF Choose, setup, boostVars, hostVars, WakePc, DirectPc,
       BoostPc, Enabling, UnderLock, Confirming
<1>2. CASE EnableList(c) /\ copy' = copy /\ pc' = [pc EXCEPT ![c] = "ended"]
  BY <1>2, <1>0, MoveKeeps DEF EnableList, Mine, setup, hostVars, WakePc, Enabling,
     UnderLock, Confirming
<1>3. ASSUME EnableList(c), ~(copy' = copy /\ pc' = [pc EXCEPT ![c] = "ended"])
      PROVE  PriorityInv'
  <2>1. /\ c \in Disabled /\ c \notin unsaved /\ ~written[c]
        /\ a \notin Stubbed
        /\ \A d \in Callers : AuthOf(d) = a => d = c
    BY <1>3, <1>0 DEF EnableList, Mine, Enabling, EnabledApart
  <2>2. doc[a].priority \in {None, original[a]} /\ doc[a].whole /\ Fields(doc[a])
    BY <1>0, <2>1 DEF PriorityInv, Shape, Spoilt, Raised, Routing, PriorityIn
  <2>3. /\ copy' = [copy EXCEPT ![c] = doc[a]]
        /\ pc' = [pc EXCEPT ![c] = "enableSave"]
        /\ UNCHANGED <<original, doc, written, unsaved, lock>>
    BY <1>3, <2>1 DEF EnableList, Listings, Store, Goto, setup, hostVars
  <2>4. Shape'
    BY <1>0, <2>2, <2>3 DEF Shape, Fields, WakePc
  <2>5. ASSUME NEW d \in Callers PROVE Mine(d)'
    <3>1. CASE d = c
      BY <3>1, <1>0, <2>1, <2>2, <2>3 DEF Mine, Shape, Enabling, UnderLock, Confirming
    <3>2. CASE d # c
      <4>1. Mine(d) /\ pc'[d] = pc[d] /\ copy'[d] = copy[d]
        BY <3>2, <1>0, <2>3 DEF Shape
      <4> QED BY <4>1, <2>3 DEF Mine, GoodCopy, Spoilt
    <3> QED BY <3>1, <3>2
  <2>6. \A b \in Auths : (Routing(b) = original[b] \/ Spoilt(b) \/ Raised(b))'
    BY <2>3 DEF PriorityInv, Spoilt, Raised, Routing
  <2> QED BY <2>4, <2>5, <2>6 DEF PriorityInv
<1>4. ASSUME EnableSave(c) PROVE PriorityInv'
  <2>1. /\ c \in Disabled /\ c \notin unsaved /\ ~written[c]
        /\ copy[c].whole /\ copy[c].priority \in {None, original[a]} /\ Fields(copy[c])
    BY <1>4, <1>0 DEF EnableSave, Mine, Enabling, Shape
  <2> DEFINE enabled == [copy[c] EXCEPT !.disabled = FALSE]
  <2>2. enabled.whole /\ enabled.priority \in {None, original[a]} /\ Fields(enabled)
    BY <2>1 DEF Fields
  <2> HIDE DEF enabled
  <2>3. /\ copy' = [copy EXCEPT ![c] = Stub]
        /\ UNCHANGED <<original, written, unsaved, lock>>
        /\ \/ pc' = [pc EXCEPT ![c] = "choose"] /\ doc' = [doc EXCEPT ![a] = enabled]
           \/ pc' = [pc EXCEPT ![c] = "ended"] /\ doc' = doc
    BY <1>4 DEF EnableSave, Write, Store, Goto, setup, enabled
  <2>4. /\ doc' = [b \in Auths |-> doc'[b]]
        /\ \A b \in Auths : doc'[b] = doc[b] \/ (b = a /\ doc'[b] = enabled)
    BY <1>0, <2>3 DEF Shape
  <2>5. Shape'
    <3>1. pc' \in [Callers -> WakePc]
      BY <1>0, <2>3 DEF Shape, WakePc
    <3>2. copy' = [d \in Callers |-> copy'[d]] /\ \A d \in Callers : Fields(copy'[d])
      BY <1>0, <2>3 DEF Shape, Stub, Fields
    <3> QED BY <1>0, <2>2, <2>3, <2>4, <3>1, <3>2 DEF Shape, Fields
  <2>6. ASSUME NEW d \in Callers PROVE Mine(d)'
    <3>1. CASE d = c
      <4>1. pc'[c] \in {"choose", "ended"} /\ ~written'[c] /\ c \notin unsaved'
        BY <1>0, <2>1, <2>3 DEF Shape
      <4> QED BY <3>1, <4>1 DEF Mine, Enabling, UnderLock, Confirming
    <3>2. CASE d # c
      <4>1. Mine(d) /\ pc'[d] = pc[d] /\ copy'[d] = copy[d]
        BY <3>2, <1>0, <2>3 DEF Shape
      <4> QED BY <4>1, <2>3 DEF Mine, GoodCopy, Spoilt
    <3> QED BY <3>1, <3>2
  <2>7. \A b \in Auths : (Routing(b) = original[b] \/ Spoilt(b) \/ Raised(b))'
    BY <2>2, <2>3, <2>4 DEF PriorityInv, Spoilt, Raised, Routing, PriorityIn
  <2> QED BY <2>5, <2>6, <2>7 DEF PriorityInv
<1> QED BY <1>1, <1>2, <1>3, <1>4

-----------------------------------------------------------------------------
(* The direct transport, which leaves documents and lock alone *)

LEMMA DirectKeeps ==
  ASSUME PriorityInv, NEW c \in Callers, DirectStep(c) PROVE PriorityInv'
<1> USE DEF Goto, Store
<1>0. pc[c] \in DirectPc /\ UNCHANGED <<setup, hostVars, boostVars>>
  BY DEF DirectStep, Material, Send, DirectAccepted, DirectLost, Unauthorized,
     DirectRefused, DirectPc
<1>1. c \notin unsaved /\ ~written[c]
  BY <1>0 DEF PriorityInv, Mine, DirectPc, AfterSave
<1>2. ASSUME NEW m, Fail(c, m)
      PROVE  \E q \in {"boost", "ended"} : pc' = [pc EXCEPT ![c] = q]
  BY <1>2 DEF Fail
<1>3. \/ pc' = pc
      \/ \E q \in {"boost", "ended", "send", "sent"} : pc' = [pc EXCEPT ![c] = q]
  <2>1. CASE Material(c)
    BY <2>1, <1>2 DEF Material
  <2>2. CASE Send(c)
    BY <2>2, <1>2 DEF Send
  <2>3. CASE DirectAccepted(c)
    BY <2>3 DEF DirectAccepted
  <2>4. CASE DirectLost(c)
    BY <2>4, <1>2 DEF DirectLost
  <2>5. CASE Unauthorized(c)
    BY <2>5, <1>2 DEF Unauthorized
  <2>6. CASE DirectRefused(c)
    BY <2>6, <1>2 DEF DirectRefused
  <2> QED BY <2>1, <2>2, <2>3, <2>4, <2>5, <2>6 DEF DirectStep
<1>4. UNCHANGED <<original, doc, copy, written, unsaved, lock>>
  BY <1>0 DEF setup, hostVars, boostVars
<1>5. CASE pc' = pc
  BY <1>4, <1>5, StayKeeps
<1>6. ASSUME NEW q \in {"boost", "ended", "send", "sent"}, pc' = [pc EXCEPT ![c] = q]
      PROVE  PriorityInv'
  BY <1>1, <1>4, <1>6, MoveKeeps DEF WakePc, DirectPc, BoostPc, Enabling, UnderLock,
     Confirming
<1> QED BY <1>3, <1>5, <1>6

-----------------------------------------------------------------------------
(* The scheduler transport *)

\* Steps that leave documents, copies and the lock alone.
LEMMA BoostMoves ==
  ASSUME PriorityInv, NEW c \in Callers,
         \/ BoostList(c) \/ Confirm(c) \/ ConfirmList(c)
         \/ Execute(c) \/ HostTakesPick(c) \/ HostChooses(c)
         \/ ExecAnswered(c) \/ ExecFailed(c)
  PROVE  PriorityInv'
<1> USE DEF Goto, Store
<1>0. Mine(c) /\ UNCHANGED <<original, doc, copy, written, unsaved, lock>>
  BY DEF PriorityInv, BoostList, Confirm, ConfirmList, Execute, HostTakesPick, HostChooses,
     ExecAnswered, ExecFailed, setup, hostVars, boostVars
<1>1. c \notin unsaved
  BY <1>0 DEF Mine, BoostList, Confirm, ConfirmList, Execute, HostTakesPick, HostChooses,
     ExecAnswered, ExecFailed
<1>2. CASE BoostList(c)
  <2>1. PICK q \in {"lock", "execute", "ended"} : pc' = [pc EXCEPT ![c] = q]
    BY <1>2 DEF BoostList
  <2>2. ~written[c]
    BY <1>0, <1>2 DEF Mine, AfterSave, BoostList
  <2> QED
    BY <1>0, <1>1, <2>1, <2>2, MoveKeeps DEF WakePc, BoostPc, Enabling, UnderLock,
       Confirming
<1>3. CASE Confirm(c) \/ ConfirmList(c)
  <2>1. PICK q \in {"confirm", "confirmList", "rollback", "execute"} :
          pc' = [pc EXCEPT ![c] = q]
    BY <1>3 DEF Confirm, ConfirmList, Retry
  <2>2. lock = c /\ written[c]
    BY <1>0, <1>3 DEF Mine, UnderLock, Confirming, Confirm, ConfirmList
  <2> QED
    BY <1>0, <1>1, <2>1, <2>2, MoveKeeps DEF WakePc, BoostPc, Enabling, AfterSave
<1>4. CASE Execute(c) \/ ExecAnswered(c) \/ ExecFailed(c)
  <2>1. PICK q \in {"asked", AfterCall(c)} : pc' = [pc EXCEPT ![c] = q]
    BY <1>4 DEF Execute, ExecAnswered, ExecFailed, EndCall
  <2>2. /\ q \in {"asked", "restore", "ended"}
        /\ q = "restore" => lock = c
        /\ q = "ended" => lock # c
    BY <2>1 DEF AfterCall
  <2>3. written[c] => lock = c
    BY <1>0 DEF Mine
  <2> QED
    BY <1>0, <1>1, <2>1, <2>2, <2>3, MoveKeeps DEF WakePc, BoostPc, Enabling, AfterSave,
       UnderLock, Confirming
<1>5. CASE HostTakesPick(c) \/ HostChooses(c)
  BY <1>0, <1>5, StayKeeps DEF HostTakesPick, HostChooses
<1> QED BY <1>2, <1>3, <1>4, <1>5

LEMMA TakeLockKeeps ==
  ASSUME PriorityInv, NEW c \in Callers, TakeLock(c) PROVE PriorityInv'
<1>1. /\ pc[c] = "lock" /\ pc' = [pc EXCEPT ![c] = "relist"]
      /\ lock = None /\ lock' = c
      /\ UNCHANGED <<original, doc, copy, written, unsaved>>
  BY DEF TakeLock, Goto, setup, hostVars
<1>2. Shape'
  BY <1>1 DEF PriorityInv, Shape, Fields, WakePc, BoostPc
<1>3. ASSUME NEW d \in Callers PROVE Mine(d)'
  <2>1. Mine(d) /\ d # None
    BY WakePathConstants DEF PriorityInv
  <2>2. pc'[d] = IF d = c THEN "relist" ELSE pc[d]
    BY <1>1 DEF PriorityInv, Shape
  <2>3. CASE d = c
    BY <1>1, <2>1, <2>2, <2>3 DEF Mine, Enabling, Confirming, AfterSave
  <2>4. CASE d # c
    <3>1. GoodCopy(d) => GoodCopy(d)'
      BY <1>1 DEF GoodCopy, Spoilt
    <3> QED BY <1>1, <2>1, <2>2, <2>4, <3>1 DEF Mine
  <2> QED BY <2>3, <2>4
<1>4. \A a \in Auths : (Routing(a) = original[a] \/ Spoilt(a) \/ Raised(a))'
  BY <1>1 DEF PriorityInv, Spoilt, Raised, Routing
<1> QED BY <1>2, <1>3, <1>4 DEF PriorityInv

\* Nobody has written while the holder has not: the document of its
\* credential is the original one, or spoilt for good.
LEMMA HolderReadsOriginal ==
  ASSUME PriorityInv, NEW c \in Callers, lock = c, ~written[c]
  PROVE  LET a == AuthOf(c) IN
         /\ Fields(doc[a]) /\ doc[a].whole
         /\ Routing(a) = original[a] \/ Spoilt(a)
<1>1. AuthOf(c) \in Auths
  BY WakePathConstants
<1>2. ~Raised(AuthOf(c))
  BY OnlyHolderWrites DEF Raised
<1> QED BY <1>1, <1>2 DEF PriorityInv, Shape

\* What is listed for a document without a priority is the original one.
LEMMA KeylessListing ==
  ASSUME TypeInv, KeyInv, NEW a \in Auths, doc[a].priority = None
  PROVE  Listed(a) = original[a]
<1>1. index[a] = original[a] /\ original[a] \in Nat
  BY DEF TypeInv, HostTypes, KeyInv, Untouched
<1> QED BY <1>1 DEF Listed, PriorityIn

LEMMA DecideKeeps ==
  ASSUME PriorityInv, NEW c \in Callers, NEW stats, pc[c] \in {"relist", "read"},
         stats.own \in Nat,
         doc[AuthOf(c)].priority = None => stats.own = original[AuthOf(c)],
         Decide(c, doc[AuthOf(c)], stats) \/ Decide(c, Stub, stats),
         UNCHANGED <<original, doc, unsaved>>
  PROVE  PriorityInv'
<1> DEFINE a == AuthOf(c)
           kept == [doc[a] EXCEPT !.priority = PriorityIn(doc[a], stats.own)]
<1>0. Shape /\ Mine(c) /\ \A d \in Callers : Mine(d)
  BY DEF PriorityInv
<1>1. lock = c /\ ~written[c] /\ c \notin unsaved
  BY <1>0 DEF Mine, UnderLock, AfterSave
<1>2. Fields(doc[a]) /\ doc[a].whole /\ (Routing(a) = original[a] \/ Spoilt(a))
  BY <1>1, HolderReadsOriginal
<1>3. CASE Abort(c)
  BY <1>1, <1>3, ReleaseKeeps DEF Abort, Store, Goto
<1>4. CASE ~Abort(c)
  <2>1. PICK q \in {"save", "execute"} :
          /\ copy' = [copy EXCEPT ![c] = kept]
          /\ pc' = [pc EXCEPT ![c] = q]
          /\ UNCHANGED <<lock, written>>
    BY <1>4 DEF Decide, LooksFull, Stub, Goto
  <2>2. /\ Fields(kept) /\ kept.whole /\ kept.priority # None
        /\ kept.priority = original[a] \/ Spoilt(a)
    <3>1. Fields(kept) /\ kept.whole /\ kept.priority = PriorityIn(doc[a], stats.own)
      BY <1>2 DEF Fields
    <3>2. PriorityIn(doc[a], stats.own) # None
      BY WakePathConstants DEF PriorityIn
    <3>3. PriorityIn(doc[a], stats.own) = Routing(a)
      BY DEF PriorityIn, Routing
    <3> QED BY <1>2, <3>1, <3>2, <3>3
  <2> HIDE DEF kept
  <2>3. Shape'
    BY <1>0, <2>1, <2>2 DEF Shape, Fields, WakePc, BoostPc
  <2>4. ASSUME NEW d \in Callers PROVE Mine(d)'
    <3>1. CASE d = c
      <4>1. pc'[c] = q /\ copy'[c] = kept
        BY <1>0, <2>1 DEF Shape
      <4>2. GoodCopy(c)'
        BY <2>1, <2>2, <4>1 DEF GoodCopy, Spoilt
      <4> QED BY <3>1, <4>1, <4>2, <1>1, <2>1 DEF Mine, Enabling, UnderLock, Confirming
    <3>2. CASE d # c
      <4>1. Mine(d) /\ pc'[d] = pc[d] /\ copy'[d] = copy[d]
        BY <3>2, <1>0, <2>1 DEF Shape
      <4> QED BY <4>1, <2>1 DEF Mine, GoodCopy, Spoilt
    <3> QED BY <3>1, <3>2
  <2>5. \A b \in Auths : (Routing(b) = original[b] \/ Spoilt(b) \/ Raised(b))'
    BY <2>1 DEF PriorityInv, Spoilt, Raised, Routing
  <2> QED BY <2>3, <2>4, <2>5 DEF PriorityInv
<1> QED BY <1>3, <1>4

LEMMA ReadKeeps ==
  ASSUME TypeInv, KeyInv, PriorityInv, NEW c \in Callers, Relist(c) \/ Read(c)
  PROVE  PriorityInv'
<1> DEFINE a == AuthOf(c)
<1>0. /\ Mine(c) /\ pc[c] \in {"relist", "read"} /\ a \in Auths
      /\ UNCHANGED <<original, doc, unsaved>>
  BY WakePathConstants DEF PriorityInv, Relist, Read, setup, hostVars
<1>1. lock = c /\ ~written[c] /\ c \notin unsaved
  BY <1>0 DEF Mine, UnderLock, AfterSave
<1>2. CASE Unlock(c) /\ pc' = [pc EXCEPT ![c] = "execute"]
  BY <1>0, <1>1, <1>2, ReleaseKeeps
<1>3. CASE Abort(c)
  BY <1>0, <1>1, <1>3, ReleaseKeeps DEF Abort, Store, Goto
<1>4. ASSUME NEW q \in {"execute", "read"}, pc' = [pc EXCEPT ![c] = q],
             UNCHANGED <<lock, copy, written>>
      PROVE  PriorityInv'
  BY <1>0, <1>1, <1>4, MoveKeeps DEF WakePc, BoostPc, Enabling, Confirming
<1>5. CASE Relist(c)
  <2>1. /\ Stats(a).own \in Nat
        /\ doc[a].priority = None => Stats(a).own = original[a]
    BY <1>0, KeylessListing, TopIsHighest DEF Stats, TypeInv
  <2>2. CASE Decide(c, doc[a], Stats(a))
    BY <1>0, <2>1, <2>2, DecideKeeps
  <2> QED BY <1>2, <1>3, <1>4, <1>5, <2>2 DEF Relist, Goto
<1>6. CASE Read(c)
  <2>1. /\ seen[c].own \in Nat
        /\ doc[a].priority = None => seen[c].own = original[a]
    BY <1>6 DEF Read, TypeInv, LockTypes, KeyInv
  <2> QED BY <1>0, <1>6, <2>1, DecideKeeps DEF Read
<1> QED BY <1>5, <1>6

\* The boosting save: from now on the document is off its priority.
LEMMA BoostedKeeps ==
  ASSUME PriorityInv, NEW c \in Callers, pc[c] = "save",
         doc' = [doc EXCEPT ![AuthOf(c)] = [copy[c] EXCEPT !.priority = Boosted(c)]],
         written' = [written EXCEPT ![c] = TRUE],
         pc' = [pc EXCEPT ![c] = "confirm"],
         UNCHANGED <<original, copy, lock, unsaved>>
  PROVE  PriorityInv'
<1> DEFINE a == AuthOf(c)
<1>0. /\ Shape /\ Mine(c) /\ a \in Auths
      /\ \A d \in Callers : Mine(d)
  BY WakePathConstants DEF PriorityInv
<1>1. lock = c /\ c \notin unsaved /\ GoodCopy(c)
  BY <1>0 DEF Mine, UnderLock
<1> DEFINE boosted == [copy[c] EXCEPT !.priority = Boosted(c)]
<1>2. Fields(boosted) /\ boosted.whole = copy[c].whole
  BY <1>0 DEF Shape, Fields
<1> HIDE DEF boosted
<1>3. doc' = [doc EXCEPT ![a] = boosted]
  BY DEF boosted
<1>4. Shape'
  BY <1>0, <1>1, <1>2, <1>3 DEF Shape, Fields, GoodCopy, WakePc, BoostPc
<1>5. ASSUME NEW d \in Callers PROVE Mine(d)'
  <2>1. GoodCopy(d) => GoodCopy(d)'
    BY DEF GoodCopy, Spoilt
  <2>2. CASE d = c
    <3>1. pc'[c] = "confirm" /\ written'[c]
      BY <1>0 DEF Shape
    <3> QED BY <2>1, <2>2, <3>1, <1>1 DEF Mine, Enabling, UnderLock, Confirming, AfterSave
  <2>3. CASE d # c
    <3>1. Mine(d) /\ pc'[d] = pc[d] /\ written'[d] = written[d]
      BY <2>3, <1>0 DEF Shape
    <3> QED BY <2>1, <3>1 DEF Mine
  <2> QED BY <2>2, <2>3
<1>6. ASSUME NEW b \in Auths
      PROVE  (Routing(b) = original[b] \/ Spoilt(b) \/ Raised(b))'
  <2>1. CASE b = a
    <3>1. written'[c]
      BY <1>0 DEF Shape
    <3> QED BY <2>1, <3>1 DEF Raised
  <2>2. CASE b # a
    <3>1. doc'[b] = doc[b]
      BY <2>2, <1>0, <1>3 DEF Shape
    <3>2. Raised(b) => Raised(b)'
      BY <2>2, <1>0 DEF Raised, Shape
    <3> QED BY <3>1, <3>2 DEF PriorityInv, Spoilt, Routing
  <2> QED BY <2>1, <2>2
<1> QED BY <1>4, <1>5, <1>6 DEF PriorityInv

LEMMA SaveKeeps ==
  ASSUME PriorityInv, NEW c \in Callers, SaveBoost(c) PROVE PriorityInv'
<1>0. Mine(c) /\ pc[c] = "save" /\ original' = original
  BY DEF PriorityInv, SaveBoost, setup
<1>1. lock = c /\ ~written[c] /\ c \notin unsaved /\ GoodCopy(c)
  BY <1>0 DEF Mine, UnderLock, AfterSave
<1>2. CASE /\ doc' = [doc EXCEPT ![AuthOf(c)] = [copy[c] EXCEPT !.priority = Boosted(c)]]
           /\ written' = [written EXCEPT ![c] = TRUE]
           /\ pc' = [pc EXCEPT ![c] = "confirm"]
           /\ UNCHANGED <<lock, copy, unsaved>>
  BY <1>0, <1>2, BoostedKeeps
<1>3. CASE Abort(c) /\ UNCHANGED <<doc, unsaved>>
  BY <1>0, <1>1, <1>3, ReleaseKeeps DEF Abort, Store, Goto
<1>4. CASE /\ doc' = [doc EXCEPT ![AuthOf(c)] = [copy[c] EXCEPT !.priority = Boosted(c)]]
           /\ unsaved' = unsaved \cup {c}
           /\ Abort(c)
  BY <1>0, <1>1, <1>4, ReleaseKeeps DEF Abort, Store, Goto
<1> QED BY <1>2, <1>3, <1>4 DEF SaveBoost, Write, Goto

LEMMA PutBackKeeps ==
  ASSUME PriorityInv, NEW c \in Callers, Rollback(c) \/ Restore(c) PROVE PriorityInv'
<1>0. Mine(c) /\ pc[c] \in {"rollback", "restore"} /\ original' = original
  BY DEF PriorityInv, Rollback, Restore, setup
<1>1. lock = c /\ c \notin unsaved /\ (written[c] => GoodCopy(c))
  BY <1>0 DEF Mine, UnderLock
<1>2. Unlock(c) /\ pc' = [pc EXCEPT ![c] = "ended"]
  BY DEF Rollback, Restore, Abort, Store, Goto
<1>3. \/ UNCHANGED <<doc, unsaved>> /\ ~written[c]
      \/ doc' = doc /\ unsaved' = unsaved \cup {c}
      \/ /\ doc' = [doc EXCEPT ![AuthOf(c)] = copy[c]] /\ unsaved' = unsaved
         /\ GoodCopy(c)
  BY <1>0, <1>1 DEF Mine, Confirming, Rollback, Restore, PutBack, Write
<1> QED BY <1>0, <1>1, <1>2, <1>3, ReleaseKeeps

-----------------------------------------------------------------------------
(* Documents without a priority *)

\* A step that writes no document leaves none without a priority that had one.
LEMMA KeysStay ==
  ASSUME EnabledApart, TypeInv, KeyInv, NEW c \in Callers, UNCHANGED <<original, index>>,
         \A a \in Auths : doc'[a].priority = None => Untouched(a),
         \A a \in Auths \ {AuthOf(c)} : doc'[a] = doc[a],
         NEW p, pc' = [pc EXCEPT ![c] = p],
         p \in Enabling => pc[c] \in Enabling,
         \A d \in Callers \ {c} : seen'[d] = seen[d],
         \A d \in Callers \ {c} :
           AuthOf(d) = AuthOf(c) /\ pc[d] = "read" /\ doc'[AuthOf(d)].priority = None =>
             doc[AuthOf(d)].priority = None,
         p = "read" => seen'[c].own = Listed(AuthOf(c)) /\ doc' = doc
  PROVE  KeyInv'
<1>0. /\ pc \in [Callers -> WakePc] /\ seen \in [Callers -> [top : Nat, tied : BOOLEAN, own : Nat]]
      /\ \A d \in Callers : AuthOf(d) \in Auths
  BY WakePathConstants DEF TypeInv, CountTypes, LockTypes
<1>1. ASSUME NEW a \in Auths, Untouched(a)' PROVE index'[a] = original'[a]
  <2>1. Untouched(a)
    BY <1>0, <1>1 DEF Untouched
  <2> QED BY <2>1 DEF KeyInv
<1>2. ASSUME NEW d \in Callers, pc'[d] = "read", doc'[AuthOf(d)].priority = None
      PROVE  seen'[d].own = original'[AuthOf(d)]
  <2>1. CASE d = c
    <3>1. p = "read" /\ doc[AuthOf(c)].priority = None
      BY <1>0, <1>2, <2>1
    <3> QED BY <1>0, <2>1, <3>1, KeylessListing
  <2>2. CASE d # c
    <3>1. pc[d] = "read" /\ doc[AuthOf(d)].priority = None
      BY <1>0, <1>2, <2>2
    <3> QED BY <1>0, <2>2, <3>1 DEF KeyInv
  <2> QED BY <2>1, <2>2
<1> QED BY <1>1, <1>2 DEF KeyInv

LEMMA InitKeyInv == Init => KeyInv
BY DEF Init, KeyInv

\* What is saved for a boost, or put back after it, has a priority.
LEMMA KeysSaved ==
  ASSUME TypeInv, PriorityInv, NEW c \in Callers,
         SaveBoost(c) \/ Rollback(c) \/ Restore(c)
  PROVE  LET a == AuthOf(c) IN
         /\ doc'[a] = doc[a] \/ doc'[a].priority # None
         /\ \A b \in Auths \ {a} : doc'[b] = doc[b]
<1> DEFINE a == AuthOf(c)
<1>0. /\ Mine(c) /\ a \in Auths /\ doc = [b \in Auths |-> doc[b]]
      /\ copy[c] \in Documents /\ Boosted(c) \in Nat /\ Boosted(c) # None
  BY WakePathConstants, BoostedIsOver DEF PriorityInv, TypeInv, LockTypes, HostTypes
<1>1. CASE SaveBoost(c)
  <2>1. doc' = doc \/ doc' = [doc EXCEPT ![a] = [copy[c] EXCEPT !.priority = Boosted(c)]]
    BY <1>1 DEF SaveBoost, Write
  <2>2. [copy[c] EXCEPT !.priority = Boosted(c)].priority = Boosted(c)
    BY <1>0 DEF Documents
  <2> QED BY <1>0, <2>1, <2>2
<1>2. CASE Rollback(c) \/ Restore(c)
  <2>1. \/ doc' = doc
        \/ written[c] /\ doc' = [doc EXCEPT ![a] = copy[c]]
    BY <1>0, <1>2 DEF Mine, Confirming, Rollback, Restore, PutBack, Write
  <2>2. written[c] => copy[c].priority # None
    BY <1>0 DEF Mine, GoodCopy
  <2> QED BY <1>0, <2>1, <2>2
<1> QED BY <1>1, <1>2

LEMMA StepKeyInv ==
  ASSUME EnabledApart, TypeInv, KeyInv, PriorityInv, NEW c \in Callers, Step(c)
  PROVE  KeyInv'
<1> DEFINE a == AuthOf(c)
<1> USE DEF Goto, Store
<1>0. /\ a \in Auths /\ pc \in [Callers -> WakePc] /\ Mine(c)
      /\ seen \in [Callers -> [top : Nat, tied : BOOLEAN, own : Nat]]
      /\ doc = [b \in Auths |-> doc[b]]
  BY WakePathConstants DEF TypeInv, CountTypes, LockTypes, HostTypes, PriorityInv
<1>1. CASE UNCHANGED <<original, index, doc, seen>> /\ pc' = pc
  BY <1>1 DEF KeyInv, Untouched
<1>2. ASSUME UNCHANGED <<original, index, doc>>,
             \A d \in Callers \ {c} : seen'[d] = seen[d],
             NEW p, pc' = [pc EXCEPT ![c] = p],
             p \in Enabling => pc[c] \in Enabling,
             p = "read" => seen'[c].own = Listed(a)
      PROVE  KeyInv'
  BY <1>2, KeysStay DEF Untouched
<1>3. CASE EnableList(c)
  <2>1. PICK p \in {"enableSave", "ended"} : pc' = [pc EXCEPT ![c] = p]
    BY <1>3 DEF EnableList
  <2>2. UNCHANGED <<original, index, doc, seen>> /\ pc[c] \in Enabling
    BY <1>3 DEF EnableList, Enabling, setup, hostVars
  <2> QED BY <1>2, <2>1, <2>2
<1>4. CASE EnableSave(c)
  <2>1. PICK p \in {"choose", "ended"} : pc' = [pc EXCEPT ![c] = p]
    BY <1>4 DEF EnableSave
  <2>2. /\ UNCHANGED <<original, index, seen>> /\ pc[c] \in Enabling
        /\ \A b \in Auths \ {a} : doc'[b] = doc[b]
    BY <1>0, <1>4 DEF EnableSave, Enabling, Write, setup
  <2>3. \A d \in Callers \ {c} : AuthOf(d) # a
    BY <1>0, <2>2 DEF Mine, EnabledApart
  <2>4. \A b \in Auths : doc'[b].priority = None => Untouched(b)
    BY <2>2 DEF Untouched
  <2>5. p \notin Enabling /\ p # "read"
    BY DEF Enabling
  <2> QED BY <2>1, <2>2, <2>3, <2>4, <2>5, KeysStay
<1>5. CASE Choose(c)
  <2>1. PICK p \in {"boost", "material"} : pc' = [pc EXCEPT ![c] = p]
    BY <1>5 DEF Choose
  <2> QED BY <1>2, <1>5, <2>1 DEF Choose, setup, hostVars, boostVars, Enabling
<1>6. CASE DirectStep(c)
  <2>1. UNCHANGED <<original, index, doc, seen>>
    BY <1>6 DEF DirectStep, Material, Send, DirectAccepted, DirectLost, Unauthorized,
       DirectRefused, setup, hostVars, boostVars
  <2>2. \/ pc' = pc
        \/ \E p \in {"ended", "boost", "send", "sent"} : pc' = [pc EXCEPT ![c] = p]
    <3>1. \A m : Fail(c, m) => \E p \in {"boost", "ended"} : pc' = [pc EXCEPT ![c] = p]
      BY DEF Fail
    <3> QED BY <1>6, <3>1 DEF DirectStep, Material, Send, DirectAccepted, DirectLost,
           Unauthorized, DirectRefused
  <2> QED BY <1>1, <1>2, <2>1, <2>2 DEF Enabling
<1>7. CASE BoostList(c) \/ TakeLock(c) \/ Confirm(c) \/ ConfirmList(c) \/ Execute(c)
           \/ ExecAnswered(c) \/ ExecFailed(c)
  <2>1. PICK p \in {"lock", "execute", "ended", "relist", "confirm", "confirmList",
                    "rollback", "asked", "restore"} :
          pc' = [pc EXCEPT ![c] = p]
    <3>1. CASE BoostList(c) \/ TakeLock(c)
      BY <3>1 DEF BoostList, TakeLock
    <3>2. CASE Confirm(c) \/ ConfirmList(c)
      BY <3>2 DEF Confirm, ConfirmList, Retry
    <3>3. CASE Execute(c) \/ ExecAnswered(c) \/ ExecFailed(c)
      BY <3>3 DEF Execute, ExecAnswered, ExecFailed, EndCall, AfterCall
    <3> QED BY <1>7, <3>1, <3>2, <3>3
  <2>2. UNCHANGED <<original, index, doc, seen>>
    BY <1>7 DEF BoostList, TakeLock, Confirm, ConfirmList, Execute, ExecAnswered, ExecFailed,
       setup, hostVars, boostVars
  <2> QED BY <1>2, <2>1, <2>2 DEF Enabling
<1>8. CASE HostTakesPick(c) \/ HostChooses(c)
  BY <1>1, <1>8 DEF HostTakesPick, HostChooses, setup, hostVars, boostVars
<1>9. CASE Relist(c) \/ Read(c)
  <2>1. UNCHANGED <<original, index, doc>>
    BY <1>9 DEF Relist, Read, setup, hostVars
  <2>2. \A d \in Callers \ {c} : seen'[d] = seen[d]
    BY <1>0, <1>9 DEF Relist, Read, Decide, Abort, Unlock
  <2>3. \/ \E p \in {"save", "execute", "ended"} : pc' = [pc EXCEPT ![c] = p]
        \/ /\ pc' = [pc EXCEPT ![c] = "read"]
           /\ seen' = [seen EXCEPT ![c] = Stats(a)]
    BY <1>9 DEF Relist, Read, Decide, Abort
  <2>4. CASE pc' = [pc EXCEPT ![c] = "read"] /\ seen' = [seen EXCEPT ![c] = Stats(a)]
    <3>1. seen'[c].own = Listed(a)
      BY <1>0, <2>4 DEF Stats
    <3> QED BY <1>2, <2>1, <2>2, <2>4, <3>1 DEF Enabling
  <2> QED BY <1>2, <2>1, <2>2, <2>3, <2>4 DEF Enabling
<1>10. CASE SaveBoost(c) \/ Rollback(c) \/ Restore(c)
  <2>1. PICK p \in {"confirm", "ended"} : pc' = [pc EXCEPT ![c] = p]
    BY <1>10 DEF SaveBoost, Rollback, Restore, Abort
  <2>2. UNCHANGED <<original, index>> /\ \A d \in Callers \ {c} : seen'[d] = seen[d]
    BY <1>0, <1>10 DEF SaveBoost, Rollback, Restore, Abort, Unlock, setup
  <2>3. /\ doc'[a] = doc[a] \/ doc'[a].priority # None
        /\ \A b \in Auths \ {a} : doc'[b] = doc[b]
    BY <1>10, KeysSaved
  <2>4. /\ \A b \in Auths : doc'[b].priority = None => Untouched(b)
        /\ \A d \in Callers \ {c} :
             AuthOf(d) = a /\ doc'[AuthOf(d)].priority = None => doc[AuthOf(d)].priority = None
    BY <2>3 DEF Untouched
  <2>5. p \notin Enabling /\ p # "read"
    BY DEF Enabling
  <2> QED BY <2>1, <2>2, <2>3, <2>4, <2>5, KeysStay
<1> QED BY <1>3, <1>4, <1>5, <1>6, <1>7, <1>8, <1>9, <1>10 DEF Step, BoostStep

LEMMA NextKeyInv ==
  ASSUME EnabledApart, TypeInv, KeyInv, PriorityInv, [Next]_vars PROVE KeyInv'
<1>1. ASSUME NEW c \in Callers, Step(c) PROVE KeyInv'
  BY <1>1, StepKeyInv
<1>2. CASE UNCHANGED <<original, index, doc, seen, pc>>
  BY <1>2 DEF KeyInv, Untouched
<1>3. ASSUME NEW a \in Auths, Sync(a) PROVE KeyInv'
  <2>1. /\ index' = [index EXCEPT ![a] = Routing(a)] /\ index \in [Auths -> Nat]
        /\ UNCHANGED <<original, doc, seen, pc>>
    BY <1>3 DEF Sync, setup, boostVars, TypeInv, HostTypes
  <2>2. ASSUME Untouched(a) PROVE Routing(a) = original[a]
    <3>1. CASE doc[a].priority = None
      BY <3>1 DEF Routing, PriorityIn
    <3>2. ASSUME NEW c \in Callers, AuthOf(c) = a, pc[c] \in Enabling
          PROVE  Routing(a) = original[a]
      <4>1. c \in Disabled /\ c \notin unsaved /\ ~written[c] /\ unsaved \subseteq Callers
        BY <3>2 DEF PriorityInv, Mine, Shape
      <4>2. \A d \in Callers : AuthOf(d) = a => d = c
        BY <3>2, <4>1 DEF EnabledApart
      <4>3. ~Spoilt(a) /\ ~Raised(a)
        BY <4>1, <4>2 DEF Spoilt, Raised
      <4> QED BY <4>3 DEF PriorityInv
    <3> QED BY <2>2, <3>1, <3>2 DEF Untouched
  <2> QED BY <2>1, <2>2 DEF KeyInv, Untouched
<1> QED BY <1>1, <1>2, <1>3 DEF Next, Quiet, Cancel, vars, setup, hostVars, boostVars

LEMMA NextPriorityInv ==
  ASSUME EnabledApart, TypeInv, KeyInv, PriorityInv, [Next]_vars PROVE PriorityInv'
<1>1. ASSUME NEW c \in Callers, Step(c) PROVE PriorityInv'
  <2>1. CASE EnableList(c) \/ EnableSave(c) \/ Choose(c)
    BY <2>1, EnableKeeps
  <2>2. CASE DirectStep(c)
    BY <2>2, DirectKeeps
  <2>3. CASE BoostStep(c)
    BY <2>3, BoostMoves, TakeLockKeeps, ReadKeeps, SaveKeeps, PutBackKeeps DEF BoostStep
  <2> QED BY <1>1, <2>1, <2>2, <2>3 DEF Step
<1>2. ASSUME NEW c \in Callers, Cancel(c) PROVE PriorityInv'
  BY <1>2, StayKeeps DEF Cancel, setup, hostVars, boostVars
<1>3. ASSUME NEW a \in Auths, Sync(a) PROVE PriorityInv'
  BY <1>3, StayKeeps DEF Sync, setup, boostVars
<1>4. CASE UNCHANGED vars
  BY <1>4, StayKeeps DEF vars, setup, hostVars, boostVars
<1> QED BY <1>1, <1>2, <1>3, <1>4 DEF Next, Quiet

LEMMA Inductive == ASSUME EnabledApart PROVE Spec => [](PriorityInv /\ KeyInv)
<1>1. Init => PriorityInv /\ KeyInv
  BY InitPriorityInv, InitKeyInv
<1>2. TypeInv /\ PriorityInv /\ KeyInv /\ [Next]_vars => (PriorityInv /\ KeyInv)'
  BY NextPriorityInv, NextKeyInv
<1> QED BY <1>1, <1>2, TypesInductive, PTL DEF Spec

\* boostPriorityForSelection raises a priority only under the provider's
\* lock, and whoever raised it puts it back before the lock is free again or
\* has had a save refused.
THEOREM PriorityReturns == ASSUME EnabledApart PROVE Spec => []PriorityComesBack
<1>1. PriorityInv => PriorityComesBack
  BY DEF PriorityInv, Mine, PriorityComesBack, Spoilt, Raised, Shape
<1> QED BY <1>1, Inductive, PTL

\* looksLikeFullAuthDocument stands between every read and every write of the
\* boost: a document with tokens is never replaced by one without.
THEOREM TokensAreKept == ASSUME EnabledApart PROVE Spec => []TokensSurvive
<1>1. PriorityInv => TokensSurvive
  BY DEF PriorityInv, TokensSurvive, Shape
<1> QED BY <1>1, Inductive, PTL

-----------------------------------------------------------------------------
(* Alone on top *)

\* The caller relies on what it has listed under the lock.
Planning(c) == pc[c] \in {"read", "save"} \/ written[c]

\* While no save has been refused, the highest priority c has listed is not
\* exceeded by a peer.
Overlooks(c) == \A a \in Auths \ {AuthOf(c)} : Listed(a) <= seen[c].top

Plan(c) ==
  /\ Planning(c) => /\ lock = c
                    /\ seen[c].top >= original[AuthOf(c)]
                    /\ unsaved = {} => Overlooks(c)
  /\ pc[c] = "save" \/ written[c] =>
       copy[c].priority \in Nat /\ copy[c].priority >= original[AuthOf(c)]
  /\ written[c] => doc[AuthOf(c)].priority = Boosted(c)
  /\ written[c] /\ pc[c] \in {"confirmList", "execute", "asked"} =>
       Listed(AuthOf(c)) >= Boosted(c)

\* No priority, saved or routed by, is ever under the original one.
Floored == \A a \in Auths : Routing(a) >= original[a] /\ index[a] >= original[a]

TopInv == Floored /\ \A c \in Callers : Plan(c)

LEMMA FlooredListing ==
  ASSUME HostTypes, Floored, NEW a \in Auths
  PROVE  Listed(a) >= original[a]
BY DEF HostTypes, Floored, Listed, Routing, PriorityIn, Documents

\* Where nobody holds c's plan but c: the others have none.
LEMMA OnePlan ==
  ASSUME PriorityInv, NEW c \in Callers, lock = c \/ lock = None, NEW d \in Callers, d # c
  PROVE  ~Planning(d)
BY WakePathConstants DEF PriorityInv, Mine, Planning, UnderLock

\* A step of c that leaves documents, index and original priorities alone, and
\* c without a plan.
LEMMA PlanLeft ==
  ASSUME PriorityInv, TopInv, NEW c \in Callers,
         UNCHANGED <<original, doc, index>>,
         \A d \in Callers \ {c} :
           /\ pc'[d] = pc[d] /\ written'[d] = written[d]
           /\ copy'[d] = copy[d] /\ seen'[d] = seen[d]
           /\ lock = d => lock' = d,
         unsaved \subseteq unsaved',
         ~Planning(c)'
  PROVE  TopInv'
<1>1. Floored'
  BY DEF TopInv, Floored, Routing, PriorityIn
<1>2. ASSUME NEW d \in Callers PROVE Plan(d)'
  <2>1. CASE d = c
    BY <2>1 DEF Plan, Planning
  <2>2. CASE d # c
    BY <2>2 DEF TopInv, Plan, Planning, Overlooks, Listed, PriorityIn, Boosted
  <2> QED BY <2>1, <2>2
<1> QED BY <1>1, <1>2 DEF TopInv

\* A step that leaves all of it alone, but for the place of c.
LEMMA PlanMoves ==
  ASSUME PriorityInv, TopInv, NEW c \in Callers, NEW p,
         UNCHANGED <<original, doc, index, lock, copy, seen, written, unsaved>>,
         pc' = [pc EXCEPT ![c] = p],
         p \notin {"read", "save"},
         written[c] /\ p \in {"confirmList", "execute", "asked"} =>
           Listed(AuthOf(c)) >= Boosted(c)
  PROVE  TopInv'
<1>1. Floored'
  BY DEF TopInv, Floored, Routing, PriorityIn
<1>2. ASSUME NEW d \in Callers PROVE Plan(d)'
  <2>1. pc'[d] = IF d = c THEN p ELSE pc[d]
    BY DEF PriorityInv, Shape
  <2> QED BY <2>1 DEF TopInv, Plan, Planning, Overlooks, Listed, PriorityIn, Boosted
<1> QED BY <1>1, <1>2 DEF TopInv

LEMMA StayPlans ==
  ASSUME TopInv, UNCHANGED <<original, doc, index, pc, lock, copy, seen, written, unsaved>>
  PROVE  TopInv'
BY DEF TopInv, Floored, Plan, Planning, Overlooks, Listed, Routing, PriorityIn, Boosted

\* The holder's step: only what it is about changes for it, and nobody else
\* has a plan.
LEMMA HolderPlans ==
  ASSUME PriorityInv, NEW c \in Callers, lock = c \/ lock = None,
         \A d \in Callers \ {c} : pc'[d] = pc[d] /\ written'[d] = written[d],
         Floored', Plan(c)'
  PROVE  TopInv'
<1>1. ASSUME NEW d \in Callers, d # c PROVE Plan(d)'
  <2>1. ~Planning(d)'
    BY <1>1, OnePlan DEF Planning
  <2> QED BY <2>1 DEF Plan, Planning
<1> QED BY <1>1 DEF TopInv

\* A caller without a plan has nothing to keep.
LEMMA NoPlan == ASSUME NEW c \in Callers, ~Planning(c)' PROVE Plan(c)'
BY DEF Plan, Planning

\* Saving an enabled document, which has the original priority.
LEMMA EnablePlans ==
  ASSUME EnabledApart, PriorityInv, TypeInv, TopInv, NEW c \in Callers, EnableSave(c)
  PROVE  TopInv'
<1> DEFINE a == AuthOf(c)
           enabled == [copy[c] EXCEPT !.disabled = FALSE]
<1>0. /\ HostTypes /\ LockTypes /\ Floored /\ a \in Auths
      /\ pc \in [Callers -> WakePc]
  BY WakePathConstants DEF TypeInv, CountTypes, TopInv
<1>1. /\ c \in Disabled /\ ~written[c] /\ copy[c].priority \in {None, original[a]}
      /\ \A d \in Callers : AuthOf(d) = a => d = c
  BY DEF EnableSave, PriorityInv, Mine, Enabling, EnabledApart
<1>2. /\ UNCHANGED <<original, index, lock, seen, written, unsaved>>
      /\ copy' = [copy EXCEPT ![c] = Stub]
      /\ \/ pc' = [pc EXCEPT ![c] = "choose"] /\ doc' = [doc EXCEPT ![a] = enabled]
         \/ pc' = [pc EXCEPT ![c] = "ended"] /\ doc' = doc
  BY DEF EnableSave, Write, Store, Goto, setup
<1>3. enabled.priority \in {None, original[a]}
  BY <1>0, <1>1 DEF LockTypes, Documents
<1> HIDE DEF enabled
<1>4. /\ \A b \in Auths \ {a} : doc'[b] = doc[b]
      /\ doc'[a] = doc[a] \/ doc'[a].priority \in {None, original[a]}
  BY <1>0, <1>2, <1>3 DEF HostTypes
<1>5. Floored'
  <2>1. original[a] \in Nat
    BY <1>0 DEF HostTypes
  <2> QED BY <1>0, <1>2, <1>4, <2>1 DEF Floored, Routing, PriorityIn
<1>6. ASSUME NEW b \in Auths PROVE Listed(b)' = Listed(b) \/ Listed(b)' <= Listed(b)
  <2>1. CASE b # a
    BY <1>2, <1>4, <2>1 DEF Listed, PriorityIn
  <2>2. CASE b = a /\ doc'[a] = doc[a]
    BY <1>2, <2>2 DEF Listed, PriorityIn
  <2>3. CASE b = a /\ doc'[a].priority \in {None, original[a]}
    BY <1>0, <1>2, <2>3 DEF Listed, PriorityIn, Routing, Floored, HostTypes, Documents
  <2> QED BY <1>4, <2>1, <2>2, <2>3
<1>7. ASSUME NEW d \in Callers PROVE Plan(d)'
  <2>1. CASE d = c
    <3>1. ~Planning(c)'
      BY <1>0, <1>1, <1>2 DEF Planning
    <3> QED BY <2>1, <3>1, NoPlan
  <2>2. CASE d # c
    <3>1. /\ pc'[d] = pc[d] /\ copy'[d] = copy[d]
          /\ AuthOf(d) # a /\ doc'[AuthOf(d)] = doc[AuthOf(d)]
      BY <2>2, <1>0, <1>1, <1>2, <1>4, WakePathConstants DEF LockTypes
    <3>2. Overlooks(d) => Overlooks(d)'
      <4>1. \A b \in Auths : Listed(b) \in Nat /\ Listed(b)' <= Listed(b)
        BY <1>0, <1>6, TopIsHighest
      <4>2. \A b \in Auths : Listed(b)' \in Int
        <5>1. \A b \in Auths : doc'[b].priority \in Nat \cup {None} /\ index'[b] \in Nat
          BY <1>0, <1>2, <1>4 DEF HostTypes, Documents
        <5> QED BY <5>1 DEF Listed, PriorityIn
      <4>3. seen[d].top \in Nat /\ seen'[d] = seen[d]
        BY <1>0, <1>2 DEF LockTypes
      <4> QED BY <4>1, <4>2, <4>3 DEF Overlooks
    <3>3. Listed(AuthOf(d))' = Listed(AuthOf(d))
      BY <1>2, <3>1 DEF Listed, PriorityIn
    <3> QED BY <1>2, <3>1, <3>2, <3>3 DEF TopInv, Plan, Planning, Boosted
  <2> QED BY <2>1, <2>2
<1> QED BY <1>5, <1>7 DEF TopInv

\* Steps of a caller that has raised nothing and leaves the host alone.
LEMMA OutsidePlans ==
  ASSUME PriorityInv, TypeInv, TopInv, NEW c \in Callers,
         \/ EnableList(c) \/ Choose(c) \/ DirectStep(c) \/ BoostList(c) \/ TakeLock(c)
  PROVE  TopInv'
<1> USE DEF Goto, Store
<1>0. LockTypes /\ pc \in [Callers -> WakePc] /\ Mine(c)
  BY DEF TypeInv, CountTypes, PriorityInv
<1>1. /\ pc[c] \in {"enable", "choose", "material", "send", "sent", "boost", "lock"}
      /\ UNCHANGED <<original, doc, index, seen, written, unsaved>>
  BY DEF EnableList, Choose, DirectStep, Material, Send, DirectAccepted, DirectLost,
     Unauthorized, DirectRefused, BoostList, TakeLock, setup, hostVars, boostVars
<1>2. ~written[c]
  BY <1>0, <1>1 DEF Mine, AfterSave
<1>3. /\ copy' = copy \/ \E document : copy' = [copy EXCEPT ![c] = document]
      /\ lock' = lock \/ (lock = None /\ lock' = c)
  BY DEF EnableList, Choose, DirectStep, Material, Send, DirectAccepted, DirectLost,
     Unauthorized, DirectRefused, BoostList, TakeLock, boostVars
<1>4. \/ pc' = pc
      \/ \E p \in {"enableSave", "ended", "boost", "material", "send", "sent", "lock",
                   "execute", "relist"} : pc' = [pc EXCEPT ![c] = p]
  <2>1. CASE DirectStep(c)
    <3>1. ASSUME NEW m, Fail(c, m)
          PROVE  \E p \in {"boost", "ended"} : pc' = [pc EXCEPT ![c] = p]
      BY <3>1 DEF Fail
    <3>2. CASE Material(c)
      BY <3>1, <3>2 DEF Material
    <3>3. CASE Send(c)
      BY <3>1, <3>3 DEF Send
    <3>4. CASE DirectAccepted(c)
      BY <3>4 DEF DirectAccepted
    <3>5. CASE DirectLost(c)
      BY <3>1, <3>5 DEF DirectLost
    <3>6. CASE Unauthorized(c)
      BY <3>1, <3>6 DEF Unauthorized
    <3>7. CASE DirectRefused(c)
      BY <3>1, <3>7 DEF DirectRefused
    <3> QED BY <2>1, <3>2, <3>3, <3>4, <3>5, <3>6, <3>7 DEF DirectStep
  <2>2. CASE EnableList(c) \/ Choose(c) \/ BoostList(c) \/ TakeLock(c)
    BY <2>2 DEF EnableList, Choose, BoostList, TakeLock
  <2> QED BY <2>1, <2>2
<1>5. ~Planning(c)'
  BY <1>0, <1>1, <1>2, <1>4 DEF Planning
<1>6. \A d \in Callers \ {c} :
        /\ pc'[d] = pc[d] /\ written'[d] = written[d]
        /\ copy'[d] = copy[d] /\ seen'[d] = seen[d]
        /\ lock = d => lock' = d
  BY <1>0, <1>1, <1>3, <1>4, WakePathConstants DEF LockTypes
<1> QED BY <1>1, <1>5, <1>6, PlanLeft

\* Reading under the lock: what is listed is at least what the peers have.
LEMMA ReadPlans ==
  ASSUME PriorityInv, KeyInv, TypeInv, TopInv, NEW c \in Callers, Relist(c) \/ Read(c)
  PROVE  TopInv'
<1> DEFINE a == AuthOf(c)
<1> USE DEF Goto, Store
<1>0. /\ HostTypes /\ LockTypes /\ Floored /\ a \in Auths /\ Mine(c) /\ Plan(c)
      /\ pc \in [Callers -> WakePc]
      /\ UNCHANGED <<original, doc, index, unsaved>>
  BY WakePathConstants DEF TypeInv, CountTypes, TopInv, PriorityInv, Relist, Read, setup, hostVars
<1>1. pc[c] \in {"relist", "read"} /\ lock = c /\ ~written[c]
  BY <1>0 DEF Relist, Read, Mine, UnderLock, AfterSave
<1>2. /\ Floored' /\ original[a] \in Nat /\ doc[a] \in Documents
      /\ doc[a].priority = None \/ doc[a].priority >= original[a]
  BY <1>0 DEF Floored, Routing, PriorityIn, HostTypes
<1>3. /\ \A b \in Auths : Listed(b) \in Nat /\ Listed(b) <= Top /\ Listed(b)' = Listed(b)
      /\ Top \in Nat /\ Top >= original[a]
  <2>1. Top \in Nat /\ \A b \in Auths : Listed(b) \in Nat /\ Listed(b) <= Top
    BY <1>0, TopIsHighest
  <2>2. Listed(a) >= original[a]
    BY <1>0, FlooredListing
  <2> QED BY <1>0, <1>2, <2>1, <2>2 DEF Listed, PriorityIn
<1>4. ASSUME \A d \in Callers \ {c} : pc'[d] = pc[d] /\ written'[d] = written[d], Plan(c)'
      PROVE  TopInv'
  BY <1>1, <1>2, <1>4, HolderPlans
<1>5. ASSUME Unlock(c), \E p \in {"execute", "ended"} : pc' = [pc EXCEPT ![c] = p]
      PROVE  TopInv'
  <2>1. ~Planning(c)'
    BY <1>0, <1>5 DEF Planning, Unlock, LockTypes
  <2>2. \A d \in Callers \ {c} : pc'[d] = pc[d] /\ written'[d] = written[d]
    BY <1>0, <1>5 DEF Unlock, LockTypes
  <2> QED BY <1>4, <2>1, <2>2, NoPlan
<1>6. ASSUME pc' = [pc EXCEPT ![c] = "execute"], UNCHANGED written
      PROVE  TopInv'
  <2>1. ~Planning(c)' /\ \A d \in Callers \ {c} : pc'[d] = pc[d]
    BY <1>0, <1>1, <1>6 DEF Planning
  <2> QED BY <1>4, <1>6, <2>1, NoPlan
<1>7. ASSUME NEW stats, seen' = [seen EXCEPT ![c] = stats],
             stats.top \in Nat, stats.top >= original[a],
             unsaved = {} => \A b \in Auths \ {a} : Listed(b) <= stats.top,
             \/ pc' = [pc EXCEPT ![c] = "read"]
             \/ /\ pc' = [pc EXCEPT ![c] = "save"]
                /\ \E kept : /\ copy' = [copy EXCEPT ![c] = kept]
                             /\ kept.priority \in Nat /\ kept.priority >= original[a],
             UNCHANGED <<lock, written>>
      PROVE  TopInv'
  <2>1. /\ pc'[c] \in {"read", "save"} /\ seen'[c] = stats /\ ~written'[c] /\ lock' = c
        /\ \A d \in Callers \ {c} : pc'[d] = pc[d] /\ written'[d] = written[d]
    BY <1>0, <1>1, <1>7 DEF LockTypes
  <2>2. pc'[c] = "save" => copy'[c].priority \in Nat /\ copy'[c].priority >= original[a]
    BY <1>0, <1>7 DEF LockTypes
  <2>3. Overlooks(c)' <=> \A b \in Auths \ {a} : Listed(b) <= stats.top
    BY <1>3, <2>1 DEF Overlooks
  <2>4. Plan(c)'
    BY <1>0, <1>2, <1>7, <2>1, <2>2, <2>3 DEF Plan
  <2> QED BY <1>4, <2>1, <2>4
<1>8. ASSUME NEW stats, stats.top \in Nat, stats.top >= original[a],
             unsaved = {} => \A b \in Auths \ {a} : Listed(b) <= stats.top,
             stats.own \in Nat, doc[a].priority = None => stats.own = original[a],
             Decide(c, doc[a], stats) \/ Decide(c, Stub, stats)
      PROVE  TopInv'
  <2>1. CASE Abort(c)
    BY <1>5, <2>1 DEF Abort
  <2>2. CASE ~Abort(c)
    <3> DEFINE kept == [doc[a] EXCEPT !.priority = PriorityIn(doc[a], stats.own)]
    <3>1. /\ copy' = [copy EXCEPT ![c] = kept]
          /\ seen' = [seen EXCEPT ![c] = stats]
          /\ \E p \in {"save", "execute"} : pc' = [pc EXCEPT ![c] = p]
          /\ UNCHANGED <<lock, written>>
      BY <1>8, <2>2 DEF Decide, LooksFull, Stub
    <3>2. kept.priority \in Nat /\ kept.priority >= original[a]
      <4>1. kept.priority = PriorityIn(doc[a], stats.own)
        BY <1>2 DEF Documents
      <4> HIDE DEF kept
      <4> QED BY <4>1, <1>2, <1>8 DEF PriorityIn, Documents
    <3> HIDE DEF kept
    <3> QED BY <1>6, <1>7, <1>8, <3>1, <3>2
  <2> QED BY <2>1, <2>2
<1>9. /\ Stats(a).top = Top /\ Stats(a).own \in Nat
      /\ doc[a].priority = None => Stats(a).own = original[a]
  BY <1>0, <1>3, KeylessListing DEF Stats
<1>10. CASE Relist(c)
  <2>1. CASE Decide(c, doc[a], Stats(a))
    BY <1>3, <1>8, <1>9, <2>1
  <2>2. CASE seen' = [seen EXCEPT ![c] = Stats(a)] /\ pc' = [pc EXCEPT ![c] = "read"]
             /\ UNCHANGED <<lock, written>>
    BY <1>3, <1>7, <1>9, <2>2
  <2>3. CASE Abort(c)
    BY <1>5, <2>3 DEF Abort
  <2> QED BY <1>5, <1>6, <1>10, <2>1, <2>2, <2>3 DEF Relist
<1>11. CASE Read(c)
  <2>1. Planning(c)
    BY <1>11 DEF Read, Planning
  <2>2. /\ seen[c].top \in Nat /\ seen[c].top >= original[a]
        /\ unsaved = {} => \A b \in Auths \ {a} : Listed(b) <= seen[c].top
        /\ seen[c].own \in Nat /\ (doc[a].priority = None => seen[c].own = original[a])
    BY <1>0, <1>11, <2>1 DEF Plan, Overlooks, LockTypes, KeyInv, Read
  <2> QED BY <1>8, <1>11, <2>2 DEF Read
<1> QED BY <1>10, <1>11

\* The save raises the document over everything listed.
LEMMA SavePlans ==
  ASSUME PriorityInv, TypeInv, TopInv, NEW c \in Callers, SaveBoost(c)
  PROVE  TopInv'
<1> DEFINE a == AuthOf(c)
           boosted == [copy[c] EXCEPT !.priority = Boosted(c)]
<1> USE DEF Goto, Store
<1>0. /\ HostTypes /\ LockTypes /\ Floored /\ a \in Auths /\ Mine(c) /\ Plan(c)
      /\ pc \in [Callers -> WakePc] /\ pc[c] = "save" /\ UNCHANGED <<original, index>>
  BY WakePathConstants DEF TypeInv, CountTypes, TopInv, PriorityInv, SaveBoost, setup
<1>1. /\ lock = c /\ ~written[c] /\ seen[c].top >= original[a]
      /\ copy[c].priority >= original[a] /\ copy[c].priority \in Nat
      /\ unsaved = {} => Overlooks(c)
  BY <1>0 DEF Mine, AfterSave, Plan, Planning
<1>2. Boosted(c) \in Nat /\ Boosted(c) >= original[a] /\ original[a] \in Nat
  <2>1. original[a] \in Nat
    BY <1>0 DEF HostTypes
  <2> QED BY <1>0, <1>1, <2>1, BoostedIsOver
<1>3. boosted.priority = Boosted(c)
  BY <1>0 DEF LockTypes, Documents
<1> HIDE DEF boosted
<1>4. doc' = doc \/ doc' = [doc EXCEPT ![a] = boosted]
  BY DEF SaveBoost, Write, boosted
<1>5. Floored' /\ \A b \in Auths \ {a} : doc'[b] = doc[b]
  BY <1>0, <1>2, <1>3, <1>4, WakePathConstants DEF Floored, Routing, PriorityIn, HostTypes
<1>6. CASE Abort(c)
  <2>1. ~Planning(c)' /\ \A d \in Callers \ {c} : pc'[d] = pc[d] /\ written'[d] = written[d]
    BY <1>0, <1>6 DEF Planning, Abort, Unlock, LockTypes
  <2> QED BY <1>1, <1>5, <2>1, NoPlan, HolderPlans
<1>7. CASE /\ doc' = [doc EXCEPT ![a] = boosted]
           /\ written' = [written EXCEPT ![c] = TRUE]
           /\ pc' = [pc EXCEPT ![c] = "confirm"]
           /\ UNCHANGED <<lock, copy, seen, unsaved>>
  <2>1. /\ doc'[a].priority = Boosted(c) /\ pc'[c] = "confirm"
        /\ \A d \in Callers \ {c} : pc'[d] = pc[d] /\ written'[d] = written[d]
    BY <1>0, <1>3, <1>7 DEF HostTypes, LockTypes
  <2>2. Overlooks(c) => Overlooks(c)'
    BY <1>0, <1>5, <1>7 DEF Overlooks, Listed, PriorityIn
  <2>3. Plan(c)'
    BY <1>0, <1>1, <1>7, <2>1, <2>2 DEF Plan, Boosted
  <2> QED BY <1>1, <1>5, <2>1, <2>3, HolderPlans
<1> QED BY <1>6, <1>7 DEF SaveBoost, Write, boosted

\* Confirming and asking: the credential is listed with the raised priority
\* from the first attempt that finds it so.
LEMMA AskPlans ==
  ASSUME PriorityInv, TypeInv, TopInv, NEW c \in Callers,
         \/ Confirm(c) \/ ConfirmList(c) \/ Execute(c) \/ HostTakesPick(c) \/ HostChooses(c)
         \/ ExecAnswered(c) \/ ExecFailed(c)
  PROVE  TopInv'
<1> USE DEF Goto, Store
<1>0. Plan(c) /\ UNCHANGED <<original, doc, index, lock, copy, seen, written, unsaved>>
  BY DEF TopInv, Confirm, ConfirmList, Execute, HostTakesPick, HostChooses, ExecAnswered,
     ExecFailed, setup, hostVars, boostVars
<1>1. CASE HostTakesPick(c) \/ HostChooses(c)
  BY <1>0, <1>1, StayPlans DEF HostTakesPick, HostChooses
<1>2. CASE ~HostTakesPick(c) /\ ~HostChooses(c)
  <2>1. PICK p : /\ pc' = [pc EXCEPT ![c] = p] /\ p \notin {"read", "save"}
                 /\ \/ p \notin {"confirmList", "execute", "asked"}
                    \/ p = "confirmList" /\ Listed(AuthOf(c)) >= Boosted(c)
                    \/ pc[c] \in {"confirmList", "execute", "asked"}
    <3>1. CASE Confirm(c)
      <4>1. PICK priority \in Runtime(AuthOf(c)) :
              \/ priority >= Boosted(c) /\ pc' = [pc EXCEPT ![c] = "confirmList"]
              \/ Retry(c)
        BY <3>1 DEF Confirm
      <4>2. priority >= Boosted(c) => Listed(AuthOf(c)) >= Boosted(c)
        <5>1. Boosted(c) \in Nat \ {0} /\ index[AuthOf(c)] \in Nat
          BY BoostedIsOver, WakePathConstants DEF TypeInv, HostTypes
        <5> QED BY <4>1, <5>1 DEF Runtime, Listed
      <4> QED BY <4>1, <4>2 DEF Retry
    <3>2. CASE ConfirmList(c)
      BY <3>2 DEF ConfirmList, Retry
    <3>3. CASE Execute(c) \/ ExecAnswered(c) \/ ExecFailed(c)
      BY <3>3 DEF Execute, ExecAnswered, ExecFailed, EndCall, AfterCall
    <3> QED BY <1>2, <3>1, <3>2, <3>3
  <2>2. written[c] /\ p \in {"confirmList", "execute", "asked"} =>
          Listed(AuthOf(c)) >= Boosted(c)
    BY <1>0, <2>1 DEF Plan
  <2> QED BY <1>0, <2>1, <2>2, PlanMoves
<1> QED BY <1>1, <1>2

\* The document goes back.
LEMMA PutBackPlans ==
  ASSUME PriorityInv, TypeInv, TopInv, NEW c \in Callers, Rollback(c) \/ Restore(c)
  PROVE  TopInv'
<1> DEFINE a == AuthOf(c)
<1>0. /\ HostTypes /\ LockTypes /\ Floored /\ a \in Auths /\ Mine(c) /\ Plan(c)
      /\ pc \in [Callers -> WakePc] /\ pc[c] \in {"rollback", "restore"}
      /\ UNCHANGED <<original, index>>
  BY WakePathConstants DEF TypeInv, CountTypes, TopInv, PriorityInv, Rollback, Restore, setup
<1>1. lock = c
  BY <1>0 DEF Mine, UnderLock
<1>2. \/ doc' = doc
      \/ written[c] /\ doc' = [doc EXCEPT ![a] = copy[c]]
  BY <1>0 DEF Mine, Confirming, Rollback, Restore, PutBack, Write
<1>3. Floored'
  BY <1>0, <1>2, WakePathConstants DEF Plan, Floored, Routing, PriorityIn, HostTypes
<1>4. ~Planning(c)' /\ \A d \in Callers \ {c} : pc'[d] = pc[d] /\ written'[d] = written[d]
  BY <1>0 DEF Planning, Rollback, Restore, Abort, Unlock, Store, Goto, LockTypes
<1> QED BY <1>1, <1>3, <1>4, NoPlan, HolderPlans

\* The index follows a document: that of a peer has its original priority.
LEMMA SyncPlans ==
  ASSUME PriorityInv, TypeInv, TopInv, NEW a \in Auths, Sync(a)
  PROVE  TopInv'
<1>0. /\ HostTypes /\ LockTypes /\ Floored
      /\ index' = [index EXCEPT ![a] = Routing(a)] /\ Routing(a) \in Nat
      /\ UNCHANGED <<original, doc, pc, lock, copy, seen, written, unsaved>>
  BY DEF TypeInv, TopInv, Sync, setup, boostVars, HostTypes, Routing, PriorityIn, Documents
<1>1. Floored'
  <2>1. \A b \in Auths : Routing(b)' = Routing(b)
    BY <1>0 DEF Routing, PriorityIn
  <2> QED BY <1>0, <2>1 DEF Floored, HostTypes
<1>2. ASSUME NEW d \in Callers PROVE Plan(d)'
  <2>0. Plan(d) /\ AuthOf(d) \in Auths /\ seen[d].top \in Nat
    BY <1>0, WakePathConstants DEF TopInv, LockTypes
  <2>1. ASSUME Planning(d), unsaved = {} PROVE Overlooks(d)'
    <3>1. lock = d /\ Overlooks(d)
      BY <2>0, <2>1 DEF Plan
    <3>2. ASSUME NEW b \in Auths, b # AuthOf(d) PROVE Listed(b)' <= seen[d].top
      <4>1. Listed(b) <= seen[d].top
        BY <3>1, <3>2 DEF Overlooks
      <4>2. CASE b # a
        BY <1>0, <4>1, <4>2 DEF Listed, PriorityIn, HostTypes
      <4>3. CASE b = a
        <5>1. ~Spoilt(a) /\ ~Raised(a)
          BY <2>1, <3>1, <3>2, <4>3, OnlyHolderWrites DEF Spoilt, Raised
        <5>2. Routing(a) = original[a]
          BY <5>1 DEF PriorityInv
        <5>3. Listed(a) >= original[a] /\ Listed(a) \in Nat /\ original[a] \in Nat
          BY <1>0, FlooredListing, TopIsHighest DEF HostTypes
        <5>4. Listed(a)' = original[a]
          BY <1>0, <5>2, <5>3 DEF Listed, Routing, PriorityIn, HostTypes, Documents
        <5> QED BY <2>0, <4>1, <4>3, <5>3, <5>4
      <4> QED BY <4>2, <4>3
    <3> QED BY <1>0, <3>2 DEF Overlooks
  <2>2. ASSUME written[d], pc[d] \in {"confirmList", "execute", "asked"}
        PROVE  Listed(AuthOf(d))' >= Boosted(d)
    <3>1. Boosted(d) \in Nat \ {0} /\ doc[AuthOf(d)].priority = Boosted(d) /\ Boosted(d) # None
      BY <1>0, <2>0, <2>2, BoostedIsOver, WakePathConstants DEF Plan
    <3>2. Listed(AuthOf(d)) >= Boosted(d)
      BY <2>0, <2>2 DEF Plan
    <3> QED BY <1>0, <2>0, <3>1, <3>2 DEF Listed, Routing, PriorityIn, HostTypes
  <2> QED BY <1>0, <2>0, <2>1, <2>2 DEF Plan, Planning, Boosted
<1> QED BY <1>1, <1>2 DEF TopInv

LEMMA InitPlans == ASSUME EnabledApart, Init PROVE TopInv
<1>1. Floored
  BY InitTypes DEF Init, Floored, Routing, PriorityIn, TypeInv, HostTypes
<1>2. \A c \in Callers : Plan(c)
  BY DEF Init, Plan, Planning
<1> QED BY <1>1, <1>2 DEF TopInv

LEMMA PlansInductive == ASSUME EnabledApart PROVE Spec => []TopInv
<1>1. ASSUME PriorityInv, KeyInv, TypeInv, TopInv, [Next]_vars PROVE TopInv'
  <2>1. ASSUME NEW c \in Callers, Step(c) PROVE TopInv'
    BY <1>1, <2>1, EnablePlans, OutsidePlans, ReadPlans, SavePlans, AskPlans, PutBackPlans
    DEF Step, BoostStep
  <2>2. ASSUME NEW c \in Callers, Cancel(c) PROVE TopInv'
    BY <1>1, <2>2, StayPlans DEF Cancel, setup, hostVars, boostVars
  <2>3. ASSUME NEW a \in Auths, Sync(a) PROVE TopInv'
    BY <1>1, <2>3, SyncPlans
  <2>4. CASE UNCHANGED vars
    BY <1>1, <2>4, StayPlans DEF vars, setup, hostVars, boostVars
  <2> QED BY <1>1, <2>1, <2>2, <2>3, <2>4 DEF Next, Quiet
<1>2. Init => TopInv
  BY InitPlans
<1> QED BY <1>1, <1>2, Inductive, TypesInductive, PTL DEF Spec

\* While an activation that has raised its credential asks the host for a
\* completion, and no save has been refused, the host routes by no other
\* credential of the provider, for any number of activations and credentials
\* (boostPriorityForSelection, confirmBoostedPriority, the provider's lock).
THEOREM BoostedIsAlone == ASSUME EnabledApart PROVE Spec => []AloneOnTop
<1>1. ASSUME TypeInv, TopInv PROVE AloneOnTop
  <2> SUFFICES ASSUME NEW c \in Callers, written[c], InExecute(c), unsaved = {},
                      NEW a \in Auths \ {AuthOf(c)}
               PROVE  Listed(a) < Listed(AuthOf(c))
    BY DEF AloneOnTop
  <2>0. HostTypes /\ LockTypes /\ Plan(c) /\ AuthOf(c) \in Auths
    BY <1>1, WakePathConstants DEF TypeInv, TopInv
  <2>1. Listed(a) <= seen[c].top /\ Listed(AuthOf(c)) >= Boosted(c)
    BY <2>0 DEF Plan, Planning, Overlooks, InExecute
  <2>2. Boosted(c) \in Nat /\ Boosted(c) > seen[c].top /\ seen[c].top \in Nat
    BY <2>0, BoostedIsOver
  <2>3. Listed(a) \in Nat /\ Listed(AuthOf(c)) \in Nat
    BY <2>0, TopIsHighest
  <2> QED BY <2>1, <2>2, <2>3
<1> QED BY <1>1, PlansInductive, TypesInductive, PTL

\* The first credential the host tries for an activation that has raised its
\* own is that one, for any number of activations and credentials, unless a
\* save has been refused or the index of the credential is still at 0
\* (boostPriorityForSelection, readRuntimePriority).
THEOREM RaisedIsTriedFirst == ASSUME EnabledApart PROVE Spec => BoostIsTriedFirst
<1> DEFINE First ==
      \A c \in Callers :
        /\ written[c] /\ unsaved = {} /\ index[AuthOf(c)] # 0
        /\ call[c] = NotCalled /\ call'[c].at # None
        => call'[c].at = AuthOf(c)
<1>1. ASSUME TypeInv, TopInv, CallInv, [Next]_vars PROVE First
  <2> SUFFICES ASSUME NEW c \in Callers, written[c], unsaved = {}, index[AuthOf(c)] # 0,
                      call[c] = NotCalled, call'[c].at # None
               PROVE  call'[c].at = AuthOf(c)
    OBVIOUS
  <2>0. /\ HostTypes /\ LockTypes /\ Plan(c) /\ AuthOf(c) \in Auths
        /\ call \in [Callers -> Completions] /\ NotCalled.at = None /\ NotCalled.left = Auths
    BY <1>1, WakePathConstants DEF TypeInv, TopInv, CallInv, NotCalled
  <2>1. PICK d \in Callers : Step(d)
    BY <1>1, <2>0 DEF Next, Quiet, Cancel, Sync, vars
  <2>2. HostTakesPick(d) \/ HostChooses(d)
    <3>1. ExecAnswered(d) \/ ExecFailed(d) => call' = [call EXCEPT ![d] = NotCalled]
      BY DEF ExecAnswered, ExecFailed, EndCall
    <3> QED BY <2>0, <2>1, <3>1, CallSteps
  <2>3. PICK a \in Offered(d) : \E nonce : Tries(d, a, nonce)
    BY <2>2 DEF HostTakesPick, HostChooses
  <2>4. d = c /\ call'[c].at = a /\ pc[c] = "asked"
    BY <2>0, <2>2, <2>3 DEF Tries, HostTakesPick, HostChooses
  <2>5. a \in Auths /\ index[AuthOf(c)] <= index[a]
    BY <2>0, <2>3, <2>4 DEF Offered
  <2>6. Listed(AuthOf(c)) = index[AuthOf(c)] /\ Listed(AuthOf(c)) >= Boosted(c)
    BY <2>0, <2>4 DEF Listed, Plan
  <2>7. a # AuthOf(c) => Listed(a) <= seen[c].top
    BY <2>0, <2>5 DEF Plan, Planning, Overlooks
  <2>8. /\ Listed(a) \in Nat /\ index[a] <= Listed(a)
        /\ index[a] \in Nat /\ index[AuthOf(c)] \in Nat
    <3>1. Listed(a) \in Nat /\ index[a] \in Nat /\ index[AuthOf(c)] \in Nat
      BY <2>0, <2>5, TopIsHighest DEF HostTypes
    <3> QED BY <3>1 DEF Listed
  <2>9. Boosted(c) \in Nat /\ Boosted(c) > seen[c].top /\ seen[c].top \in Nat
    BY <2>0, BoostedIsOver
  <2> QED BY <2>4, <2>5, <2>6, <2>7, <2>8, <2>9
<1> QED BY <1>1, PlansInductive, TypesInductive, CallInductive, PTL DEF Spec, BoostIsTriedFirst

-----------------------------------------------------------------------------
(* Where the rollback is certain *)

\* The host refuses nothing, and no context of an activation is cancelled.
Unhindered == ~HostMayRefuse /\ Cancellable = {}

Calm ==
  /\ unsaved = {}
  /\ cancelled = [c \in Callers |-> FALSE]

LEMMA CalmStays == ASSUME Unhindered, Calm, [Next]_vars PROVE Calm'
<1>1. ASSUME NEW c \in Callers PROVE ~Refusable(c)
  BY DEF Unhindered, Calm, Refusable
<1>2. ASSUME NEW c \in Callers, BoostStep(c) PROVE UNCHANGED <<unsaved, cancelled>>
  <2>1. CASE SaveBoost(c)
    BY <1>1, <2>1 DEF SaveBoost, Unhindered
  <2>2. CASE Rollback(c)
    BY <1>1, <2>2 DEF Rollback
  <2>3. CASE Restore(c)
    BY <2>3 DEF Restore, Unhindered
  <2>4. CASE ~SaveBoost(c) /\ ~Rollback(c) /\ ~Restore(c)
    BY <1>2, <2>4 DEF BoostStep, BoostList, TakeLock, Relist, Read, Confirm, ConfirmList,
       Execute, HostTakesPick, HostChooses, ExecAnswered, ExecFailed, boostVars
  <2> QED BY <2>1, <2>2, <2>3, <2>4
<1>3. ASSUME NEW c \in Callers,
             EnableList(c) \/ EnableSave(c) \/ Choose(c) \/ DirectStep(c)
      PROVE  UNCHANGED <<unsaved, cancelled>>
  BY <1>3 DEF EnableList, EnableSave, Choose, DirectStep, Material, Send, DirectAccepted,
     DirectLost, Unauthorized, DirectRefused, boostVars
<1>4. ASSUME NEW c \in Callers PROVE ~Cancel(c)
  BY DEF Cancel, Unhindered
<1>5. UNCHANGED <<unsaved, cancelled>>
  BY <1>2, <1>3, <1>4 DEF Next, Step, Sync, Quiet, vars, boostVars
<1> QED BY <1>5 DEF Calm

\* Where no context is cancelled and the host refuses no call, every priority
\* is the original one when all activations have returned, as the comments on
\* the rollback and the restore have it (priority_boost.go): a failed
\* confirmation alone leaves nothing behind.
THEOREM RollbackRestores ==
  ASSUME EnabledApart, Unhindered PROVE Spec => []RollbackIsCertain
<1>1. ASSUME PriorityInv, Calm PROVE RollbackIsCertain
  <2>1. \A c \in Callers : Ended(c) => ~written[c]
    BY <1>1 DEF PriorityInv, Mine, Ended, AfterSave
  <2> QED BY <1>1, <2>1 DEF PriorityInv, Calm, Spoilt, Raised, RollbackIsCertain
<1>2. Spec => []Calm
  <2>1. Init => Calm
    BY DEF Init, Calm
  <2>2. Calm /\ [Next]_vars => Calm'
    BY CalmStays
  <2> QED BY <2>1, <2>2, PTL DEF Spec
<1> QED BY <1>1, <1>2, Inductive, PTL
=============================================================================
