---------------------------- MODULE WakeSession ----------------------------
(***************************************************************************)
(* The one-shot wake session of the scheduler_boost path.                  *)
(*                                                                         *)
(* Activator.execute creates a session, sends its nonce to the host in a   *)
(* header of host.model.execute, and believes the answer only if the nonce *)
(* is gone from the session manager when the answer arrives.  The host, in *)
(* the meantime, calls scheduler.pick: the picker looks the nonce up,      *)
(* checks the candidates, and consumes the nonce, in two separate critical *)
(* sections of the manager.  A reload replaces the manager under both.     *)
(*                                                                         *)
(* A nonce is 32 random bytes and never repeats, so the session of wake w  *)
(* and its nonce are both named by w itself.                               *)
(***************************************************************************)
EXTENDS Naturals

CONSTANTS
  Wakes,       \* calls of Activator.execute
  Picks,       \* scheduler.pick calls that can be in progress at once
  Ttl,         \* lifetime of a session
  Timeout,     \* activation_request_timeout
  MaxNow,      \* bound: the clock stops here
  MaxReloads   \* bound: number of reconfigurations

ASSUME SessionConstants ==
  /\ Ttl \in Nat \ {0}
  /\ Timeout \in Nat \ {0}
  /\ MaxNow \in Nat
  /\ MaxReloads \in Nat

VARIABLES
  now,       \* the clock of the session managers
  current,   \* the manager the runtime's picker uses
  shutdown,  \* the runtime has been shut down
  live,      \* manager -> wakes whose session it holds
  pc,        \* wake -> where execute stands
  home,      \* wake -> the manager its activator was built with
  born,      \* wake -> when its session was created
  ppc,       \* pick -> where Pick stands
  pmgr,      \* pick -> the manager its picker holds
  pwake,     \* pick -> the wake whose nonce the request carries
  handled    \* wake -> number of picks answered Handled for its nonce

runtimeVars == <<now, current, shutdown>>
wakeVars == <<pc, home, born>>
pickVars == <<ppc, pmgr, pwake>>
vars == <<runtimeVars, live, wakeVars, pickVars, handled>>

Managers == 0 .. MaxReloads
Ended == {"woken", "rejected", "missed", "failed", "unsent"}
WakePc == {"new", "created", "sent", "replied"} \cup Ended
PickPc == {"idle", "called", "found"}

\* The variables stay in their ranges.
TypeOK ==
  /\ now \in 0 .. MaxNow
  /\ current \in Managers
  /\ shutdown \in BOOLEAN
  /\ live \in [Managers -> SUBSET Wakes]
  /\ pc \in [Wakes -> WakePc]
  /\ home \in [Wakes -> Managers]
  /\ born \in [Wakes -> 0 .. MaxNow]
  /\ ppc \in [Picks -> PickPc]
  /\ pmgr \in [Picks -> Managers]
  /\ pwake \in [Picks -> Wakes]
  /\ handled \in [Wakes -> Nat]

Init ==
  /\ now = 0
  /\ current = 0
  /\ shutdown = FALSE
  /\ live = [m \in Managers |-> {}]
  /\ pc = [w \in Wakes |-> "new"]
  /\ home = [w \in Wakes |-> 0]
  /\ born = [w \in Wakes |-> 0]
  /\ ppc = [p \in Picks |-> "idle"]
  /\ pmgr = [p \in Picks |-> 0]
  /\ pwake \in [Picks -> Wakes]
  /\ handled = [w \in Wakes |-> 0]

-----------------------------------------------------------------------------
(* Session manager: each operator is one critical section of Manager.mu *)

Expired(w) == now >= born[w] + Ttl

Present(m, w) == w \in live[m]

\* The session a lookup returns: one that is present and has not expired.
Found(m, w) == Present(m, w) /\ ~Expired(w)

Without(m, w) == [live EXCEPT ![m] = @ \ {w}]

\* What a lookup leaves behind: it deletes the session it finds expired.
AfterLookup(m, w) ==
  IF Present(m, w) /\ Expired(w) THEN Without(m, w) ELSE live

\* What Consume leaves behind: its own lookup, then the nonce is deleted.
AfterConsume_LookupOnly(m, w) == AfterLookup(m, w)
AfterConsume(m, w) == IF Found(m, w) THEN Without(m, w) ELSE AfterLookup(m, w)

-----------------------------------------------------------------------------
(* Activator.execute *)

Goto(w, label) == pc' = [pc EXCEPT ![w] = label]

CreatedAt_AsExpiry == now + Ttl
CreatedAt == now

\* The activator was built for the current configuration or, when its caller
\* took it before a reload, for an older one.
Create(w) ==
  /\ pc[w] = "new"
  /\ \/ \E m \in 0 .. current :
          /\ Goto(w, "created")
          /\ live' = [live EXCEPT ![m] = @ \cup {w}]
          /\ home' = [home EXCEPT ![w] = m]
          /\ born' = [born EXCEPT ![w] = CreatedAt]
     \/ /\ Goto(w, "unsent")          \* the nonce generator fails
        /\ UNCHANGED <<live, home, born>>
  /\ UNCHANGED <<runtimeVars, pickVars, handled>>

\* No model or no ping body, or the deadline has passed, which is looked at
\* before the host is called and never again: execute returns and leaves the
\* session behind.
Abandon(w) ==
  /\ pc[w] = "created"
  /\ Goto(w, "unsent")
  /\ UNCHANGED <<runtimeVars, live, home, born, pickVars, handled>>

Send(w) ==
  /\ pc[w] = "created"
  /\ now < born[w] + Timeout
  /\ Goto(w, "sent")
  /\ UNCHANGED <<runtimeVars, live, home, born, pickVars, handled>>

\* The host answers a 2xx, or anything else; the session is left behind in the
\* second case.
HostReplies(w) ==
  /\ pc[w] = "sent"
  /\ \/ Goto(w, "replied")
     \/ Goto(w, "failed")
  /\ UNCHANGED <<runtimeVars, live, home, born, pickVars, handled>>

\* activationSessionConsumed: only ErrSessionNotFound counts as consumed.
Consumed_InCurrent(w) == ~Present(current, w)
Consumed(w) == ~Present(home[w], w)

\* A consumed nonce is a wake, unless the Antigravity body says otherwise.
Verify(w) ==
  /\ pc[w] = "replied"
  /\ \/ Consumed(w) /\ Goto(w, "woken")
     \/ Consumed(w) /\ Goto(w, "rejected")
     \/ ~Consumed(w) /\ Goto(w, "missed")
  /\ live' = AfterLookup(home[w], w)
  /\ UNCHANGED <<runtimeVars, home, born, pickVars, handled>>

-----------------------------------------------------------------------------
(* scheduler.pick *)

\* The host may call pick for any nonce it was ever sent: early, late, more
\* than once, from several threads.
Known == {w \in Wakes : pc[w] \notin {"new", "created", "unsent"}}

\* pickSchedule copies the current picker under the runtime's lock.
Call(p) ==
  /\ ppc[p] = "idle"
  /\ ~shutdown
  /\ \E w \in Known : pwake' = [pwake EXCEPT ![p] = w]
  /\ ppc' = [ppc EXCEPT ![p] = "called"]
  /\ pmgr' = [pmgr EXCEPT ![p] = current]
  /\ UNCHANGED <<runtimeVars, live, wakeVars, handled>>

\* The candidates of the request may or may not contain the target.
Lookup(p) ==
  /\ ppc[p] = "called"
  /\ \/ /\ Found(pmgr[p], pwake[p])
        /\ ppc' = [ppc EXCEPT ![p] = "found"]
     \/ ppc' = [ppc EXCEPT ![p] = "idle"]
  /\ live' = AfterLookup(pmgr[p], pwake[p])
  /\ UNCHANGED <<runtimeVars, wakeVars, pmgr, pwake, handled>>

\* Pick answers Handled when Consume returns no error.
Handles_OnLookupAlone(p) == TRUE
Handles(p) == Found(pmgr[p], pwake[p])

Consume(p) ==
  /\ ppc[p] = "found"
  /\ ppc' = [ppc EXCEPT ![p] = "idle"]
  /\ handled' = [handled EXCEPT ![pwake[p]] = IF Handles(p) THEN @ + 1 ELSE @]
  /\ live' = AfterConsume(pmgr[p], pwake[p])
  /\ UNCHANGED <<runtimeVars, wakeVars, pmgr, pwake>>

-----------------------------------------------------------------------------
(* The runtime *)

\* replaceConfig installs an empty session manager and the picker over it.
Reload ==
  /\ ~shutdown
  /\ current < MaxReloads
  /\ current' = current + 1
  /\ UNCHANGED <<now, shutdown, live, wakeVars, pickVars, handled>>

Shutdown ==
  /\ ~shutdown
  /\ shutdown' = TRUE
  /\ UNCHANGED <<now, current, live, wakeVars, pickVars, handled>>

Tick ==
  /\ now < MaxNow
  /\ now' = now + 1
  /\ UNCHANGED <<current, shutdown, live, wakeVars, pickVars, handled>>

Next ==
  \/ \E w \in Wakes :
       Create(w) \/ Abandon(w) \/ Send(w) \/ HostReplies(w) \/ Verify(w)
  \/ \E p \in Picks : Call(p) \/ Lookup(p) \/ Consume(p)
  \/ Reload \/ Shutdown \/ Tick

Spec == Init /\ [][Next]_vars

-----------------------------------------------------------------------------
(* Properties *)

\* A nonce takes over at most one scheduling decision, however many picks
\* carry it and however their lookups and consumes interleave across managers
\* (session.go: a session can be consumed only once).
OneHandledPick == \A w \in Wakes : handled[w] <= 1

\* What a verdict of execute proves about the pick that came before it.  A
\* miss is always true: no pick was handled.  A consumed nonce means a handled
\* pick, unless the session outlived its TTL: then a late pick may have
\* deleted it as expired, handed the choice back to the host, and left a nonce
\* that is gone without ever having been consumed.
VerdictIsHonest(w) ==
  pc[w] = "replied" /\ pc'[w] # "replied" =>
    \/ pc'[w] = "missed" /\ handled[w] = 0
    \/ pc'[w] # "missed" /\ (handled[w] = 1 \/ Expired(w))

VerdictMatchesPick == [][\A w \in Wakes : VerdictIsHonest(w)]_vars

\* Once execute has judged a nonce consumed the wake is settled: no pick that
\* was delayed, repeated, or begun under an older picker is handled for it.
NoPickAfterVerdict ==
  [][\A w \in Wakes :
       pc[w] \in {"woken", "rejected"} => handled'[w] = handled[w]]_vars

-----------------------------------------------------------------------------
(* The inductive invariant behind the three properties *)

\* A manager holds only sessions created in it for a wake that has begun.
HeldAtHome ==
  \A m \in Managers, w \in Wakes :
    w \in live[m] => home[w] = m /\ pc[w] # "new"

\* A handled nonce is gone for good.
HandledIsGone ==
  \A w \in Wakes : handled[w] > 0 => \A m \in Managers : w \notin live[m]

\* An unhandled nonce stays with its manager until its session expires.
UnhandledStays ==
  \A w \in Wakes :
    /\ pc[w] \in {"created", "sent", "replied"}
    /\ handled[w] = 0
    /\ ~Expired(w)
    => w \in live[home[w]]

\* A consumed nonce is gone.
WokenIsGone ==
  \A w \in Wakes :
    pc[w] \in {"woken", "rejected"} => \A m \in Managers : w \notin live[m]

NothingBeforeCreate == \A w \in Wakes : pc[w] = "new" => handled[w] = 0

SessionInv ==
  /\ TypeOK
  /\ OneHandledPick
  /\ HeldAtHome
  /\ HandledIsGone
  /\ UnhandledStays
  /\ WokenIsGone
  /\ NothingBeforeCreate

=============================================================================
