------------------------------ MODULE WakePath ------------------------------
(***************************************************************************)
(* What the two transports of a wake share: the callers of Activate with   *)
(* their contexts, the host's credential documents and the priorities the  *)
(* host routes by, and the account of what the provider has done.          *)
(*                                                                         *)
(* A document is the file the host keeps; it is written whole.  The host   *)
(* routes by an index that follows the documents later (Sync); where a     *)
(* document names no priority, by one it has of its own.  A listing may    *)
(* show a stub in place of a document: a file without its tokens.          *)
(* A host call looks at its context before it starts, and then takes the   *)
(* time the host takes.  The context of an activation is that of a scan or *)
(* of a management request, and once cancelled it stays so.  A call to the *)
(* provider adds activation_request_timeout to it: such a call, and what   *)
(* is read for it, may fail at any time.                                   *)
(*                                                                         *)
(* Every caller makes one activation.                                      *)
(***************************************************************************)
EXTENDS Integers, FiniteSets

CONSTANTS
  Callers,       \* activations
  Auths,         \* credentials, all of one provider
  AuthOf(_),     \* the credential of a caller
  Configs,       \* configurations: activation_transport and scheduler_boost_fallback
  Originals,     \* the ranks the credentials may start with
  Keyless,       \* credentials whose document starts without a priority
  Disabled,      \* callers that were told their credential is disabled
  Cancellable,   \* callers whose parent context may be cancelled
  Stubbed,       \* credentials whose listing may be a stub
  Unlisted,      \* callers whose credential a listing may miss
  Floor,         \* activationPriorityBoostFloor
  MaxUnauthorized,      \* authUnauthorizedMaxAttempts
  MaterialAttempts,     \* 1 + authMaterialRetryExtraAttempts
  BoostConfirmAttempts, \* boostConfirmAttempts
  HostMayRefuse, \* whether the host may fail a call for reasons of its own
  None           \* a model value: nobody, or no priority

ASSUME WakePathConstants ==
  /\ IsFiniteSet(Auths) /\ \A c \in Callers : AuthOf(c) \in Auths
  /\ Configs \subseteq [transport : {"direct_http", "scheduler_boost"}, fallback : BOOLEAN]
  /\ Originals \subseteq [Auths -> Nat]
  /\ Unlisted \subseteq Callers
  /\ Disabled \subseteq Callers /\ Cancellable \subseteq Callers
  /\ Stubbed \subseteq Auths /\ Keyless \subseteq Auths
  /\ {MaxUnauthorized, MaterialAttempts, BoostConfirmAttempts} \subseteq Nat \ {0}
  /\ Floor \in Nat /\ HostMayRefuse \in BOOLEAN
  /\ None \notin Callers \cup Auths \cup Nat

VARIABLES
  config,     \* the configuration in force
  original,   \* credential -> what the host routes it by before anything happens
  doc,        \* credential -> its document at the host
  index,      \* credential -> the priority the host routes by
  lock,       \* holder of the provider's lock, or None
  pc,         \* caller -> where its activation stands
  cancelled,  \* caller -> its parent context is cancelled
  copy,       \* caller -> the document it has in its hands
  tries,      \* caller -> attempts of the retry loop it is in
  seen,       \* caller -> the highest priority it has listed, if it is shared,
              \*           and that of its own credential
  written,    \* caller -> it has saved a boosted document
  call,       \* caller -> how far the host is with the completion
  result,     \* caller -> the status of its result
  verdict,    \* caller -> the provider has answered for good
  unsaved     \* callers that left a boosted document behind: a save failed

setup == <<config, original>>
hostVars == <<doc, index>>
boostVars == <<lock, copy, seen, written, unsaved>>
outcomeVars == <<result, verdict>>
vars == <<setup, hostVars, pc, cancelled, tries, boostVars, call, outcomeVars>>

Documents == [priority : Nat \cup {None}, whole : BOOLEAN, disabled : BOOLEAN]

\* Nothing listed yet.
Unseen == [top |-> 0, tied |-> FALSE, own |-> 0]

\* A stub has neither tokens nor a priority.
Stub == [priority |-> None, whole |-> FALSE, disabled |-> TRUE]

\* A completion: what has become of the nonce, the credentials the host has
\* not tried for it, and the one it is trying.
Completions ==
  [nonce : {"live", "picked", "expired"}, left : SUBSET Auths, at : Auths \cup {None}]
NotCalled == [nonce |-> "live", left |-> Auths, at |-> None]

DirectPc == {"material", "send", "sent"}
BoostPc == {"boost", "lock", "relist", "read", "save", "confirm", "confirmList",
            "rollback", "execute", "asked", "restore"}
WakePc == {"enable", "enableSave", "choose", "ended"} \cup DirectPc \cup BoostPc

\* Every variable stays in its range.
TypeOK ==
  /\ config \in Configs
  /\ original \in [Auths -> Nat]
  /\ doc \in [Auths -> Documents]
  /\ index \in [Auths -> Nat]
  /\ lock \in Callers \cup {None}
  /\ pc \in [Callers -> WakePc]
  /\ {cancelled, written, verdict} \subseteq [Callers -> BOOLEAN]
  /\ copy \in [Callers -> Documents]
  /\ \A c \in Callers :
       \E n \in {MaxUnauthorized, MaterialAttempts, BoostConfirmAttempts} :
         tries[c] \in 0 .. n - 1
  /\ seen \in [Callers -> [top : Nat, tied : BOOLEAN, own : Nat]]
  /\ call \in [Callers -> Completions]
  /\ result \in [Callers -> {"none", "success", "failed", "skipped"}]
  /\ unsaved \subseteq Callers

Init ==
  /\ config \in Configs
  /\ original \in Originals
  /\ doc = [a \in Auths |->
              [priority |-> IF a \in Keyless THEN None ELSE original[a],
               whole |-> TRUE,
               disabled |-> \E c \in Disabled : AuthOf(c) = a]]
  /\ index = original
  /\ lock = None
  /\ pc = [c \in Callers |-> IF c \in Disabled THEN "enable" ELSE "choose"]
  /\ cancelled = [c \in Callers |-> FALSE]
  /\ copy = [c \in Callers |-> Stub]
  /\ tries = [c \in Callers |-> 0]
  /\ seen = [c \in Callers |-> Unseen]
  /\ written = [c \in Callers |-> FALSE]
  /\ call = [c \in Callers |-> NotCalled]
  /\ result = [c \in Callers |-> "none"]
  /\ verdict = [c \in Callers |-> FALSE]
  /\ unsaved = {}

-----------------------------------------------------------------------------
(* The host *)

Goto(c, label) == pc' = [pc EXCEPT ![c] = label]

\* The outcome of the activation is stored, and the caller goes to label.
Store(c, status, label) ==
  /\ result' = [result EXCEPT ![c] = status]
  /\ Goto(c, label)

\* What a listing shows of the document of a.
Listings(a) == {doc[a]} \cup IF a \in Stubbed THEN {Stub} ELSE {}

\* priorityFromJSON: the priority in a document, or what stands in for it.
PriorityIn(document, fallback) ==
  IF document.priority = None THEN fallback ELSE document.priority

\* priorityOfAuthFile: the routing priority, or when it is 0 the document's.
Listed(a) == IF index[a] # 0 THEN index[a] ELSE PriorityIn(doc[a], 0)

Write(a, document) == doc' = [doc EXCEPT ![a] = document]

\* What the host routes a credential by once it has read its document.
Routing(a) == PriorityIn(doc[a], original[a])

\* The host follows a document.
Sync(a) ==
  /\ index' = [index EXCEPT ![a] = Routing(a)]
  /\ UNCHANGED <<setup, doc, pc, cancelled, tries, boostVars, call, outcomeVars>>

\* A reconfiguration or a shutdown cancels a scan, a client a request.
Cancel(c) ==
  /\ c \in Cancellable
  /\ cancelled' = [cancelled EXCEPT ![c] = TRUE]
  /\ UNCHANGED <<setup, hostVars, pc, tries, boostVars, call, outcomeVars>>

-----------------------------------------------------------------------------
(* Activate, from the gate to the transport *)

\* enableIfNeeded lists, and takes the document as the listing shows it.
EnableList(c) ==
  /\ pc[c] = "enable"
  /\ \/ /\ ~cancelled[c]
        /\ \E document \in Listings(AuthOf(c)) : copy' = [copy EXCEPT ![c] = document]
        /\ Goto(c, "enableSave")
        /\ UNCHANGED result
     \/ Store(c, "failed", "ended") /\ UNCHANGED copy
  /\ UNCHANGED <<setup, hostVars, cancelled, tries, lock, seen, written, unsaved,
                 call, verdict>>

\* Then it saves it, enabled, outside every lock.
EnableSave(c) ==
  /\ pc[c] = "enableSave"
  /\ \/ /\ ~cancelled[c]
        /\ Write(AuthOf(c), [copy[c] EXCEPT !.disabled = FALSE])
        /\ Goto(c, "choose")
        /\ UNCHANGED result
     \/ Store(c, "failed", "ended") /\ UNCHANGED doc
  /\ copy' = [copy EXCEPT ![c] = Stub]
  /\ UNCHANGED <<setup, index, cancelled, tries, lock, seen, written, unsaved, call,
                 verdict>>

Choose(c) ==
  /\ pc[c] = "choose"
  /\ Goto(c, IF config.transport = "scheduler_boost" THEN "boost" ELSE "material")
  /\ UNCHANGED <<setup, hostVars, cancelled, tries, boostVars, call, outcomeVars>>
=============================================================================
