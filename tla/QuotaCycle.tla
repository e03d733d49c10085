----------------------------- MODULE QuotaCycle -----------------------------
(***************************************************************************)
(* The quota cycles of one credential as the plugin sees them.  The host   *)
(* changes what it reports; a scan collects a payload for each configured  *)
(* model and judges it later, when its worker gets to it; the management   *)
(* page shows a payload that a request sends back, perhaps much later.     *)
(* Both go through the detector and the activator's gate and leave a       *)
(* record, from which the next payload may be inferred.                    *)
(*                                                                         *)
(* Callers that overlap on the way from the gate to the record are the     *)
(* subject of Activation: here a request is judged and recorded in one     *)
(* step, and cooldowns, which only postpone a scan, are left to            *)
(* AutoScanner.  A manual request names the group of its model, as those   *)
(* the page sends do, and no previous cycle of its own.                    *)
(***************************************************************************)
EXTENDS QuotaSources

CONSTANTS
  Models, ModelGroup,  \* model -> the group its name tells, or NoGroup
  EnableBefore,        \* enable_before_activation
  Credentials,         \* the credential: [auth, config, available, disabled]
  HostViews,           \* auth -> what the host may show of it
  StartStores,         \* auth -> what the state file may hold at first
  MaxNow,              \* bound: the clock stops here
  MaxRecords           \* bound: records of wakes

\* A record that an older version may have left, of any window and any group.
IsOldRecord(auth, r) ==
  /\ r \in [auth : {auth}, group : {r.group}, window : ShortWindows \cup Named,
            reset : Nat, obs : Int, result : {r.result},
            rem : Nat \cup {NoSnapshot}]
  /\ auth = codex => r.group = NoGroup /\ r.window # "5h"

ASSUME QuotaCycleConstants ==
  /\ ModelGroup \in [Models -> {ModelGroup[m] : m \in Models} \cup {NoGroup}]
  /\ EnableBefore \in BOOLEAN
  /\ MaxNow \in Nat \ {0}
  /\ MaxRecords \in Nat \ {0}
  /\ \A k \in Credentials :
       /\ k.auth \in {codex, antigravity}
       /\ k.config.codex \subseteq Models /\ k.available \subseteq Models
       /\ k.config.models \in Seq(Models)
       /\ DOMAIN k.config.groups = 1 .. Len(k.config.groups)
  /\ \A auth \in {codex, antigravity} :
       /\ \A v \in HostViews[auth] : IsView(auth, v)
       /\ \A s \in StartStores[auth] : \A r \in s : IsOldRecord(auth, r)

VARIABLES
  now,    \* the clock
  cred,   \* the credential of this behaviour
  host,   \* what the host shows of it
  store,  \* the records of wakes
  cache,  \* the activator's last usable successes
  batch,  \* the candidates of the scan that are still to be judged
  page    \* the payload the open page shows, or {}

vars == <<now, cred, host, store, cache, batch, page>>

-----------------------------------------------------------------------------
(* Which models are woken *)

MaxPairs == 3

\* parseAntigravityModelPairs: as many models as groups, no group twice, and
\* no model whose name tells another group.
PairsOf(config) ==
  IF /\ Len(config.groups) = Len(config.models)
     /\ Len(config.groups) <= MaxPairs
     /\ \A i, j \in DOMAIN config.groups :
          i # j => config.groups[i] # config.groups[j]
     /\ \A i \in DOMAIN config.models :
          ModelGroup[config.models[i]] \in {NoGroup, config.groups[i]}
  THEN {[group |-> config.groups[i], model |-> config.models[i]] :
          i \in DOMAIN config.groups}
  ELSE {}

\* autoModel, antigravityPairEligible: a list of models, where there is one,
\* must have the model.
Eligible ==
  {p \in IF cred.auth = codex
         THEN {[group |-> NoGroup, model |-> m] : m \in cred.config.codex}
         ELSE PairsOf(cred.config) :
     cred.available = {} \/ p.model \in cred.available}

Known(auth, model) == IF auth = codex THEN NoGroup ELSE ModelGroup[model]

-----------------------------------------------------------------------------
(* The gates, for a cycle c observed at time t *)

Observed(c, t) ==
  [auth |-> cred.auth, group |-> c.group, reset |-> c.reset, obs |-> t,
   window |-> c.window, result |-> "pending", rem |-> c.rem]

Views == GateViews(store, cache)

\* What the activator makes of a request: skipped by its gate, or woken with
\* any outcome.
Finish(o) ==
  \E v \in Views :
    \E result \in IF HardSkips(v, o, now) THEN {"skipped"} ELSE {"success", "failed"} :
      LET r == [o EXCEPT !.result = result]
      IN /\ store' = Upsert(store, r)
         /\ Cardinality(store') <= MaxRecords
         /\ cache' = Remember(cache, r)

-----------------------------------------------------------------------------
Init ==
  /\ now = 1
  /\ cred \in Credentials
  /\ host \in HostViews[cred.auth]
  /\ store \in StartStores[cred.auth]
  /\ cache = {}
  /\ batch = {}
  /\ page = {}

\* The candidate of a model, one of several where successes tie.
Offers(e) ==
  {[model |-> e.model, payload |-> p, at |-> now,
    reported |-> Reported(cred.auth, host, now) # {}] :
     p \in ScannerPayload(cred.auth, Known(cred.auth, e.model), host, store, now)}

\* autoCandidates: one scan collects its candidates, one for each model that
\* has a payload; the next begins when all are judged.
Collect ==
  /\ batch = {}
  /\ cred.disabled => EnableBefore
  /\ \E B \in SUBSET UNION {Offers(e) : e \in Eligible} :
       /\ \A e \in Eligible :
            Offers(e) # {} => Cardinality({c \in B : c.model = e.model}) = 1
       /\ batch' = B
  /\ UNCHANGED <<now, cred, host, store, cache, page>>

\* activateCandidateDetail; a payload that cannot be read fails the candidate.
Judge(c) ==
  /\ batch' = batch \ {c}
  /\ \/ /\ Parse(cred.auth, c.payload, Known(cred.auth, c.model), now) = {}
        /\ UNCHANGED <<store, cache>>
     \/ \E cycle \in Parse(cred.auth, c.payload, Known(cred.auth, c.model), now) :
          LET o == Observed(cycle, now)
          IN IF Activates(store, o) /\ ~ScannerSkips(store, o)
             THEN Finish(o)
             ELSE UNCHANGED <<store, cache>>
  /\ UNCHANGED <<now, cred, host, page>>

\* handleAuthFiles
OpenPage ==
  /\ \E p \in PagePayload(cred.auth, {Known(cred.auth, m) : m \in cred.available},
                          host, store, now) : page' = {p}
  /\ UNCHANGED <<now, cred, host, store, cache, batch>>

\* toActivatorRequest, and the activation where the detector asks for one.
Request(m) ==
  /\ \E p \in page :
       \E cycle \in ManualCycles(cred.auth, Known(cred.auth, m), p, host, now) :
         LET o == Observed(cycle, now)
         IN Activates(store, o) /\ Finish(o)
  /\ UNCHANGED <<now, cred, host, batch, page>>

HostChanges ==
  /\ host' \in HostViews[cred.auth] \ {host}
  /\ UNCHANGED <<now, cred, store, cache, batch, page>>

Tick ==
  /\ now < MaxNow
  /\ now' = now + 1
  /\ UNCHANGED <<cred, host, store, cache, batch, page>>

Next ==
  \/ Collect
  \/ \E c \in batch : Judge(c)
  \/ OpenPage
  \/ \E m \in cred.available : Request(m)
  \/ HostChanges
  \/ Tick

Spec == Init /\ [][Next]_vars

-----------------------------------------------------------------------------
(* Properties *)

\* What a scan that starts now would observe for a model.
ObservedNow(e) ==
  UNION {{Observed(c, now) : c \in Parse(cred.auth, p, Known(cred.auth, e.model), now)} :
           p \in ScannerPayload(cred.auth, Known(cred.auth, e.model), host, store, now)}

Woken(o) ==
  /\ Activates(store, o)
  /\ ~ScannerSkips(store, o)
  /\ \A v \in Views : ~HardSkips(v, o, now)

OpenSuccesses(g) ==
  {r \in store \cup cache : r.group \in {g, NoGroup} /\ Usable(r) /\ Open(r, now)}

\* What is recorded is a cycle the plugin knows: never Codex's five hours, and
\* no other group than the models' (parseCodex, InferModelGroup); a record that
\* an older version left in the state file may be of any window.
TypeOK ==
  /\ now \in 1 .. MaxNow
  /\ cred \in Credentials
  /\ host \in HostViews[cred.auth]
  /\ \A r \in (store \ UNION StartStores[cred.auth]) \cup cache :
       /\ r.window \in IF cred.auth = codex THEN {"weekly", "monthly"} ELSE Named
       /\ r.group \in {Known(cred.auth, m) : m \in Models}
       /\ r.obs \in 1 .. now /\ r.reset \in Nat /\ r.rem \in Nat \cup {NoSnapshot}
       /\ r.result \in {"success", "failed", "skipped"}
  /\ \A c \in batch : c.at \in 1 .. now /\ c.reported \in BOOLEAN
  /\ Cardinality(page) <= 1

\* While the host reports nothing, the payload inferred from a last success that
\* is still open reads back, through Marshal and the detector, as that cycle: the
\* detector judges it handled, at whatever time the scan comes
\* (auto_candidate.go:196, syntheticInferredQuotaPayload).  Excepted from the
\* judgement are a success without a group or of Codex's five hours, which has
\* another key than the cycle, and one behind a later success of its group.
QuietWhileOpen ==
  Reported(cred.auth, host, now) = {} =>
    \A e \in Eligible :
      LET last == Remembered(cred.auth, Known(cred.auth, e.model), store)
      IN last # {} /\ (\A r \in last : Open(r, now)) =>
           \A o \in ObservedNow(e) :
             \E r \in last :
               /\ o.window = Normalized(r.window) /\ o.reset = r.reset
               /\ r \in LatestSuccess(store, o.auth, o.group) /\ Key(r) = Key(o)
                    => ~Activates(store, o)

\* A wake the scanner made without a report of the host begins where the last
\* cycle ended, and its own cycle was still to end when the payload was made
\* (StableResetAt): otherwise the success is over as soon as it is recorded and
\* the next scan wakes the credential again.
CyclesDoNotOverlap ==
  [][\A c \in batch \ batch' : ~c.reported =>
       \A q \in store' \ store : q.result = "success" =>
         /\ q.reset > c.at
         /\ \A r \in UsableLatest(store, q.auth, q.group) : r.reset <= q.obs]_vars

\* Once no success of a model is open, a scan wakes it: neither the detector
\* nor a gate holds on to a cycle that is over.  Excepted are a report of a
\* reset that is past, which pins the scanner to that cycle until the host
\* reports another, one without the model's group, and a model whose name tells
\* no group.
EndedCycleIsWoken ==
  \A e \in Eligible :
    /\ cred.auth = antigravity => Known(cred.auth, e.model) # NoGroup
    /\ OpenSuccesses(Known(cred.auth, e.model)) = {}
    /\ \A p \in Reported(cred.auth, host, now) :
         LET C == Parse(cred.auth, p, Known(cred.auth, e.model), now)
         IN C # {} /\ \A c \in C : c.reset > now
    => ObservedNow(e) # {} /\ \A o \in ObservedNow(e) : Woken(o)

\* Where the runtime shows what the listing shows, a Codex request sent from a
\* page just opened is for the cycle a scan would observe: the two copies of
\* the order of sources agree, so the gate recognises the one's success in the
\* other's request (auth_files_quota.go:14, auto_candidate.go:92).
PageAgrees ==
  cred.auth = codex /\ host.runtime \subseteq {host.listing} =>
    \A e \in Eligible :
      UNION {{Observed(c, now) : c \in ManualCycles(codex, NoGroup, p, host, now)} :
               p \in PagePayload(codex, {}, host, store, now)} = ObservedNow(e)

=============================================================================
