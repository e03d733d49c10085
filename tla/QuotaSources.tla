---------------------------- MODULE QuotaSources ----------------------------
(***************************************************************************)
(* Where the quota payload of a credential comes from: the host where it   *)
(* reports one, else the window of the last success, else a window as long *)
(* as the plan's, aligned to a multiple of its length.  The scanner, the   *)
(* management page and a manual request each have a copy of this order.    *)
(*                                                                         *)
(* The host shows a credential in up to three documents, the listing, the  *)
(* runtime's and the physical file, each with                              *)
(*   data    whether it has the text of an auth file                       *)
(*   quota   the set of the payload in that text, or {}                    *)
(*   id      the plan named in the text's id token, or NoToken             *)
(*   access  the plan named in its access token, or NoToken                *)
(*   beside  the set of the payload beside the text, among the metadata    *)
(*           and the attributes, or {}                                     *)
(* A view of the host is a record of the three; runtime is a set, empty    *)
(* when the runtime could not be read.                                     *)
(***************************************************************************)
EXTENDS QuotaWindows

NoToken == "none"

IsDocument(auth, d) ==
  /\ d \in [quota : {d.quota}, beside : {d.beside}, id : STRING, access : STRING,
            data : BOOLEAN]
  /\ \A p \in d.quota \cup d.beside : IsPayload(auth, p)
  /\ ~d.data => d.quota = {} /\ d.id = NoToken /\ d.access = NoToken

IsView(auth, v) ==
  \A d \in v.runtime \cup {v.listing, v.physical} : IsDocument(auth, d)

\* TrueFromFile: the text is read before what lies beside it.
Carried(d) == FirstFound(<<d.quota, d.beside>>)

-----------------------------------------------------------------------------
(* Plans *)

\* planclaim.mapPlan
MapPlan(claim) ==
  CASE claim = "free" -> "free"
    [] claim \in {"plus", "pro", "team"} -> "paid"
    [] OTHER -> "unknown"

\* planclaim.FromAuthJSON: the access token counts only without an id token.
PlanOf(d) ==
  IF d.id # NoToken THEN MapPlan(d.id)
  ELSE IF d.access # NoToken THEN MapPlan(d.access)
  ELSE "unknown"

\* planclaim.WindowFor
WindowFor(plan) == IF plan = "paid" THEN "weekly" ELSE "monthly"

\* The plan of a document, or of the physical file where it names none.
KnownPlan(d, physical) ==
  IF PlanOf(d) # "unknown" THEN PlanOf(d) ELSE PlanOf(physical)

-----------------------------------------------------------------------------
(* Payloads assembled here: quotapayload *)

Open(r, t) == r.reset > t

\* normalizeWindow: a record of Codex's 5h window is kept apart by its name.
Normalized(w) == IF w \in ShortWindows THEN "5h" ELSE w

\* A success that does not tell when it resets is given an aligned window.
InferredReset(r, t) ==
  IF r.reset = NoTime THEN StableReset(t, Length[Normalized(r.window)]) ELSE r.reset

\* WindowFromSuccess: the window of a success that is not known to be over.
WindowFromSuccess_Ended(r, t) ==
  {[window |-> Normalized(r.window), reset |-> InferredReset(r, t)]}
WindowFromSuccess_Realigned(r, t) ==
  IF r.reset = NoTime \/ Open(r, t)
  THEN {[window |-> Normalized(r.window),
         reset |-> StableReset(t, Length[Normalized(r.window)])]}
  ELSE {}
WindowFromSuccess(r, t) ==
  IF r.reset = NoTime \/ Open(r, t)
  THEN {[window |-> Normalized(r.window), reset |-> InferredReset(r, t)]}
  ELSE {}

\* CodexWindowForPlan; SyntheticWindow of Antigravity.
AlignedWindow(w, t) == [window |-> w, reset |-> StableReset(t, Length[w])]
DefaultWindow(auth, plan, t) ==
  AlignedWindow(IF auth = codex THEN WindowFor(plan) ELSE "weekly", t)

\* Marshal: one window, for Antigravity under a model of each of the groups,
\* and no payload at all where no model has a known group.
Marshal(auth, groups, w) ==
  LET q == [reset |-> w.reset, after |-> 0, limit |-> Length[w.window],
            name |-> w.window, rem |-> NoSnapshot, spent |-> FALSE]
      known == groups \ {NoGroup}
  IN IF auth = codex THEN {<<q>>}
     ELSE {[models |-> {[group |-> g, windows |-> <<q>>] : g \in known},
            buckets |-> <<>>, groups |-> <<>>] : kept \in {known} \ {{}}}

-----------------------------------------------------------------------------
(* The scanner: autoCandidatePayloadWithGroup *)

\* keepTrueAutoPayload, codexFiveHourOnly: a Codex payload with no long
\* window is as good as none; an Antigravity payload is always kept.
Kept(auth, quota, t) == {p \in quota : auth = codex => ParseCodex(p, t) # {}}

Reported(auth, host, t) ==
  FirstFound(<<UNION {Kept(auth, Carried(d), t) : d \in host.runtime},
               Kept(auth, Carried(host.listing), t)>>)

\* latestSuccessForAutoPayload
Remembered(auth, g, s) ==
  IF auth = codex THEN UsableLatest(s, auth, NoGroup) ELSE LatestSuccess(s, auth, g)

\* syntheticInferredQuotaPayload
Inferred(auth, groups, R, t) ==
  UNION {Marshal(auth, groups, w) :
           w \in UNION {WindowFromSuccess(r, t) : r \in R}}

ScannerPayload(auth, g, host, s, t) ==
  FirstFound(<<Reported(auth, host, t),
               Inferred(auth, {g}, Remembered(auth, g, s), t),
               Marshal(auth, {g},
                 DefaultWindow(auth, KnownPlan(host.listing, host.physical), t))>>)

-----------------------------------------------------------------------------
(* The management page: Handler.quotaPayload *)

\* mergeRuntimeAuthFile: the runtime's document hides the listing's, except
\* for the text where the runtime's has none.
Merged(host) ==
  IF host.runtime = {} THEN host.listing
  ELSE LET runtime == CHOOSE d \in host.runtime : TRUE
       IN IF runtime.data THEN runtime
          ELSE [host.listing EXCEPT !.beside = runtime.beside]

\* UsableLatestSuccess: the newest of whatever group.
NewestOfAnyGroup(s, a) ==
  Newest({r \in s : r.auth = a /\ Usable(r)})

PagePayload_FiveHours(auth, groups, host, s, t) ==
  FirstFound(<<Carried(Merged(host)),
               Inferred(auth, groups, NewestOfAnyGroup(s, auth), t),
               Marshal(auth, groups,
                 DefaultWindow(auth, KnownPlan(Merged(host), host.physical), t))>>)
PagePayload(auth, groups, host, s, t) ==
  FirstFound(<<Kept(auth, Carried(Merged(host)), t),
               Inferred(auth, groups, NewestOfAnyGroup(s, auth), t),
               Marshal(auth, groups,
                 DefaultWindow(auth, KnownPlan(Merged(host), host.physical), t))>>)

-----------------------------------------------------------------------------
(* A manual request: toActivatorRequest, synthesizeCodexLongWindow *)

\* A Codex payload that cannot be read is replaced by the window of the plan.
ManualCycles(auth, g, p, host, t) ==
  FirstFound(<<Parse(auth, p, g, t),
               IF auth = codex
               THEN UNION {ParseCodex(q, t) : q \in
                      Marshal(codex, {}, DefaultWindow(codex, PlanOf(host.physical), t))}
               ELSE {}>>)

=============================================================================
