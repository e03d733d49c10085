--------------------------- MODULE MC_QuotaCycle ----------------------------
(***************************************************************************)
(* QuotaCycle on small instances: a Codex credential and three of          *)
(* Antigravity, one of them disabled, the host reporting nothing, only the *)
(* five hours, a long window with and without quota left, an aligned one,  *)
(* or models of one group that disagree.                                   *)
(***************************************************************************)
EXTENDS QuotaCycle, TLC

CONSTANTS gemini, claude, gpt5, geminiPro, sonnet, mystery

MC_ShortWindows == {"codex 5h"}
MC_Models == {gpt5, geminiPro, sonnet, mystery}
MC_ModelGroup == [m \in MC_Models |-> CASE m = geminiPro -> gemini
                                        [] m = sonnet -> claude
                                        [] OTHER -> NoGroup]

Pairs(groups, models) == [codex |-> {}, groups |-> groups, models |-> models]

MC_Credentials ==
  {[auth |-> codex, config |-> [Pairs(<<>>, <<>>) EXCEPT !.codex = {gpt5}],
    available |-> {gpt5}, disabled |-> FALSE],
   [auth |-> antigravity, config |-> Pairs(<<gemini, claude>>, <<geminiPro, sonnet>>),
    available |-> {geminiPro, sonnet}, disabled |-> FALSE],
   [auth |-> antigravity, config |-> Pairs(<<gemini>>, <<mystery>>),
    available |-> {}, disabled |-> FALSE],
   [auth |-> antigravity, config |-> Pairs(<<gemini>>, <<sonnet>>),
    available |-> {sonnet}, disabled |-> TRUE]}

Reset(reset, w, rem) ==
  [reset |-> reset, after |-> 0, limit |-> Length[w], name |-> "unknown",
   rem |-> rem, spent |-> FALSE]
Named5h(reset) == [Reset(reset, "5h", NoSnapshot) EXCEPT !.limit = 0, !.name = "5h"]
After(w) == [Reset(NoTime, w, NoSnapshot) EXCEPT !.after = 1, !.spent = TRUE]

Doc(id, access) ==
  [quota |-> {}, beside |-> {}, id |-> id, access |-> access, data |-> TRUE]
View(listing, runtime, physical) ==
  [listing |-> listing, runtime |-> runtime, physical |-> physical]

Pro == Doc("pro", "free")
Stub == Doc(NoToken, NoToken)
Free == Doc(NoToken, "free")
NoText == [Stub EXCEPT !.data = FALSE]
With(p, d) == [d EXCEPT !.quota = {p}]
Beside(p, d) == [d EXCEPT !.beside = {p}]

OnlyFiveHours == <<Reset(2, "5h", 1)>>
LongWindow(reset, rem) == <<Named5h(2), Reset(reset, "weekly", rem)>>
Aligned == <<Reset(3, "5h", 0), After("weekly"), After("monthly")>>

CodexViews ==
  {View(Stub, {}, Pro),
   View(With(OnlyFiveHours, Stub), {}, Pro),
   View(With(LongWindow(4, 1), Free), {With(LongWindow(4, 0), Pro)}, Pro),
   View(Beside(Aligned, Free), {Beside(OnlyFiveHours, NoText)}, Free)}

Model(g, q) == [group |-> g, windows |-> q]
Report(models, buckets, groups) ==
  [models |-> models, buckets |-> buckets, groups |-> groups]
Bucket(g, q) == [group |-> g, window |-> q]

\* Two models of one group, and the other group only among the groups.
Disagreeing ==
  Report({Model(claude, <<Reset(3, "weekly", 0)>>),
          Model(claude, <<Named5h(2), Reset(3, "5h", 0)>>), Model(gemini, <<>>)},
         <<Bucket(claude, Reset(4, "weekly", 0))>>,
         <<[group |-> gemini, buckets |-> <<Bucket(claude, Reset(3, "weekly", 0)),
                                            Bucket(gemini, Reset(4, "weekly", 0))>>]>>)

AntigravityViews ==
  {View(Stub, {}, Stub), View(Stub, {With(Disagreeing, Stub)}, Stub)}

MC_HostViews ==
  (codex :> CodexViews) @@ (antigravity :> AntigravityViews)

Success(auth, w, reset, rem) ==
  [auth |-> auth, group |-> NoGroup, window |-> w, reset |-> reset, obs |-> 0,
   result |-> "success", rem |-> rem]

Failed(auth, g, w, reset) ==
  [Success(auth, w, reset, NoSnapshot) EXCEPT !.group = g, !.result = "failed"]

\* An old file: Codex's five hours, a success that does not tell when it
\* resets, an Antigravity success without a group, or wakes that all failed.
MC_StartStores ==
  (codex :> {{Success(codex, "codex 5h", 3, NoSnapshot)},
             {Success(codex, "weekly", NoTime, NoSnapshot)}})
  @@ (antigravity :>
        {{Success(antigravity, "weekly", 2, NoSnapshot)},
         {Failed(antigravity, g, "weekly", 2) : g \in {gemini, claude}}})
=============================================================================
