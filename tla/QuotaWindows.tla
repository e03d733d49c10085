---------------------------- MODULE QuotaWindows ----------------------------
(***************************************************************************)
(* What the detector reads in a quota payload: which of its windows counts *)
(* and when that window resets.                                            *)
(*                                                                         *)
(* A window of a payload says, where it says anything,                     *)
(*   reset   when it resets, an absolute time; NoTime when absent          *)
(*   after   in how long it resets; zero when absent                       *)
(*   limit   how long it is; zero when absent                              *)
(*   name    what its name, type, category, label, bucket or scope, tried  *)
(*           in that order, say of its length                              *)
(*   rem     the remaining quota, or NoSnapshot                            *)
(*   spent   whether used_percent is 100 or more                           *)
(* A Codex payload is the sequence of its top-level, primary and secondary *)
(* windows; an Antigravity payload has models, a set, since it is a Go map *)
(* and is read in any order, and lists of buckets and of groups.  The      *)
(* cycles a payload can be read as are a set, empty when it is unreadable. *)
(***************************************************************************)
EXTENDS StateStore, Sequences

CONSTANTS
  codex, antigravity,      \* the credential, with its provider
  FiveHours, Week, Month   \* lengths; 3h count as five, 28 to 31 days as 30

NoTime == 0
Named == {"5h", "weekly", "monthly"}

ASSUME WindowLengths ==
  /\ {FiveHours, Week, Month} \subseteq Nat \ {0}
  /\ FiveHours < Week /\ Week < Month
  /\ codex # antigravity
  /\ ShortWindows \cap Named = {}

Length == [w \in Named |-> CASE w = "5h" -> FiveHours
                             [] w = "weekly" -> Week
                             [] w = "monthly" -> Month]

-----------------------------------------------------------------------------
(* Windows *)

QuotaWindow ==
  [reset : Nat, after : Int, limit : Int, name : Named \cup {"unknown"},
   rem : Nat \cup {NoSnapshot}, spent : BOOLEAN]

\* classifyWindow: an exact length first, the texts after it.
Classify(q) ==
  IF \E w \in Named : Length[w] = q.limit
  THEN CHOOSE w \in Named : Length[w] = q.limit
  ELSE q.name

\* windowPreference
Rank(w) == CASE w = "monthly" -> 3 [] w = "weekly" -> 2 [] w = "5h" -> 1
             [] OTHER -> 0

\* stableWindowResetAt, StableResetAt: the next multiple of the length.
StableReset_Start(t, length) == (t \div length) * length
StableReset(t, length) == (t \div length) * length + length

\* windowResetAt: a relative time becomes the end of an aligned window.
ResetAt(q, t) ==
  IF q.reset # NoTime THEN q.reset
  ELSE IF q.after > 0 THEN StableReset(t, IF q.limit > 0 THEN q.limit ELSE q.after)
  ELSE NoTime

\* extractRemaining
RemainingOf(q) ==
  IF q.rem # NoSnapshot THEN q.rem ELSE IF q.spent THEN 0 ELSE NoSnapshot

Cycle(g, q, reset, rem) ==
  [group |-> g, window |-> Classify(q), reset |-> reset, rem |-> rem]

\* Of the windows of qs at the places I, the first of the longest.
FirstLongest(qs, I) ==
  {i \in I : \A j \in I : \/ Rank(Classify(qs[j])) < Rank(Classify(qs[i]))
                          \/ Rank(Classify(qs[j])) = Rank(Classify(qs[i])) /\ i <= j}

\* The first set of a sequence that is not empty.
FirstFound(sets) ==
  UNION {sets[i] : i \in {j \in DOMAIN sets : \A k \in 1 .. j - 1 : sets[k] = {}}}

-----------------------------------------------------------------------------
(* parseCodex: the five hour window is never a cycle of its own *)

CodexUsable_AnyWindow(q, t) == ResetAt(q, t) # NoTime /\ Classify(q) \in Named
CodexUsable(q, t) ==
  ResetAt(q, t) # NoTime /\ Classify(q) \in {"weekly", "monthly"}

ParseCodex(qs, t) ==
  {Cycle(NoGroup, qs[i], ResetAt(qs[i], t), RemainingOf(qs[i])) :
     i \in FirstLongest(qs, {j \in DOMAIN qs : CodexUsable(qs[j], t)})}

-----------------------------------------------------------------------------
(* parseAntigravity: absolute resets only, five hours included *)

AntigravityUsable(q) == q.reset # NoTime /\ Classify(q) \in Named

AntigravityCycle(g, q) == Cycle(g, q, q.reset, NoSnapshot)

\* selectAntigravityWindow, which is never told a previous window.  A model
\* with no list of windows has one that no text names, and so yields nothing.
ModelCycles(models, g) ==
  UNION {LET I == {i \in DOMAIN m.windows : AntigravityUsable(m.windows[i])}
         IN {AntigravityCycle(g, m.windows[i]) : i \in FirstLongest(m.windows, I)} :
           m \in {n \in models : n.group = g}}

\* The first usable bucket, however short.
BucketCycles(buckets, g) ==
  FirstFound([i \in DOMAIN buckets |->
                {AntigravityCycle(g, q) : q \in
                   {b \in {buckets[i].window} :
                      buckets[i].group = g /\ AntigravityUsable(b)}}])

GroupCycles(groups, g) ==
  FirstFound([i \in DOMAIN groups |->
                IF groups[i].group = g THEN BucketCycles(groups[i].buckets, g)
                                       ELSE {}])

\* A model whose name tells no group has no quota of its own.
ParseAntigravity(p, g) ==
  IF g = NoGroup THEN {}
  ELSE FirstFound(<<ModelCycles(p.models, g), BucketCycles(p.buckets, g),
                    GroupCycles(p.groups, g)>>)

\* What the host can report of a credential.
AreBuckets(bs) == \A i \in DOMAIN bs : bs[i].window \in QuotaWindow

IsPayload(auth, p) ==
  IF auth = codex
  THEN p \in Seq(QuotaWindow)
  ELSE /\ \A m \in p.models : m.windows \in Seq(QuotaWindow)
       /\ AreBuckets(p.buckets)
       /\ \A i \in DOMAIN p.groups : AreBuckets(p.groups[i].buckets)

\* parseCycle
Parse(auth, p, g, t) ==
  IF auth = codex THEN ParseCodex(p, t) ELSE ParseAntigravity(p, g)

=============================================================================
