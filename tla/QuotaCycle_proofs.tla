------------------------- MODULE QuotaCycle_proofs --------------------------
(***************************************************************************)
(* The quota cycles of one credential, for any models, any views of the    *)
(* host, any old state file and any lengths of the windows.                *)
(*                                                                         *)
(* The argument goes through the payloads: what quotapayload writes for a  *)
(* window reads back, through the detector, as that window (MarshalReads), *)
(* and every payload made without a report is written for a window that is *)
(* ahead (MadeIsAhead).  The inductive invariant QuotaInv keeps that for   *)
(* the candidates of a scan that wait for a worker, and the form of the    *)
(* records; the properties of QuotaCycle follow from it.                   *)
(***************************************************************************)
EXTENDS QuotaCycle, StateStore_proofs, FiniteSetTheorems

-----------------------------------------------------------------------------
(* Windows: the lengths tell them apart, and an aligned one is still open *)

LEMMA Lengths ==
  /\ \A w \in Named : Length[w] \in Nat \ {0}
  /\ \A v, w \in Named : Length[v] = Length[w] => v = w
BY WindowLengths DEF Length, Named

\* A window of a length that has a name is classified by it, whatever its
\* texts say (window.go: classifyWindow).
LEMMA ClassifiedByLength ==
  ASSUME NEW q, NEW w \in Named, q.limit = Length[w]
  PROVE  Classify(q) = w
BY Lengths DEF Classify

LEMMA ClassifiedSomehow ==
  ASSUME NEW q \in QuotaWindow
  PROVE  Classify(q) \in Named \cup {"unknown"}
BY DEF Classify, QuotaWindow

\* The next multiple of a length is ahead, and less than a length ahead
\* (time.go: stableWindowResetAt).
LEMMA StableResetIsAhead ==
  ASSUME NEW t \in Nat, NEW length \in Nat \ {0}
  PROVE  /\ StableReset(t, length) \in Nat
         /\ StableReset(t, length) > t
         /\ StableReset(t, length) <= t + length
<1> DEFINE d == t \div length
           m == t % length
<1>1. d \in Nat /\ m \in 0 .. length - 1 /\ t = length * d + m
  BY Z3
<1>2. d * length \in Nat /\ d * length = length * d
  BY <1>1, Z3
<1> HIDE DEF d, m
<1>3. d * length + length > t /\ d * length + length <= t + length /\ d * length + length \in Nat
  BY <1>1, <1>2
<1> QED BY <1>3 DEF StableReset, d

\* The time at which a window resets is a time.
LEMMA ResetIsTime ==
  ASSUME NEW q \in QuotaWindow, NEW t \in Nat
  PROVE  ResetAt(q, t) \in Nat
<1>1. q.reset \in Nat /\ q.after \in Int /\ q.limit \in Int
  BY DEF QuotaWindow
<1>2. ASSUME NEW length \in Nat \ {0} PROVE StableReset(t, length) \in Nat
  BY StableResetIsAhead
<1> DEFINE length == IF q.limit > 0 THEN q.limit ELSE q.after
<1>3. CASE q.reset # NoTime
  BY <1>1, <1>3 DEF ResetAt
<1>4. CASE q.reset = NoTime /\ q.after > 0
  <2>1. length \in Nat \ {0}
    BY <1>1, <1>4
  <2>2. StableReset(t, length) \in Nat
    BY <1>2, <2>1
  <2> QED BY <1>4, <2>2 DEF ResetAt
<1>5. CASE q.reset = NoTime /\ ~(q.after > 0)
  BY <1>5 DEF ResetAt, NoTime
<1> QED BY <1>3, <1>4, <1>5

\* Of three sets the first that is not empty is found.
LEMMA FirstOfThree ==
  ASSUME NEW A, NEW B, NEW C
  PROVE  FirstFound(<<A, B, C>>) =
           IF A # {} THEN A ELSE IF B # {} THEN B ELSE C
<1> DEFINE sets == <<A, B, C>>
<1>1. DOMAIN sets = 1 .. 3 /\ sets[1] = A /\ sets[2] = B /\ sets[3] = C
  OBVIOUS
<1> HIDE DEF sets
<1>2. FirstFound(sets) = UNION {sets[i] : i \in {j \in 1 .. 3 : \A k \in 1 .. j - 1 : sets[k] = {}}}
  BY <1>1 DEF FirstFound
<1>3. \A x : x \in FirstFound(sets) <=>
        \E i \in 1 .. 3 : (\A k \in 1 .. i - 1 : sets[k] = {}) /\ x \in sets[i]
  BY <1>2
<1>4. \A x : x \in FirstFound(sets) <=>
        \/ x \in A
        \/ A = {} /\ x \in B
        \/ A = {} /\ B = {} /\ x \in C
  BY <1>1, <1>3
<1> QED BY <1>4 DEF sets

LEMMA FirstOfTwo ==
  ASSUME NEW A, NEW B
  PROVE  FirstFound(<<A, B>>) = IF A # {} THEN A ELSE B
<1> DEFINE sets == <<A, B>>
<1>1. DOMAIN sets = 1 .. 2 /\ sets[1] = A /\ sets[2] = B
  OBVIOUS
<1> HIDE DEF sets
<1>2. FirstFound(sets) = UNION {sets[i] : i \in {j \in 1 .. 2 : \A k \in 1 .. j - 1 : sets[k] = {}}}
  BY <1>1 DEF FirstFound
<1>3. \A x : x \in FirstFound(sets) <=>
        \E i \in 1 .. 2 : (\A k \in 1 .. i - 1 : sets[k] = {}) /\ x \in sets[i]
  BY <1>2
<1>4. \A x : x \in FirstFound(sets) <=> x \in A \/ (A = {} /\ x \in B)
  BY <1>1, <1>3
<1> QED BY <1>4 DEF sets

-----------------------------------------------------------------------------
(* What is marshalled here reads back as the window it was *)

TimedWindow == [window : Named, reset : Nat \ {NoTime}]

Written(w) ==
  [reset |-> w.reset, after |-> 0, limit |-> Length[w.window],
   name |-> w.window, rem |-> NoSnapshot, spent |-> FALSE]

LEMMA WrittenWindow ==
  ASSUME NEW w \in TimedWindow, NEW t
  PROVE  /\ Written(w) \in QuotaWindow
         /\ Classify(Written(w)) = w.window
         /\ ResetAt(Written(w), t) = w.reset
         /\ RemainingOf(Written(w)) = NoSnapshot
<1>1. w.window \in Named /\ w.reset \in Nat /\ w.reset # NoTime
  BY DEF TimedWindow
<1>2. Length[w.window] \in Nat
  BY <1>1, Lengths
<1>3. Written(w) \in QuotaWindow
  BY <1>1, <1>2 DEF Written, QuotaWindow
<1>4. Written(w).limit = Length[w.window]
  BY DEF Written
<1>5. Classify(Written(w)) = w.window
  BY <1>1, <1>4, ClassifiedByLength
<1> QED BY <1>1, <1>3, <1>5 DEF Written, ResetAt, RemainingOf

LEMMA MarshalWrites ==
  ASSUME NEW auth, NEW groups, NEW w
  PROVE  Marshal(auth, groups, w) =
           IF auth = codex THEN {<<Written(w)>>}
           ELSE {[models |-> {[group |-> g, windows |-> <<Written(w)>>] : g \in groups \ {NoGroup}},
                  buckets |-> <<>>, groups |-> <<>>] :
                    kept \in {groups \ {NoGroup}} \ {{}}}
BY DEF Marshal, Written

\* The only window of a list is the first of the longest.
LEMMA OnlyWindow ==
  ASSUME NEW q
  PROVE  /\ FirstLongest(<<q>>, {1}) = {1}
         /\ FirstLongest(<<q>>, {}) = {}
BY DEF FirstLongest

\* Codex: the five hours are no cycle.
LEMMA CodexReads ==
  ASSUME NEW w \in TimedWindow, NEW t
  PROVE  ParseCodex(<<Written(w)>>, t) =
           IF w.window \in {"weekly", "monthly"}
           THEN {[group |-> NoGroup, window |-> w.window, reset |-> w.reset,
                  rem |-> NoSnapshot]}
           ELSE {}
<1> DEFINE q == Written(w)
           usable == {j \in DOMAIN <<q>> : CodexUsable(<<q>>[j], t)}
<1>1. /\ Classify(q) = w.window /\ ResetAt(q, t) = w.reset /\ RemainingOf(q) = NoSnapshot
      /\ w.reset # NoTime
  BY WrittenWindow DEF TimedWindow
<1> HIDE DEF q
<1>2. DOMAIN <<q>> = {1} /\ <<q>>[1] = q
  OBVIOUS
<1>3. ParseCodex(<<q>>, t) = {Cycle(NoGroup, <<q>>[i], ResetAt(<<q>>[i], t), RemainingOf(<<q>>[i])) :
                                i \in FirstLongest(<<q>>, usable)}
  BY DEF ParseCodex
<1>4. CASE w.window \in {"weekly", "monthly"}
  <2>1. usable = {1}
    BY <1>1, <1>2, <1>4 DEF CodexUsable
  <2>2. FirstLongest(<<q>>, usable) = {1}
    BY <2>1, OnlyWindow
  <2>3. ParseCodex(<<q>>, t) = {Cycle(NoGroup, q, ResetAt(q, t), RemainingOf(q))}
    BY <1>2, <1>3, <2>2
  <2> QED BY <1>1, <1>4, <2>3 DEF Cycle, q
<1>5. CASE w.window \notin {"weekly", "monthly"}
  <2>1. usable = {}
    BY <1>1, <1>2, <1>5 DEF CodexUsable
  <2>2. FirstLongest(<<q>>, usable) = {}
    BY <2>1, OnlyWindow
  <2> QED BY <1>3, <1>5, <2>2 DEF q
<1> QED BY <1>4, <1>5

\* Antigravity: every group that was written reads back, and no other.
LEMMA AntigravityReads ==
  ASSUME NEW w \in TimedWindow, NEW known, NoGroup \notin known, NEW g
  PROVE  ParseAntigravity(
           [models |-> {[group |-> h, windows |-> <<Written(w)>>] : h \in known},
            buckets |-> <<>>, groups |-> <<>>], g) =
           IF g \in known
           THEN {[group |-> g, window |-> w.window, reset |-> w.reset,
                  rem |-> NoSnapshot]}
           ELSE {}
<1> DEFINE q == Written(w)
           models == {[group |-> h, windows |-> <<q>>] : h \in known}
           payload == [models |-> models, buckets |-> <<>>, groups |-> <<>>]
           cycle == [group |-> g, window |-> w.window, reset |-> w.reset,
                     rem |-> NoSnapshot]
           Read(m) == {AntigravityCycle(g, m.windows[i]) :
                         i \in FirstLongest(m.windows,
                                 {i \in DOMAIN m.windows : AntigravityUsable(m.windows[i])})}
<1>1. /\ Classify(q) = w.window /\ w.window \in Named
      /\ q.reset = w.reset /\ w.reset # NoTime
  BY WrittenWindow DEF TimedWindow, Written
<1> HIDE DEF q
<1>2. ASSUME NEW m, m.windows = <<q>> PROVE Read(m) = {cycle}
  <2>1. DOMAIN <<q>> = {1} /\ <<q>>[1] = q
    OBVIOUS
  <2>2. {i \in DOMAIN <<q>> : AntigravityUsable(<<q>>[i])} = {1}
    BY <1>1, <2>1 DEF AntigravityUsable
  <2>3. Read(m) = {AntigravityCycle(g, <<q>>[i]) : i \in FirstLongest(<<q>>, {1})}
    BY <1>2, <2>2
  <2>4. Read(m) = {AntigravityCycle(g, q)}
    BY <2>1, <2>3, OnlyWindow
  <2> QED BY <1>1, <2>4 DEF AntigravityCycle, Cycle
<1>3. {n \in models : n.group = g} = IF g \in known THEN {[group |-> g, windows |-> <<q>>]} ELSE {}
  OBVIOUS
<1>4. ModelCycles(models, g) = UNION {Read(m) : m \in {n \in models : n.group = g}}
  BY DEF ModelCycles
<1>5. ModelCycles(models, g) = IF g \in known THEN {cycle} ELSE {}
  <2>1. CASE g \in known
    <3>1. {n \in models : n.group = g} = {[group |-> g, windows |-> <<q>>]}
      BY <1>3, <2>1
    <3>2. Read([group |-> g, windows |-> <<q>>]) = {cycle}
      BY <1>2
    <3> HIDE DEF Read, models, cycle
    <3>3. ModelCycles(models, g) = {cycle}
      BY <1>4, <3>1, <3>2
    <3> QED BY <2>1, <3>3
  <2>2. CASE g \notin known
    <3>1. {n \in models : n.group = g} = {}
      BY <1>3, <2>2
    <3> HIDE DEF Read, models, cycle
    <3> QED BY <1>4, <2>2, <3>1
  <2> QED BY <2>1, <2>2
<1>6. BucketCycles(<<>>, g) = {} /\ GroupCycles(<<>>, g) = {}
  BY DEF BucketCycles, GroupCycles, FirstFound
<1>7. ParseAntigravity(payload, g) =
        IF g = NoGroup THEN {} ELSE FirstFound(<<ModelCycles(models, g), {}, {}>>)
  BY <1>6 DEF ParseAntigravity
<1> HIDE DEF cycle, models
<1>8. ParseAntigravity(payload, g) = IF g \in known THEN {cycle} ELSE {}
  <2> DEFINE M == ModelCycles(models, g)
  <2>1. FirstFound(<<M, {}, {}>>) = IF M # {} THEN M ELSE {}
    <3> HIDE DEF M
    <3> QED BY FirstOfThree
  <2>2. M = IF g \in known THEN {cycle} ELSE {}
    BY <1>5
  <2>3. ParseAntigravity(payload, g) = IF g = NoGroup THEN {} ELSE M
    BY <1>7, <2>1
  <2> HIDE DEF M, payload
  <2> QED BY <2>2, <2>3
<1> QED BY <1>8 DEF cycle, models, q

-----------------------------------------------------------------------------
(* What can be read in a payload *)

LongNames(auth) == IF auth = codex THEN {"weekly", "monthly"} ELSE Named

\* What the detector can make of a payload, asked for a group.
CyclesOf(auth, g) ==
  [group : {IF auth = codex THEN NoGroup ELSE g}, window : LongNames(auth),
   reset : Nat, rem : Nat \cup {NoSnapshot}]

LEMMA FoundSomewhere ==
  ASSUME NEW sets, NEW x \in FirstFound(sets)
  PROVE  \E i \in DOMAIN sets : x \in sets[i]
BY DEF FirstFound

LEMMA WindowsOfList ==
  ASSUME NEW qs \in Seq(QuotaWindow), NEW i \in DOMAIN qs
  PROVE  qs[i] \in QuotaWindow
OBVIOUS

LEMMA CodexCycles ==
  ASSUME NEW qs \in Seq(QuotaWindow), NEW t \in Nat, NEW c \in ParseCodex(qs, t), NEW g
  PROVE  c \in CyclesOf(codex, g)
<1>1. PICK i \in DOMAIN qs :
        /\ CodexUsable(qs[i], t)
        /\ c = Cycle(NoGroup, qs[i], ResetAt(qs[i], t), RemainingOf(qs[i]))
  BY DEF ParseCodex, FirstLongest
<1>2. qs[i] \in QuotaWindow
  BY WindowsOfList
<1>3. ResetAt(qs[i], t) \in Nat
  BY <1>2, ResetIsTime
<1>4. RemainingOf(qs[i]) \in Nat \cup {NoSnapshot}
  BY <1>2 DEF QuotaWindow, RemainingOf
<1> QED BY <1>1, <1>3, <1>4 DEF Cycle, CodexUsable, CyclesOf, LongNames

LEMMA UsableWindowCycle ==
  ASSUME NEW q \in QuotaWindow, AntigravityUsable(q), NEW g
  PROVE  AntigravityCycle(g, q) \in CyclesOf(antigravity, g)
BY WindowLengths
   DEF AntigravityUsable, AntigravityCycle, Cycle, CyclesOf, LongNames, QuotaWindow

LEMMA BucketsCycles ==
  ASSUME NEW bs, AreBuckets(bs), NEW g, NEW c \in BucketCycles(bs, g)
  PROVE  c \in CyclesOf(antigravity, g)
<1>1. PICK i \in DOMAIN bs :
        c \in {AntigravityCycle(g, q) : q \in
                 {b \in {bs[i].window} : bs[i].group = g /\ AntigravityUsable(b)}}
  BY FoundSomewhere DEF BucketCycles
<1>2. AntigravityUsable(bs[i].window) /\ c = AntigravityCycle(g, bs[i].window)
  BY <1>1
<1>3. bs[i].window \in QuotaWindow
  BY DEF AreBuckets
<1> QED BY <1>2, <1>3, UsableWindowCycle

LEMMA AntigravityCycles ==
  ASSUME NEW p, IsPayload(antigravity, p), NEW g, NEW c \in ParseAntigravity(p, g)
  PROVE  c \in CyclesOf(antigravity, g)
<1>0. /\ \A m \in p.models : m.windows \in Seq(QuotaWindow)
      /\ AreBuckets(p.buckets)
      /\ \A i \in DOMAIN p.groups : AreBuckets(p.groups[i].buckets)
  BY WindowLengths DEF IsPayload
<1> DEFINE M == ModelCycles(p.models, g)
           B == BucketCycles(p.buckets, g)
           G == GroupCycles(p.groups, g)
<1>1. c \in M \cup B \cup G
  <2>1. g # NoGroup /\ c \in FirstFound(<<M, B, G>>)
    BY DEF ParseAntigravity
  <2> HIDE DEF M, B, G
  <2> QED BY <2>1, FirstOfThree
<1>2. CASE c \in M
  <2>1. PICK m \in p.models : \E i \in DOMAIN m.windows :
          AntigravityUsable(m.windows[i]) /\ c = AntigravityCycle(g, m.windows[i])
    BY <1>2 DEF ModelCycles, FirstLongest
  <2>2. PICK i \in DOMAIN m.windows :
          AntigravityUsable(m.windows[i]) /\ c = AntigravityCycle(g, m.windows[i])
    BY <2>1
  <2>3. m.windows[i] \in QuotaWindow
    BY <1>0, WindowsOfList
  <2> QED BY <2>2, <2>3, UsableWindowCycle
<1>3. CASE c \in B
  BY <1>0, <1>3, BucketsCycles
<1>4. CASE c \in G
  <2>1. PICK i \in DOMAIN p.groups :
          c \in IF p.groups[i].group = g THEN BucketCycles(p.groups[i].buckets, g) ELSE {}
    BY <1>4, FoundSomewhere DEF GroupCycles
  <2>2. c \in BucketCycles(p.groups[i].buckets, g)
    BY <2>1
  <2> QED BY <1>0, <2>2, BucketsCycles
<1> QED BY <1>1, <1>2, <1>3, <1>4

\* A cycle has the group it was asked for, a window that counts, and a time to
\* reset (detector.go: parseCycle).
LEMMA ParseCycles ==
  ASSUME NEW auth \in {codex, antigravity}, NEW p, IsPayload(auth, p),
         NEW g, NEW t \in Nat, NEW c \in Parse(auth, p, g, t)
  PROVE  c \in CyclesOf(auth, g)
<1>1. CASE auth = codex
  BY <1>1, CodexCycles DEF Parse, IsPayload
<1>2. CASE auth # codex
  <2>1. auth = antigravity /\ c \in ParseAntigravity(p, g)
    BY <1>2 DEF Parse
  <2> QED BY <2>1, AntigravityCycles
<1> QED BY <1>1, <1>2

-----------------------------------------------------------------------------
(* Payloads assembled here *)

\* What is marshalled is a payload, and reads back as its window wherever that
\* window counts (assemble.go: Marshal; detector.go: parseCycle).
LEMMA MarshalReads ==
  ASSUME NEW auth \in {codex, antigravity}, NEW groups, NEW w \in TimedWindow,
         NEW p \in Marshal(auth, groups, w), NEW g, NEW t
  PROVE  /\ IsPayload(auth, p)
         /\ Parse(auth, p, g, t) =
              IF IF auth = codex THEN w.window \in {"weekly", "monthly"}
                                 ELSE g \in groups \ {NoGroup}
              THEN {[group |-> IF auth = codex THEN NoGroup ELSE g,
                     window |-> w.window, reset |-> w.reset, rem |-> NoSnapshot]}
              ELSE {}
<1>1. Written(w) \in QuotaWindow
  BY WrittenWindow
<1>2. <<Written(w)>> \in Seq(QuotaWindow)
  BY <1>1
<1>3. CASE auth = codex
  <2>1. p = <<Written(w)>>
    BY <1>3, MarshalWrites
  <2>2. Parse(auth, p, g, t) = ParseCodex(<<Written(w)>>, t)
    BY <1>3, <2>1 DEF Parse
  <2> QED BY <1>2, <1>3, <2>1, <2>2, CodexReads DEF IsPayload
<1>4. CASE auth # codex
  <2> DEFINE known == groups \ {NoGroup}
             written == [models |-> {[group |-> h, windows |-> <<Written(w)>>] : h \in known},
                         buckets |-> <<>>, groups |-> <<>>]
  <2>1. p = written
    BY <1>4, MarshalWrites
  <2>2. Parse(auth, p, g, t) = ParseAntigravity(written, g)
    BY <1>4, <2>1 DEF Parse
  <2>3. IsPayload(auth, written)
    <3>1. \A m \in written.models : m.windows \in Seq(QuotaWindow)
      <4> DEFINE list == <<Written(w)>>
                 lists == Seq(QuotaWindow)
      <4>1. list \in lists
        BY <1>2
      <4>2. written.models = {[group |-> h, windows |-> list] : h \in known}
        OBVIOUS
      <4> HIDE DEF list, lists, known, written
      <4>3. \A m \in written.models : m.windows \in lists
        BY <4>1, <4>2
      <4> QED BY <4>3 DEF lists
    <3>2. AreBuckets(written.buckets) /\ \A i \in DOMAIN written.groups : FALSE
      BY DEF AreBuckets
    <3> HIDE DEF written
    <3> QED BY <1>4, <3>1, <3>2 DEF IsPayload
  <2>4. ParseAntigravity(written, g) =
          IF g \in known
          THEN {[group |-> g, window |-> w.window, reset |-> w.reset, rem |-> NoSnapshot]}
          ELSE {}
    BY AntigravityReads
  <2> HIDE DEF written
  <2> QED BY <1>4, <2>1, <2>2, <2>3, <2>4
<1> QED BY <1>3, <1>4

\* There is a payload wherever there is something to name.
LEMMA MarshalYields ==
  ASSUME NEW auth, NEW groups, NEW w,
         auth = codex \/ groups \ {NoGroup} # {}
  PROVE  Marshal(auth, groups, w) # {}
BY MarshalWrites

\* The window of the plan is ahead.
LEMMA DefaultIsAhead ==
  ASSUME NEW auth, NEW plan, NEW t \in Nat
  PROVE  /\ DefaultWindow(auth, plan, t) \in TimedWindow
         /\ DefaultWindow(auth, plan, t).window \in {"weekly", "monthly"}
         /\ DefaultWindow(auth, plan, t).reset > t
<1> DEFINE name == IF auth = codex THEN WindowFor(plan) ELSE "weekly"
<1>1. name \in {"weekly", "monthly"}
  BY DEF WindowFor
<1>2. name \in Named /\ Length[name] \in Nat \ {0}
  BY <1>1, Lengths DEF Named
<1>3. StableReset(t, Length[name]) \in Nat /\ StableReset(t, Length[name]) > t
  BY <1>2, StableResetIsAhead
<1>4. DefaultWindow(auth, plan, t) = [window |-> name, reset |-> StableReset(t, Length[name])]
  BY DEF DefaultWindow, AlignedWindow
<1> QED BY <1>1, <1>2, <1>3, <1>4 DEF TimedWindow, NoTime

\* So is the window of a success, unless it is known to be over.
LEMMA InferredIsAhead ==
  ASSUME NEW r, r.window \in ShortWindows \cup Named, r.reset \in Nat,
         NEW t \in Nat, NEW w \in WindowFromSuccess(r, t)
  PROVE  /\ w \in TimedWindow
         /\ w.window = Normalized(r.window)
         /\ Open(r, t) => w.reset = r.reset
         /\ w.reset > t
<1> DEFINE name == Normalized(r.window)
<1>1. w = [window |-> name, reset |-> InferredReset(r, t)]
  BY DEF WindowFromSuccess
<1>2. name \in Named
  BY DEF Normalized, Named
<1>3. CASE r.reset = NoTime
  <2>1. Length[name] \in Nat \ {0}
    BY <1>2, Lengths
  <2>2. StableReset(t, Length[name]) \in Nat /\ StableReset(t, Length[name]) > t
    BY <2>1, StableResetIsAhead
  <2>3. w = [window |-> name, reset |-> StableReset(t, Length[name])]
    BY <1>1, <1>3 DEF InferredReset
  <2>4. ~Open(r, t)
    BY <1>3 DEF Open, NoTime
  <2> HIDE DEF name
  <2> QED BY <1>2, <2>2, <2>3, <2>4 DEF name, TimedWindow, NoTime
<1>4. CASE r.reset # NoTime
  <2>1. r.reset > t
    BY <1>4 DEF WindowFromSuccess, Open
  <2>2. w = [window |-> name, reset |-> r.reset]
    BY <1>1, <1>4 DEF InferredReset
  <2> QED BY <1>2, <1>4, <2>1, <2>2 DEF TimedWindow
<1> QED BY <1>3, <1>4

-----------------------------------------------------------------------------
(* Where a payload comes from *)

\* A record of one credential that the queries can compare.
IsRecord(auth, r) ==
  /\ r.auth = auth
  /\ auth = codex => r.group = NoGroup
  /\ r.window \in LongNames(auth) \cup ShortWindows
  /\ r.reset \in Nat /\ r.obs \in Int /\ r.rem \in Nat \cup {NoSnapshot}

\* A document carries a payload in its text or beside it.
LEMMA CarriedIsPayload ==
  ASSUME NEW auth, NEW d, IsDocument(auth, d), NEW q \in Carried(d)
  PROVE  IsPayload(auth, q)
<1>1. q \in d.quota \cup d.beside
  BY FirstOfTwo DEF Carried
<1> QED BY <1>1 DEF IsDocument

\* The host's reports are its own payloads, those of Codex with a long window.
LEMMA ReportedReads ==
  ASSUME NEW auth, NEW view, IsView(auth, view), NEW t, NEW p \in Reported(auth, view, t)
  PROVE  /\ IsPayload(auth, p)
         /\ auth = codex => ParseCodex(p, t) # {}
<1> DEFINE A == UNION {Kept(auth, Carried(d), t) : d \in view.runtime}
           B == Kept(auth, Carried(view.listing), t)
<1>1. p \in A \cup B
  <2>1. p \in FirstFound(<<A, B>>)
    BY DEF Reported
  <2> HIDE DEF A, B
  <2> QED BY <2>1, FirstOfTwo
<1>2. PICK d \in view.runtime \cup {view.listing} : p \in Kept(auth, Carried(d), t)
  BY <1>1
<1>3. \A q \in Carried(d) : IsPayload(auth, q)
  BY CarriedIsPayload DEF IsView
<1> QED BY <1>2, <1>3 DEF Kept

\* What is inferred is written from one of the records.
LEMMA InferredWrites ==
  ASSUME NEW auth, NEW groups, NEW R, NEW t \in Nat,
         \A r \in R : IsRecord(auth, r),
         NEW p \in Inferred(auth, groups, R, t)
  PROVE  \E r \in R : \E w \in TimedWindow :
           /\ w.window = Normalized(r.window) /\ w.reset > t
           /\ Open(r, t) => w.reset = r.reset
           /\ p \in Marshal(auth, groups, w)
<1>1. PICK r \in R : \E w \in WindowFromSuccess(r, t) : p \in Marshal(auth, groups, w)
  BY DEF Inferred
<1>2. PICK w \in WindowFromSuccess(r, t) : p \in Marshal(auth, groups, w)
  BY <1>1
<1>3. r.window \in ShortWindows \cup Named /\ r.reset \in Nat
  BY DEF IsRecord, LongNames, Named
<1> QED BY <1>2, <1>3, InferredIsAhead

\* A payload made without a report is written for a window that is ahead.
LEMMA MadeIsAhead ==
  ASSUME NEW auth \in {codex, antigravity}, NEW groups, NEW R, NEW t \in Nat,
         NEW plan,
         \A r \in R : IsRecord(auth, r),
         NEW p,
         \/ p \in Inferred(auth, groups, R, t)
         \/ p \in Marshal(auth, groups, DefaultWindow(auth, plan, t))
  PROVE  \E w \in TimedWindow :
           /\ w.reset > t
           /\ p \in Marshal(auth, groups, w)
           /\ \/ w.window \in {"weekly", "monthly"}
              \/ \E r \in R : w.window = Normalized(r.window)
<1>1. CASE p \in Inferred(auth, groups, R, t)
  BY <1>1, InferredWrites
<1>2. CASE p \in Marshal(auth, groups, DefaultWindow(auth, plan, t))
  BY <1>2, DefaultIsAhead
<1> QED BY <1>1, <1>2

\* The records the scanner remembers are the store's.
LEMMA RememberedIsStored ==
  ASSUME NEW auth, NEW g, NEW s, NEW r \in Remembered(auth, g, s)
  PROVE  /\ r \in s
         /\ r.auth = auth /\ r.group \in {g, NoGroup} /\ r.result = "success"
         /\ auth = codex => Usable(r)
<1>1. ASSUME NEW T, NEW h, r \in PickLatest(T, auth, h)
      PROVE  r \in T /\ r.auth = auth /\ r.group \in {h, NoGroup} /\ r.result = "success"
  BY <1>1 DEF PickLatest, Newest, Successes
<1> QED BY <1>1 DEF Remembered, UsableLatest, LatestSuccess

LEMMA ScannerPayloadIs ==
  ASSUME NEW auth \in {codex, antigravity}, NEW g, NEW view, NEW s, NEW t \in Nat,
         IsView(auth, view), \A r \in s : IsRecord(auth, r),
         NEW p \in ScannerPayload(auth, g, view, s, t)
  PROVE  /\ IsPayload(auth, p)
         /\ Reported(auth, view, t) # {} => p \in Reported(auth, view, t)
         /\ Reported(auth, view, t) = {} =>
              \E w \in TimedWindow :
                /\ w.reset > t
                /\ p \in Marshal(auth, {g}, w)
                /\ auth = codex => w.window \in {"weekly", "monthly"}
<1> DEFINE A == Reported(auth, view, t)
           R == Remembered(auth, g, s)
           B == Inferred(auth, {g}, R, t)
           plan == KnownPlan(view.listing, view.physical)
           C == Marshal(auth, {g}, DefaultWindow(auth, plan, t))
<1>1. IF A # {} THEN p \in A ELSE p \in B \cup C
  <2>1. p \in FirstFound(<<A, B, C>>)
    BY DEF ScannerPayload
  <2> HIDE DEF A, B, C
  <2> QED BY <2>1, FirstOfThree
<1>2. CASE A # {}
  BY <1>1, <1>2, ReportedReads
<1>3. CASE A = {}
  <2>1. \A r \in R : IsRecord(auth, r) /\ (auth = codex => Usable(r))
    BY RememberedIsStored
  <2> HIDE DEF R, plan
  <2>2. p \in B \/ p \in C
    BY <1>1, <1>3
  <2>3. PICK w \in TimedWindow :
          /\ w.reset > t
          /\ p \in Marshal(auth, {g}, w)
          /\ \/ w.window \in {"weekly", "monthly"}
             \/ \E r \in R : w.window = Normalized(r.window)
    BY <2>1, <2>2, MadeIsAhead
  <2>4. auth = codex => w.window \in {"weekly", "monthly"}
    BY <2>1, <2>3 DEF IsRecord, Usable, Normalized, LongNames
  <2>5. IsPayload(auth, p)
    BY <2>3, MarshalReads
  <2> QED BY <1>3, <2>3, <2>4, <2>5
<1> QED BY <1>2, <1>3

-----------------------------------------------------------------------------
(* The page and its requests *)

\* Where the runtime shows nothing but the listing, so does the page.
LEMMA MergedListing ==
  ASSUME NEW auth, NEW view, IsView(auth, view), view.runtime \subseteq {view.listing}
  PROVE  Merged(view) = view.listing
<1> DEFINE l == view.listing
<1>1. CASE view.runtime = {}
  BY <1>1 DEF Merged
<1>2. CASE view.runtime = {l}
  <2>1. (CHOOSE d \in view.runtime : TRUE) = l
    BY <1>2
  <2>2. l \in [quota : {l.quota}, beside : {l.beside}, id : STRING, access : STRING,
               data : BOOLEAN]
    BY DEF IsView, IsDocument
  <2>3. [l EXCEPT !.beside = l.beside] = l
    BY <2>2
  <2> QED BY <1>2, <2>1, <2>3 DEF Merged
<1> QED BY <1>1, <1>2

\* What the page merges carries payloads of the host.
LEMMA MergedReads ==
  ASSUME NEW auth, NEW view, IsView(auth, view), NEW p \in Carried(Merged(view))
  PROVE  IsPayload(auth, p)
<1> DEFINE l == view.listing
           runtime == CHOOSE d \in view.runtime : TRUE
<1>1. p \in Merged(view).quota \cup Merged(view).beside
  BY FirstOfTwo DEF Carried
<1>2. \A d \in view.runtime \cup {l} : \A q \in d.quota \cup d.beside : IsPayload(auth, q)
  BY DEF IsView, IsDocument
<1>3. CASE view.runtime = {}
  BY <1>1, <1>2, <1>3 DEF Merged
<1>4. CASE view.runtime # {}
  <2>1. runtime \in view.runtime
    BY <1>4
  <2>2. Merged(view) = IF runtime.data THEN runtime ELSE [l EXCEPT !.beside = runtime.beside]
    BY <1>4 DEF Merged
  <2>3. l \in [quota : {l.quota}, beside : {l.beside}, id : STRING, access : STRING,
               data : BOOLEAN]
    BY DEF IsView, IsDocument
  <2> HIDE DEF l, runtime
  <2>4. p \in runtime.quota \cup runtime.beside \cup l.quota
    BY <1>1, <2>2, <2>3
  <2> QED BY <1>2, <2>1, <2>4 DEF l
<1> QED BY <1>3, <1>4

LEMMA PagePayloadIs ==
  ASSUME NEW auth \in {codex, antigravity}, NEW groups, NEW view, NEW s, NEW t \in Nat,
         IsView(auth, view), \A r \in s : IsRecord(auth, r),
         NEW p \in PagePayload(auth, groups, view, s, t)
  PROVE  IsPayload(auth, p)
<1> DEFINE A == Kept(auth, Carried(Merged(view)), t)
           R == NewestOfAnyGroup(s, auth)
           B == Inferred(auth, groups, R, t)
           plan == KnownPlan(Merged(view), view.physical)
           C == Marshal(auth, groups, DefaultWindow(auth, plan, t))
<1>1. p \in A \/ p \in B \/ p \in C
  <2>1. p \in FirstFound(<<A, B, C>>)
    BY DEF PagePayload
  <2> HIDE DEF A, B, C
  <2> QED BY <2>1, FirstOfThree
<1>2. CASE p \in A
  BY <1>2, MergedReads DEF Kept
<1>3. CASE p \in B \/ p \in C
  <2>1. \A r \in R : IsRecord(auth, r)
    BY DEF NewestOfAnyGroup, Newest
  <2> HIDE DEF R, plan
  <2>2. PICK w \in TimedWindow : p \in Marshal(auth, groups, w)
    BY <1>3, <2>1, MadeIsAhead
  <2> QED BY <2>2, MarshalReads
<1> QED BY <1>1, <1>2, <1>3

LEMMA ManualCyclesAre ==
  ASSUME NEW auth \in {codex, antigravity}, NEW g, NEW p, IsPayload(auth, p),
         NEW view, NEW t \in Nat, NEW c \in ManualCycles(auth, g, p, view, t)
  PROVE  c \in CyclesOf(auth, g)
<1> DEFINE w == DefaultWindow(codex, PlanOf(view.physical), t)
           A == Parse(auth, p, g, t)
           B == IF auth = codex
                THEN UNION {ParseCodex(q, t) : q \in Marshal(codex, {}, w)}
                ELSE {}
<1>1. c \in A \/ c \in B
  <2>1. c \in FirstFound(<<A, B>>)
    BY DEF ManualCycles
  <2> HIDE DEF A, B
  <2> QED BY <2>1, FirstOfTwo
<1>2. CASE c \in A
  BY <1>2, ParseCycles
<1>3. CASE c \in B
  <2>1. PICK q \in Marshal(codex, {}, w) : c \in ParseCodex(q, t)
    BY <1>3
  <2>2. w \in TimedWindow
    BY DefaultIsAhead
  <2> HIDE DEF w
  <2>3. IsPayload(codex, q)
    BY <2>2, MarshalReads
  <2>4. q \in Seq(QuotaWindow)
    BY <2>3 DEF IsPayload
  <2> QED BY <1>3, <2>1, <2>4, CodexCycles
<1> QED BY <1>1, <1>2, <1>3

-----------------------------------------------------------------------------
(* The views of the activator's gate show nothing else *)

LEMMA MergeAllHolds ==
  ASSUME NEW s, NEW R, NEW v \in MergeAll(s, R)
  PROVE  v \subseteq s \cup R
BY DEF MergeAll

LEMMA ViewsHold ==
  ASSUME NEW s, NEW c, NEW v \in GateViews(s, c)
  PROVE  v \subseteq s \cup c
<1>1. PICK u \in MergeAll({}, UsableSuccesses(s)) : v \in MergeAll(u, c)
  BY DEF GateViews
<1>2. u \subseteq UsableSuccesses(s) /\ v \subseteq u \cup c
  BY <1>1, MergeAllHolds
<1>3. UsableSuccesses(s) \subseteq s
  BY HandedOut
<1> QED BY <1>2, <1>3

LEMMA FoundInStore ==
  ASSUME NEW s, NEW a, NEW g
  PROVE  /\ \A r \in LatestSuccess(s, a, g) :
              r \in s /\ r.auth = a /\ r.group \in {g, NoGroup} /\ r.result = "success"
         /\ \A r \in UsableLatest(s, a, g) :
              r \in s /\ r.auth = a /\ r.group \in {g, NoGroup} /\ Usable(r)
BY DEF LatestSuccess, UsableLatest, PickLatest, Newest, Successes

-----------------------------------------------------------------------------
(* The inductive invariant *)

\* The candidate was reported, or its payload was written for a window that
\* was to end after the scan collected it.
Sourced(c) ==
  ~c.reported =>
    \E w \in TimedWindow :
      /\ w.reset > c.at
      /\ c.payload \in Marshal(cred.auth, {Known(cred.auth, c.model)}, w)

IsCandidate(c) ==
  /\ c.model \in Models
  /\ c.at \in 1 .. now
  /\ c.reported \in BOOLEAN
  /\ IsPayload(cred.auth, c.payload)
  /\ Sourced(c)

\* What TypeOK says of a record that this plugin made.
MadeHere(r) ==
  /\ r.window \in LongNames(cred.auth)
  /\ r.group \in {Known(cred.auth, m) : m \in Models}
  /\ r.obs \in 1 .. now /\ r.reset \in Nat /\ r.rem \in Nat \cup {NoSnapshot}
  /\ r.result \in {"success", "failed", "skipped"}

QuotaInv ==
  /\ now \in 1 .. MaxNow
  /\ cred \in Credentials
  /\ host \in HostViews[cred.auth]
  /\ \A r \in store \cup cache : IsRecord(cred.auth, r)
  /\ \A r \in (store \ UNION StartStores[cred.auth]) \cup cache : MadeHere(r)
  /\ \A c \in batch : IsCandidate(c)
  /\ Cardinality(page) <= 1
  /\ \A p \in page : IsPayload(cred.auth, p)

Providers == {codex, antigravity}

LEMMA Shown ==
  ASSUME QuotaInv
  PROVE  /\ cred.auth \in Providers
         /\ IsView(cred.auth, host)
         /\ now \in Nat
BY QuotaCycleConstants DEF QuotaInv, Providers

LEMMA EligibleModels ==
  ASSUME cred \in Credentials, NEW e \in Eligible
  PROVE  e.model \in Models
<1>1. /\ cred.config.codex \subseteq Models
      /\ cred.config.models \in Seq(Models)
      /\ DOMAIN cred.config.groups = 1 .. Len(cred.config.groups)
  BY QuotaCycleConstants
<1>2. CASE e \in {[group |-> NoGroup, model |-> m] : m \in cred.config.codex}
  BY <1>1, <1>2
<1>3. CASE e \in PairsOf(cred.config)
  <2>1. Len(cred.config.groups) = Len(cred.config.models)
    BY <1>3 DEF PairsOf
  <2>2. PICK i \in DOMAIN cred.config.groups : e.model = cred.config.models[i]
    BY <1>3 DEF PairsOf
  <2> QED BY <1>1, <2>1, <2>2
<1> QED BY <1>2, <1>3 DEF Eligible

\* A cycle read for one of the models, once observed, is a record to keep.
LEMMA ObservedIsRecord ==
  ASSUME cred.auth \in Providers, now \in Nat \ {0}, NEW m \in Models,
         NEW c \in CyclesOf(cred.auth, Known(cred.auth, m)),
         NEW result \in {"success", "failed", "skipped"},
         NEW r, r = [Observed(c, now) EXCEPT !.result = result]
  PROVE  IsRecord(cred.auth, r) /\ MadeHere(r) /\ r.result = result
<1>1. /\ c.window \in LongNames(cred.auth) /\ c.reset \in Nat
      /\ c.rem \in Nat \cup {NoSnapshot}
      /\ c.group = Known(cred.auth, m)
      /\ cred.auth = codex => c.group = NoGroup
  BY DEF CyclesOf, Known
<1>2. /\ r.auth = cred.auth /\ r.group = c.group /\ r.window = c.window
      /\ r.reset = c.reset /\ r.obs = now /\ r.rem = c.rem /\ r.result = result
  BY DEF Observed
<1> QED BY <1>1, <1>2 DEF IsRecord, MadeHere

LEMMA KeptFacts ==
  ASSUME NEW s, NEW r
  PROVE  /\ Upsert(s, r) \subseteq s \cup {r}
         /\ Remember(s, r) \subseteq s \cup {r}
BY DEF Upsert, Remember

\* Whatever becomes of a request, one record is left of it.
LEMMA Recorded ==
  ASSUME QuotaInv, NEW m \in Models,
         NEW c \in CyclesOf(cred.auth, Known(cred.auth, m)),
         Finish(Observed(c, now))
  PROVE  \E r :
           /\ IsRecord(cred.auth, r) /\ MadeHere(r)
           /\ store' \subseteq store \cup {r}
           /\ cache' \subseteq cache \cup {r}
<1>1. PICK result \in {"success", "failed", "skipped"} :
        /\ store' = Upsert(store, [Observed(c, now) EXCEPT !.result = result])
        /\ cache' = Remember(cache, [Observed(c, now) EXCEPT !.result = result])
  BY DEF Finish
<1> DEFINE r == [Observed(c, now) EXCEPT !.result = result]
<1>2. now \in Nat \ {0} /\ cred.auth \in Providers
  BY Shown DEF QuotaInv
<1>3. IsRecord(cred.auth, r) /\ MadeHere(r)
  BY <1>2, ObservedIsRecord
<1> HIDE DEF r
<1> QED BY <1>1, <1>3, KeptFacts DEF r

LEMMA StoreStep ==
  ASSUME QuotaInv, UNCHANGED <<now, cred>>,
         \/ UNCHANGED <<store, cache>>
         \/ \E r : /\ IsRecord(cred.auth, r) /\ MadeHere(r)
                   /\ store' \subseteq store \cup {r}
                   /\ cache' \subseteq cache \cup {r}
  PROVE  /\ \A r \in store' \cup cache' : IsRecord(cred.auth, r)'
         /\ \A r \in (store' \ UNION StartStores[cred.auth]) \cup cache' : MadeHere(r)'
<1>1. \A r : IsRecord(cred.auth, r)' <=> IsRecord(cred.auth, r)
  OBVIOUS
<1>2. \A r : MadeHere(r)' <=> MadeHere(r)
  BY DEF MadeHere
<1> QED BY <1>1, <1>2 DEF QuotaInv

LEMMA QuotaInit == Init => QuotaInv
<1> SUFFICES ASSUME Init PROVE QuotaInv
    OBVIOUS
<1>1. now \in 1 .. MaxNow
  BY QuotaCycleConstants DEF Init
<1>2. cred.auth \in Providers
  BY QuotaCycleConstants DEF Init, Providers
<1>3. ASSUME NEW r \in store PROVE IsRecord(cred.auth, r)
  <2>1. IsOldRecord(cred.auth, r)
    BY <1>2, <1>3, QuotaCycleConstants DEF Init, Providers
  <2> QED BY <1>2, <2>1, WindowLengths
        DEF IsOldRecord, IsRecord, LongNames, Named, Providers
<1>4. Cardinality(page) <= 1
  BY FS_EmptySet DEF Init
<1> QED BY <1>1, <1>3, <1>4 DEF QuotaInv, Init

LEMMA CandidateStep ==
  ASSUME QuotaInv, now' \in Nat, now' >= now, UNCHANGED cred, batch' \subseteq batch
  PROVE  \A c \in batch' : IsCandidate(c)'
<1> SUFFICES ASSUME NEW c \in batch PROVE IsCandidate(c)'
    OBVIOUS
<1>1. IsCandidate(c) /\ now \in Nat
  BY DEF QuotaInv
<1>2. Sourced(c)' <=> Sourced(c)
  BY DEF Sourced
<1> QED BY <1>1, <1>2 DEF IsCandidate

LEMMA CollectInv == QuotaInv /\ Collect => QuotaInv'
<1> SUFFICES ASSUME QuotaInv, Collect PROVE QuotaInv'
    OBVIOUS
<1>1. UNCHANGED <<now, cred, host, store, cache, page>>
  BY DEF Collect
<1>2. ASSUME NEW c \in batch' PROVE IsCandidate(c)'
  <2>1. PICK e \in Eligible : c \in Offers(e)
    BY DEF Collect
  <2> DEFINE g == Known(cred.auth, e.model)
             R == Reported(cred.auth, host, now)
  <2>2. PICK p \in ScannerPayload(cred.auth, g, host, store, now) :
          c = [model |-> e.model, payload |-> p, at |-> now, reported |-> R # {}]
    BY <2>1 DEF Offers
  <2>3. /\ IsPayload(cred.auth, p)
        /\ R = {} => \E w \in TimedWindow :
             w.reset > now /\ p \in Marshal(cred.auth, {g}, w)
    BY Shown, ScannerPayloadIs DEF QuotaInv, Providers
  <2>4. c.model = e.model /\ c.payload = p /\ c.at = now /\ c.reported = (R # {})
    BY <2>2
  <2> HIDE DEF R
  <2>5. Sourced(c)
    BY <2>3, <2>4 DEF Sourced
  <2>6. c.model \in Models
    BY <2>4, EligibleModels DEF QuotaInv
  <2>7. now \in Nat /\ now >= 1
    BY DEF QuotaInv
  <2>8. IsCandidate(c)
    BY <2>3, <2>4, <2>5, <2>6, <2>7 DEF IsCandidate
  <2> QED BY <1>1, <2>8 DEF IsCandidate, Sourced
<1> QED BY <1>1, <1>2, StoreStep DEF QuotaInv

LEMMA JudgeInv == ASSUME QuotaInv, NEW c \in batch, Judge(c) PROVE QuotaInv'
<1>1. UNCHANGED <<now, cred, host, page>> /\ batch' \subseteq batch
  BY DEF Judge
<1>2. IsCandidate(c) /\ now \in Nat
  BY DEF QuotaInv
<1>3. \/ UNCHANGED <<store, cache>>
      \/ \E r : /\ IsRecord(cred.auth, r) /\ MadeHere(r)
                /\ store' \subseteq store \cup {r}
                /\ cache' \subseteq cache \cup {r}
  <2> SUFFICES ASSUME ~ UNCHANGED <<store, cache>>
               PROVE  \E r : /\ IsRecord(cred.auth, r) /\ MadeHere(r)
                             /\ store' \subseteq store \cup {r}
                             /\ cache' \subseteq cache \cup {r}
      OBVIOUS
  <2>1. PICK cycle \in Parse(cred.auth, c.payload, Known(cred.auth, c.model), now) :
          Finish(Observed(cycle, now))
    BY DEF Judge
  <2>2. cycle \in CyclesOf(cred.auth, Known(cred.auth, c.model))
    BY <1>2, Shown, ParseCycles DEF IsCandidate, Providers
  <2> QED BY <1>2, <2>1, <2>2, Recorded DEF IsCandidate
<1>4. /\ \A r \in store' \cup cache' : IsRecord(cred.auth, r)'
      /\ \A r \in (store' \ UNION StartStores[cred.auth]) \cup cache' : MadeHere(r)'
  BY <1>1, <1>3, StoreStep
<1>5. \A d \in batch' : IsCandidate(d)'
  BY <1>1, <1>2, CandidateStep
<1> QED BY <1>1, <1>4, <1>5 DEF QuotaInv

LEMMA RequestInv == ASSUME QuotaInv, NEW m \in cred.available, Request(m) PROVE QuotaInv'
<1>1. UNCHANGED <<now, cred, host, batch, page>>
  BY DEF Request
<1>2. m \in Models
  BY QuotaCycleConstants DEF QuotaInv
<1>3. PICK p \in page :
        \E cycle \in ManualCycles(cred.auth, Known(cred.auth, m), p, host, now) :
          Finish(Observed(cycle, now))
  BY DEF Request
<1>4. PICK cycle \in ManualCycles(cred.auth, Known(cred.auth, m), p, host, now) :
        Finish(Observed(cycle, now))
  BY <1>3
<1>5. cycle \in CyclesOf(cred.auth, Known(cred.auth, m))
  BY Shown, ManualCyclesAre DEF QuotaInv, Providers
<1>6. \E r : /\ IsRecord(cred.auth, r) /\ MadeHere(r)
             /\ store' \subseteq store \cup {r}
             /\ cache' \subseteq cache \cup {r}
  BY <1>2, <1>4, <1>5, Recorded
<1>7. /\ \A r \in store' \cup cache' : IsRecord(cred.auth, r)'
      /\ \A r \in (store' \ UNION StartStores[cred.auth]) \cup cache' : MadeHere(r)'
  BY <1>1, <1>6, StoreStep
<1>8. \A d \in batch' : IsCandidate(d)'
  BY <1>1, CandidateStep DEF QuotaInv
<1> QED BY <1>1, <1>7, <1>8 DEF QuotaInv

LEMMA OtherInv == QuotaInv /\ (OpenPage \/ HostChanges \/ Tick \/ UNCHANGED vars) => QuotaInv'
<1> SUFFICES ASSUME QuotaInv, OpenPage \/ HostChanges \/ Tick \/ UNCHANGED vars PROVE QuotaInv'
    OBVIOUS
<1>1. now \in Nat /\ MaxNow \in Nat
  BY QuotaCycleConstants DEF QuotaInv
<1>2. /\ now' \in 1 .. MaxNow /\ now' >= now
      /\ UNCHANGED <<cred, store, cache, batch>>
      /\ host' \in HostViews[cred.auth]
  BY <1>1 DEF OpenPage, HostChanges, Tick, vars, QuotaInv
<1>3. \A d \in batch' : IsCandidate(d)'
  BY <1>1, <1>2, CandidateStep
<1>4. \A r : MadeHere(r) => MadeHere(r)'
  BY <1>1, <1>2 DEF MadeHere
<1>5. Cardinality(page') <= 1 /\ \A p \in page' : IsPayload(cred.auth, p)
  <2>1. CASE OpenPage
    <3> DEFINE g == {Known(cred.auth, m) : m \in cred.available}
    <3>1. PICK p \in PagePayload(cred.auth, g, host, store, now) : page' = {p}
      BY <2>1 DEF OpenPage
    <3> HIDE DEF g
    <3>2. IsPayload(cred.auth, p)
      BY <3>1, Shown, PagePayloadIs DEF QuotaInv, Providers
    <3>3. Cardinality({p}) = 1
      BY FS_Singleton
    <3> QED BY <3>1, <3>2, <3>3
  <2>2. CASE ~OpenPage
    BY <2>2 DEF HostChanges, Tick, vars, QuotaInv
  <2> QED BY <2>1, <2>2
<1> QED BY <1>2, <1>3, <1>4, <1>5 DEF QuotaInv

\* QuotaInv is inductive.
THEOREM QuotaInvariant == Spec => []QuotaInv
<1>1. Init => QuotaInv
  BY QuotaInit
<1>2. QuotaInv /\ [Next]_vars => QuotaInv'
  BY CollectInv, JudgeInv, RequestInv, OtherInv DEF Next
<1> QED BY <1>1, <1>2, PTL DEF Spec

\* What is recorded is a cycle the plugin knows, whatever the host shows: never
\* Codex's five hours, no other group than the models', and observed at a time
\* that has come (parse.go, model_group.go).
THEOREM RecordsAreTyped == Spec => []TypeOK
<1>1. QuotaInv => TypeOK
  BY DEF QuotaInv, TypeOK, MadeHere, LongNames, IsCandidate
<1> QED BY <1>1, QuotaInvariant, PTL

-----------------------------------------------------------------------------
(* What follows from it *)

\* While the host reports nothing, a scan observes the cycle of a success that
\* is still open, and the detector judges it handled
\* (auto_candidate.go: syntheticInferredQuotaPayload).
THEOREM ScanIsQuietWhileOpen == Spec => []QuietWhileOpen
<1>1. ASSUME QuotaInv PROVE QuietWhileOpen
  <2> SUFFICES ASSUME Reported(cred.auth, host, now) = {},
                      NEW e \in Eligible,
                      NEW first \in Remembered(cred.auth, Known(cred.auth, e.model), store),
                      \A r \in Remembered(cred.auth, Known(cred.auth, e.model), store) :
                        Open(r, now),
                      NEW o \in ObservedNow(e)
               PROVE  \E r \in Remembered(cred.auth, Known(cred.auth, e.model), store) :
                        /\ o.window = Normalized(r.window) /\ o.reset = r.reset
                        /\ r \in LatestSuccess(store, o.auth, o.group) /\ Key(r) = Key(o)
                             => ~Activates(store, o)
      BY DEF QuietWhileOpen
  <2> DEFINE g == Known(cred.auth, e.model)
             last == Remembered(cred.auth, g, store)
             B == Inferred(cred.auth, {g}, last, now)
             w0 == DefaultWindow(cred.auth, KnownPlan(host.listing, host.physical), now)
             C == Marshal(cred.auth, {g}, w0)
  <2>1. cred.auth \in {codex, antigravity} /\ now \in Nat
    BY <1>1, Shown DEF Providers
  <2>2. \A r \in last : IsRecord(cred.auth, r)
    BY <1>1, RememberedIsStored DEF QuotaInv
  <2>3. PICK p \in ScannerPayload(cred.auth, g, host, store, now) :
          o \in {Observed(c, now) : c \in Parse(cred.auth, p, g, now)}
    BY DEF ObservedNow
  <2>4. PICK c \in Parse(cred.auth, p, g, now) : o = Observed(c, now)
    BY <2>3
  <2>5. p \in B
    <3>1. p \in B \/ (B = {} /\ p \in C)
      <4>1. p \in FirstFound(<<{}, B, C>>)
        BY DEF ScannerPayload
      <4> HIDE DEF B, C
      <4> QED BY <4>1, FirstOfThree
    <3>2. SUFFICES ASSUME B = {}, p \in C PROVE FALSE
      BY <3>1
    <3>3. WindowFromSuccess(first, now) # {}
      BY DEF WindowFromSuccess
    <3>4. PICK w \in WindowFromSuccess(first, now) : TRUE
      BY <3>3
    <3>5. Marshal(cred.auth, {g}, w) \subseteq B
      BY <3>4 DEF Inferred
    <3>6. cred.auth # codex /\ {g} \ {NoGroup} = {}
      BY <3>2, <3>5, MarshalYields
    <3> HIDE DEF g, w0
    <3>7. C = {}
      BY <3>6, MarshalWrites
    <3> QED BY <3>2, <3>7
  <2>6. PICK r \in last, w \in TimedWindow :
          /\ w.window = Normalized(r.window) /\ w.reset = r.reset
          /\ p \in Marshal(cred.auth, {g}, w)
    <3>1. \A r \in last : Open(r, now)
      OBVIOUS
    <3> HIDE DEF last, g
    <3> QED BY <2>1, <2>2, <2>5, <3>1, InferredWrites
  <2>7. /\ c.window = w.window /\ c.reset = w.reset /\ c.rem = NoSnapshot
    <3> HIDE DEF g
    <3> QED BY <2>1, <2>4, <2>6, MarshalReads
  <2>8. o.window = w.window /\ o.reset = w.reset /\ o.rem = NoSnapshot
    BY <2>4, <2>7 DEF Observed
  <2>9. ASSUME r \in LatestSuccess(store, o.auth, o.group), Key(r) = Key(o)
        PROVE  ~Activates(store, o)
    BY <2>8, <2>9 DEF Activates, Recovered, NoSnapshot
  <2> QED BY <2>6, <2>8, <2>9
<1> QED BY <1>1, QuotaInvariant, PTL

\* A wake the scanner made without a report of the host begins where the last
\* cycle ended, and its own cycle was still to end when the payload was made
\* (time.go: StableResetAt; auto_skip.go).
THEOREM ScannedCyclesAreApart == Spec => CyclesDoNotOverlap
<1>1. ASSUME QuotaInv, [Next]_vars
      PROVE  [\A c \in batch \ batch' : ~c.reported =>
                \A q \in store' \ store : q.result = "success" =>
                  /\ q.reset > c.at
                  /\ \A r \in UsableLatest(store, q.auth, q.group) : r.reset <= q.obs]_vars
  <2> SUFFICES ASSUME NEW c \in batch \ batch', ~c.reported,
                      NEW q \in store' \ store
               PROVE  /\ q.reset > c.at
                      /\ \A r \in UsableLatest(store, q.auth, q.group) : r.reset <= q.obs
      OBVIOUS
  <2> DEFINE g == Known(cred.auth, c.model)
  <2>1. Judge(c)
    <3>1. PICK d \in batch : Judge(d)
      BY <1>1 DEF Next, Collect, OpenPage, Request, HostChanges, Tick, vars
    <3>2. d = c
      BY <3>1 DEF Judge
    <3> QED BY <3>1, <3>2
  <2>2. PICK cycle \in Parse(cred.auth, c.payload, g, now) :
          /\ ~ScannerSkips(store, Observed(cycle, now))
          /\ Finish(Observed(cycle, now))
    BY <2>1 DEF Judge
  <2>3. IsCandidate(c) /\ cred.auth \in {codex, antigravity} /\ now \in Nat
    BY <1>1, Shown DEF QuotaInv, Providers
  <2>4. PICK w \in TimedWindow : w.reset > c.at /\ c.payload \in Marshal(cred.auth, {g}, w)
    BY <2>3 DEF IsCandidate, Sourced
  <2>5. cycle.reset = w.reset /\ cycle.rem = NoSnapshot
    <3> HIDE DEF g
    <3> QED BY <2>2, <2>3, <2>4, MarshalReads
  <2> DEFINE o == Observed(cycle, now)
  <2>6. /\ o.auth = cred.auth /\ o.group = cycle.group /\ o.reset = w.reset
        /\ o.obs = now /\ o.rem = NoSnapshot
    BY <2>5 DEF Observed
  <2>7. q.auth = o.auth /\ q.group = o.group /\ q.reset = o.reset /\ q.obs = o.obs
    <3>1. PICK result : store' = Upsert(store, [o EXCEPT !.result = result])
      BY <2>2 DEF Finish
    <3>2. q = [o EXCEPT !.result = result]
      BY <3>1, KeptFacts
    <3> QED BY <3>2 DEF Observed
  <2> HIDE DEF o
  <2>8. \A r \in UsableLatest(store, o.auth, o.group) : ~(r.reset > o.obs)
    BY <2>2, <2>6 DEF o, ScannerSkips, Recovered, NoSnapshot
  <2>9. \A r \in UsableLatest(store, o.auth, o.group) : r.reset \in Nat
    BY <1>1, FoundInStore DEF QuotaInv, IsRecord
  <2> QED BY <2>3, <2>4, <2>6, <2>7, <2>8, <2>9
<1> QED BY <1>1, QuotaInvariant, PTL DEF Spec, CyclesDoNotOverlap

\* A payload made here for a long window reads back, whatever the credential,
\* unless an Antigravity model tells no group.
LEMMA MadeReads ==
  ASSUME NEW auth \in {codex, antigravity}, NEW groups, NEW w \in TimedWindow,
         NEW p \in Marshal(auth, groups, w), NEW g, NEW t,
         auth = codex => w.window \in {"weekly", "monthly"},
         auth = antigravity => g \in groups \ {NoGroup}
  PROVE  /\ Parse(auth, p, g, t) # {}
         /\ \A c \in Parse(auth, p, g, t) : c.reset = w.reset
<1> DEFINE cycle == [group |-> IF auth = codex THEN NoGroup ELSE g,
                     window |-> w.window, reset |-> w.reset, rem |-> NoSnapshot]
           reads == IF auth = codex THEN w.window \in {"weekly", "monthly"}
                                    ELSE g \in groups \ {NoGroup}
<1>1. Parse(auth, p, g, t) = IF reads THEN {cycle} ELSE {}
  BY MarshalReads
<1>2. reads
  OBVIOUS
<1>3. cycle.reset = w.reset
  OBVIOUS
<1> HIDE DEF reads, cycle
<1> QED BY <1>1, <1>2, <1>3

\* Once no success of a model is open, a scan finds a payload for it and wakes
\* it: neither the detector nor a gate holds on to a cycle that is over
\* (detector.go: shouldActivate; auto_skip.go; usable_cache.go: hardSkipStore).
THEOREM ScanWakesEndedCycle == Spec => []EndedCycleIsWoken
<1>1. ASSUME QuotaInv PROVE EndedCycleIsWoken
  <2> SUFFICES ASSUME NEW e \in Eligible,
                      cred.auth = antigravity => Known(cred.auth, e.model) # NoGroup,
                      OpenSuccesses(Known(cred.auth, e.model)) = {},
                      \A p \in Reported(cred.auth, host, now) :
                        /\ Parse(cred.auth, p, Known(cred.auth, e.model), now) # {}
                        /\ \A c \in Parse(cred.auth, p, Known(cred.auth, e.model), now) :
                             c.reset > now
               PROVE  ObservedNow(e) # {} /\ \A o \in ObservedNow(e) : Woken(o)
      BY DEF EndedCycleIsWoken
  <2> DEFINE g == Known(cred.auth, e.model)
             P == ScannerPayload(cred.auth, g, host, store, now)
             A == Reported(cred.auth, host, now)
  <2>1. cred.auth \in {codex, antigravity} /\ now \in Nat /\ IsView(cred.auth, host)
    BY <1>1, Shown DEF Providers
  <2>2. ASSUME NEW p \in P
        PROVE  /\ IsPayload(cred.auth, p)
               /\ Parse(cred.auth, p, g, now) # {}
               /\ \A c \in Parse(cred.auth, p, g, now) : c.reset > now
    <3>1. /\ IsPayload(cred.auth, p)
          /\ A # {} => p \in A
          /\ A = {} => \E w \in TimedWindow :
               /\ w.reset > now
               /\ p \in Marshal(cred.auth, {g}, w)
               /\ cred.auth = codex => w.window \in {"weekly", "monthly"}
      <4> HIDE DEF g
      <4> QED BY <1>1, <2>1, ScannerPayloadIs DEF QuotaInv
    <3>2. CASE A # {}
      BY <3>1, <3>2
    <3>3. CASE A = {}
      <4>1. PICK w \in TimedWindow :
              /\ w.reset > now
              /\ p \in Marshal(cred.auth, {g}, w)
              /\ cred.auth = codex => w.window \in {"weekly", "monthly"}
        BY <3>1, <3>3
      <4>2. cred.auth = antigravity => g \in {g} \ {NoGroup}
        OBVIOUS
      <4> HIDE DEF g
      <4>3. /\ Parse(cred.auth, p, g, now) # {}
            /\ \A c \in Parse(cred.auth, p, g, now) : c.reset = w.reset
        BY <2>1, <4>1, <4>2, MadeReads
      <4> QED BY <3>1, <4>1, <4>3
    <3> QED BY <3>2, <3>3
  <2>3. P # {}
    <3> DEFINE B == Inferred(cred.auth, {g}, Remembered(cred.auth, g, store), now)
               w0 == DefaultWindow(cred.auth, KnownPlan(host.listing, host.physical), now)
               C == Marshal(cred.auth, {g}, w0)
    <3>1. cred.auth = codex \/ {g} \ {NoGroup} # {}
      BY <2>1
    <3> HIDE DEF g, w0
    <3>2. C # {}
      BY <3>1, MarshalYields
    <3>3. P = FirstFound(<<A, B, C>>)
      BY DEF ScannerPayload, w0
    <3> HIDE DEF A, B, C, P
    <3> QED BY <3>2, <3>3, FirstOfThree
  <2>4. ObservedNow(e) # {}
    <3>1. PICK p \in P : TRUE
      BY <2>3
    <3>2. PICK c \in Parse(cred.auth, p, g, now) : TRUE
      BY <2>2
    <3>3. Observed(c, now) \in ObservedNow(e)
      BY DEF ObservedNow
    <3> QED BY <3>3
  <2>5. ASSUME NEW o \in ObservedNow(e) PROVE Woken(o)
    <3>1. PICK p \in P : o \in {Observed(c, now) : c \in Parse(cred.auth, p, g, now)}
      BY DEF ObservedNow
    <3>2. PICK c \in Parse(cred.auth, p, g, now) : o = Observed(c, now)
      BY <3>1
    <3>3. c \in CyclesOf(cred.auth, g) /\ c.reset > now
      <4> HIDE DEF g, P
      <4> QED BY <2>1, <2>2, ParseCycles
    <3>4. c.group = g /\ c.window \in LongNames(cred.auth)
      BY <3>3 DEF CyclesOf, Known
    <3>5. o.group = g /\ o.window \notin ShortWindows /\ o.reset > now /\ o.obs = now
      BY <3>2, <3>3, <3>4, WindowLengths DEF Observed, LongNames, Named
    <3>6. ASSUME NEW r \in store \cup cache, r.group \in {g, NoGroup}, Usable(r), r.reset > now
          PROVE  FALSE
      BY <3>6 DEF OpenSuccesses, Open
    <3> HIDE DEF g, P
    <3>7. Activates(store, o)
      <4> SUFFICES ASSUME NEW r \in LatestSuccess(store, o.auth, o.group), Key(o) = Key(r)
                   PROVE  FALSE
          BY DEF Activates
      <4>1. r.window = o.window /\ r.reset = o.reset
        BY DEF Key
      <4>2. r \in store /\ r.group \in {g, NoGroup} /\ Usable(r)
        BY <3>5, <4>1, FoundInStore DEF Usable
      <4> QED BY <3>5, <3>6, <4>1, <4>2
    <3>8. ~ScannerSkips(store, o)
      <4> SUFFICES ASSUME NEW r \in UsableLatest(store, o.auth, o.group), r.reset > o.obs
                   PROVE  FALSE
          BY DEF ScannerSkips
      <4> QED BY <3>5, <3>6, FoundInStore
    <3>9. ASSUME NEW v \in Views PROVE ~HardSkips(v, o, now)
      <4> SUFFICES ASSUME NEW r \in UsableLatest(v, o.auth, o.group), r.reset > now
                   PROVE  FALSE
          BY DEF HardSkips
      <4>1. r \in v /\ r.group \in {g, NoGroup} /\ Usable(r)
        BY <3>5, FoundInStore
      <4>2. r \in store \cup cache
        BY <4>1, ViewsHold DEF Views
      <4> QED BY <3>6, <4>1, <4>2
    <3> QED BY <3>7, <3>8, <3>9 DEF Woken
  <2> QED BY <2>4, <2>5
<1> QED BY <1>1, QuotaInvariant, PTL

\* Where the runtime shows what the listing shows, a Codex request sent from a
\* page just opened is for the cycle a scan would observe: the two copies of the
\* order of sources agree (auth_files_quota.go, auto_candidate.go).
THEOREM PageAgreesWithScan == Spec => []PageAgrees
<1>1. ASSUME QuotaInv PROVE PageAgrees
  <2> SUFFICES ASSUME cred.auth = codex, host.runtime \subseteq {host.listing},
                      NEW e \in Eligible
               PROVE  UNION {{Observed(c, now) : c \in ManualCycles(codex, NoGroup, p, host, now)} :
                               p \in PagePayload(codex, {}, host, store, now)}
                      = ObservedNow(e)
      BY DEF PageAgrees
  <2> DEFINE P == ScannerPayload(codex, NoGroup, host, store, now)
             A == Reported(codex, host, now)
             R == Remembered(codex, NoGroup, store)
             B == Inferred(codex, {NoGroup}, R, now)
             C == Marshal(codex, {NoGroup}, DefaultWindow(codex, KnownPlan(host.listing, host.physical), now))
  <2>1. now \in Nat /\ IsView(codex, host) /\ codex \in {codex, antigravity}
    BY <1>1, Shown
  <2>2. Merged(host) = host.listing
    BY <2>1, MergedListing
  <2>3. A = Kept(codex, Carried(host.listing), now)
    <3> DEFINE K == Kept(codex, Carried(host.listing), now)
               K2 == UNION {Kept(codex, Carried(d), now) : d \in host.runtime}
    <3>1. K2 = {} \/ K2 = K
      <4>1. host.runtime = {} \/ host.runtime = {host.listing}
        OBVIOUS
      <4> QED BY <4>1
    <3> HIDE DEF K, K2
    <3>2. FirstFound(<<K2, K>>) = K
      BY <3>1, FirstOfTwo
    <3> QED BY <3>2 DEF K, K2, Reported
  <2>4. NewestOfAnyGroup(store, codex) = R
    <3>1. {r \in store : r.auth = codex /\ Usable(r)} =
            Successes({r \in store : Usable(r)}, codex, NoGroup)
      BY <1>1 DEF QuotaInv, IsRecord, Successes, Usable
    <3> QED BY <3>1 DEF NewestOfAnyGroup, Remembered, UsableLatest, PickLatest
  <2>5. \A w : Marshal(codex, {}, w) = Marshal(codex, {NoGroup}, w)
    BY MarshalWrites
  <2>6. Inferred(codex, {}, R, now) = B
    BY <2>5 DEF Inferred
  <2>7. PagePayload(codex, {}, host, store, now) = P
    BY <2>2, <2>3, <2>4, <2>5, <2>6 DEF PagePayload, ScannerPayload
  <2>8. ASSUME NEW p \in P
        PROVE  ManualCycles(codex, NoGroup, p, host, now) = Parse(codex, p, NoGroup, now)
    <3>1. Parse(codex, p, NoGroup, now) # {}
      <4>1. /\ A # {} => p \in A
            /\ A = {} => \E w \in TimedWindow :
                 /\ w.reset > now
                 /\ p \in Marshal(codex, {NoGroup}, w)
                 /\ codex = codex => w.window \in {"weekly", "monthly"}
        BY <1>1, <2>1, ScannerPayloadIs DEF QuotaInv
      <4>2. CASE A # {}
        BY <2>1, <4>1, <4>2, ReportedReads DEF Parse
      <4>3. CASE A = {}
        BY <2>1, <4>1, <4>3, MadeReads, WindowLengths
      <4> QED BY <4>2, <4>3
    <3> DEFINE M == Parse(codex, p, NoGroup, now)
               N == IF codex = codex
                    THEN UNION {ParseCodex(q, now) : q \in
                           Marshal(codex, {}, DefaultWindow(codex, PlanOf(host.physical), now))}
                    ELSE {}
    <3>2. ManualCycles(codex, NoGroup, p, host, now) = FirstFound(<<M, N>>)
      BY DEF ManualCycles
    <3> HIDE DEF N
    <3>3. FirstFound(<<M, N>>) = M
      <4> HIDE DEF M
      <4> QED BY <3>1, FirstOfTwo DEF M
    <3> QED BY <3>2, <3>3
  <2>9. Known(cred.auth, e.model) = NoGroup
    BY DEF Known
  <2> HIDE DEF P
  <2>10. ObservedNow(e) =
           UNION {{Observed(c, now) : c \in Parse(codex, p, NoGroup, now)} : p \in P}
    BY <2>9 DEF ObservedNow, P
  <2> QED BY <2>7, <2>8, <2>10
<1> QED BY <1>1, QuotaInvariant, PTL

=============================================================================
