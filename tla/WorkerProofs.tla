---------------------------- MODULE WorkerProofs ----------------------------
(***************************************************************************)
(* Credit-once, scores and velocity flags, for every set of events,        *)
(* players and thresholds.  The inductive invariant is the type invariant  *)
(* with WelcomeOnce and LedgerFollowsMarks: neither of the two is          *)
(* inductive alone, because the guard ~Credited(e) of a credit only        *)
(* follows from e having no mark.  CountsInv adds what the rules count.    *)
(*                                                                         *)
(* A score is a sum over a set, so the module starts with facts about      *)
(* MapThenSumSet.                                                          *)
(***************************************************************************)
EXTENDS Worker, FiniteSetTheorems, WellFoundedInduction, TLAPS

\* g satisfies the recursion of MapThenSumSet over the subsets of S.
SumsSubsets(g, f, S) ==
  g = [s \in SUBSET S |->
         IF s = {} THEN 0
         ELSE LET x == CHOOSE x \in s : TRUE
              IN  f[x] + g[s \ {x}]]

\* MapThenSumSet of a function's values.
SumOver(f, S) == (CHOOSE g : SumsSubsets(g, f, S))[S]

\* A set of subsets of a finite set has a smallest member: how induction over finite
\* sets is done below.
LEMMA SmallestSubset ==
  ASSUME NEW S, IsFiniteSet(S), NEW Bad \in SUBSET SUBSET S, Bad # {}
  PROVE  \E T \in Bad : \A U \in SUBSET T : U # T => U \notin Bad
<1>1. IsWellFoundedOn(StrictSubsetOrdering(S), SUBSET S)
  BY FS_StrictSubsetOrderingWellFounded, FS_FiniteSubsetsOfFinite
<1>2. PICK T \in Bad : \A U \in Bad : ~(<<U, T>> \in StrictSubsetOrdering(S))
  BY <1>1, WFMin
<1> QED  BY <1>2 DEF StrictSubsetOrdering

\* The recursion has a solution: by induction on the size of the subsets summed.
LEMMA SumExists ==
  ASSUME NEW S, IsFiniteSet(S), NEW f, \A x \in S : f[x] \in Int
  PROVE  \E g \in [SUBSET S -> Int] : SumsSubsets(g, f, S)
<1> DEFINE At(g, s) == IF s = {} THEN 0
                       ELSE f[CHOOSE x \in s : TRUE] + g[s \ {CHOOSE x \in s : TRUE}]
           Upto(n) == \E g \in [SUBSET S -> Int] :
                        \A s \in SUBSET S : Cardinality(s) <= n => g[s] = At(g, s)
           Bad == {n \in Nat : ~Upto(n)}
<1>0. \A s \in SUBSET S : IsFiniteSet(s) /\ Cardinality(s) \in Nat /\ Cardinality(s) <= Cardinality(S)
  BY FS_Subset, FS_CardinalityType
<1>1. ASSUME NEW g \in [SUBSET S -> Int]
      PROVE  [s \in SUBSET S |-> At(g, s)] \in [SUBSET S -> Int]
  OBVIOUS
<1>2. Bad = {}
  <2> SUFFICES ASSUME Bad # {} PROVE FALSE
    OBVIOUS
  <2>1. PICK n \in Bad : \A m \in Bad : ~(<<m, n>> \in OpToRel(<, Nat))
    BY NatLessThanWellFounded, WFMin
  <2>0. n \in Nat
    <3> HIDE DEF Upto
    <3> QED  BY <2>1
  <2>2. ASSUME NEW m \in Nat, m < n PROVE Upto(m)
    <3>1. n \in Nat /\ <<m, n>> \in OpToRel(<, Nat)
      BY <2>1, <2>2 DEF OpToRel
    <3> HIDE DEF Upto
    <3> QED  BY <3>1, <2>1
  <2>3. PICK g \in [SUBSET S -> Int] :
          \A s \in SUBSET S : Cardinality(s) < n => g[s] = At(g, s)
    <3>1. CASE n = 0
      <4>1. [s \in SUBSET S |-> 0] \in [SUBSET S -> Int]
        OBVIOUS
      <4>2. \A s \in SUBSET S : ~(Cardinality(s) < n)
        BY <3>1, <1>0
      <4> HIDE DEF At
      <4> QED  BY <4>1, <4>2
    <3>2. CASE n # 0
      <4>1. n - 1 \in Nat /\ n - 1 < n
        BY <3>2, <2>0
      <4>2. Upto(n - 1)
        BY <4>1, <2>2
      <4>3. \A s \in SUBSET S : Cardinality(s) < n => Cardinality(s) <= n - 1
        BY <1>0, <2>0
      <4> HIDE DEF At
      <4> QED  BY <4>2, <4>3
    <3> QED  BY <3>1, <3>2
  <2> DEFINE h == [s \in SUBSET S |-> At(g, s)]
  <2>4. ASSUME NEW s \in SUBSET S, Cardinality(s) <= n PROVE h[s] = At(h, s)
    <3>1. CASE s = {}
      BY <3>1
    <3>2. CASE s # {}
      <4> DEFINE x == CHOOSE x \in s : TRUE
      <4>1. x \in s /\ s \ {x} \in SUBSET S
        BY <3>2
      <4>2. Cardinality(s \ {x}) < n
        <5>1. IsFiniteSet(s) /\ Cardinality(s) \in Nat /\ n \in Nat
          BY <2>1, <1>0
        <5>2. Cardinality(s \ {x}) = Cardinality(s) - 1
          BY <4>1, <5>1, FS_RemoveElement
        <5> QED  BY <5>1, <5>2, <2>4
      <4>3. g[s \ {x}] = At(g, s \ {x})
        BY <4>1, <4>2, <2>3
      <4>4. h[s] = f[x] + g[s \ {x}]
        BY <3>2
      <4>5. h[s \ {x}] = At(g, s \ {x})
        BY <4>1
      <4> QED  BY <3>2, <4>3, <4>4, <4>5
    <3> QED  BY <3>1, <3>2
  <2>5. h \in [SUBSET S -> Int]
    BY <1>1
  <2>6. Upto(n)
    <3> HIDE DEF h, At
    <3> QED  BY <2>4, <2>5
  <2> QED  BY <2>1, <2>6
<1>3. Upto(Cardinality(S))
  BY <1>2, <1>0
<1>4. PICK g \in [SUBSET S -> Int] : \A s \in SUBSET S : g[s] = At(g, s)
  <2> HIDE DEF At
  <2> QED  BY <1>3, <1>0
<1>5. g = [s \in SUBSET S |-> At(g, s)]
  BY <1>4
<1> QED  BY <1>5 DEF SumsSubsets

\* It has one solution only.
LEMMA SumUnique ==
  ASSUME NEW S, IsFiniteSet(S), NEW f, NEW g, NEW h, SumsSubsets(g, f, S), SumsSubsets(h, f, S)
  PROVE  g = h
<1> DEFINE Bad == {s \in SUBSET S : g[s] # h[s]}
<1>1. SUFFICES ASSUME Bad # {} PROVE FALSE
  <2>1. (\A s \in SUBSET S : g[s] = h[s]) =>
           [s \in SUBSET S |-> g[s]] = [s \in SUBSET S |-> h[s]]
    OBVIOUS
  <2>2. g = [s \in SUBSET S |-> g[s]] /\ h = [s \in SUBSET S |-> h[s]]
    BY DEF SumsSubsets
  <2> QED  BY <2>1, <2>2
<1>2. PICK T \in Bad : \A U \in SUBSET T : U # T => U \notin Bad
  <2> HIDE DEF Bad
  <2>1. Bad \in SUBSET SUBSET S
    BY DEF Bad
  <2> QED  BY <1>1, <2>1, SmallestSubset
<1>3. T # {}
  BY <1>2 DEF SumsSubsets
<1> DEFINE x == CHOOSE x \in T : TRUE
<1>4. x \in T
  BY <1>3
<1>5. g[T \ {x}] = h[T \ {x}]
  BY <1>2, <1>4
<1> QED  BY <1>2, <1>3, <1>5 DEF SumsSubsets

\* In whatever order the elements are taken, the sum is the same.
AnyOrder(g, f, S) == \A T \in SUBSET S : \A y \in T : g[T] = f[y] + g[T \ {y}]

LEMMA SumAnyOrder ==
  ASSUME NEW S, IsFiniteSet(S), NEW f, \A x \in S : f[x] \in Int,
         NEW g \in [SUBSET S -> Int], SumsSubsets(g, f, S)
  PROVE  AnyOrder(g, f, S)
<1> DEFINE Bad == {s \in SUBSET S : \E z \in s : g[s] # f[z] + g[s \ {z}]}
<1>1. SUFFICES ASSUME Bad # {} PROVE FALSE
  BY DEF AnyOrder
<1>2. PICK U \in Bad : \A V \in SUBSET U : V # U => V \notin Bad
  <2> HIDE DEF Bad
  <2>1. Bad \in SUBSET SUBSET S
    BY DEF Bad
  <2> QED  BY <1>1, <2>1, SmallestSubset
<1>3. PICK z \in U : g[U] # f[z] + g[U \ {z}]
  BY <1>2
<1> DEFINE x == CHOOSE x \in U : TRUE
<1>4. x \in U /\ g[U] = f[x] + g[U \ {x}]
  BY <1>2, <1>3 DEF SumsSubsets
<1>5. z # x
  BY <1>3, <1>4
<1>6. g[U \ {x}] = f[z] + g[(U \ {x}) \ {z}]
  BY <1>2, <1>4, <1>5
<1>7. g[U \ {z}] = f[x] + g[(U \ {x}) \ {z}]
  <2>1. (U \ {z}) \ {x} = (U \ {x}) \ {z}
    OBVIOUS
  <2> QED  BY <1>2, <1>3, <1>4, <1>5, <2>1
<1> DEFINE rest == g[(U \ {x}) \ {z}]
<1>8. f[x] \in Int /\ f[z] \in Int /\ rest \in Int
  BY <1>2, <1>3, <1>4
<1>9. g[U] = f[x] + (f[z] + rest) /\ f[z] + g[U \ {z}] = f[z] + (f[x] + rest)
  BY <1>4, <1>6, <1>7
<1> HIDE DEF x, rest
<1> QED  BY <1>3, <1>8, <1>9

\* So a solution for a set sums its subsets.
LEMMA SumOverSubset ==
  ASSUME NEW S, IsFiniteSet(S), NEW f, \A x \in S : f[x] \in Int,
         NEW g \in [SUBSET S -> Int], SumsSubsets(g, f, S), NEW T \in SUBSET S
  PROVE  SumOver(f, T) = g[T]
<1> DEFINE h == [s \in SUBSET T |-> g[s]]
<1>1. SumsSubsets(h, f, T)
  BY DEF SumsSubsets
<1>2. IsFiniteSet(T)
  BY FS_Subset
<1> DEFINE k == CHOOSE k : SumsSubsets(k, f, T)
<1>3. SumsSubsets(k, f, T)
  BY <1>1
<1>4. k = h
  BY <1>1, <1>2, <1>3, SumUnique
<1> QED  BY <1>4 DEF SumOver

\* Only the values of what is summed matter.
LEMMA SumAgree ==
  ASSUME NEW S, NEW f, NEW g, \A x \in S : f[x] = g[x]
  PROVE  SumOver(f, S) = SumOver(g, S)
<1>1. ASSUME NEW h, NEW T \in SUBSET S, T # {}
      PROVE  (LET x == CHOOSE x \in T : TRUE IN f[x] + h[T \ {x}]) =
             (LET x == CHOOSE x \in T : TRUE IN g[x] + h[T \ {x}])
  BY <1>1
<1>2. \A h : SumsSubsets(h, f, S) <=> SumsSubsets(h, g, S)
  BY <1>1 DEF SumsSubsets
<1> QED  BY <1>2 DEF SumOver

\* A sum is one element's value and the sum of the rest, and nothing sums to 0.
LEMMA SumAdd ==
  ASSUME NEW S, IsFiniteSet(S), NEW f, \A z \in S : f[z] \in Int, NEW y \in S
  PROVE  /\ SumOver(f, S) \in Int
         /\ SumOver(f, S) = f[y] + SumOver(f, S \ {y})
<1>1. PICK g \in [SUBSET S -> Int] : SumsSubsets(g, f, S)
  BY SumExists
<1>2. SumOver(f, S) = g[S] /\ SumOver(f, S \ {y}) = g[S \ {y}]
  BY <1>1, SumOverSubset
<1>3. S \in SUBSET S /\ g[S] \in Int
  BY <1>1
<1>4. AnyOrder(g, f, S)
  BY <1>1, SumAnyOrder
<1>5. g[S] = f[y] + g[S \ {y}]
  BY <1>3, <1>4 DEF AnyOrder
<1> QED  BY <1>2, <1>3, <1>5

LEMMA SumEmpty ==
  ASSUME NEW f
  PROVE  SumOver(f, {}) = 0
<1>1. IsFiniteSet({})
  BY FS_EmptySet
<1>2. PICK g \in [SUBSET {} -> Int] : SumsSubsets(g, f, {})
  BY <1>1, SumExists
<1>3. SumOver(f, {}) = g[{}]
  BY <1>1, <1>2, SumOverSubset
<1> QED  BY <1>2, <1>3 DEF SumsSubsets

-----------------------------------------------------------------------------

WorkerInv == WorkerTypeOK /\ WelcomeOnce /\ LedgerFollowsMarks

\* What the rules may return: a state of the right type, the welcome tag kept, and
\* a credit exactly when a deposit meets a state without the tag, which it tags.
LEMMA ApplyResult ==
  ASSUME NEW e \in Events, NEW st \in PlayerState, NEW n
  PROVE  /\ Apply(e, st, n).state \in PlayerState
         /\ IF TypeOf[e] = "deposit" /\ "welcome_bonus" \notin st.tags
              THEN /\ Apply(e, st, n).credit = WelcomeCredit
                   /\ Apply(e, st, n).state.tags = st.tags \cup {"welcome_bonus"}
              ELSE /\ Apply(e, st, n).credit = 0
                   /\ Apply(e, st, n).state.tags = st.tags
<1> DEFINE w == ApplyWelcome(e, st)
           v == ApplyVIP(e, w)
<1>1. /\ w \in [state : PlayerState, credit : {0, WelcomeCredit}]
      /\ IF TypeOf[e] = "deposit" /\ "welcome_bonus" \notin st.tags
           THEN w.credit = WelcomeCredit /\ w.state.tags = st.tags \cup {"welcome_bonus"}
           ELSE w.credit = 0 /\ w.state.tags = st.tags
  BY DEF ApplyWelcome, PlayerState
<1>2. /\ v \in [state : PlayerState, credit : {0, WelcomeCredit}]
      /\ v.credit = w.credit
      /\ v.state.tags = w.state.tags
  <2> DEFINE score == IF AmountOf[e] > 0 THEN AddInt64(w.state.score, AmountOf[e])
                                         ELSE w.state.score
  <2>1. score \in Scores
    <3>1. w.state.score \in Scores
      BY <1>1 DEF PlayerState
    <3>2. AmountOf[e] \in Scores /\ ScoreBound \in Nat
      BY RulesAssumption DEF Scores
    <3> HIDE DEF w
    <3> QED  BY <3>1, <3>2 DEF AddInt64, Scores
  <2>2. TierForScore(score) \in Tiers
    BY <2>1, RulesAssumption DEF TierForScore, Tiers, Scores
  <2> QED  BY <1>1, <2>1, <2>2 DEF ApplyVIP, PlayerState
<1>3. \/ Apply(e, st, n) = v
      \/ Apply(e, st, n) = [v EXCEPT !.state.flag = "velocity"]
  BY DEF Apply, ApplyIntegrity
<1> HIDE DEF v, w
<1>4. /\ Apply(e, st, n).credit = v.credit
      /\ \/ Apply(e, st, n).state = v.state
         \/ Apply(e, st, n).state = [v.state EXCEPT !.flag = "velocity"]
  BY <1>2, <1>3
<1>5. v.state \in PlayerState
  BY <1>2
<1>6. /\ Apply(e, st, n).state \in PlayerState
      /\ Apply(e, st, n).state.tags = v.state.tags
  BY <1>4, <1>5 DEF PlayerState
<1> QED  BY <1>1, <1>2, <1>4, <1>6

\* Both parts together are a result of the rules' type.
LEMMA ApplyTyped ==
  ASSUME NEW e \in Events, NEW st \in PlayerState, NEW n
  PROVE  Apply(e, st, n) \in [state : PlayerState, credit : {0, WelcomeCredit}]
<1> DEFINE w == ApplyWelcome(e, st)
           v == ApplyVIP(e, w)
<1>1. w \in [state : PlayerState, credit : {0, WelcomeCredit}]
  BY DEF ApplyWelcome, PlayerState
<1>2. \/ v = w
      \/ \E s, t : v = [w EXCEPT !.state.score = s, !.state.tier = t]
  BY DEF ApplyVIP
<1>3. \/ Apply(e, st, n) = v
      \/ Apply(e, st, n) = [v EXCEPT !.state.flag = "velocity"]
  BY DEF Apply, ApplyIntegrity
<1>4. Apply(e, st, n).state \in PlayerState /\ Apply(e, st, n).credit \in {0, WelcomeCredit}
  BY ApplyResult
<1> DEFINE a == Apply(e, st, n)
<1>5. a = [state |-> a.state, credit |-> a.credit]
  <2> HIDE DEF a, w, v
  <2>1. v = [state |-> v.state, credit |-> v.credit]
    BY <1>1, <1>2
  <2> QED  BY <2>1, <1>3 DEF a
<1> QED  BY <1>4, <1>5

\* The tables start empty and typed.
LEMMA WorkerInitInv == WorkerInit => WorkerInv
<1> SUFFICES ASSUME WorkerInit PROVE WorkerInv
  OBVIOUS
<1>1. NewPlayerState \in PlayerState
  BY RulesAssumption DEF NewPlayerState, PlayerState, Scores, Tiers
<1>2. WorkerTypeOK
  BY <1>1, WorkerAssumption DEF WorkerInit, WorkerTypeOK
<1>3. WelcomeOnce
  BY DEF WorkerInit, WelcomeOnce, Tagged, EntriesOf, NewPlayerState
<1>4. LedgerFollowsMarks
  BY DEF WorkerInit, LedgerFollowsMarks, Tagged, Deposits, NewPlayerState
<1> QED  BY <1>2, <1>3, <1>4 DEF WorkerInv

\* A committed transaction, whatever else the caller does, keeps the invariant.
LEMMA HandleInv ==
  ASSUME WorkerInv, NEW e \in Events, Handle(e), now' = now
  PROVE  WorkerInv'
<1> DEFINE p == PlayerOf[e]
           res == Apply(e, pstate[p], RecentBets(e))
           new == [event |-> e, player |-> p, amount |-> res.credit]
<1> USE DEF WorkerInv
<1>1. p \in Players /\ pstate[p] \in PlayerState
  BY EventsAssumption DEF WorkerTypeOK
<1>2. /\ res.state \in PlayerState
      /\ IF TypeOf[e] = "deposit" /\ ~Tagged(p)
           THEN res.credit = WelcomeCredit /\ res.state.tags = pstate[p].tags \cup {"welcome_bonus"}
           ELSE res.credit = 0 /\ res.state.tags = pstate[p].tags
  BY <1>1, ApplyResult DEF Tagged
<1>3. /\ playerRows' = playerRows \cup {p}
      /\ e \notin processed
      /\ processed' = processed \cup {e}
      /\ processedAt' = [processedAt EXCEPT ![e] = now]
      /\ pstate' = [pstate EXCEPT ![p] = res.state]
      /\ CreditTx(e, res.credit)
  BY DEF Handle, EnsurePlayer, MarkProcessedTx
<1>4. WelcomeCredit \in Nat \ {0}
  BY RulesAssumption
<1>5. \/ /\ TypeOf[e] = "deposit" /\ ~Tagged(p)
         /\ res.credit = WelcomeCredit
         /\ ledger' = ledger \cup {new}
         /\ balance' = [balance EXCEPT ![p] = @ + WelcomeCredit]
      \/ /\ ~(TypeOf[e] = "deposit" /\ ~Tagged(p))
         /\ UNCHANGED <<ledger, balance>>
  BY <1>2, <1>3, <1>4 DEF CreditTx
<1>6. WorkerTypeOK'
  BY <1>1, <1>2, <1>3, <1>4, <1>5 DEF WorkerTypeOK, Entries
<1>7. \A q \in Players : q # p =>
        /\ pstate'[q] = pstate[q] /\ balance'[q] = balance[q]
        /\ EntriesOf(q)' = EntriesOf(q) /\ Deposits(q)' = Deposits(q)
  BY <1>1, <1>3, <1>5 DEF WorkerTypeOK, EntriesOf, Deposits
<1>8. pstate'[p] = res.state
  BY <1>1, <1>3 DEF WorkerTypeOK
<1>9. WelcomeOnce'
  <2>1. CASE TypeOf[e] = "deposit" /\ ~Tagged(p)
    <3>1. EntriesOf(p) = {} /\ balance[p] = 0
      BY <2>1, <1>1 DEF WelcomeOnce
    <3>2. EntriesOf(p)' = {new} /\ new \in ledger' /\ new.amount = WelcomeCredit
      BY <2>1, <3>1, <1>5 DEF EntriesOf
    <3>3. balance'[p] = WelcomeCredit
      BY <2>1, <3>1, <1>1, <1>4, <1>5 DEF WorkerTypeOK
    <3>4. Tagged(p)'
      BY <2>1, <1>2, <1>8 DEF Tagged
    <3>5. \A q \in Players : q # p => Tagged(q)' = Tagged(q)
      BY <1>7 DEF Tagged
    <3>6. ASSUME NEW q \in Players, q # p
          PROVE  IF Tagged(q)'
                   THEN /\ \E c \in ledger' : EntriesOf(q)' = {c} /\ c.amount = WelcomeCredit
                        /\ balance'[q] = WelcomeCredit
                   ELSE EntriesOf(q)' = {} /\ balance'[q] = 0
      BY <2>1, <3>5, <3>6, <1>5, <1>7 DEF WelcomeOnce
    <3> QED  BY <3>2, <3>3, <3>4, <3>6 DEF WelcomeOnce
  <2>2. CASE ~(TypeOf[e] = "deposit" /\ ~Tagged(p))
    <3>1. \A q \in Players : Tagged(q)' = Tagged(q)
      BY <2>2, <1>2, <1>7, <1>8 DEF Tagged
    <3>2. UNCHANGED <<ledger, balance>>
      BY <2>2, <1>5
    <3> QED  BY <3>1, <3>2 DEF WelcomeOnce, EntriesOf
  <2> QED  BY <2>1, <2>2
<1>10. LedgerFollowsMarks'
  <2>1. ASSUME NEW c \in ledger' PROVE (c.event \in Deposits(c.player))'
    <3>1. CASE c \in ledger
      BY <3>1, <1>3 DEF LedgerFollowsMarks, Deposits
    <3>2. CASE c \notin ledger
      BY <2>1, <3>2, <1>3, <1>5 DEF Deposits
    <3> QED  BY <3>1, <3>2
  <2>2. (Tagged(p) <=> Deposits(p) # {})'
    <3>1. CASE TypeOf[e] = "deposit"
      BY <3>1, <1>2, <1>3, <1>8 DEF Tagged, Deposits
    <3>2. CASE TypeOf[e] # "deposit"
      <4>1. Deposits(p)' = Deposits(p)
        BY <3>2, <1>3 DEF Deposits
      <4>2. Tagged(p)' = Tagged(p)
        BY <3>2, <1>2, <1>8 DEF Tagged
      <4> QED  BY <4>1, <4>2, <1>1 DEF LedgerFollowsMarks
    <3> QED  BY <3>1, <3>2
  <2>3. \A q \in Players : q # p => (Tagged(q) <=> Deposits(q) # {})'
    BY <1>7 DEF LedgerFollowsMarks, Tagged
  <2> QED  BY <2>1, <2>2, <2>3 DEF LedgerFollowsMarks
<1> QED  BY <1>6, <1>9, <1>10

\* Steps that leave the tables alone keep it too.
LEMMA TablesUnchangedInv ==
  ASSUME WorkerInv, UNCHANGED dbVars,
         playerRows' \subseteq Players, now' \in 0..MaxTime
  PROVE  WorkerInv'
<1>1. WorkerTypeOK'
  BY DEF WorkerInv, WorkerTypeOK, dbVars
<1>2. WelcomeOnce' /\ LedgerFollowsMarks'
  BY DEF WorkerInv, WelcomeOnce, LedgerFollowsMarks, Tagged, EntriesOf, Deposits, dbVars
<1> QED  BY <1>1, <1>2 DEF WorkerInv

LEMMA WorkerStepInv == WorkerInv /\ [WorkerNext]_workerVars => WorkerInv'
<1> SUFFICES ASSUME WorkerInv, [WorkerNext]_workerVars PROVE WorkerInv'
  OBVIOUS
<1>1. ASSUME NEW e \in Events, Handle(e), UNCHANGED now PROVE WorkerInv'
  BY <1>1, HandleInv
<1>2. ASSUME NEW e \in Events, SkipDuplicate(e), UNCHANGED now PROVE WorkerInv'
  BY <1>2, TablesUnchangedInv DEF SkipDuplicate, WorkerInv, WorkerTypeOK
<1>3. ASSUME NEW p \in Players, EnqueueEnsures(p) PROVE WorkerInv'
  BY <1>3, TablesUnchangedInv DEF EnqueueEnsures, EnsurePlayer, WorkerInv, WorkerTypeOK
<1>4. CASE Tick
  BY <1>4, TablesUnchangedInv, WorkerAssumption DEF Tick, WorkerInv, WorkerTypeOK
<1>5. CASE UNCHANGED workerVars
  BY <1>5, TablesUnchangedInv DEF workerVars, WorkerInv, WorkerTypeOK
<1> QED  BY <1>1, <1>2, <1>3, <1>4, <1>5 DEF WorkerNext

\* The worker's tables keep their types.
THEOREM WorkerTypeCorrect == WorkerSpec => []WorkerTypeOK
<1>1. WorkerInv => WorkerTypeOK
  BY DEF WorkerInv
<1> QED  BY WorkerInitInv, WorkerStepInv, <1>1, PTL DEF WorkerSpec

\* Credit-once: for any events, redelivered any number of times in any order, a
\* player is paid the welcome credit exactly once, by the first deposit applied.
THEOREM WorkerCreditsOnce == WorkerSpec => []WelcomeOnce
<1>1. WorkerInv => WelcomeOnce
  BY DEF WorkerInv
<1> QED  BY WorkerInitInv, WorkerStepInv, <1>1, PTL DEF WorkerSpec

\* The ledger and the tags never say more than the marks.
THEOREM WorkerLedgerFollowsMarks == WorkerSpec => []LedgerFollowsMarks
<1>1. WorkerInv => LedgerFollowsMarks
  BY DEF WorkerInv
<1> QED  BY WorkerInitInv, WorkerStepInv, <1>1, PTL DEF WorkerSpec
-----------------------------------------------------------------------------
\* What the rules make of score, tier and flag: a bet's amount is added, the tier
\* follows, and the flag is set or kept.
LEMMA ApplyCounts ==
  ASSUME NEW e \in Events, NEW st \in PlayerState, NEW n
  PROVE  LET after == Apply(e, st, n).state
         IN  IF TypeOf[e] = "bet_placed"
               THEN /\ after.score = AddInt64(st.score, AmountOf[e])
                    /\ after.tier = TierForScore(after.score)
                    /\ after.flag = IF n + 1 >= VelocityBetLimit THEN "velocity" ELSE st.flag
               ELSE /\ after.score = st.score
                    /\ after.tier = st.tier
                    /\ after.flag = st.flag
<1> DEFINE w == ApplyWelcome(e, st)
           v == ApplyVIP(e, w)
<1>1. /\ w \in [state : PlayerState, credit : {0, WelcomeCredit}]
      /\ w.state.score = st.score /\ w.state.tier = st.tier /\ w.state.flag = st.flag
  BY DEF ApplyWelcome, PlayerState
<1>2. TypeOf[e] = "bet_placed" => AmountOf[e] > 0
  BY ValidatedAssumption DEF ValidateEvent
<1>3. CASE TypeOf[e] = "bet_placed"
  <2>1. v = [w EXCEPT !.state.score = AddInt64(st.score, AmountOf[e]),
                      !.state.tier = TierForScore(AddInt64(st.score, AmountOf[e]))]
    BY <1>1, <1>2, <1>3 DEF ApplyVIP
  <2>2. /\ v.state.score = AddInt64(st.score, AmountOf[e])
        /\ v.state.tier = TierForScore(v.state.score)
        /\ v.state.flag = st.flag
    <3> HIDE DEF w, v
    <3> QED  BY <1>1, <2>1 DEF PlayerState
  <2>3. Apply(e, st, n) = IF n + 1 >= VelocityBetLimit
                            THEN [v EXCEPT !.state.flag = "velocity"] ELSE v
    BY <1>3 DEF Apply, ApplyIntegrity
  <2>4. v \in [state : [score : {v.state.score}, tier : {v.state.tier},
                        tags : {v.state.tags}, flag : {v.state.flag}],
               credit : {w.credit}]
    <3> HIDE DEF w, v
    <3> QED  BY <1>1, <2>1 DEF PlayerState
  <2> HIDE DEF w, v
  <2> QED  BY <1>3, <2>2, <2>3, <2>4
<1>4. CASE TypeOf[e] # "bet_placed"
  BY <1>1, <1>4 DEF Apply, ApplyVIP, ApplyIntegrity
<1> QED  BY <1>3, <1>4
MarksArePast == \A f \in processed : processedAt[f] <= now

CountsInv == ScoreIsSumOfBets /\ FlagMeansBurst /\ MarksArePast

\* The score's half of ScoreIsSumOfBets for one player, as the sum of a function.
ScoreOf(p) ==
  \E wraps \in 0..Cardinality(Bets(p)) :
    SumOver(AmountOf, Bets(p)) = pstate[p].score + wraps * (2 * ScoreBound)

LEMMA ScoreByPlayer ==
  ScoreIsSumOfBets <=>
    \A p \in Players : ScoreOf(p) /\ pstate[p].tier = TierForScore(pstate[p].score)
  BY DEF ScoreIsSumOfBets, ScoreOf, SumOver, SumsSubsets, MapThenSumSet, MapThenFoldSet

\* A player's bets are finitely many.
LEMMA BetsFinite ==
  ASSUME WorkerTypeOK, NEW p \in Players
  PROVE  IsFiniteSet(Bets(p)) /\ Bets(p) \subseteq Events
<1>1. Bets(p) \in SUBSET Events
  BY DEF Bets, WorkerTypeOK
<1> QED  BY <1>1, EventsAssumption, FS_Subset

\* What a committed transaction does to the bets and the states.
LEMMA HandleBets ==
  ASSUME WorkerTypeOK, NEW e \in Events, Handle(e), NEW p \in Players
  PROVE  /\ e \notin Bets(p)
         /\ Bets(p)' = IF PlayerOf[e] = p /\ TypeOf[e] = "bet_placed"
                         THEN Bets(p) \cup {e} ELSE Bets(p)
         /\ pstate'[p] = IF PlayerOf[e] = p
                           THEN Apply(e, pstate[p], RecentBets(e)).state ELSE pstate[p]
  BY EventsAssumption DEF Handle, MarkProcessedTx, Bets, WorkerTypeOK

LEMMA HandleScore ==
  ASSUME WorkerTypeOK, ScoreIsSumOfBets, NEW e \in Events, Handle(e)
  PROVE  ScoreIsSumOfBets'
<1> DEFINE amount == AmountOf[e]
<1>1. ASSUME NEW p \in Players
      PROVE  (ScoreOf(p) /\ pstate[p].tier = TierForScore(pstate[p].score))'
  <2> DEFINE bets == Bets(p)
             score == pstate[p].score
  <2>1. /\ ScoreOf(p) /\ pstate[p].tier = TierForScore(score)
        /\ pstate[p] \in PlayerState
    BY ScoreByPlayer DEF WorkerTypeOK
  <2>2. CASE PlayerOf[e] = p /\ TypeOf[e] = "bet_placed"
    <3>1. /\ bets' = bets \cup {e} /\ e \notin bets
          /\ pstate'[p].score = AddInt64(score, amount)
          /\ pstate'[p].tier = TierForScore(pstate'[p].score)
      BY <2>1, <2>2, HandleBets, ApplyCounts
    <3>2. /\ IsFiniteSet(bets) /\ bets \subseteq Events
          /\ IsFiniteSet(bets \cup {e})
          /\ Cardinality(bets \cup {e}) = Cardinality(bets) + 1
          /\ Cardinality(bets) \in Nat
      BY <3>1, BetsFinite, FS_AddElement, FS_CardinalityType
    <3>3. SumOver(AmountOf, bets \cup {e}) = amount + SumOver(AmountOf, bets)
      <4>1. \A x \in bets \cup {e} : AmountOf[x] \in Int
        BY <3>2, EventsAssumption
      <4>2. (bets \cup {e}) \ {e} = bets
        BY <3>1
      <4> HIDE DEF bets
      <4> QED  BY <3>2, <4>1, <4>2, SumAdd
    <3>4. PICK wraps \in 0..Cardinality(bets) :
            SumOver(AmountOf, bets) = score + wraps * (2 * ScoreBound)
      BY <2>1 DEF ScoreOf
    <3>5. score \in Int /\ amount \in Int /\ ScoreBound \in Int
      <4>1. ScoreBound \in Nat
        BY RulesAssumption
      <4>2. score \in Scores
        BY <2>1 DEF PlayerState
      <4>3. amount \in Int
        BY EventsAssumption
      <4> HIDE DEF score, amount
      <4> QED  BY <4>1, <4>2, <4>3 DEF Scores
    <3> DEFINE more == IF score + amount < ScoreBound THEN wraps ELSE wraps + 1
    <3>6. more \in 0..Cardinality(bets \cup {e})
      BY <3>2, <3>4
    <3>7. SumOver(AmountOf, bets \cup {e}) = AddInt64(score, amount) + more * (2 * ScoreBound)
      <4>1. wraps \in Int
        BY <3>4
      <4>2. (wraps + 1) * (2 * ScoreBound) = wraps * (2 * ScoreBound) + 2 * ScoreBound
        BY <3>5, <4>1
      <4>3. wraps * (2 * ScoreBound) \in Int
        BY <3>5, <4>1
      <4> DEFINE product == wraps * (2 * ScoreBound)
      <4> HIDE DEF product, score, amount, bets
      <4>4. SumOver(AmountOf, bets \cup {e}) = amount + (score + product)
        BY <3>3, <3>4 DEF product
      <4>5. CASE score + amount < ScoreBound
        BY <4>5, <4>3, <4>4, <3>5 DEF AddInt64, product
      <4>6. CASE ~(score + amount < ScoreBound)
        BY <4>6, <4>2, <4>3, <4>4, <3>5 DEF AddInt64, product
      <4> QED  BY <4>5, <4>6
    <3> QED  BY <3>1, <3>6, <3>7 DEF ScoreOf
  <2>3. CASE ~(PlayerOf[e] = p /\ TypeOf[e] = "bet_placed")
    <3>1. /\ bets' = bets /\ pstate'[p].score = score
          /\ pstate'[p].tier = pstate[p].tier
      BY <2>1, <2>3, HandleBets, ApplyCounts
    <3> QED  BY <2>1, <3>1 DEF ScoreOf
  <2> QED  BY <2>2, <2>3
<1> QED  BY <1>1 DEF ScoreIsSumOfBets, ScoreOf, SumOver, SumsSubsets, MapThenSumSet, MapThenFoldSet
\* The processed bets of p in the window that ends at time t.
BetsWithin(p, t) == {f \in Bets(p) : processedAt[f] \in t - Window .. t}

\* The same after the step.
BetsWithinNext(p, t) == {f \in Bets(p)' : processedAt'[f] \in t - Window .. t}

\* The rule's count is that of the window the bet itself closes.
LEMMA CountIsWindow ==
  ASSUME WorkerTypeOK, MarksArePast, NEW e \in Events, Handle(e), now' = now,
         TypeOf[e] = "bet_placed", NEW p \in Players, p = PlayerOf[e]
  PROVE  /\ RecentBets(e) + 1 = Cardinality(BetsWithinNext(p, now))
         /\ Cardinality(BetsWithinNext(p, now)) \in Nat
<1> DEFINE window == BetsSince(p, e, now - Window)
<1>1. /\ Window \in Nat /\ now \in Nat
      /\ processedAt \in [Events -> 0..MaxTime] /\ processed \subseteq Events
      /\ processedAt' = [processedAt EXCEPT ![e] = now]
      /\ processed' = processed \cup {e} /\ e \notin processed
  BY WorkerAssumption DEF WorkerTypeOK, Handle, MarkProcessedTx
<1>2. \A f \in processed : /\ processedAt[f] \in Int /\ processedAt[f] <= now
                           /\ processedAt'[f] = processedAt[f]
  BY <1>1 DEF MarksArePast
<1>3. processedAt'[e] = now
  BY <1>1
<1>4. BetsWithinNext(p, now) = window
  <2>1. ASSUME NEW f \in processed
        PROVE  processedAt'[f] \in now - Window .. now <=> processedAt[f] >= now - Window
    BY <1>1, <1>2
  <2>2. processedAt'[e] \in now - Window .. now
    BY <1>1, <1>3
  <2>3. BetsWithinNext(p, now) = {f \in processed \cup {e} :
          PlayerOf[f] = p /\ TypeOf[f] = "bet_placed" /\ processedAt'[f] \in now - Window .. now}
    BY <1>1 DEF BetsWithinNext, Bets
  <2> HIDE DEF window
  <2> QED  BY <2>1, <2>2, <2>3 DEF BetsSince, window
<1>5. window \in SUBSET Events /\ e \in window
  BY <1>1 DEF BetsSince
<1>6. Cardinality(window) \in Nat /\ Cardinality(window) > 0
  <2>1. IsFiniteSet(window) /\ window # {}
    BY <1>5, EventsAssumption, FS_Subset
  <2> HIDE DEF window
  <2> QED  BY <2>1, FS_EmptySet, FS_CardinalityType
<1>7. RecentBets(e) = Cardinality(window) - 1
  BY <1>6 DEF RecentBets
<1> HIDE DEF window
<1> QED  BY <1>4, <1>6, <1>7

LEMMA HandleFlag ==
  ASSUME WorkerTypeOK, FlagMeansBurst, MarksArePast, NEW e \in Events, Handle(e), now' = now
  PROVE  FlagMeansBurst' /\ MarksArePast'
<1> DEFINE Burst(p) == \E last \in Bets(p) :
                         Cardinality(BetsWithin(p, processedAt[last])) >= VelocityBetLimit
           BurstNext(p) == \E last \in Bets(p)' :
                         Cardinality(BetsWithinNext(p, processedAt'[last])) >= VelocityBetLimit
<1>0. /\ now \in Nat /\ Window \in Nat /\ VelocityBetLimit \in Nat
      /\ processedAt \in [Events -> 0..MaxTime] /\ processed \subseteq Events
      /\ processedAt' = [processedAt EXCEPT ![e] = now]
      /\ processed' = processed \cup {e} /\ e \notin processed
  BY WorkerAssumption, RulesAssumption DEF WorkerTypeOK, Handle, MarkProcessedTx
<1>1. MarksArePast'
  BY <1>0 DEF MarksArePast
<1>2. ASSUME NEW p \in Players
      PROVE  pstate'[p].flag = "velocity" <=> BurstNext(p)
  <2>1. (pstate[p].flag = "velocity" <=> Burst(p)) /\ pstate[p] \in PlayerState
    BY DEF FlagMeansBurst, BetsWithin, WorkerTypeOK
  <2>2. /\ \A f \in Bets(p) : /\ processedAt'[f] = processedAt[f]
                              /\ processedAt[f] \in Nat /\ processedAt[f] <= now
        /\ processedAt'[e] = now
    BY <1>0 DEF Bets, MarksArePast
  <2>3. CASE PlayerOf[e] = p /\ TypeOf[e] = "bet_placed"
    <3>1. /\ Bets(p)' = Bets(p) \cup {e} /\ e \notin Bets(p)
          /\ pstate'[p].flag = IF RecentBets(e) + 1 >= VelocityBetLimit
                                 THEN "velocity" ELSE pstate[p].flag
      BY <2>1, <2>3, HandleBets, ApplyCounts
    <3>2. RecentBets(e) + 1 = Cardinality(BetsWithinNext(p, now))
      BY <2>3, CountIsWindow
    <3>3. ASSUME NEW t \in Nat, t # now PROVE BetsWithinNext(p, t) = BetsWithin(p, t) \/ t > now
      <4>1. CASE t < now
        <5>1. ~(processedAt'[e] \in t - Window .. t)
          BY <4>1, <2>2, <1>0
        <5> QED  BY <5>1, <3>1, <2>2 DEF BetsWithin, BetsWithinNext
      <4> QED  BY <4>1, <3>3, <1>0
    <3>4. ASSUME NEW t \in Nat
          PROVE  Cardinality(BetsWithin(p, t)) <= Cardinality(BetsWithinNext(p, t))
      <4>1. BetsWithinNext(p, t) \in SUBSET Events /\ BetsWithin(p, t) \in SUBSET BetsWithinNext(p, t)
        BY <3>1, <2>2, <1>0 DEF BetsWithin, BetsWithinNext, Bets
      <4>2. IsFiniteSet(BetsWithinNext(p, t))
        BY <4>1, EventsAssumption, FS_Subset
      <4> QED  BY <4>1, <4>2, FS_Subset
    <3>5. ASSUME pstate'[p].flag = "velocity" PROVE BurstNext(p)
      <4>1. CASE RecentBets(e) + 1 >= VelocityBetLimit
        BY <4>1, <3>1, <3>2, <2>2
      <4>2. CASE pstate[p].flag = "velocity"
        <5>1. PICK last \in Bets(p) :
                Cardinality(BetsWithin(p, processedAt[last])) >= VelocityBetLimit
          BY <4>2, <2>1
        <5>2. PICK t \in Nat : t = processedAt[last]
          BY <2>2
        <5>5. processedAt'[last] = t /\ last \in Bets(p)'
          BY <2>2, <3>1, <5>2
        <5>3. Cardinality(BetsWithin(p, t)) \in Nat /\ Cardinality(BetsWithinNext(p, t)) \in Nat
          <6>1. BetsWithinNext(p, t) \in SUBSET Events /\ BetsWithin(p, t) \in SUBSET Events
            BY <1>0 DEF BetsWithin, BetsWithinNext, Bets
          <6> QED  BY <6>1, EventsAssumption, FS_Subset, FS_CardinalityType
        <5>4. Cardinality(BetsWithinNext(p, t)) >= VelocityBetLimit
          <6>1. Cardinality(BetsWithin(p, t)) >= VelocityBetLimit
            BY <5>1, <5>2
          <6>2. Cardinality(BetsWithin(p, t)) <= Cardinality(BetsWithinNext(p, t))
            BY <3>4
          <6> QED  BY <6>1, <6>2, <5>3, <1>0
        <5> QED  BY <5>5, <5>4
      <4> QED  BY <3>5, <3>1, <4>1, <4>2
    <3>6. ASSUME BurstNext(p) PROVE pstate'[p].flag = "velocity"
      <4>1. PICK last \in Bets(p)' :
              Cardinality(BetsWithinNext(p, processedAt'[last])) >= VelocityBetLimit
        BY <3>6
      <4>2. CASE processedAt'[last] = now
        BY <4>1, <4>2, <3>1, <3>2
      <4>3. CASE processedAt'[last] # now
        <5>1. last \in Bets(p) /\ processedAt'[last] = processedAt[last]
              /\ processedAt[last] \in Nat /\ ~(processedAt[last] > now)
          BY <4>3, <3>1, <2>2, <1>0
        <5>2. BetsWithinNext(p, processedAt[last]) = BetsWithin(p, processedAt[last])
          BY <5>1, <4>3, <3>3
        <5>3. Burst(p)
          BY <4>1, <5>1, <5>2
        <5> QED  BY <5>3, <2>1, <3>1
      <4> QED  BY <4>2, <4>3
    <3> QED  BY <3>5, <3>6
  <2>4. CASE ~(PlayerOf[e] = p /\ TypeOf[e] = "bet_placed")
    <3>1. Bets(p)' = Bets(p) /\ pstate'[p].flag = pstate[p].flag
      BY <2>1, <2>4, HandleBets, ApplyCounts
    <3>2. \A t : BetsWithinNext(p, t) = BetsWithin(p, t)
      BY <3>1, <2>2 DEF BetsWithin, BetsWithinNext
    <3> QED  BY <3>1, <3>2, <2>1, <2>2
  <2> QED  BY <2>3, <2>4
<1> QED  BY <1>1, <1>2 DEF FlagMeansBurst, BetsWithinNext

\* Nothing counted changes with the clock or the rows alone.
LEMMA TablesUnchangedCounts ==
  ASSUME WorkerTypeOK, CountsInv, UNCHANGED dbVars, now' \in Nat, now' >= now
  PROVE  CountsInv'
<1>1. \A p : Bets(p)' = Bets(p)
  BY DEF Bets, dbVars
<1>2. ScoreIsSumOfBets'
  BY <1>1 DEF CountsInv, ScoreIsSumOfBets, dbVars, MapThenSumSet, MapThenFoldSet
<1>3. FlagMeansBurst'
  BY <1>1 DEF CountsInv, FlagMeansBurst, dbVars
<1>4. MarksArePast'
  BY WorkerAssumption DEF CountsInv, MarksArePast, WorkerTypeOK, dbVars
<1> QED  BY <1>2, <1>3, <1>4 DEF CountsInv

LEMMA CountsInit == WorkerInit => CountsInv
<1> SUFFICES ASSUME WorkerInit PROVE CountsInv
  OBVIOUS
<1>1. \A p \in Players : Bets(p) = {} /\ pstate[p] = NewPlayerState
  BY DEF WorkerInit, Bets
<1>0. NewPlayerState.score = 0 /\ NewPlayerState.tier = "bronze" /\ NewPlayerState.flag = ""
  BY DEF NewPlayerState
<1>2. Cardinality({}) = 0 /\ ScoreBound \in Nat
  BY FS_EmptySet, RulesAssumption
<1>3. 0 = 0 + 0 * (2 * ScoreBound)
  BY <1>2
<1>4. "bronze" = TierForScore(0)
  BY RulesAssumption DEF TierForScore
<1>5. ASSUME NEW p \in Players
      PROVE  ScoreOf(p) /\ pstate[p].tier = TierForScore(pstate[p].score)
  <2>0. SumOver(AmountOf, {}) = 0
    BY SumEmpty
  <2>1. SumOver(AmountOf, Bets(p)) = 0 /\ pstate[p].score = 0 /\ pstate[p].tier = "bronze"
    BY <1>0, <1>1, <2>0
  <2>2. 0 \in 0..Cardinality(Bets(p))
    BY <1>1, <1>2
  <2> QED  BY <2>1, <2>2, <1>3, <1>4 DEF ScoreOf
<1>6. ScoreIsSumOfBets
  BY <1>5, ScoreByPlayer
<1>7. FlagMeansBurst
  <2>1. \A p \in Players : Bets(p) = {} /\ pstate[p].flag # "velocity"
    BY <1>0, <1>1
  <2> QED  BY <2>1 DEF FlagMeansBurst
<1> QED  BY <1>6, <1>7 DEF CountsInv, MarksArePast, WorkerInit

LEMMA CountsStep == WorkerInv /\ CountsInv /\ [WorkerNext]_workerVars => CountsInv'
<1> SUFFICES ASSUME WorkerInv, CountsInv, [WorkerNext]_workerVars PROVE CountsInv'
  OBVIOUS
<1>1. WorkerTypeOK /\ now \in Nat
  BY WorkerAssumption DEF WorkerInv, WorkerTypeOK
<1>2. ASSUME NEW e \in Events, Handle(e), UNCHANGED now PROVE CountsInv'
  BY <1>1, <1>2, HandleScore, HandleFlag DEF CountsInv
<1>3. ASSUME UNCHANGED dbVars, now' = now \/ now' = now + 1 PROVE CountsInv'
  BY <1>1, <1>3, TablesUnchangedCounts
<1> QED  BY <1>2, <1>3 DEF WorkerNext, SkipDuplicate, EnqueueEnsures, Tick, workerVars

\* In whatever order and however often the bets are delivered, a player's score is
\* their sum, up to the wrapping of int64, and the tier is the score's.
THEOREM WorkerSumsBets == WorkerSpec => []ScoreIsSumOfBets
<1>1. CountsInv => ScoreIsSumOfBets
  BY DEF CountsInv
<1> QED  BY WorkerInitInv, WorkerStepInv, CountsInit, CountsStep, <1>1, PTL DEF WorkerSpec

\* The velocity flag is set by a burst of bets, and by nothing else.
THEOREM WorkerFlagsBursts == WorkerSpec => []FlagMeansBurst
<1>1. CountsInv => FlagMeansBurst
  BY DEF CountsInv
<1> QED  BY WorkerInitInv, WorkerStepInv, CountsInit, CountsStep, <1>1, PTL DEF WorkerSpec
=============================================================================
