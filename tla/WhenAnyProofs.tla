--------------------------- MODULE WhenAnyProofs ---------------------------
(***************************************************************************)
(* when_any, for every number of branches: its invariant is inductive, so  *)
(* the first branch wins and nobody is left when the caller resumes.       *)
(***************************************************************************)
EXTENDS WhenAny, FiniteSetTheorems, TLAPS

LEMMA BranchFinite == IsFiniteSet(Branch) /\ Cardinality(Branch) = N
BY FS_Interval, WhenAnyAssumption DEF Branch

LEMMA EntriesDiffer ==
    \A b, c \in Branch : (Op(b) = Op(c) => b = c) /\ (CancelOf(b) = CancelOf(c) => b = c)
                        /\ Op(b) # CancelOf(c)
<1> SUFFICES ASSUME NEW b \in Branch, NEW c \in Branch
             PROVE  (Op(b) = Op(c) => b = c) /\ (CancelOf(b) = CancelOf(c) => b = c)
                    /\ Op(b) # CancelOf(c)
  OBVIOUS
<1>1. Op(b).at = b /\ Op(c).at = c /\ CancelOf(b).at = b /\ CancelOf(c).at = c
  BY DEF Op, CancelOf
<1>2. Op(b).op = "branch" /\ CancelOf(c).op = "cancel"
  BY DEF Op, CancelOf
<1> QED  BY <1>1, <1>2

LEMMA LiveFinite == IsFiniteSet(Live) /\ Cardinality(Live) \in Nat
BY BranchFinite, FS_Subset, FS_CardinalityType DEF Live

\* mCount counts the branches down one by one, and is 0 after the last.
LEMMA CountDown ==
    ASSUME NEW S \in SUBSET Live, mCount = Cardinality(Live)
    PROVE  /\ mCount - Cardinality(S) = Cardinality(Live \ S)
           /\ mCount - Cardinality(S) \in Nat
           /\ mCount - Cardinality(S) = 0 <=> Live \ S = {}
<1>1. Cardinality(Live \ S) = mCount - Cardinality(S)
  <2>1. Live \cap S = S
    OBVIOUS
  <2> QED  BY <2>1, LiveFinite, FS_Difference
<1>2. IsFiniteSet(Live \ S) /\ Cardinality(Live \ S) \in Nat
  BY LiveFinite, FS_Difference, FS_CardinalityType
<1> QED  BY <1>1, <1>2, FS_EmptySet

\* What Return does, of which the cases below use no more.
LEMMA ReturnFacts ==
    ASSUME TypeOK, NEW S \in SUBSET Live, NEW res \in 0 .. N, Return(S, res)
    PROVE  /\ st' \in [Branch -> {"new", "pending", "cancelling", "done"}]
           /\ \A b \in Branch : st'[b] = IF b \in S THEN "done" ELSE st[b]
           /\ Live' = Live \ S
           /\ mCount' = Cardinality(Live')
           /\ result' = res
           /\ caller' \in {"waiting", "value", "threw"}
           /\ caller' # "waiting" => Live' = {} /\ (caller' = "value" <=> res # 0)
<1>1. /\ st' \in [Branch -> {"new", "pending", "cancelling", "done"}]
      /\ \A b \in Branch : st'[b] = IF b \in S THEN "done" ELSE st[b]
  BY DEF Return, TypeOK, Live
<1>2. Live' = Live \ S
  BY <1>1 DEF Live
<1>3. /\ mCount - Cardinality(S) = Cardinality(Live \ S)
      /\ mCount - Cardinality(S) \in Nat
      /\ mCount - Cardinality(S) = 0 <=> Live \ S = {}
  BY CountDown DEF TypeOK
<1> QED  BY <1>1, <1>2, <1>3 DEF Return

\* The same when the branch that cancels has to wait: it sleeps in doCancel.
LEMMA SuspendFacts ==
    ASSUME TypeOK, NEW S \in SUBSET Live, NEW w \in Live \ S,
           st' = [b \in Branch |-> IF b = w THEN "cancelling"
                                   ELSE IF b \in S THEN "done" ELSE st[b]],
           mCount' = mCount - Cardinality(S)
    PROVE  /\ st' \in [Branch -> {"new", "pending", "cancelling", "done"}]
           /\ Live' = Live \ S
           /\ mCount' = Cardinality(Live')
<1>1. st' \in [Branch -> {"new", "pending", "cancelling", "done"}]
  BY DEF TypeOK
<1>2. Live' = Live \ S
  BY DEF Live
<1>3. mCount - Cardinality(S) = Cardinality(Live \ S)
  BY CountDown DEF TypeOK
<1> QED  BY <1>1, <1>2, <1>3

LEMMA InitInv == Init => IInv
<1> SUFFICES ASSUME Init PROVE IInv
  OBVIOUS
<1>1. Live = Branch
  BY DEF Init, Live
<1>2. TypeOK
  <2>1. mCount = Cardinality(Live)
    BY <1>1, BranchFinite DEF Init
  <2>2. 0 \in 0 .. N /\ 1 \in 1 .. N + 1
    BY WhenAnyAssumption
  <2> QED  BY <2>1, <2>2 DEF Init, TypeOK
<1>3. Decision
  BY <1>1 DEF Init, Decision
<1>4. Owned
  BY DEF Init, Owned
<1> QED  BY <1>2, <1>3, <1>4 DEF IInv

-----------------------------------------------------------------------------
\* While nothing is decided, those that doCancel tells are suspended branches.
LEMMA ToldFacts ==
    ASSUME IInv, ~mCanceled, NEW w \in 0 .. N
    PROVE  /\ Told(w) \subseteq Live \ {w}
           /\ \A b \in Told(w) : b \in Branch /\ st[b] = "pending" /\ b < turn
BY DEF IInv, TypeOK, Decision, Told, Live, Branch

\* The entries after doCancel: none is left without its owner.
LEMMA CancelOwned ==
    ASSUME IInv, ~mCanceled, NEW w \in 0 .. N,
           sq' = sq \cup CancelEntries(Told(w) \cap Ops),
           asked' = Told(w) \cap Ops,
           cq' \subseteq cq, UNCHANGED <<kind, kernel>>,
           w # 0 => Op(w) \notin sq \cup cq' /\ kernel[w] = "none",
           \A b \in Branch : b # w /\ ~(b \in Told(w) /\ b \notin Ops) => st'[b] = st[b],
           asked' # {} /\ first' # 0 => st'[first'] = "cancelling"
    PROVE  Owned'
<1>1. asked = {}
  BY DEF IInv, Decision
<1>2. \A b \in Branch : Op(b) \in sq' <=> Op(b) \in sq
  BY DEF CancelEntries, Op, CancelOf
<1>3. \A b \in Branch : CancelOf(b) \notin sq \cup cq
  BY <1>1 DEF IInv, Owned
<1>4. \A b \in Branch : CancelOf(b) \in sq' \cup cq' => b \in asked'
  BY <1>3 DEF CancelEntries, CancelOf
<1>5. ASSUME NEW b \in Branch, Op(b) \in sq' \cup cq' \/ kernel'[b] # "none"
      PROVE  st'[b] = "pending" /\ kind'[b] = "io"
  <2>1. b # w
    BY <1>2, <1>5 DEF Branch
  <2>2. st[b] = "pending" /\ kind[b] = "io"
    BY <1>2, <1>5 DEF IInv, Owned
  <2>3. b \in Ops
    BY <2>2 DEF Ops
  <2> QED  BY <2>1, <2>2, <2>3
<1>6. \A b \in Branch : /\ Op(b) \in sq' => kernel'[b] = "none"
                        /\ Op(b) \in cq' => kernel'[b] = "none"
                        /\ ~(Op(b) \in sq' /\ Op(b) \in cq')
  BY <1>2 DEF IInv, Owned
<1>7. \A b \in Branch : ~(CancelOf(b) \in sq' /\ CancelOf(b) \in cq')
  BY <1>3
<1> QED  BY <1>4, <1>5, <1>6, <1>7 DEF Owned

\* w finishes first: it takes the decision, and returns unless it must wait.
LEMMA WinInv ==
    ASSUME IInv, ~mCanceled, NEW w \in Branch, st[w] \in {"new", "pending"},
           caller = "waiting", DoCancel(w), first' = w,
           Op(w) \notin sq \cup cq', kernel[w] = "none",
           cq' \subseteq cq, UNCHANGED <<kind, parent, kernel>>,
           turn' \in turn .. N + 1, w < turn'
    PROVE  IInv'
<1> DEFINE ios == Told(w) \cap Ops
           resumed == Told(w) \ Ops
<1>1. /\ w \in 0 .. N /\ w # 0 /\ w \in Live /\ w # Parent
      /\ st[w] # "cancelling" /\ st[w] # "done"
  BY DEF Branch, Live, Parent
<1>2. Told(w) \subseteq Live \ {w} /\ \A b \in Told(w) : b \in Branch /\ st[b] = "pending" /\ b < turn
  BY <1>1, ToldFacts
<1>3. first = 0 /\ result = 0 /\ \A b \in Branch : st[b] \notin {"cancelling", "done"}
  BY DEF IInv, Decision, Live, Branch
<1>4. /\ mCanceled' = TRUE /\ asked' = ios /\ mCancellers' = ios
      /\ sq' = sq \cup CancelEntries(ios)
  BY DEF DoCancel
<1>5. /\ kind' \in [Branch -> Kind] /\ turn' \in 1 .. N + 1
      /\ mCancellers' \subseteq Branch /\ asked' \subseteq Branch
      /\ mCanceled' \in BOOLEAN /\ parent' \in BOOLEAN /\ first' \in 0 .. N
      /\ sq' \subseteq Entry /\ cq' \subseteq Entry
      /\ kernel' \in [Branch -> {"none", "branch", "finishing"}]
  <2>1. sq' \subseteq Entry
    BY <1>2, <1>4 DEF IInv, TypeOK, CancelEntries, CancelOf, Entry
  <2>2. turn' \in 1 .. N + 1
    BY DEF IInv, TypeOK
  <2> QED  BY <1>1, <1>2, <1>4, <2>1, <2>2 DEF IInv, TypeOK
<1>6. CASE ios = {}
  <2>1. Return(resumed \cup {w}, w)
    BY <1>1, <1>6 DEF DoCancel
  <2>2. resumed \cup {w} \in SUBSET Live
    BY <1>1, <1>2
  <2>3. /\ st' \in [Branch -> {"new", "pending", "cancelling", "done"}]
        /\ \A b \in Branch : st'[b] = IF b \in resumed \cup {w} THEN "done" ELSE st[b]
        /\ Live' = Live \ (resumed \cup {w}) /\ mCount' = Cardinality(Live')
        /\ result' = w /\ caller' \in {"waiting", "value", "threw"}
        /\ caller' # "waiting" => Live' = {} /\ (caller' = "value" <=> w # 0)
    <3> HIDE DEF resumed
    <3>1. TypeOK /\ w \in 0 .. N
      BY <1>1 DEF IInv
    <3> QED  BY <2>1, <2>2, <3>1, ReturnFacts
  <2>4. TypeOK'
    BY <1>1, <1>5, <2>3 DEF TypeOK
  <2>5. Decision'
    BY <1>1, <1>2, <1>3, <1>4, <2>3 DEF IInv, TypeOK, Decision, Branch
  <2>6. Owned'
    BY <1>1, <1>4, <1>6, <2>3, CancelOwned
  <2> QED  BY <2>4, <2>5, <2>6 DEF IInv
<1>7. CASE ios # {}
  <2>1. /\ st' = [b \in Branch |-> IF b = w THEN "cancelling"
                                   ELSE IF b \in resumed THEN "done" ELSE st[b]]
        /\ mCount' = mCount - Cardinality(resumed)
        /\ result' = result /\ caller' = caller
    BY <1>1, <1>7 DEF DoCancel
  <2>2. resumed \in SUBSET Live /\ w \in Live \ resumed
    BY <1>1, <1>2
  <2>3. /\ st' \in [Branch -> {"new", "pending", "cancelling", "done"}]
        /\ Live' = Live \ resumed /\ mCount' = Cardinality(Live')
    BY <2>1, <2>2, SuspendFacts DEF IInv
  <2>4. TypeOK'
    BY <1>5, <2>1, <2>3 DEF IInv, TypeOK
  <2>5. Decision'
    BY <1>1, <1>2, <1>3, <1>4, <2>1, <2>3 DEF IInv, TypeOK, Decision, Branch
  <2>6. \A b \in Branch : st'[b] = IF b = w THEN "cancelling"
                                  ELSE IF b \in resumed THEN "done" ELSE st[b]
    BY <2>1
  <2>7. Owned'
    BY <1>1, <1>4, <2>6, CancelOwned
  <2> QED  BY <2>4, <2>5, <2>7 DEF IInv
<1> QED  BY <1>6, <1>7

\* A later finisher returns without a word; it is not the one that decided.
LEMMA LoseInv ==
    ASSUME IInv, mCanceled, NEW w \in Branch, st[w] \in {"new", "pending"},
           Return({w}, result), mCancellers' = mCancellers \ {w},
           Op(w) \notin sq \cup cq', kernel[w] = "none", cq' \subseteq cq,
           UNCHANGED <<kind, parent, kernel, mCanceled, asked, first, sq>>,
           turn' \in turn .. N + 1, w < turn'
    PROVE  IInv'
<1>1. {w} \in SUBSET Live /\ result \in 0 .. N /\ TypeOK
  BY DEF Live, IInv, TypeOK
<1>2. /\ st' \in [Branch -> {"new", "pending", "cancelling", "done"}]
      /\ \A b \in Branch : st'[b] = IF b \in {w} THEN "done" ELSE st[b]
      /\ Live' = Live \ {w} /\ mCount' = Cardinality(Live')
      /\ result' = result /\ caller' \in {"waiting", "value", "threw"}
      /\ caller' # "waiting" => Live' = {} /\ (caller' = "value" <=> result # 0)
  BY <1>1, ReturnFacts
<1>3. turn' \in 1 .. N + 1
  BY DEF IInv, TypeOK
<1>4. TypeOK'
  BY <1>2, <1>3 DEF IInv, TypeOK
<1>5. st[w] # "cancelling"
  OBVIOUS
<1>6. Decision'
  BY <1>2, <1>5 DEF IInv, TypeOK, Decision, Branch
<1>7. Owned'
  <2>1. first # 0 => first \in Branch
    BY WhenAnyAssumption DEF IInv, TypeOK, Branch
  <2>2. asked' # {} /\ first' # 0 => st'[first'] = "cancelling"
    BY <1>2, <1>5, <2>1 DEF IInv, Owned
  <2>3. \A b \in Branch : Op(b) \in sq' \cup cq' \/ kernel'[b] # "none"
                        => st'[b] = "pending" /\ kind'[b] = "io"
    BY <1>2 DEF IInv, Owned
  <2> QED  BY <2>2, <2>3 DEF IInv, Owned
<1> QED  BY <1>4, <1>6, <1>7 DEF IInv

LEMMA FinishedInv ==
    ASSUME IInv, NEW w \in Branch, st[w] \in {"new", "pending"},
           caller = "waiting", Finished(w),
           Op(w) \notin sq \cup cq', kernel[w] = "none",
           cq' \subseteq cq, UNCHANGED <<kind, parent, kernel>>,
           turn' \in turn .. N + 1, w < turn'
    PROVE  IInv'
<1>1. CASE mCanceled
  BY <1>1, LoseInv DEF Finished
<1>2. CASE ~mCanceled
  BY <1>2, WinInv DEF Finished
<1> QED  BY <1>1, <1>2

\* Nobody has returned before the branches are all started, unless decided.
LEMMA StartInv == ASSUME IInv, Start PROVE IInv'
<1>1. /\ turn \in Branch /\ st[turn] = "new" /\ turn' \in turn .. N + 1
      /\ turn < turn'
  BY WhenAnyAssumption DEF Start, IInv, TypeOK, Decision, Branch
<1>2. caller = "waiting"
  BY <1>1 DEF IInv, Decision, Live
<1>3. Op(turn) \notin sq \cup cq /\ kernel[turn] = "none"
  BY <1>1 DEF IInv, Owned
<1>4. CASE kind[turn] = "now"
  BY <1>1, <1>2, <1>3, <1>4, FinishedInv DEF Start
<1>5. CASE kind[turn] # "now"
  <2>1. /\ st' = [st EXCEPT ![turn] = "pending"]
        /\ mCancellers' = mCancellers \cup {turn}
        /\ sq' = IF turn \in Ops THEN sq \cup {Op(turn)} ELSE sq
        /\ UNCHANGED <<mCanceled, asked, first, mCount, result, caller,
                       kind, parent, kernel, cq>>
        /\ turn' = turn + 1
    BY <1>5 DEF Start
  <2>2. Live' = Live
    BY <1>1, <2>1 DEF Live, IInv, TypeOK
  <2>3. sq' \subseteq Entry
    BY <1>1, <2>1 DEF IInv, TypeOK, Entry, Op
  <2>4. TypeOK'
    BY <1>1, <2>1, <2>2, <2>3 DEF IInv, TypeOK
  <2>5. Decision'
    BY <1>1, <2>1, <2>2 DEF IInv, TypeOK, Decision, Branch
  <2>6. Owned'
    <3>1. \A b \in Branch : CancelOf(b) \in sq' <=> CancelOf(b) \in sq
      BY <1>1, <2>1, EntriesDiffer
    <3>2. \A b \in Branch : Op(b) \in sq' => Op(b) \in sq \/ (b = turn /\ b \in Ops)
      <4>1. CASE turn \in Ops
        BY <1>1, <2>1, <4>1, EntriesDiffer
      <4>2. CASE turn \notin Ops
        BY <2>1, <4>2
      <4> QED  BY <4>1, <4>2
    <3>3. \A b \in Branch : st'[b] = IF b = turn THEN "pending" ELSE st[b]
      BY <2>1 DEF IInv, TypeOK
    <3>4. first # 0 => first # turn \/ st[first] # "cancelling"
      BY <1>1
    <3>5. first # 0 => first \in Branch
      BY WhenAnyAssumption DEF IInv, TypeOK, Branch
    <3>6. asked' # {} /\ first' # 0 => st'[first'] = "cancelling"
      BY <2>1, <3>3, <3>4, <3>5 DEF IInv, Owned
    <3>7. \A b \in Branch : Op(b) \in sq' \cup cq' \/ kernel'[b] # "none"
                          => st'[b] = "pending" /\ kind'[b] = "io"
      BY <1>3, <2>1, <3>2, <3>3 DEF IInv, Owned, Ops
    <3>8. \A b \in Branch : /\ Op(b) \in sq' => kernel'[b] = "none"
                            /\ Op(b) \in cq' => kernel'[b] = "none"
                            /\ ~(Op(b) \in sq' /\ Op(b) \in cq')
      BY <1>3, <2>1, <3>2 DEF IInv, Owned
    <3>9. \A b \in Branch : /\ CancelOf(b) \in sq' \cup cq' => b \in asked'
                            /\ ~(CancelOf(b) \in sq' /\ CancelOf(b) \in cq')
      BY <2>1, <3>1 DEF IInv, Owned
    <3> QED  BY <3>6, <3>7, <3>8, <3>9 DEF Owned
  <2> QED  BY <2>4, <2>5, <2>6 DEF IInv
<1> QED  BY <1>4, <1>5

LEMMA ExpireInv == ASSUME IInv, NEW b \in Branch, Expire(b) PROVE IInv'
<1>1. /\ st[b] = "pending" /\ kind[b] = "timer" /\ caller = "waiting"
      /\ turn > N /\ Finished(b)
      /\ UNCHANGED <<kind, turn, parent, kernel, cq>>
  BY DEF Expire, Waiting
<1>2. Op(b) \notin sq \cup cq' /\ kernel[b] = "none"
  BY <1>1 DEF IInv, Owned
<1>3. turn' \in turn .. N + 1 /\ b < turn'
  BY <1>1, WhenAnyAssumption DEF IInv, TypeOK, Branch
<1> QED  BY <1>1, <1>2, <1>3, FinishedInv

LEMMA ReapInv == ASSUME IInv, NEW b \in Branch, Reap(b) PROVE IInv'
<1>1. /\ Op(b) \in cq /\ caller = "waiting" /\ turn > N
      /\ Finished(b) /\ cq' = cq \ {Op(b)}
      /\ UNCHANGED <<kind, turn, parent, kernel>>
  BY DEF Reap, Waiting
<1>2. st[b] = "pending" /\ Op(b) \notin sq \cup cq' /\ kernel[b] = "none"
  BY <1>1 DEF IInv, Owned
<1>3. turn' \in turn .. N + 1 /\ b < turn'
  BY <1>1, WhenAnyAssumption DEF IInv, TypeOK, Branch
<1> QED  BY <1>1, <1>2, <1>3, FinishedInv

\* The parent cancels first: nobody has won, and nobody will.
LEMMA ParentCancelInv == ASSUME IInv, ParentCancel PROVE IInv'
<1>1. /\ caller = "waiting" /\ parent' = TRUE
      /\ UNCHANGED <<kind, turn, first, kernel, cq>>
  BY DEF ParentCancel, Waiting
<1>2. CASE mCanceled
  <2>1. UNCHANGED <<mCanceled, asked, mCancellers, sq, st, mCount, result, caller>>
    BY <1>2 DEF ParentCancel, tasks
  <2>2. TypeOK' /\ Decision' /\ Owned'
    BY <1>1, <2>1 DEF IInv, TypeOK, Decision, Owned, Live
  <2> QED  BY <2>2 DEF IInv
<1>3. CASE ~mCanceled
  <2> DEFINE ios == Told(Parent) \cap Ops
             resumed == Told(Parent) \ Ops
  <2>1. /\ mCanceled' = TRUE /\ asked' = ios /\ mCancellers' = ios
        /\ sq' = sq \cup CancelEntries(ios) /\ Return(resumed, result)
    BY <1>3 DEF ParentCancel, DoCancel
  <2>2. Parent = 0 /\ Parent \in 0 .. N
    BY WhenAnyAssumption DEF Parent
  <2>3. /\ Told(Parent) \subseteq Live
        /\ \A b \in Told(Parent) : b \in Branch /\ st[b] = "pending" /\ b < turn
    BY <1>3, <2>2, ToldFacts
  <2>4. first = 0 /\ result = 0 /\ \A b \in Branch : st[b] # "cancelling"
    BY <1>3 DEF IInv, TypeOK, Decision, Branch
  <2>5. /\ st' \in [Branch -> {"new", "pending", "cancelling", "done"}]
        /\ \A b \in Branch : st'[b] = IF b \in resumed THEN "done" ELSE st[b]
        /\ Live' = Live \ resumed /\ mCount' = Cardinality(Live')
        /\ result' = result /\ caller' \in {"waiting", "value", "threw"}
        /\ caller' # "waiting" => Live' = {} /\ (caller' = "value" <=> result # 0)
    <3>1. resumed \in SUBSET Live /\ TypeOK /\ result \in 0 .. N
      BY <2>3 DEF IInv, TypeOK
    <3> HIDE DEF resumed
    <3> QED  BY <2>1, <3>1, ReturnFacts
  <2>6. sq' \subseteq Entry /\ ios \subseteq Branch
    BY <2>1, <2>3 DEF IInv, TypeOK, CancelEntries, CancelOf, Entry
  <2>7. TypeOK'
    BY <1>1, <2>1, <2>5, <2>6 DEF IInv, TypeOK
  <2>8. Decision'
    BY <1>1, <2>1, <2>3, <2>4, <2>5 DEF IInv, TypeOK, Decision, Branch
  <2>9. Owned'
    BY <1>1, <1>3, <2>1, <2>2, <2>4, <2>5, CancelOwned
  <2> QED  BY <2>7, <2>8, <2>9 DEF IInv
<1> QED  BY <1>2, <1>3

\* A callback of doCancel ends; with the last one the winner returns.
LEMMA ReapCancelInv == ASSUME IInv, NEW b \in Branch, ReapCancel(b) PROVE IInv'
<1>1. /\ CancelOf(b) \in cq /\ cq' = cq \ {CancelOf(b)} /\ asked' = asked \ {b}
      /\ UNCHANGED <<kind, turn, mCanceled, first, parent, sq, kernel>>
  BY DEF ReapCancel
<1>2. b \in asked
  BY <1>1 DEF IInv, Owned
<1>3. mCanceled
  BY <1>2 DEF IInv, Decision
<1>4. /\ \A c \in Branch : Op(c) \in cq' <=> Op(c) \in cq
      /\ \A c \in Branch : CancelOf(c) \in sq' \cup cq' => c \in asked'
      /\ \A c \in Branch : ~(CancelOf(c) \in sq' /\ CancelOf(c) \in cq')
  <2>1. CancelOf(b) \notin sq
    BY <1>1 DEF IInv, Owned
  <2> QED  BY <1>1, <2>1, EntriesDiffer DEF IInv, Owned
<1>5. CASE UNCHANGED tasks /\ (asked' = {} \/ UNCHANGED mCancellers)
  <2>1. UNCHANGED <<st, mCount, result, caller, Live>>
    BY <1>5 DEF tasks, Live
  <2>2. TypeOK'
    <3>1. mCancellers' \subseteq Branch
      BY <1>5 DEF IInv, TypeOK, ReapCancel
    <3> QED  BY <1>1, <2>1, <3>1 DEF IInv, TypeOK
  <2>3. Decision'
    BY <1>1, <1>3, <2>1 DEF IInv, Decision
  <2>4. Owned'
    BY <1>1, <1>4, <2>1 DEF IInv, Owned
  <2> QED  BY <2>2, <2>3, <2>4 DEF IInv
<1>6. CASE asked' = {} /\ \E w \in Branch : st[w] = "cancelling" /\ Return({w}, w)
  <2>1. PICK w \in Branch : st[w] = "cancelling" /\ Return({w}, w)
    BY <1>6
  <2>2. {w} \in SUBSET Live /\ w \in 0 .. N /\ w # 0 /\ TypeOK
    BY <2>1 DEF Live, IInv, Branch
  <2>3. /\ st' \in [Branch -> {"new", "pending", "cancelling", "done"}]
        /\ \A c \in Branch : st'[c] = IF c \in {w} THEN "done" ELSE st[c]
        /\ Live' = Live \ {w} /\ mCount' = Cardinality(Live')
        /\ result' = w /\ caller' \in {"waiting", "value", "threw"}
        /\ caller' # "waiting" => Live' = {} /\ (caller' = "value" <=> w # 0)
    BY <2>1, <2>2, ReturnFacts
  <2>4. w = first /\ \A c \in Branch : c # w => st[c] # "cancelling"
    BY <2>1 DEF IInv, Decision
  <2>5. mCancellers' = {}
    BY <1>6 DEF ReapCancel
  <2>6. TypeOK'
    BY <1>1, <2>2, <2>3, <2>5 DEF IInv, TypeOK
  <2>7. Decision'
    BY <1>1, <1>3, <2>1, <2>2, <2>3, <2>4 DEF IInv, TypeOK, Decision, Branch
  <2>8. Owned'
    BY <1>1, <1>4, <1>6, <2>1, <2>3 DEF IInv, Owned
  <2> QED  BY <2>6, <2>7, <2>8 DEF IInv
<1> QED  BY <1>5, <1>6 DEF ReapCancel

-----------------------------------------------------------------------------
LEMMA TakeOpInv == ASSUME IInv, NEW b \in Branch, TakeOp(b) PROVE IInv'
<1>1. /\ Op(b) \in sq /\ sq' = sq \ {Op(b)}
      /\ kernel' = [kernel EXCEPT ![b] = "branch"]
      /\ UNCHANGED <<kind, turn, mCancellers, mCanceled, asked, first, parent,
                     st, mCount, result, caller, cq, Live>>
  BY DEF TakeOp, source, tasks, Live
<1>2. TypeOK'
  BY <1>1 DEF IInv, TypeOK
<1>3. Decision'
  BY <1>1 DEF IInv, Decision
<1>4. Owned'
  <2>1. \A c \in Branch : (CancelOf(c) \in sq' <=> CancelOf(c) \in sq)
    BY <1>1, EntriesDiffer
  <2>2. \A c \in Branch : (Op(c) \in sq' <=> Op(c) \in sq /\ c # b)
    BY <1>1, EntriesDiffer
  <2>3. \A c \in Branch : kernel'[c] = IF c = b THEN "branch" ELSE kernel[c]
    BY <1>1 DEF IInv, TypeOK
  <2> QED  BY <1>1, <2>1, <2>2, <2>3 DEF IInv, Owned
<1> QED  BY <1>2, <1>3, <1>4 DEF IInv

LEMMA TakeCancelInv == ASSUME IInv, NEW b \in Branch, TakeCancel(b) PROVE IInv'
<1>1. /\ CancelOf(b) \in sq /\ Op(b) \notin sq /\ sq' = sq \ {CancelOf(b)}
      /\ UNCHANGED <<kind, turn, mCancellers, mCanceled, asked, first, parent,
                     st, mCount, result, caller, Live>>
  BY DEF TakeCancel, source, tasks, Live
<1>2. \/ /\ kernel[b] = "branch" /\ kernel' = [kernel EXCEPT ![b] = "none"]
         /\ cq' = cq \cup {CancelOf(b), Op(b)}
      \/ /\ kernel[b] = "branch" /\ kernel' = [kernel EXCEPT ![b] = "finishing"]
         /\ cq' = cq \cup {CancelOf(b)}
      \/ kernel' = kernel /\ cq' = cq \cup {CancelOf(b)}
  BY DEF TakeCancel
<1>3. Op(b) \in Entry /\ CancelOf(b) \in Entry
  BY DEF Op, CancelOf, Entry
<1>4. TypeOK'
  BY <1>1, <1>2, <1>3 DEF IInv, TypeOK
<1>5. Decision'
  BY <1>1 DEF IInv, Decision
<1>6. Owned'
  <2>1. \A c \in Branch : /\ Op(c) \in sq' <=> Op(c) \in sq
                          /\ CancelOf(c) \in sq' <=> CancelOf(c) \in sq /\ c # b
                          /\ CancelOf(c) \in cq' <=> CancelOf(c) \in cq \/ c = b
    BY <1>1, <1>2, EntriesDiffer
  <2>2. \A c \in Branch \ {b} : /\ kernel'[c] = kernel[c]
                                /\ Op(c) \in cq' <=> Op(c) \in cq
    BY <1>2, EntriesDiffer DEF IInv, TypeOK
  <2>3. Op(b) \in cq' \/ kernel'[b] # "none" => st[b] = "pending" /\ kind[b] = "io"
    BY <1>2, EntriesDiffer DEF IInv, TypeOK, Owned
  <2>4. Op(b) \in cq' => kernel'[b] = "none"
    BY <1>2, EntriesDiffer DEF IInv, TypeOK, Owned
  <2>5. \A c \in Branch : Op(c) \in sq' \cup cq' \/ kernel'[c] # "none"
                        => st'[c] = "pending" /\ kind'[c] = "io"
    BY <1>1, <2>1, <2>2, <2>3 DEF IInv, Owned
  <2>6. \A c \in Branch : /\ Op(c) \in sq' => kernel'[c] = "none"
                          /\ Op(c) \in cq' => kernel'[c] = "none"
                          /\ ~(Op(c) \in sq' /\ Op(c) \in cq')
    BY <1>1, <2>1, <2>2, <2>4 DEF IInv, Owned
  <2> QED  BY <1>1, <2>1, <2>5, <2>6 DEF IInv, Owned
<1> QED  BY <1>4, <1>5, <1>6 DEF IInv

LEMMA CompleteInv == ASSUME IInv, NEW b \in Branch, Complete(b) PROVE IInv'
<1>1. /\ kernel[b] # "none" /\ kernel' = [kernel EXCEPT ![b] = "none"]
      /\ cq' = cq \cup {Op(b)}
      /\ UNCHANGED <<kind, turn, mCancellers, mCanceled, asked, first, parent,
                     st, mCount, result, caller, sq, Live>>
  BY DEF Complete, source, tasks, Live
<1>2. TypeOK'
  BY <1>1 DEF IInv, TypeOK, Op, Entry
<1>3. Decision'
  BY <1>1 DEF IInv, Decision
<1>4. Owned'
  <2>1. \A c \in Branch : /\ CancelOf(c) \in cq' <=> CancelOf(c) \in cq
                          /\ Op(c) \in cq' <=> Op(c) \in cq \/ c = b
    BY <1>1, EntriesDiffer
  <2>2. \A c \in Branch : kernel'[c] = IF c = b THEN "none" ELSE kernel[c]
    BY <1>1 DEF IInv, TypeOK
  <2> QED  BY <1>1, <2>1, <2>2 DEF IInv, Owned
<1> QED  BY <1>2, <1>3, <1>4 DEF IInv

-----------------------------------------------------------------------------
LEMMA NextInv == IInv /\ [Next]_vars => IInv'
<1> SUFFICES ASSUME IInv, [Next]_vars PROVE IInv'
  OBVIOUS
<1>1. CASE Start
  BY <1>1, StartInv
<1>2. CASE ParentCancel
  BY <1>2, ParentCancelInv
<1>3. ASSUME NEW b \in Branch,
             \/ Expire(b) \/ Reap(b) \/ ReapCancel(b)
             \/ TakeOp(b) \/ TakeCancel(b) \/ Complete(b)
      PROVE  IInv'
  BY <1>3, ExpireInv, ReapInv, ReapCancelInv, TakeOpInv, TakeCancelInv, CompleteInv
<1>4. CASE UNCHANGED vars
  <2>1. UNCHANGED <<kind, turn, mCancellers, mCanceled, asked, first, parent,
                    st, mCount, result, caller, sq, kernel, cq, Live>>
    BY <1>4 DEF vars, source, tasks, uring, Live
  <2>2. TypeOK' /\ Decision' /\ Owned'
    BY <2>1 DEF IInv, TypeOK, Decision, Owned
  <2> QED  BY <2>2 DEF IInv
<1> QED  BY <1>1, <1>2, <1>3, <1>4 DEF Next, Over, Endless

(* The invariant of when_any holds for every number of branches, whatever   *)
(* they wait for.                                                           *)
THEOREM Invariant == Spec => []IInv
BY InitInv, NextInv, PTL DEF Spec

LEMMA InvFirstWins == IInv => FirstWins
<1> SUFFICES ASSUME IInv PROVE FirstWins
  OBVIOUS
<1>1. 1 \in Branch
  BY WhenAnyAssumption DEF Branch
<1>2. caller # "waiting" => Live = {} /\ mCanceled
  BY <1>1 DEF IInv, Decision
<1>3. caller # "waiting" /\ first # 0 => result # 0
  <2>1. first # 0 => first \in Branch
    BY WhenAnyAssumption DEF IInv, TypeOK, Branch
  <2> QED  BY <1>2, <2>1 DEF IInv, Decision, Live
<1> QED  BY <1>2, <1>3 DEF IInv, TypeOK, Decision, FirstWins

LEMMA InvNobodyLeft == IInv => NobodyLeft
<1> SUFFICES ASSUME IInv, caller # "waiting"
             PROVE  /\ \A b \in Branch : st[b] = "done" /\ kernel[b] = "none"
                    /\ \A e \in sq \cup cq : e.op = "cancel" /\ parent
                    /\ ~parent => asked = {}
  BY DEF NobodyLeft
<1>1. \A b \in Branch : st[b] = "done"
  BY DEF IInv, Decision, Live
<1>2. \A b \in Branch : kernel[b] = "none" /\ Op(b) \notin sq \cup cq
  BY <1>1 DEF IInv, Owned
<1>3. asked # {} => parent
  <2>1. first # 0 => first \in Branch
    BY WhenAnyAssumption DEF IInv, TypeOK, Branch
  <2>2. asked # {} => first = 0
    BY <1>1, <2>1 DEF IInv, Owned
  <2> QED  BY <2>2 DEF IInv, Decision
<1>4. ASSUME NEW e \in sq \cup cq PROVE e.op = "cancel" /\ parent
  <2>1. PICK b \in Branch : e = Op(b) \/ e = CancelOf(b)
    BY DEF IInv, TypeOK, Entry, Op, CancelOf
  <2>2. e = CancelOf(b) /\ e.op = "cancel"
    BY <1>2, <2>1 DEF CancelOf
  <2>3. asked # {}
    BY <2>2 DEF IInv, Owned
  <2> QED  BY <1>3, <2>2, <2>3
<1> QED  BY <1>1, <1>2, <1>3, <1>4

(* The first branch to finish gives the result, and an exception comes only *)
(* from a parent that cancelled before.                                     *)
THEOREM FirstBranchWins == Spec => []FirstWins
BY Invariant, InvFirstWins, PTL

(* When the caller resumes, no branch and no operation of a branch is left. *)
THEOREM NothingLeft == Spec => []NobodyLeft
BY Invariant, InvNobodyLeft, PTL
=============================================================================
