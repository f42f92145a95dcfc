-------------------------- MODULE CancelTreeProofs --------------------------
(***************************************************************************)
(* Cancellation of any number of sources and callbacks, in any trees: a    *)
(* cancel() that returns has told everybody once.  Then the list that the  *)
(* cancellers are in, and the tasks that await one another, of any number  *)
(* of frames.                                                              *)
(***************************************************************************)
EXTENDS CancelTree, SequenceTheorems, TLAPS

CONSTANTS root, nullptr
VARIABLES listNext, listPrev, place

\* The list that mCancellers is: its nodes are the cancellers.
L == INSTANCE IntrusiveList WITH Node <- Canceller

CONSTANTS Co, Nobody, Token, NoToken
VARIABLES st, running, stack, caller, callee, mResult, owned, plain, mCancelToken

\* The coroutines that run all this, and hand the tokens on.
T == INSTANCE Task

USE DEF TypeOK, Canceller, mCancellers

LEMMA InitInv == ASSUME NoSource \notin Canceller, Init PROVE IInv
BY DEF Init, IInv, Underway, Places, ToldOnce, NestedFirst

LEMMA RegisterInv ==
    ASSUME NoSource \notin Canceller, IInv, ~broken,
           NEW x \in Canceller, NEW s \in Source \cup {NoSource}, Register(x, s)
    PROVE  IInv'
<1> USE DEF IInv, Register
<1>1. TypeOK'
  BY DEF Places
<1>2. x \notin busy /\ \A u \in Source : x \notin tasks[u] /\ x \notin roll[u]
  BY DEF Places, ToldOnce
<1>3. Underway' /\ NestedFirst'
  BY <1>2 DEF Underway, NestedFirst
<1>4. Places'
  BY <1>2 DEF Places
<1>5. ToldOnce'
  BY <1>2 DEF ToldOnce
<1> QED  BY <1>1, <1>3, <1>4, <1>5

LEMMA CancelInv ==
    ASSUME NoSource \notin Canceller, IInv, ~broken,
           NEW s \in Source, Cancel(s)
    PROVE  IInv'
<1> USE DEF IInv, Cancel, Begin
<1>1. TypeOK'
  OBVIOUS
<1>2. tasks[s] = {} /\ waiting[s] = {} /\ s \notin busy
  BY DEF Underway
<1>3. Underway' /\ NestedFirst'
  BY <1>2 DEF Underway, NestedFirst
<1>4. Places'
  BY <1>2 DEF Places
<1>5. ToldOnce'
  BY <1>2 DEF ToldOnce, Places
<1> QED  BY <1>1, <1>3, <1>4, <1>5

LEMMA TellInv ==
    ASSUME NoSource \notin Canceller, IInv, ~broken,
           NEW s \in Source, NEW x \in Canceller, Tell(s, x)
    PROVE  IInv'
<1> USE DEF IInv
<1>1. /\ x \in alive \ told /\ listOf[x] = s /\ s \in busy
      /\ \A t \in Source \ {s} : x \notin tasks[t]
  BY DEF Tell, ToldOnce, Underway
<1>2. CASE x \in Source \ mCanceled
  <2>1. x # s /\ tasks[x] = {} /\ waiting[x] = {} /\ x \notin busy
    BY <1>1, <1>2 DEF Underway
  <2>2. /\ told' = told \cup {x} /\ mCanceled' = mCanceled \cup {x}
        /\ busy' = busy \cup {x}
        /\ tasks' = [tasks EXCEPT ![s] = @ \ {x}, ![x] = mCancellers(x)]
        /\ roll' = [roll EXCEPT ![x] = mCancellers(x)]
        /\ calledBy' = [calledBy EXCEPT ![x] = s]
        /\ waiting' = [waiting EXCEPT ![s] = @ \cup {x}]
        /\ UNCHANGED <<alive, listOf, broken>>
    BY <1>2 DEF Tell
  <2>3. TypeOK'
    BY <1>2, <2>2
  <2>4. Underway'
    BY <1>1, <1>2, <2>1, <2>2 DEF Underway
  <2>5. NestedFirst'
    BY <1>1, <1>2, <2>1, <2>2 DEF NestedFirst
  <2>6. Places'
    BY <1>1, <1>2, <2>1, <2>2 DEF Places
  <2>7. ToldOnce'
    BY <1>1, <1>2, <2>1, <2>2 DEF ToldOnce, Places
  <2> QED  BY <2>3, <2>4, <2>5, <2>6, <2>7
<1>3. CASE x \notin Source \ mCanceled
  <2>1. /\ told' = told \cup {x}
        /\ tasks' = [tasks EXCEPT ![s] = @ \ {x}]
        /\ waiting' = IF x \in mCanceled THEN waiting
                      ELSE [waiting EXCEPT ![s] = @ \cup {x}]
        /\ UNCHANGED <<alive, listOf, mCanceled, busy, roll, calledBy, broken>>
    BY <1>3 DEF Tell
  <2>2. x \notin mCanceled => x \notin Source
    BY <1>3
  <2>3. TypeOK'
    BY <2>1
  <2>4. Underway' /\ NestedFirst'
    BY <1>1, <2>1, <2>2 DEF Underway, NestedFirst
  <2>5. Places'
    BY <1>1, <2>1, <2>2 DEF Places
  <2>6. ToldOnce'
    BY <1>1, <2>1 DEF ToldOnce
  <2> QED  BY <2>3, <2>4, <2>5, <2>6
<1> QED  BY <1>2, <1>3

LEMMA AnswerInv ==
    ASSUME NoSource \notin Canceller, IInv, ~broken,
           NEW s \in Source, NEW x \in Canceller, Answer(s, x)
    PROVE  IInv'
BY DEF Answer, IInv, Underway, NestedFirst, Places, ToldOnce

LEMMA FinishInv ==
    ASSUME NoSource \notin Canceller, IInv, ~broken,
           NEW s \in Source, Finish(s)
    PROVE  IInv'
<1> USE DEF IInv, Finish
<1>1. TypeOK'
  OBVIOUS
<1>2. \A t \in Source \ {s} : calledBy[t] = s => t \notin busy
  BY DEF NestedFirst
<1>3. Underway'
  BY DEF Underway
<1>4. NestedFirst'
  BY <1>2 DEF NestedFirst, Underway
<1>5. Places'
  BY DEF Places
<1>6. ToldOnce'
  BY DEF ToldOnce
<1> QED  BY <1>1, <1>3, <1>4, <1>5, <1>6

LEMMA DestroyInv ==
    ASSUME NoSource \notin Canceller, IInv, ~broken,
           NEW x \in Canceller, Destroy(x)
    PROVE  IInv'
<1> USE DEF IInv, Destroy
<1>1. TypeOK' /\ Underway' /\ NestedFirst'
  BY DEF Underway, NestedFirst
<1>2. CASE broken'
  BY <1>1, <1>2 DEF Places, ToldOnce
<1>3. CASE ~broken'
  <2>1. x \notin busy /\ \A s \in Source : x \notin tasks[s]
    BY <1>3
  <2>2. \A y \in Canceller : listOf'[y] # NoSource =>
            listOf'[y] = listOf[y] /\ listOf[y] # x /\ y # x
    OBVIOUS
  <2>3. \A y \in Canceller : y # x /\ listOf[y] # x => listOf'[y] = listOf[y]
    OBVIOUS
  <2>4. Places'
    BY <1>1, <2>1, <2>2 DEF Places
  <2>5. ToldOnce'
    BY <2>1, <2>3 DEF ToldOnce, Underway
  <2> QED  BY <1>1, <2>4, <2>5
<1> QED  BY <1>2, <1>3

LEMMA StepInv ==
    ASSUME NoSource \notin Canceller, IInv, [Next]_vars PROVE IInv'
<1>1. CASE UNCHANGED vars
  BY <1>1 DEF vars, IInv, Underway, Places, ToldOnce, NestedFirst
<1>2. CASE Next
  BY <1>2, RegisterInv, CancelInv, TellInv, AnswerInv, FinishInv, DestroyInv
     DEF Next
<1> QED  BY <1>1, <1>2

LEMMA Invariant ==
    ASSUME NoSource \notin Canceller PROVE Spec => []IInv
BY InitInv, StepInv, PTL DEF Spec

(* A cancel() that returns has told everybody who was registered when it   *)
(* was called, and each of them once, unless user code destroyed an object *)
(* that was still to be told.                                              *)
THEOREM CancelTellsAll ==
    ASSUME NoSource \notin Canceller PROVE Spec => [](AllTold /\ ToldOnce)
<1>1. IInv => AllTold /\ ToldOnce
  BY DEF IInv, Places, Underway, AllTold, ToldOnce, Returned
<1> QED  BY <1>1, Invariant, PTL

(* doCancel returns only after the doCancels that it runs of nested        *)
(* sources.                                                                *)
THEOREM CancelWaits ==
    ASSUME NoSource \notin Canceller PROVE Spec => []NestedFirst
<1>1. IInv => NestedFirst
  BY DEF IInv
<1> QED  BY <1>1, Invariant, PTL

-----------------------------------------------------------------------------
(* The list of cancellers stays one ring, whoever links and destroys nodes. *)

LEMMA LinkKeepsRing ==
    ASSUME root \notin Canceller, nullptr \notin L!All, L!IInv,
           NEW n \in Canceller, NEW p \in L!Linked, L!LinkBehind(n, p)
    PROVE  L!IInv'
<1> DEFINE q == listNext[p]
<1> USE DEF L!IInv, L!All, L!Linked
<1>1. /\ n \in Canceller \ L!Linked /\ n # root /\ n # p /\ n # q
      /\ q \in L!Linked /\ listPrev[q] = p
  BY DEF L!LinkBehind, L!TwoWay
<1>2. /\ listNext' = [listNext EXCEPT ![n] = q, ![p] = n]
      /\ listPrev' = [listPrev EXCEPT ![n] = p, ![q] = n]
      /\ place' = [m \in L!All |-> IF m = n THEN place[p] + 1
                                 ELSE IF place[m] > place[p] THEN place[m] + 1
                                 ELSE place[m]]
  BY DEF L!LinkBehind
<1> HIDE DEF q
<1>3. L!TypeOK'
  BY <1>1, <1>2 DEF L!TypeOK
<1>4. L!Linked' = L!Linked \cup {n}
  BY <1>1, <1>2 DEF L!TypeOK
<1>5. L!TwoWay'
  BY <1>1, <1>2, <1>4 DEF L!TypeOK, L!TwoWay
<1>6. L!OneRing'
  <2>1. place'[root] = 0
    BY <1>1, <1>2 DEF L!TypeOK, L!OneRing
  <2>2. ASSUME NEW m \in L!Linked', listNext'[m] # root
        PROVE  place'[m] < place'[listNext'[m]]
    <3>1. CASE m = n
      BY <1>1, <1>2, <2>2, <3>1 DEF L!TypeOK, L!OneRing, q
    <3>2. CASE m = p
      BY <1>1, <1>2, <2>2, <3>2 DEF L!TypeOK
    <3>3. CASE m # n /\ m # p
      <4>1. m \in L!Linked /\ listNext'[m] = listNext[m] /\ listNext[m] # n
        BY <1>1, <1>2, <1>4, <3>3 DEF L!TypeOK, L!TwoWay
      <4> QED  BY <1>1, <1>2, <2>2, <3>3, <4>1 DEF L!TypeOK, L!OneRing
    <3> QED  BY <3>1, <3>2, <3>3
  <2> QED  BY <2>1, <2>2 DEF L!OneRing
<1> QED  BY <1>3, <1>5, <1>6

LEMMA UnlinkKeepsRing ==
    ASSUME root \notin Canceller, nullptr \notin L!All, L!IInv,
           NEW n \in L!Linked \ {root}, L!Unlink(n)
    PROVE  L!IInv'
<1> USE DEF L!IInv, L!All, L!Linked
<1> DEFINE p == listPrev[n]  q == listNext[n]
<1>1. /\ p \in L!Linked /\ q \in L!Linked /\ p # n /\ q # n
      /\ listNext[p] = n /\ listPrev[q] = n
  BY DEF L!TwoWay, L!OneRing, L!TypeOK
<1>2. /\ listNext' = [listNext EXCEPT ![p] = q, ![n] = nullptr]
      /\ listPrev' = [listPrev EXCEPT ![q] = p, ![n] = nullptr]
      /\ place' = place
  BY DEF L!Unlink
<1>3. place[p] < place[n] /\ (q # root => place[n] < place[q])
  BY <1>1 DEF L!OneRing
<1> HIDE DEF p, q
<1>4. L!TypeOK' /\ L!Linked' = L!Linked \ {n}
  BY <1>1, <1>2 DEF L!TypeOK
<1>5. L!TwoWay'
  BY <1>1, <1>2, <1>4 DEF L!TypeOK, L!TwoWay, p, q
<1>6. L!OneRing'
  BY <1>1, <1>2, <1>3, <1>4 DEF L!TypeOK, L!OneRing
<1> QED  BY <1>4, <1>5, <1>6

LEMMA ListStepInv ==
    ASSUME root \notin Canceller, nullptr \notin L!All, L!IInv, [L!Next]_(L!vars)
    PROVE  L!IInv'
<1>1. CASE UNCHANGED L!vars
  BY <1>1 DEF L!vars, L!IInv, L!TypeOK, L!TwoWay, L!OneRing, L!Linked
<1>2. /\ root \in L!Linked
      /\ \A n \in L!Linked : listPrev[n] \in L!Linked /\ listNext[n] \in L!Linked
  BY DEF L!IInv, L!TwoWay
<1>3. ASSUME NEW n \in Canceller, \/ L!push_front(n) \/ L!push_back(n) \/ L!erase(n)
                             \/ L!erase_from_parent(n)
      PROVE  L!IInv'
  BY <1>1, <1>2, <1>3, LinkKeepsRing, UnlinkKeepsRing
     DEF L!push_front, L!push_back, L!erase, L!erase_from_parent
<1>4. ASSUME NEW p \in Canceller, NEW n \in Canceller,
             L!insert_after(p, n) \/ L!insert_before(p, n)
      PROVE  L!IInv'
  BY <1>2, <1>4, LinkKeepsRing DEF L!insert_after, L!insert_before
<1>5. CASE L!pop_front \/ L!pop_back
  BY <1>2, <1>5, UnlinkKeepsRing DEF L!pop_front, L!pop_back
<1>6. CASE L!clear
  BY <1>6 DEF L!clear, L!IInv, L!TypeOK, L!TwoWay, L!OneRing, L!Linked, L!All
<1> QED  BY <1>1, <1>3, <1>4, <1>5, <1>6 DEF L!Next

(* Whatever the order in which nodes are linked, taken out and destroyed,  *)
(* the list is one ring that can be walked both ways.                      *)
THEOREM ListInvariant ==
    ASSUME root \notin Canceller, nullptr \notin L!All PROVE L!Spec => []L!IInv
<1>1. ASSUME L!Init PROVE L!IInv
  <2>1. L!Linked = {root}
    BY <1>1 DEF L!Init, L!Linked, L!All
  <2>2. L!TypeOK
    BY <1>1 DEF L!Init, L!TypeOK, L!All
  <2> QED  BY <1>1, <2>1, <2>2 DEF L!Init, L!IInv, L!TwoWay, L!OneRing, L!All
<1> QED  BY <1>1, ListStepInv, PTL DEF L!Spec

(* empty() is never true, as it compares with nullptr what is root when     *)
(* the list is empty: doCancel awaits when_all also of no tasks.           *)
THEOREM NeverEmpty ==
    ASSUME root \notin Canceller, nullptr \notin L!All PROVE L!Spec => []~L!empty
<1>1. L!IInv => ~L!empty
  BY DEF L!IInv, L!TwoWay, L!Linked, L!empty, L!All
<1> QED  BY <1>1, ListInvariant, PTL
-----------------------------------------------------------------------------
(* Task, for every set of frames: one coroutine has the thread, whoever    *)
(* waits waits for a coroutine under way, and finds a result when it is    *)
(* resumed.                                                                *)
USE DEF T!TypeOK, T!State, T!Result, T!Active, T!links

In(c, s) == \E i \in DOMAIN s : s[i] = c
Once(s) == \A i, j \in DOMAIN s : s[i] = s[j] => i = j

LEMMA PushOnce ==
    ASSUME NEW s \in Seq(Co), NEW c \in Co, ~In(c, s), Once(s)
    PROVE  LET t == <<c>> \o s
           IN  /\ t \in Seq(Co) /\ Once(t)
               /\ \A e : In(e, t) <=> e = c \/ In(e, s)
<1> DEFINE t == <<c>> \o s
<1>1. /\ t \in Seq(Co) /\ Len(t) = Len(s) + 1 /\ t[1] = c
      /\ \A i \in 1 .. Len(s) : t[i + 1] = s[i]
  OBVIOUS
<1>2. /\ Len(s) \in Nat /\ DOMAIN s = 1 .. Len(s)
      /\ DOMAIN t = 1 .. Len(s) + 1
  BY <1>1
<1> HIDE DEF t
<1>3. \A i \in DOMAIN t : i # 1 => i - 1 \in DOMAIN s /\ t[i] = s[i - 1]
  BY <1>1, <1>2
<1>4. Once(t)
  BY <1>1, <1>2, <1>3 DEF Once, In
<1>5. ASSUME NEW e PROVE In(e, t) <=> e = c \/ In(e, s)
  <2>1. ASSUME In(e, s) PROVE In(e, t)
    <3>1. PICK i \in DOMAIN s : s[i] = e
      BY <2>1 DEF In
    <3>2. i + 1 \in DOMAIN t /\ t[i + 1] = e
      BY <1>1, <1>2, <3>1
    <3> QED  BY <3>2 DEF In
  <2>2. In(c, t)
    <3>1. 1 \in DOMAIN t
      BY <1>2
    <3> QED  BY <1>1, <3>1 DEF In
  <2>3. ASSUME In(e, t) PROVE e = c \/ In(e, s)
    BY <1>1, <1>3, <2>3 DEF In
  <2> QED  BY <2>1, <2>2, <2>3
<1> QED  BY <1>1, <1>4, <1>5 DEF t

LEMMA PopOnce ==
    ASSUME NEW s \in Seq(Co), s # <<>>, Once(s)
    PROVE  /\ Head(s) \in Co /\ Tail(s) \in Seq(Co) /\ Once(Tail(s))
           /\ \A e : In(e, Tail(s)) <=> e # Head(s) /\ In(e, s)
           /\ In(Head(s), s)
<1> DEFINE t == Tail(s)
<1>1. /\ Head(s) \in Co /\ t \in Seq(Co) /\ Len(t) = Len(s) - 1
      /\ \A i \in 1 .. Len(t) : t[i] = s[i + 1]
  BY HeadTailProperties
<1>2. /\ Len(s) \in Nat \ {0} /\ DOMAIN s = 1 .. Len(s) /\ Head(s) = s[1]
      /\ DOMAIN t = 1 .. Len(s) - 1
  BY <1>1, EmptySeq
<1> HIDE DEF t
<1>3. \A i \in DOMAIN s : i # 1 => i - 1 \in DOMAIN t /\ s[i] = t[i - 1]
  BY <1>1, <1>2
<1>4. \A i \in DOMAIN t : i + 1 \in DOMAIN s /\ i + 1 # 1 /\ t[i] = s[i + 1]
  BY <1>1, <1>2
<1>5. 1 \in DOMAIN s
  BY <1>2
<1>6. Once(t)
  BY <1>2, <1>4 DEF Once
<1>7. ASSUME NEW e PROVE In(e, t) <=> e # Head(s) /\ In(e, s)
  <2>1. ASSUME In(e, t) PROVE e # Head(s) /\ In(e, s)
    <3>1. PICK i \in DOMAIN t : t[i] = e
      BY <2>1 DEF In
    <3>2. i + 1 \in DOMAIN s /\ s[i + 1] = e /\ i + 1 # 1
      BY <1>4, <3>1
    <3> QED  BY <3>2, <1>2, <1>5 DEF In, Once
  <2>2. ASSUME e # Head(s), In(e, s) PROVE In(e, t)
    BY <1>2, <1>3, <2>2 DEF In
  <2> QED  BY <2>1, <2>2
<1> QED  BY <1>1, <1>2, <1>5, <1>6, <1>7 DEF t, In

LEMMA TaskInitInv == ASSUME Nobody \notin Co, NoToken \in Token, T!Init PROVE T!IInv
BY DEF T!Init, T!IInv, T!OneRuns, T!WaitsForActive, T!CalledOrSpawned,
       T!StarterWaits, T!ResumedWithResult, T!TokenOfCaller

LEMMA TaskCreateInv ==
    ASSUME Nobody \notin Co, NoToken \in Token, T!IInv, NEW d \in Co, T!Create(d)
    PROVE  T!IInv'
<1> USE DEF T!IInv, T!Create
<1>1. T!TypeOK'
  OBVIOUS
<1>2. T!OneRuns'
  BY DEF T!OneRuns
<1>3. T!WaitsForActive'
  BY DEF T!WaitsForActive
<1>4. T!CalledOrSpawned'
  BY DEF T!CalledOrSpawned
<1>5. T!StarterWaits' /\ T!ResumedWithResult' /\ T!TokenOfCaller'
  BY DEF T!StarterWaits, T!ResumedWithResult, T!TokenOfCaller, T!WaitsForActive
<1> QED  BY <1>1, <1>2, <1>3, <1>4, <1>5

LEMMA TaskBindInv ==
    ASSUME Nobody \notin Co, T!IInv, NEW c \in Co, NEW d \in Co, NEW t \in Token,
           T!Bind(c, d, t)
    PROVE  T!IInv'
BY DEF T!Bind, T!IInv, T!OneRuns, T!WaitsForActive, T!CalledOrSpawned,
       T!StarterWaits, T!ResumedWithResult, T!TokenOfCaller

LEMMA TaskAwaitInv ==
    ASSUME Nobody \notin Co, T!IInv, NEW c \in Co, NEW d \in Co,
           NEW rvalue \in BOOLEAN, T!Await(c, d, rvalue)
    PROVE  T!IInv'
<1> USE DEF T!IInv, T!Await, T!HandLocals, T!MakeAwaiter, T!Runs
<1>1. T!TypeOK'
  OBVIOUS
<1>2. c # d /\ ~plain[d]
  BY DEF T!StarterWaits
<1>3. \A e \in Co \ {c} : st[e] = "wait" => callee[e] # d
  BY DEF T!WaitsForActive
<1>4. T!OneRuns' /\ T!StarterWaits'
  BY <1>2 DEF T!OneRuns, T!StarterWaits
<1>5. T!WaitsForActive'
  BY <1>2, <1>3 DEF T!WaitsForActive
<1>6. T!CalledOrSpawned'
  BY <1>2 DEF T!CalledOrSpawned
<1>7. T!ResumedWithResult'
  BY <1>2 DEF T!ResumedWithResult, T!OneRuns
<1>8. T!TokenOfCaller'
  BY <1>2, <1>3 DEF T!TokenOfCaller, T!WaitsForActive
<1> QED  BY <1>1, <1>4, <1>5, <1>6, <1>7, <1>8

LEMMA HandOverInv ==
    ASSUME Nobody \notin Co, T!IInv, NEW d \in Co,
           NEW state \in {"done", "yield"}, NEW result \in T!Result \ {"empty"},
           T!HandOver(d, state, result)
    PROVE  T!IInv'
<1> USE DEF T!IInv, T!HandOver, T!Runs
<1>1. T!TypeOK'
  OBVIOUS
<1>2. caller[d] \in Co /\ st[caller[d]] = "wait" /\ callee[caller[d]] = d
      /\ ~plain[d]
  BY DEF T!CalledOrSpawned, T!StarterWaits
<1>3. T!OneRuns' /\ T!StarterWaits'
  BY <1>2 DEF T!OneRuns, T!StarterWaits
<1>4. T!WaitsForActive'
  BY <1>2 DEF T!WaitsForActive
<1>5. T!CalledOrSpawned'
  BY <1>2 DEF T!CalledOrSpawned
<1>6. T!ResumedWithResult' /\ T!TokenOfCaller'
  BY <1>2 DEF T!ResumedWithResult, T!TokenOfCaller, T!OneRuns
<1> QED  BY <1>1, <1>3, <1>4, <1>5, <1>6

LEMMA AwaitResumeInv ==
    ASSUME Nobody \notin Co, T!IInv, NEW c \in Co, T!AwaitResume(c)
    PROVE  T!IInv'
<1> USE DEF T!IInv, T!AwaitResume
<1>1. callee[c] \in Co /\ st[callee[c]] \in {"yield", "done"}
  BY DEF T!ResumedWithResult
<1>2. T!TypeOK'
  BY <1>1
<1>3. T!OneRuns' /\ T!StarterWaits'
  BY <1>1 DEF T!OneRuns, T!StarterWaits
<1>4. T!WaitsForActive'
  BY <1>1 DEF T!WaitsForActive
<1>5. T!CalledOrSpawned'
  BY <1>1 DEF T!CalledOrSpawned
<1>6. T!ResumedWithResult' /\ T!TokenOfCaller'
  BY <1>1 DEF T!ResumedWithResult, T!TokenOfCaller, T!OneRuns
<1> QED  BY <1>2, <1>3, <1>4, <1>5, <1>6

LEMMA TaskDropInv ==
    ASSUME Nobody \notin Co, T!IInv, NEW c \in Co, NEW d \in Co, T!Drop(c, d)
    PROVE  T!IInv'
<1> USE DEF T!IInv, T!Drop, T!Runs
<1>1. T!TypeOK' /\ T!OneRuns' /\ T!StarterWaits'
  BY DEF T!OneRuns, T!StarterWaits
<1>2. T!WaitsForActive' /\ T!CalledOrSpawned'
  BY DEF T!WaitsForActive, T!CalledOrSpawned
<1>3. T!ResumedWithResult' /\ T!TokenOfCaller'
  BY DEF T!ResumedWithResult, T!TokenOfCaller, T!OneRuns
<1> QED  BY <1>1, <1>2, <1>3

LEMMA TaskSuspendInv ==
    ASSUME Nobody \notin Co, T!IInv, NEW c \in Co, T!Suspend(c)
    PROVE  T!IInv'
<1> USE DEF T!IInv, T!Suspend, T!Runs, T!GiveBack
<1>1. Once(stack) /\ \A e \in Co : In(e, stack) <=> st[e] = "nest"
  BY DEF T!OneRuns, Once, In
<1>2. CASE stack = <<>>
  <2>1. T!TypeOK' /\ T!OneRuns' /\ T!StarterWaits'
    BY <1>2 DEF T!OneRuns, T!StarterWaits
  <2>2. T!WaitsForActive'
    BY <1>2 DEF T!WaitsForActive
  <2>3. T!CalledOrSpawned'
    BY <1>2 DEF T!CalledOrSpawned
  <2>4. T!ResumedWithResult' /\ T!TokenOfCaller'
    BY <1>2 DEF T!ResumedWithResult, T!TokenOfCaller, T!OneRuns
  <2> QED  BY <2>1, <2>2, <2>3, <2>4
<1>3. CASE stack # <<>>
  <2> DEFINE b == Head(stack)
  <2>1. /\ b \in Co /\ Tail(stack) \in Seq(Co) /\ Once(Tail(stack))
        /\ \A e : In(e, Tail(stack)) <=> e # b /\ In(e, stack)
        /\ In(b, stack)
    BY <1>1, <1>3, PopOnce
  <2>2. st[b] = "nest" /\ b # c
    BY <1>1, <2>1
  <2>3. /\ running' = b /\ stack' = Tail(stack)
        /\ st' = [st EXCEPT ![c] = "op", ![b] = "run"]
    BY <1>3
  <2> HIDE DEF b
  <2>4. T!TypeOK' /\ T!StarterWaits'
    BY <2>1, <2>2, <2>3 DEF T!StarterWaits
  <2>5. T!OneRuns'
    <3>1. \A e \in Co : st'[e] \in {"run", "resume"} <=> e = running'
      BY <2>1, <2>2, <2>3 DEF T!OneRuns
    <3>2. \A e \in Co : st'[e] = "nest" <=> In(e, stack')
      BY <1>1, <2>1, <2>2, <2>3
    <3> QED  BY <2>1, <2>3, <3>1, <3>2 DEF T!OneRuns, In, Once
  <2>6. T!WaitsForActive'
    BY <2>1, <2>2, <2>3 DEF T!WaitsForActive
  <2>7. T!CalledOrSpawned'
    BY <2>1, <2>2, <2>3 DEF T!CalledOrSpawned
  <2>8. T!ResumedWithResult' /\ T!TokenOfCaller'
    BY <2>1, <2>2, <2>3 DEF T!ResumedWithResult, T!TokenOfCaller, T!OneRuns
  <2> QED  BY <2>4, <2>5, <2>6, <2>7, <2>8
<1> QED  BY <1>2, <1>3

LEMMA TaskResumeInv ==
    ASSUME Nobody \notin Co, T!IInv, NEW c \in Co, T!Resume(c)
    PROVE  T!IInv'
<1> USE DEF T!IInv, T!Resume, T!Calls, T!Below
<1>1. Once(stack) /\ \A e \in Co : In(e, stack) <=> st[e] = "nest"
  BY DEF T!OneRuns, Once, In
<1>2. CASE running = Nobody
  <2>1. T!TypeOK' /\ T!OneRuns' /\ T!StarterWaits'
    BY <1>2 DEF T!OneRuns, T!StarterWaits
  <2>2. T!WaitsForActive'
    BY <1>2 DEF T!WaitsForActive
  <2>3. T!CalledOrSpawned'
    BY <1>2 DEF T!CalledOrSpawned
  <2>4. T!ResumedWithResult' /\ T!TokenOfCaller'
    BY <1>2 DEF T!ResumedWithResult, T!TokenOfCaller, T!OneRuns
  <2> QED  BY <2>1, <2>2, <2>3, <2>4
<1>3. CASE running # Nobody
  <2>1. /\ running \in Co /\ st[running] = "run" /\ running # c
        /\ ~In(running, stack)
    BY <1>1, <1>3
  <2>2. /\ running' = c /\ stack' = <<running>> \o stack
        /\ st' = [st EXCEPT ![c] = "run", ![running] = "nest"]
    BY <1>3, <2>1
  <2>3. /\ stack' \in Seq(Co) /\ Once(stack')
        /\ \A e : In(e, stack') <=> e = running \/ In(e, stack)
    BY <1>1, <2>1, <2>2, PushOnce
  <2>4. T!TypeOK' /\ T!StarterWaits'
    BY <2>1, <2>2, <2>3 DEF T!StarterWaits
  <2>5. T!OneRuns'
    <3>1. \A e \in Co : st'[e] \in {"run", "resume"} <=> e = running'
      BY <2>1, <2>2 DEF T!OneRuns
    <3>2. \A e \in Co : st'[e] = "nest" <=> In(e, stack')
      BY <1>1, <2>1, <2>2, <2>3
    <3> QED  BY <2>3, <3>1, <3>2 DEF T!OneRuns, In, Once
  <2>6. T!WaitsForActive'
    BY <2>1, <2>2 DEF T!WaitsForActive
  <2>7. T!CalledOrSpawned'
    BY <2>1, <2>2 DEF T!CalledOrSpawned
  <2>8. T!ResumedWithResult' /\ T!TokenOfCaller'
    BY <2>1, <2>2 DEF T!ResumedWithResult, T!TokenOfCaller, T!OneRuns
  <2> QED  BY <2>4, <2>5, <2>6, <2>7, <2>8
<1> QED  BY <1>2, <1>3

\* The links of a starter and its task, whatever the thread does.
LEMMA SpawnInv ==
    ASSUME Nobody \notin Co, T!IInv, NEW r \in Co, NEW d \in Co, T!co_spawn(r, d)
    PROVE  T!IInv'
<1> USE DEF T!IInv, T!co_spawn, T!MakeAwaiter, T!Calls, T!Below
<1>1. Once(stack) /\ \A e \in Co : In(e, stack) <=> st[e] = "nest"
  BY DEF T!OneRuns, Once, In
<1>2. r # d /\ ~plain[d]
  BY DEF T!StarterWaits
<1>3. \A e \in Co : st[e] = "wait" => callee[e] # d /\ callee[e] # r
  BY DEF T!WaitsForActive
<1>4. CASE running = Nobody
  <2>1. /\ running' = d /\ stack' = stack
        /\ st' = [st EXCEPT ![r] = "wait", ![d] = "run"]
    BY <1>4
  <2>2. T!OneRuns'
    BY <1>2, <1>4, <2>1 DEF T!OneRuns
  <2>6. T!TypeOK' /\ T!StarterWaits'
    BY <1>2, <2>1 DEF T!StarterWaits
  <2>3. T!WaitsForActive'
    BY <1>2, <1>3, <2>1 DEF T!WaitsForActive
  <2>4. T!CalledOrSpawned'
    BY <1>2, <2>1 DEF T!CalledOrSpawned
  <2>5. T!ResumedWithResult' /\ T!TokenOfCaller'
    BY <1>2, <1>4, <2>1 DEF T!ResumedWithResult, T!TokenOfCaller, T!OneRuns
  <2> QED  BY <2>2, <2>3, <2>4, <2>5, <2>6
<1>5. CASE running # Nobody
  <2>1. /\ running \in Co /\ st[running] = "run"
        /\ running # r /\ running # d /\ ~In(running, stack)
    BY <1>1, <1>5
  <2>2. /\ running' = d /\ stack' = <<running>> \o stack
        /\ st' = [st EXCEPT ![r] = "wait", ![d] = "run", ![running] = "nest"]
    BY <1>5, <2>1
  <2>3. /\ stack' \in Seq(Co) /\ Once(stack')
        /\ \A e : In(e, stack') <=> e = running \/ In(e, stack)
    BY <1>1, <2>1, <2>2, PushOnce
  <2>4. T!TypeOK' /\ T!StarterWaits'
    BY <1>2, <2>1, <2>2, <2>3 DEF T!StarterWaits
  <2>5. T!OneRuns'
    <3>1. \A e \in Co : st'[e] \in {"run", "resume"} <=> e = running'
      BY <1>2, <2>1, <2>2 DEF T!OneRuns
    <3>2. \A e \in Co : st'[e] = "nest" <=> In(e, stack')
      BY <1>1, <1>2, <2>1, <2>2, <2>3
    <3> QED  BY <2>3, <3>1, <3>2 DEF T!OneRuns, In, Once
  <2>6. T!WaitsForActive'
    BY <1>2, <1>3, <2>1, <2>2 DEF T!WaitsForActive
  <2>7. T!CalledOrSpawned'
    BY <1>2, <2>1, <2>2 DEF T!CalledOrSpawned
  <2>8. T!ResumedWithResult' /\ T!TokenOfCaller'
    BY <1>2, <2>1, <2>2 DEF T!ResumedWithResult, T!TokenOfCaller, T!OneRuns
  <2> QED  BY <2>4, <2>5, <2>6, <2>7, <2>8
<1> QED  BY <1>4, <1>5

LEMMA SpawnEndsInv ==
    ASSUME Nobody \notin Co, T!IInv, NEW r \in Co, T!SpawnEnds(r)
    PROVE  T!IInv'
<1> USE DEF T!IInv, T!SpawnEnds, T!GiveBack
<1>1. Once(stack) /\ \A e \in Co : In(e, stack) <=> st[e] = "nest"
  BY DEF T!OneRuns, Once, In
<1>2. callee[r] \in Co /\ st[callee[r]] \in {"yield", "done"} /\ callee[r] # r
  BY DEF T!ResumedWithResult
<1>3. \A e \in Co : st[e] = "wait" => callee[e] # r
  BY DEF T!WaitsForActive, T!CalledOrSpawned, T!StarterWaits
<1>4. CASE stack = <<>>
  <2>1. /\ running' = Nobody /\ stack' = stack
        /\ st' = [st EXCEPT ![r] = "none", ![callee[r]] = "none"]
    BY <1>4
  <2>2. T!OneRuns'
    BY <1>2, <1>4, <2>1 DEF T!OneRuns
  <2>3. T!TypeOK' /\ T!StarterWaits'
    BY <1>2, <2>1 DEF T!StarterWaits
  <2>4. T!WaitsForActive'
    BY <1>2, <1>3, <2>1 DEF T!WaitsForActive
  <2>5. T!CalledOrSpawned'
    BY <1>2, <2>1 DEF T!CalledOrSpawned
  <2>6. T!ResumedWithResult' /\ T!TokenOfCaller'
    BY <1>2, <2>1 DEF T!ResumedWithResult, T!TokenOfCaller, T!OneRuns
  <2> QED  BY <2>2, <2>3, <2>4, <2>5, <2>6
<1>5. CASE stack # <<>>
  <2> DEFINE b == Head(stack)
  <2>1. /\ b \in Co /\ Tail(stack) \in Seq(Co) /\ Once(Tail(stack))
        /\ \A e : In(e, Tail(stack)) <=> e # b /\ In(e, stack)
        /\ In(b, stack)
    BY <1>1, <1>5, PopOnce
  <2>2. st[b] = "nest" /\ b # r /\ b # callee[r]
    BY <1>1, <1>2, <2>1
  <2>3. /\ running' = b /\ stack' = Tail(stack)
        /\ st' = [st EXCEPT ![r] = "none", ![callee[r]] = "none", ![b] = "run"]
    BY <1>5
  <2> HIDE DEF b
  <2>4. T!TypeOK' /\ T!StarterWaits'
    BY <1>2, <2>1, <2>2, <2>3 DEF T!StarterWaits
  <2>5. T!OneRuns'
    <3>1. \A e \in Co : st'[e] \in {"run", "resume"} <=> e = running'
      BY <1>2, <2>1, <2>2, <2>3 DEF T!OneRuns
    <3>2. \A e \in Co : st'[e] = "nest" <=> In(e, stack')
      BY <1>1, <1>2, <2>1, <2>2, <2>3
    <3> QED  BY <2>1, <2>3, <3>1, <3>2 DEF T!OneRuns, In, Once
  <2>6. T!WaitsForActive'
    BY <1>2, <1>3, <2>1, <2>2, <2>3 DEF T!WaitsForActive
  <2>7. /\ \A e \in Co : st[e] = "wait" <=> st'[e] = "wait"
        /\ \A e \in Co : st'[e] \in T!Active => st[e] \in T!Active
        /\ \A e \in Co : st'[e] # "resume"
    BY <1>2, <2>1, <2>2, <2>3 DEF T!OneRuns
  <2>8. T!CalledOrSpawned'
    BY <2>7 DEF T!CalledOrSpawned
  <2>9. T!ResumedWithResult' /\ T!TokenOfCaller'
    BY <2>7 DEF T!ResumedWithResult, T!TokenOfCaller
  <2> QED  BY <2>4, <2>5, <2>6, <2>8, <2>9
<1> QED  BY <1>4, <1>5

LEMMA TaskStepInv ==
    ASSUME Nobody \notin Co, NoToken \in Token, T!IInv, [T!Next]_(T!vars) PROVE T!IInv'
<1>1. CASE UNCHANGED T!vars
  BY <1>1 DEF T!vars, T!IInv, T!OneRuns, T!WaitsForActive, T!CalledOrSpawned,
              T!StarterWaits, T!ResumedWithResult, T!TokenOfCaller
<1>2. ASSUME NEW d \in Co, T!Return(d) \/ T!Yield(d) \/ T!CutShort(d) PROVE T!IInv'
  BY <1>2, HandOverInv DEF T!Return, T!Yield, T!CutShort
<1>3. CASE T!Next
  BY <1>2, <1>3, TaskCreateInv, TaskBindInv, TaskAwaitInv, TaskDropInv, SpawnInv,
     AwaitResumeInv, TaskSuspendInv, TaskResumeInv, SpawnEndsInv DEF T!Next
<1> QED  BY <1>1, <1>3

(* One thread runs the coroutines: whatever transfers and nested resumes   *)
(* there are, at most one has it, and callers, callees and results agree.  *)
THEOREM TaskInvariant ==
    ASSUME Nobody \notin Co, NoToken \in Token
    PROVE  T!Spec => []T!IInv
BY TaskInitInv, TaskStepInv, PTL DEF T!Spec

(* A caller is resumed only when its awaiter holds a result and the callee *)
(* has come to rest, so that await_resume may read the one and destroy the *)
(* other; until then the callee is under way and answers to this caller.   *)
THEOREM CallersAnswered ==
    ASSUME Nobody \notin Co, NoToken \in Token
    PROVE  T!Spec => [](T!WaitsForActive /\ T!ResumedWithResult)
<1>1. T!IInv => T!WaitsForActive /\ T!ResumedWithResult
  BY DEF T!IInv
<1> QED  BY <1>1, TaskInvariant, PTL
=============================================================================
