--------------------------- MODULE SteeringProofs ---------------------------
(***************************************************************************)
(* Steering gives every input one end, and implements Handover, in every   *)
(* setup but one: with a compaction that discards the context AND a stop   *)
(* hook that continues, an engine run can end normally with inputs left in *)
(* its queue, and the mirror is wrong from then on (run steering_lost).    *)
(***************************************************************************)
EXTENDS Steering, SequenceTheorems, TLAPS

NoLossySetup == [mode |-> "discard", hooks |-> TRUE] \notin Setups

-----------------------------------------------------------------------------
(* Sequences without repetition. *)

Distinct(s) == \A j, k \in 1..Len(s) : s[j] = s[k] => j = k

\* The empty sequence has no elements.
LEMMA ToSetEmpty == ToSet(<<>>) = {}
  BY DEF ToSet

\* An append adds one element, and keeps the others apart.
LEMMA ToSetAppend ==
    ASSUME NEW S, NEW s \in Seq(S), NEW e \in S
    PROVE  /\ Append(s, e) \in Seq(S)
           /\ ToSet(Append(s, e)) = ToSet(s) \cup {e}
           /\ Distinct(s) /\ e \notin ToSet(s) => Distinct(Append(s, e))
<1>1. Append(s, e) \in Seq(S) /\ Len(Append(s, e)) = Len(s) + 1
      /\ (\A k \in 1..Len(s) : Append(s, e)[k] = s[k]) /\ Append(s, e)[Len(s) + 1] = e
  OBVIOUS
<1>2. DOMAIN s = 1..Len(s) /\ DOMAIN Append(s, e) = 1..(Len(s) + 1) /\ Len(s) \in Nat
  BY <1>1
<1>3. ToSet(Append(s, e)) = ToSet(s) \cup {e}
  BY <1>1, <1>2 DEF ToSet
<1>4. ASSUME Distinct(s), e \notin ToSet(s) PROVE Distinct(Append(s, e))
  BY <1>1, <1>2, <1>4 DEF Distinct, ToSet
<1> QED BY <1>1, <1>3, <1>4

\* A concatenation has the elements of both.
LEMMA ToSetConcat ==
    ASSUME NEW S, NEW s \in Seq(S), NEW t \in Seq(S)
    PROVE  /\ s \o t \in Seq(S)
           /\ ToSet(s \o t) = ToSet(s) \cup ToSet(t)
           /\ Distinct(s) /\ Distinct(t) /\ ToSet(s) \cap ToSet(t) = {}
                => Distinct(s \o t)
<1>1. s \o t \in Seq(S) /\ Len(s \o t) = Len(s) + Len(t)
  OBVIOUS
<1>2. /\ Len(s) \in Nat /\ Len(t) \in Nat
      /\ DOMAIN s = 1..Len(s) /\ DOMAIN t = 1..Len(t)
      /\ DOMAIN (s \o t) = 1..(Len(s) + Len(t))
  BY <1>1
<1>3. \A k \in 1..(Len(s) + Len(t)) :
        (s \o t)[k] = IF k <= Len(s) THEN s[k] ELSE t[k - Len(s)]
  OBVIOUS
<1>4. \A k \in 1..Len(t) : k + Len(s) \in 1..(Len(s) + Len(t)) /\ (s \o t)[k + Len(s)] = t[k]
  BY <1>2, <1>3
<1>5. ToSet(s \o t) = ToSet(s) \cup ToSet(t)
  <2>1. ToSet(s \o t) \subseteq ToSet(s) \cup ToSet(t)
    BY <1>2, <1>3 DEF ToSet
  <2>2. ToSet(s) \subseteq ToSet(s \o t)
    BY <1>2, <1>3 DEF ToSet
  <2>3. ToSet(t) \subseteq ToSet(s \o t)
    BY <1>2, <1>4 DEF ToSet
  <2> QED BY <2>1, <2>2, <2>3
<1>6. ASSUME Distinct(s), Distinct(t), ToSet(s) \cap ToSet(t) = {}
      PROVE  Distinct(s \o t)
  <2> SUFFICES ASSUME NEW j \in 1..(Len(s) + Len(t)), NEW k \in 1..(Len(s) + Len(t)),
                      (s \o t)[j] = (s \o t)[k]
               PROVE  j = k
    BY <1>1 DEF Distinct
  <2>1. CASE j <= Len(s) /\ k <= Len(s)
    BY <2>1, <1>2, <1>3, <1>6 DEF Distinct
  <2>2. CASE ~(j <= Len(s)) /\ ~(k <= Len(s))
    <3>1. j - Len(s) \in 1..Len(t) /\ k - Len(s) \in 1..Len(t)
      BY <2>2, <1>2
    <3>2. t[j - Len(s)] = t[k - Len(s)]
      BY <2>2, <1>3
    <3>3. j - Len(s) = k - Len(s)
      BY <3>1, <3>2, <1>6 DEF Distinct
    <3> QED BY <3>3, <1>2
  <2>3. CASE j <= Len(s) /\ ~(k <= Len(s))
    <3>1. s[j] \in ToSet(s) /\ t[k - Len(s)] \in ToSet(t)
      BY <2>3, <1>2 DEF ToSet
    <3> QED BY <3>1, <2>3, <1>3, <1>6
  <2>4. CASE ~(j <= Len(s)) /\ k <= Len(s)
    <3>1. s[k] \in ToSet(s) /\ t[j - Len(s)] \in ToSet(t)
      BY <2>4, <1>2 DEF ToSet
    <3> QED BY <3>1, <2>4, <1>3, <1>6
  <2> QED BY <2>1, <2>2, <2>3, <2>4
<1> QED BY <1>1, <1>5, <1>6

\* A sequence is its head and its tail.
LEMMA ToSetTail ==
    ASSUME NEW S, NEW s \in Seq(S), s # <<>>
    PROVE  /\ Tail(s) \in Seq(S)
           /\ Head(s) \in S
           /\ ToSet(s) = {Head(s)} \cup ToSet(Tail(s))
           /\ Distinct(s) => Head(s) \notin ToSet(Tail(s)) /\ Distinct(Tail(s))
<1>1. /\ Tail(s) \in Seq(S) /\ Len(Tail(s)) = Len(s) - 1 /\ Len(s) \in Nat /\ Len(s) >= 1
      /\ Head(s) = s[1] /\ Head(s) \in S
  OBVIOUS
<1>2. \A k \in 1..(Len(s) - 1) : Tail(s)[k] = s[k + 1]
  OBVIOUS
<1>3. DOMAIN s = 1..Len(s) /\ DOMAIN Tail(s) = 1..(Len(s) - 1)
  BY <1>1
<1>4. ToSet(s) \subseteq {Head(s)} \cup ToSet(Tail(s))
  <2> SUFFICES ASSUME NEW k \in 1..Len(s), k # 1 PROVE s[k] \in ToSet(Tail(s))
    BY <1>1, <1>3 DEF ToSet
  <2>1. k - 1 \in 1..(Len(s) - 1) /\ Tail(s)[k - 1] = s[k]
    BY <1>1, <1>2
  <2> QED BY <2>1, <1>3 DEF ToSet
<1>5. {Head(s)} \cup ToSet(Tail(s)) \subseteq ToSet(s)
  BY <1>1, <1>2, <1>3 DEF ToSet
<1>6. ASSUME Distinct(s) PROVE Head(s) \notin ToSet(Tail(s)) /\ Distinct(Tail(s))
  BY <1>1, <1>2, <1>3, <1>6 DEF ToSet, Distinct
<1> QED BY <1>1, <1>4, <1>5, <1>6

\* RemoveAt takes one element out and closes the gap.
LEMMA RemoveAtElements ==
    ASSUME NEW S, NEW s \in Seq(S), NEW k \in 1..Len(s)
    PROVE  /\ RemoveAt(s, k) \in Seq(S)
           /\ Len(RemoveAt(s, k)) = Len(s) - 1
           /\ \A j \in 1..(Len(s) - 1) :
                RemoveAt(s, k)[j] = IF j < k THEN s[j] ELSE s[j + 1]
<1> DEFINE a == SubSeq(s, 1, k - 1)
           b == SubSeq(s, k + 1, Len(s))
<1>1. Len(s) \in Nat /\ k \in Nat /\ 1 <= k /\ k <= Len(s)
  OBVIOUS
<1>2. a \in Seq(S) /\ Len(a) = k - 1 /\ \A j \in 1..(k - 1) : a[j] = s[j]
  <2>1. \A j \in 1..(k - 1) : j \in 1..Len(s) /\ s[j] \in S
    BY <1>1
  <2>2. a = [j \in 1..(k - 1) |-> s[j]]
    BY <1>1, SubSeqProperties
  <2> QED BY <1>1, <2>1, <2>2, SubSeqProperties
<1>3. b \in Seq(S) /\ Len(b) = Len(s) - k /\ \A j \in 1..(Len(s) - k) : b[j] = s[k + j]
  BY <1>1, SubSeqProperties
<1>4. RemoveAt(s, k) = a \o b
  BY DEF RemoveAt
<1> HIDE DEF a, b
<1>5. a \o b \in Seq(S) /\ Len(a \o b) = Len(s) - 1
  BY <1>1, <1>2, <1>3
<1>6. ASSUME NEW j \in 1..(Len(s) - 1)
      PROVE  (a \o b)[j] = IF j < k THEN s[j] ELSE s[j + 1]
  <2>1. CASE j < k
    BY <2>1, <1>1, <1>2, <1>3
  <2>2. CASE ~(j < k)
    <3>1. (a \o b)[j] = b[j - (k - 1)] /\ j - (k - 1) \in 1..(Len(s) - k)
      BY <2>2, <1>1, <1>2, <1>3
    <3>2. b[j - (k - 1)] = s[k + (j - (k - 1))] /\ k + (j - (k - 1)) = j + 1
      BY <3>1, <1>1, <1>3
    <3> QED BY <2>2, <3>1, <3>2
  <2> QED BY <2>1, <2>2
<1> QED BY <1>4, <1>5, <1>6

\* Pos finds an element that is there.
LEMMA PosIs ==
    ASSUME NEW S, NEW s \in Seq(S), NEW i \in ToSet(s)
    PROVE  Pos(s, i) \in 1..Len(s) /\ s[Pos(s, i)] = i
<1>1. \E k \in 1..Len(s) : s[k] = i
  BY DEF ToSet
<1> QED BY <1>1 DEF Pos

\* Without takes exactly one element out of a sequence without repetition.
LEMMA WithoutElements ==
    ASSUME NEW S, NEW s \in Seq(S), NEW i \in ToSet(s), Distinct(s)
    PROVE  /\ Without(s, i) \in Seq(S)
           /\ ToSet(Without(s, i)) = ToSet(s) \ {i}
           /\ Distinct(Without(s, i))
<1> DEFINE k == Pos(s, i)
           w == RemoveAt(s, k)
<1>1. k \in 1..Len(s) /\ s[k] = i /\ Len(s) \in Nat /\ DOMAIN s = 1..Len(s)
  BY PosIs
<1>2. Without(s, i) = w
  BY DEF Without
<1>3. /\ w \in Seq(S) /\ Len(w) = Len(s) - 1
      /\ \A j \in 1..(Len(s) - 1) : w[j] = IF j < k THEN s[j] ELSE s[j + 1]
  BY <1>1, RemoveAtElements
<1> HIDE DEF k, w
<1>4. DOMAIN w = 1..(Len(s) - 1)
  BY <1>1, <1>3
<1>5. ToSet(w) \subseteq ToSet(s) \ {i}
  <2> SUFFICES ASSUME NEW j \in 1..(Len(s) - 1) PROVE w[j] \in ToSet(s) /\ w[j] # i
    BY <1>4 DEF ToSet
  <2>1. CASE j < k
    <3>1. j \in 1..Len(s) /\ j # k /\ w[j] = s[j]
      BY <2>1, <1>1, <1>3
    <3> QED BY <3>1, <1>1 DEF ToSet, Distinct
  <2>2. CASE ~(j < k)
    <3>1. j + 1 \in 1..Len(s) /\ j + 1 # k /\ w[j] = s[j + 1]
      BY <2>2, <1>1, <1>3
    <3> QED BY <3>1, <1>1 DEF ToSet, Distinct
  <2> QED BY <2>1, <2>2
<1>6. ToSet(s) \ {i} \subseteq ToSet(w)
  <2> SUFFICES ASSUME NEW j \in 1..Len(s), s[j] # i PROVE s[j] \in ToSet(w)
    BY <1>1 DEF ToSet
  <2>1. CASE j < k
    <3>1. j \in 1..(Len(s) - 1) /\ w[j] = s[j]
      BY <2>1, <1>1, <1>3
    <3> QED BY <3>1, <1>4 DEF ToSet
  <2>2. CASE j > k
    <3>1. j - 1 \in 1..(Len(s) - 1) /\ w[j - 1] = s[j]
      BY <2>2, <1>1, <1>3
    <3> QED BY <3>1, <1>4 DEF ToSet
  <2> QED BY <2>1, <2>2, <1>1
<1>7. Distinct(w)
  <2> SUFFICES ASSUME NEW j \in 1..(Len(s) - 1), NEW l \in 1..(Len(s) - 1), w[j] = w[l]
               PROVE  j = l
    BY <1>3 DEF Distinct
  <2> DEFINE x(n) == IF n < k THEN n ELSE n + 1
  <2>1. x(j) \in 1..Len(s) /\ x(l) \in 1..Len(s) /\ s[x(j)] = s[x(l)]
    BY <1>1, <1>3
  <2>2. x(j) = x(l)
    BY <2>1 DEF Distinct
  <2> QED BY <2>2, <1>1
<1> QED BY <1>2, <1>3, <1>5, <1>6, <1>7

\* What is only in the second part is taken out of the second part.
LEMMA WithoutConcat ==
    ASSUME NEW S, NEW d \in Seq(S), NEW q \in Seq(S), NEW i \in ToSet(q),
           Distinct(d \o q)
    PROVE  Without(d \o q, i) = d \o Without(q, i) /\ Distinct(q)
<1> DEFINE m == d \o q
           p == Pos(m, i)
           k == Pos(q, i)
<1>1. m \in Seq(S) /\ Len(m) = Len(d) + Len(q) /\ Len(d) \in Nat /\ Len(q) \in Nat
  OBVIOUS
<1>2. /\ \A j \in 1..Len(d) : m[j] = d[j]
      /\ \A j \in 1..Len(q) : m[Len(d) + j] = q[j] /\ Len(d) + j \in 1..Len(m)
  OBVIOUS
<1>3. k \in 1..Len(q) /\ q[k] = i
  BY PosIs
<1>4. i \in ToSet(m)
  BY ToSetConcat
<1>5. p \in 1..Len(m) /\ m[p] = i
  BY <1>1, <1>4, PosIs
<1> HIDE DEF m, p, k
<1>6. p = Len(d) + k
  BY <1>2, <1>3, <1>5 DEF Distinct, m
<1>7. /\ RemoveAt(m, p) \in Seq(S) /\ Len(RemoveAt(m, p)) = Len(m) - 1
      /\ \A j \in 1..(Len(m) - 1) : RemoveAt(m, p)[j] = IF j < p THEN m[j] ELSE m[j + 1]
  BY <1>1, <1>5, RemoveAtElements
<1>8. /\ RemoveAt(q, k) \in Seq(S) /\ Len(RemoveAt(q, k)) = Len(q) - 1
      /\ \A j \in 1..(Len(q) - 1) : RemoveAt(q, k)[j] = IF j < k THEN q[j] ELSE q[j + 1]
  BY <1>3, RemoveAtElements
<1> DEFINE w == RemoveAt(m, p)
           r == RemoveAt(q, k)
<1>9. d \o r \in Seq(S) /\ Len(d \o r) = Len(w)
  <2>1. r \in Seq(S) /\ Len(r) = Len(q) - 1 /\ Len(w) = Len(m) - 1
    BY <1>7, <1>8
  <2> HIDE DEF r, w
  <2>2. d \o r \in Seq(S) /\ Len(d \o r) = Len(d) + Len(r)
    BY <2>1, ConcatProperties
  <2> QED BY <2>1, <2>2, <1>1, <1>3
<1>10. ASSUME NEW j \in 1..Len(w) PROVE w[j] = (d \o r)[j]
  <2>1. CASE j <= Len(d)
    <3>1. j < p /\ j \in 1..Len(d) /\ j \in 1..(Len(m) - 1)
      BY <2>1, <1>1, <1>3, <1>6, <1>7
    <3>2. w[j] = d[j]
      BY <3>1, <1>2, <1>7
    <3>3. (d \o r)[j] = d[j]
      BY <3>1, <1>8
    <3> QED BY <3>2, <3>3
  <2>2. CASE ~(j <= Len(d))
    <3> DEFINE n == j - Len(d)
    <3>1. n \in 1..(Len(q) - 1) /\ j = Len(d) + n /\ j \in 1..(Len(m) - 1)
      BY <2>2, <1>1, <1>7
    <3>2. (d \o r)[j] = r[n]
      BY <3>1, <1>1, <1>8
    <3>3. r[n] = IF n < k THEN q[n] ELSE q[n + 1]
      BY <3>1, <1>8
    <3>4. m[j] = q[n] /\ m[j + 1] = q[n + 1]
      <4>1. n \in 1..Len(q) /\ n + 1 \in 1..Len(q) /\ j + 1 = Len(d) + (n + 1)
        BY <3>1, <1>1
      <4> QED BY <4>1, <3>1, <1>2
    <3>5. w[j] = IF j < p THEN m[j] ELSE m[j + 1]
      BY <3>1, <1>7
    <3>6. j < p <=> n < k
      BY <3>1, <1>1, <1>3, <1>6
    <3> QED BY <3>2, <3>3, <3>4, <3>5, <3>6
  <2> QED BY <2>1, <2>2
<1>11. w = d \o r
  BY <1>7, <1>9, <1>10, SeqEqual
<1>12. Distinct(q)
  <2> SUFFICES ASSUME NEW j \in 1..Len(q), NEW l \in 1..Len(q), q[j] = q[l] PROVE j = l
    BY DEF Distinct
  <2>1. Len(d) + j = Len(d) + l
    BY <1>2 DEF Distinct, m
  <2> QED BY <2>1, <1>1
<1> QED BY <1>11, <1>12 DEF Without, m, p, k

-----------------------------------------------------------------------------
(* The inductive invariant. *)

\* Where the run is says what the two lists of core hold; the mirror agrees with
\* them whenever an engine runs or may start.
ShapeOK ==
    /\ drained # <<>> <=> phase \in {"fold", "deliver"}
    /\ ~TaskRunning => queue = <<>>
    /\ MirrorsQueue
    /\ phase \in {"off", "boot"} => mirror = <<>>
    /\ phase = "hooks" /\ ~cut /\ ~aborted => mirror = <<>>
    /\ phase = "discard" => setup.mode = "discard"

\* Every accepted input is in one place.
ApartOK ==
    /\ Distinct(mirror) /\ Distinct(returned)
    /\ ToSet(accepted) =
         ToSet(delivered) \cup ToSet(mirror) \cup ToSet(returned) \cup taken \cup evicted
    /\ ToSet(mirror) \cap (ToSet(delivered) \cup ToSet(returned) \cup taken \cup evicted) = {}
    /\ ToSet(delivered) \cap (ToSet(returned) \cup taken \cup evicted) = {}

SteeringOK == TypeOK /\ ShapeOK /\ ApartOK

\* The invariant holds before anything has been steered.
LEMMA SteeringInit == Init => SteeringOK
<1> SUFFICES ASSUME Init PROVE SteeringOK
  OBVIOUS
<1>1. TypeOK
  <2>1. phase \in Phases /\ <<>> \in Seq(Inputs) /\ {} \subseteq Inputs
    BY DEF Init, Phases
  <2>2. cut \in BOOLEAN /\ aborted \in BOOLEAN
    BY DEF Init
  <2> QED BY <2>1, <2>2 DEF Init, TypeOK
<1>2. ShapeOK
  BY DEF Init, ShapeOK, MirrorsQueue, TaskRunning, EnginePhases
<1>3. ApartOK
  BY ToSetEmpty DEF Init, ApartOK, Distinct
<1> QED BY <1>1, <1>2, <1>3 DEF SteeringOK

\* The steps that move the run and leave every list alone.
LEMMA Moves ==
    ASSUME SteeringOK, Keep, setup' = setup, phase' \in Phases,
           cut' \in BOOLEAN, aborted' \in BOOLEAN,
           phase' \in {"fold", "deliver"} <=> phase \in {"fold", "deliver"},
           phase' \notin EnginePhases => queue = <<>>,
           phase' \in EnginePhases \cup {"off", "boot"} =>
                phase \in EnginePhases \/ mirror = <<>>,
           phase' \in {"off", "boot"} => mirror = <<>>,
           phase' = "hooks" /\ ~cut' /\ ~aborted' => mirror = <<>>,
           phase' = "discard" => setup.mode = "discard",
           phase \notin EnginePhases => queue = <<>> /\ drained = <<>>
    PROVE  SteeringOK'
<1>1. TypeOK'
  BY DEF SteeringOK, TypeOK, Keep, lists, history
<1>2. ShapeOK'
  <2> USE DEF SteeringOK, ShapeOK, Keep, lists, history
  <2>1. (drained # <<>> <=> phase \in {"fold", "deliver"})'
    OBVIOUS
  <2>2. (~TaskRunning => queue = <<>>)'
    BY DEF TaskRunning
  <2>3. MirrorsQueue'
    <3>1. CASE phase \in EnginePhases
      BY <3>1 DEF MirrorsQueue, TaskRunning
    <3>2. CASE phase \notin EnginePhases
      <4>1. drained \o queue = <<>>
        BY <3>2
      <4> QED BY <3>2, <4>1 DEF MirrorsQueue, TaskRunning
    <3> QED BY <3>1, <3>2
  <2> QED BY <2>1, <2>2, <2>3, Zenon
<1>3. ApartOK'
  BY DEF SteeringOK, ApartOK, Keep, lists, history
<1> QED BY <1>1, <1>2, <1>3 DEF SteeringOK

\* A message is accepted.
LEMMA SteerStep ==
    ASSUME SteeringOK, NEW i \in Inputs, Steer(i)
    PROVE  SteeringOK'
<1> USE DEF Steer, SteeringOK
<1>1. /\ ToSet(mirror') = ToSet(mirror) \cup {i}
      /\ ToSet(accepted') = ToSet(accepted) \cup {i}
      /\ mirror' \in Seq(Inputs) /\ accepted' \in Seq(Inputs) /\ queue' \in Seq(Inputs)
      /\ i \notin ToSet(mirror) => Distinct(mirror')
  BY ToSetAppend DEF TypeOK, ApartOK
<1>2. TypeOK'
  BY <1>1 DEF TypeOK, run
<1>3. ShapeOK'
  <2>1. Append(drained \o queue, i) = drained \o Append(queue, i)
    <3>1. drained \in Seq(Inputs) /\ queue \in Seq(Inputs) /\ <<i>> \in Seq(Inputs)
      BY DEF TypeOK
    <3>2. drained \o queue \in Seq(Inputs)
      BY <3>1
    <3>3. Append(drained \o queue, i) = (drained \o queue) \o <<i>>
      BY <3>2, AppendIsConcat
    <3>4. Append(queue, i) = queue \o <<i>>
      BY <3>1, AppendIsConcat
    <3> QED BY <3>1, <3>3, <3>4, ConcatAssociative
  <2>2. mirror' = drained' \o queue'
    BY <2>1 DEF ShapeOK, MirrorsQueue
  <2> QED BY <2>2 DEF ShapeOK, MirrorsQueue, TaskRunning, EnginePhases, run
<1>4. ApartOK'
  BY <1>1 DEF ApartOK
<1> QED BY <1>2, <1>3, <1>4

\* A message is recalled from core's queue.
LEMMA RecallQueuedStep ==
    ASSUME SteeringOK, NEW i \in Inputs, RecallQueued(i)
    PROVE  SteeringOK'
<1> USE DEF RecallQueued, SteeringOK
<1>1. TaskRunning /\ mirror = drained \o queue
  BY ToSetEmpty DEF ShapeOK, MirrorsQueue
<1>2. /\ mirror' = drained \o queue' /\ Distinct(queue)
  <2>1. drained \in Seq(Inputs) /\ queue \in Seq(Inputs) /\ Distinct(drained \o queue)
    BY <1>1 DEF TypeOK, ApartOK
  <2>2. i \in ToSet(queue) /\ mirror' = Without(drained \o queue, i) /\ drained' = drained
    BY <1>1
  <2>3. Without(drained \o queue, i) = drained \o Without(queue, i) /\ Distinct(queue)
    BY <2>1, <2>2, WithoutConcat
  <2> QED BY <2>2, <2>3
<1>3. /\ mirror' \in Seq(Inputs) /\ queue' \in Seq(Inputs)
      /\ ToSet(mirror') = ToSet(mirror) \ {i} /\ Distinct(mirror')
  <2>1. /\ mirror \in Seq(Inputs) /\ i \in ToSet(mirror) /\ Distinct(mirror)
        /\ queue \in Seq(Inputs) /\ i \in ToSet(queue) /\ Distinct(queue)
    BY <1>2 DEF TypeOK, ApartOK
  <2>2. mirror' = Without(mirror, i) /\ queue' = Without(queue, i)
    OBVIOUS
  <2> QED BY <2>1, <2>2, WithoutElements
<1>4. TypeOK'
  BY <1>3 DEF TypeOK, run
<1>5. ShapeOK'
  BY <1>1, <1>2 DEF ShapeOK, MirrorsQueue, TaskRunning, EnginePhases, run
<1>6. ApartOK'
  BY <1>3 DEF ApartOK
<1> QED BY <1>4, <1>5, <1>6

\* A message that was returned is recalled.
LEMMA RecallReturnedStep ==
    ASSUME SteeringOK, NEW i \in Inputs, RecallReturned(i)
    PROVE  SteeringOK'
<1> USE DEF RecallReturned, SteeringOK
<1>1. /\ returned' \in Seq(Inputs)
      /\ ToSet(returned') = ToSet(returned) \ {i} /\ Distinct(returned')
  BY WithoutElements DEF TypeOK, ApartOK
<1>2. TypeOK'
  BY <1>1 DEF TypeOK, run
<1>3. ShapeOK'
  BY DEF ShapeOK, MirrorsQueue, TaskRunning, run
<1>4. ApartOK'
  BY <1>1 DEF ApartOK
<1> QED BY <1>2, <1>3, <1>4

\* The entry leaves the table.
LEMMA EvictStep == SteeringOK /\ Evict => SteeringOK'
<1> SUFFICES ASSUME SteeringOK, Evict PROVE SteeringOK'
  OBVIOUS
<1> USE DEF Evict, SteeringOK
<1>1. ToSet(returned) \subseteq Inputs
  BY DEF ToSet, TypeOK
<1>2. TypeOK'
  BY <1>1 DEF TypeOK, run
<1>3. ShapeOK'
  BY DEF ShapeOK, MirrorsQueue, TaskRunning, run
<1>4. ApartOK'
  BY ToSetEmpty DEF ApartOK, Distinct
<1> QED BY <1>2, <1>3, <1>4

\* The drive ends, and returns what was not delivered.
LEMMA DriveEndsStep == SteeringOK /\ DriveEnds => SteeringOK'
<1> SUFFICES ASSUME SteeringOK, DriveEnds PROVE SteeringOK'
  OBVIOUS
<1> USE DEF DriveEnds, SteeringOK, Goto, history
<1>1. /\ returned' \in Seq(Inputs)
      /\ ToSet(returned') = ToSet(returned) \cup ToSet(mirror)
      /\ Distinct(returned')
  BY ToSetConcat DEF TypeOK, ApartOK
<1>2. TypeOK'
  BY <1>1 DEF TypeOK, Phases
<1>3. ShapeOK'
  BY DEF ShapeOK, MirrorsQueue, TaskRunning, EnginePhases
<1>4. ApartOK'
  BY <1>1, ToSetEmpty DEF ApartOK, Distinct
<1> QED BY <1>2, <1>3, <1>4

\* What is shown on the stream is the head of the mirror.
LEMMA DeliversHead ==
    ASSUME SteeringOK, DeliverOne
    PROVE  /\ mirror # <<>> /\ Head(mirror) = Head(drained)
           /\ mirror' = Tail(mirror) /\ mirror' = drained' \o queue
           /\ drained \in Seq(Inputs) /\ drained # <<>>
<1> USE DEF SteeringOK, DeliverOne
<1>1. mirror = drained \o queue /\ drained # <<>>
  BY DEF ShapeOK, MirrorsQueue, TaskRunning, EnginePhases
<1>2. drained \in Seq(Inputs) /\ queue \in Seq(Inputs)
  BY DEF TypeOK
<1>3. Head(drained \o queue) = Head(drained) /\ drained \o queue # <<>>
      /\ Tail(drained \o queue) = Tail(drained) \o queue
  BY <1>1, <1>2
<1> QED BY <1>1, <1>2, <1>3

\* One message of those taken is delivered.
LEMMA DeliverOneStep == SteeringOK /\ DeliverOne => SteeringOK'
<1> SUFFICES ASSUME SteeringOK, DeliverOne PROVE SteeringOK'
  OBVIOUS
<1> USE DEF DeliverOne, SteeringOK, Goto
<1>1. /\ drained \in Seq(Inputs) /\ drained # <<>> /\ mirror # <<>>
      /\ mirror' = Tail(mirror) /\ mirror' = drained' \o queue'
      /\ Head(drained) = Head(mirror)
  BY DeliversHead
<1>2. /\ mirror' \in Seq(Inputs) /\ Head(mirror) \in Inputs
      /\ ToSet(mirror) = {Head(mirror)} \cup ToSet(mirror')
      /\ Head(mirror) \notin ToSet(mirror') /\ Distinct(mirror')
  BY <1>1, ToSetTail DEF TypeOK, ApartOK
<1>3. /\ delivered' \in Seq(Inputs)
      /\ ToSet(delivered') = ToSet(delivered) \cup {Head(mirror)}
  BY <1>1, <1>2, ToSetAppend DEF TypeOK
<1>4. TypeOK'
  BY <1>1, <1>2, <1>3 DEF TypeOK, Phases, EnginePhases
<1>5. ShapeOK'
  <2>1. drained' # <<>> <=> Len(drained) # 1
    <3>1. drained' \in Seq(Inputs) /\ Len(drained') = Len(drained) - 1
      BY <1>1
    <3>2. drained' # <<>> <=> Len(drained') # 0
      BY <3>1
    <3>3. Len(drained) \in Nat
      BY <1>1
    <3> QED BY <3>1, <3>2, <3>3
  <2> QED BY <1>1, <2>1 DEF ShapeOK, MirrorsQueue, TaskRunning, EnginePhases
<1>6. ApartOK'
  BY <1>2, <1>3 DEF ApartOK
<1> QED BY <1>4, <1>5, <1>6

\* The engine ends: what is left in its queue stays in the mirror, which must not
\* meet another engine run.
LEMMA EngineEndsStep ==
    ASSUME SteeringOK, NEW c \in BOOLEAN, EngineEnds(c),
           phase \in EnginePhases \ {"fold", "deliver"},
           c \/ aborted \/ queue = <<>> \/ ~setup.hooks
    PROVE  SteeringOK'
<1> USE DEF SteeringOK, EngineEnds, AfterEngine
<1>1. TypeOK'
  <2>1. phase' \in Phases /\ queue' \in Seq(Inputs)
    BY DEF Phases
  <2>2. cut' \in BOOLEAN
    OBVIOUS
  <2> QED BY <2>1, <2>2 DEF TypeOK, history
<1>2. ShapeOK'
  <2>1. phase' \in {"hooks", "tail"} /\ (phase' = "hooks" => setup.hooks)
    OBVIOUS
  <2>2. drained' = <<>> /\ drained = <<>> /\ queue' = <<>> /\ mirror' = mirror
    BY DEF ShapeOK, EnginePhases
  <2>3. mirror = queue
    <3>1. mirror = <<>> \o queue
      BY <2>2 DEF ShapeOK, MirrorsQueue, TaskRunning
    <3> QED BY <3>1 DEF TypeOK
  <2>4. (phase = "hooks" /\ ~cut /\ ~aborted => mirror = <<>>)'
    BY <2>1, <2>2, <2>3
  <2>5. ~TaskRunning' /\ phase' \notin {"off", "boot", "discard", "fold", "deliver"}
    BY <2>1 DEF TaskRunning, EnginePhases
  <2> QED BY <2>2, <2>4, <2>5 DEF ShapeOK, MirrorsQueue
<1>3. ApartOK'
  BY DEF ApartOK, history
<1> QED BY <1>1, <1>2, <1>3

\* The next input is assembled, with all that is queued.
LEMMA AssembleStep ==
    ASSUME SteeringOK, NEW more \in BOOLEAN, Assemble(more),
           phase \in {"turn", "summarize"}
    PROVE  SteeringOK'
<1>1. CASE queue = <<>> /\ more
  <2>1. Goto("turn") /\ Keep
    BY <1>1 DEF Assemble
  <2>2. cut \in BOOLEAN /\ aborted \in BOOLEAN
    BY DEF SteeringOK, TypeOK
  <2> QED BY <2>1, <2>2, Moves DEF Goto, Phases, EnginePhases
<1>2. CASE queue = <<>> /\ ~more
  <2>1. EngineEnds(FALSE)
    BY <1>2 DEF Assemble
  <2> QED BY <1>2, <2>1, EngineEndsStep DEF EnginePhases
<1>3. CASE queue # <<>>
  <2>1. /\ drained' = queue /\ queue' = <<>>
        /\ phase' \in {"fold", "deliver"}
        /\ UNCHANGED <<setup, cut, aborted, mirror, returned, history>>
    BY <1>3 DEF Assemble, Goto
  <2>2. TypeOK'
    <3>1. phase' \in Phases /\ drained' \in Seq(Inputs) /\ queue' \in Seq(Inputs)
      BY <2>1 DEF SteeringOK, TypeOK, Phases, EnginePhases
    <3> QED BY <2>1, <3>1 DEF SteeringOK, TypeOK, history
  <2>3. ShapeOK'
    <3>1. drained = <<>> /\ mirror = drained \o queue /\ queue \in Seq(Inputs)
      BY DEF SteeringOK, TypeOK, ShapeOK, MirrorsQueue, TaskRunning, EnginePhases
    <3>2. mirror' = drained' \o queue'
      BY <2>1, <3>1
    <3>3. TaskRunning' /\ phase' \notin {"off", "boot", "hooks", "discard"}
      BY <2>1 DEF TaskRunning, EnginePhases
    <3> QED BY <1>3, <2>1, <3>2, <3>3 DEF ShapeOK, MirrorsQueue
  <2>4. ApartOK'
    BY <2>1 DEF SteeringOK, ApartOK, history
  <2> QED BY <2>2, <2>3, <2>4 DEF SteeringOK
<1> QED BY <1>1, <1>2, <1>3

\* The fold of the images throws, out of the run.
LEMMA FoldFailsStep == SteeringOK /\ FoldFails => SteeringOK'
<1> SUFFICES ASSUME SteeringOK, FoldFails PROVE SteeringOK'
  OBVIOUS
<1> USE DEF SteeringOK, FoldFails, Goto
<1>1. TypeOK'
  <2>1. phase' \in Phases /\ <<>> \in Seq(Inputs)
    BY DEF Phases
  <2> QED BY <2>1 DEF TypeOK, history
<1>2. ShapeOK'
  BY DEF ShapeOK, MirrorsQueue, TaskRunning, EnginePhases
<1>3. ApartOK'
  BY DEF ApartOK, history
<1> QED BY <1>1, <1>2, <1>3

\* Every request keeps the invariant.
LEMMA RequestsStep == SteeringOK /\ Requests => SteeringOK'
<1> SUFFICES ASSUME SteeringOK, Requests PROVE SteeringOK'
  OBVIOUS
<1>0. cut \in BOOLEAN /\ aborted \in BOOLEAN /\ phase \in Phases
  BY DEF SteeringOK, TypeOK
<1>1. ASSUME NEW i \in Inputs, Steer(i) PROVE SteeringOK'
  BY <1>1, SteerStep
<1>2. ASSUME NEW i \in Inputs, RecallQueued(i) PROVE SteeringOK'
  BY <1>2, RecallQueuedStep
<1>3. ASSUME NEW i \in Inputs, RecallReturned(i) PROVE SteeringOK'
  BY <1>3, RecallReturnedStep
<1>4. CASE Abort
  <2>1. /\ Keep /\ setup' = setup /\ phase' = phase /\ cut' = cut /\ aborted' = TRUE
        /\ ~aborted
    BY <1>4 DEF Abort, Keep
  <2>2. /\ phase \notin EnginePhases => queue = <<>> /\ drained = <<>>
        /\ phase \in {"off", "boot"} => mirror = <<>>
        /\ phase = "discard" => setup.mode = "discard"
    BY DEF SteeringOK, ShapeOK, TaskRunning, EnginePhases
  <2>3. cut' \in BOOLEAN /\ aborted' \in BOOLEAN
    BY <1>0, <2>1
  <2> QED BY <1>0, <2>1, <2>2, <2>3, Moves
<1>5. CASE Evict
  BY <1>5, EvictStep
<1>6. CASE Launch
  <2>1. /\ Keep /\ setup' = setup /\ phase' = "boot" /\ phase = "off"
        /\ cut' \in BOOLEAN /\ aborted' \in BOOLEAN
    BY <1>6 DEF Launch, Running
  <2>2. queue = <<>> /\ drained = <<>> /\ mirror = <<>>
    BY <2>1 DEF SteeringOK, ShapeOK, TaskRunning, EnginePhases
  <2> QED BY <2>1, <2>2, Moves DEF Phases, EnginePhases
<1> QED BY <1>1, <1>2, <1>3, <1>4, <1>5, <1>6 DEF Requests

\* Every step of the engine keeps it.
LEMMA EngineStep ==
    ASSUME NoLossySetup PROVE SteeringOK /\ Engine => SteeringOK'
<1> SUFFICES ASSUME SteeringOK, Engine PROVE SteeringOK'
  OBVIOUS
<1>0. cut \in BOOLEAN /\ aborted \in BOOLEAN /\ phase \in Phases
  BY DEF SteeringOK, TypeOK
<1>a. /\ phase \notin EnginePhases => queue = <<>> /\ drained = <<>>
      /\ phase = "boot" => mirror = <<>>
  BY DEF SteeringOK, ShapeOK, TaskRunning, EnginePhases
<1>1. CASE EngineStarts
  BY <1>0, <1>a, <1>1, Moves DEF EngineStarts, Goto, Phases, EnginePhases
<1>2. CASE BootAborted
  <2>1. /\ phase = "boot" /\ aborted /\ Keep /\ cut' = TRUE /\ aborted' = aborted
        /\ phase' \in {"hooks", "tail"} /\ setup' = setup
    BY <1>2 DEF BootAborted, AfterEngine
  <2> QED BY <1>0, <1>a, <2>1, Moves DEF Phases, EnginePhases
<1>3. CASE TurnEnds
  BY <1>3, AssembleStep DEF TurnEnds
<1>4. CASE TurnFails
  BY <1>0, <1>4, Moves DEF TurnFails, Goto, Phases, EnginePhases
<1>5. CASE DiscardContext
  BY <1>0, <1>5, Moves DEF DiscardContext, Goto, Phases, EnginePhases
<1>6. CASE DiscardEnds
  <2>1. phase = "discard" /\ EngineEnds(FALSE)
    BY <1>6 DEF DiscardEnds
  <2>2. setup.mode = "discard" /\ setup \in Setups
    BY <2>1 DEF SteeringOK, ShapeOK, TypeOK
  <2>3. ~setup.hooks
    <3>1. setup \in [mode : {"discard", "summarize"}, hooks : BOOLEAN]
      BY <2>2, SteeringAssumption DEF AllSetups
    <3>2. setup = [mode |-> setup.mode, hooks |-> setup.hooks] /\ setup.hooks \in BOOLEAN
      BY <3>1
    <3> QED BY <2>2, <3>2 DEF NoLossySetup
  <2> QED BY <2>1, <2>3, EngineEndsStep DEF EnginePhases
<1>7. CASE SummarizeContext
  BY <1>0, <1>7, Moves DEF SummarizeContext, Goto, Phases, EnginePhases
<1>8. CASE SummarizeEnds
  BY <1>8, AssembleStep DEF SummarizeEnds
<1>9. CASE SummarizeFails
  BY <1>0, <1>9, Moves DEF SummarizeFails, Goto, Phases, EnginePhases
<1>10. CASE SummarizeAborted
  BY <1>10, EngineEndsStep DEF SummarizeAborted, EnginePhases
<1>11. CASE FoldEnds
  BY <1>0, <1>11, Moves DEF FoldEnds, Goto, Phases, EnginePhases
<1>12. CASE FoldFails
  BY <1>12, FoldFailsStep
<1>13. CASE DeliverOne
  BY <1>13, DeliverOneStep
<1>14. CASE Leaves
  BY <1>14, EngineEndsStep DEF Leaves, EnginePhases
<1> QED BY <1>1, <1>2, <1>3, <1>4, <1>5, <1>6, <1>7, <1>8, <1>9, <1>10, <1>11, <1>12,
           <1>13, <1>14 DEF Engine

\* So does every step of the Session around the run.
LEMMA SessionRunStep == SteeringOK /\ SessionRun => SteeringOK'
<1> SUFFICES ASSUME SteeringOK, SessionRun PROVE SteeringOK'
  OBVIOUS
<1>0. cut \in BOOLEAN /\ aborted \in BOOLEAN
  BY DEF SteeringOK, TypeOK
<1>a. phase = "hooks" => queue = <<>> /\ drained = <<>> /\ (~cut /\ ~aborted => mirror = <<>>)
  BY DEF SteeringOK, ShapeOK, TaskRunning, EnginePhases
<1>1. CASE HookContinues
  BY <1>0, <1>a, <1>1, Moves DEF HookContinues, Goto, Phases, EnginePhases
<1>2. CASE HooksEnd
  BY <1>0, <1>a, <1>2, Moves DEF HooksEnd, Goto, Phases, EnginePhases
<1>3. CASE DriveEnds
  BY <1>3, DriveEndsStep
<1> QED BY <1>1, <1>2, <1>3 DEF SessionRun

\* Every step keeps the invariant.
LEMMA SteeringStep ==
    ASSUME NoLossySetup PROVE SteeringOK /\ [Next]_vars => SteeringOK'
<1> SUFFICES ASSUME SteeringOK, [Next]_vars PROVE SteeringOK'
  OBVIOUS
<1>1. CASE Next
  BY <1>1, RequestsStep, EngineStep, SessionRunStep DEF Next
<1>2. CASE UNCHANGED vars
  BY <1>2 DEF vars, run, lists, history, SteeringOK, TypeOK, ShapeOK, MirrorsQueue,
              TaskRunning, ApartOK
<1> QED BY <1>1, <1>2

-----------------------------------------------------------------------------

\* The lemmas together: the invariant always holds.
LEMMA SteeringAlways ==
    ASSUME NoLossySetup
    PROVE  Spec => []SteeringOK
<1>1. Init => SteeringOK
  BY SteeringInit
<1>2. SteeringOK /\ [Next]_vars => SteeringOK'
  BY SteeringStep
<1> QED BY <1>1, <1>2, PTL DEF Spec

\* The mirror of the server is the queue of core, whatever is steered, recalled or
\* interrupted: what a user sees waiting is what the model has not been given.
THEOREM SteeringMirrorsQueue ==
    ASSUME NoLossySetup
    PROVE  Spec => []MirrorsQueue
<1>1. SteeringOK => MirrorsQueue
  BY DEF SteeringOK, ShapeOK
<1> QED BY <1>1, SteeringAlways, PTL

\* An input has one end: what the model was given is never handed back as well.
THEOREM SteeringHandedOverOnce ==
    ASSUME NoLossySetup
    PROVE  Spec => []HandedOverOnce
<1>1. SteeringOK => HandedOverOnce
  BY DEF SteeringOK, ApartOK, HandedOverOnce
<1> QED BY <1>1, SteeringAlways, PTL

\* No accepted input vanishes between core's queue, the mirror and what is handed back.
THEOREM SteeringNoneVanishes ==
    ASSUME NoLossySetup
    PROVE  Spec => []NoneVanishes
<1>1. SteeringOK => NoneVanishes
  BY DEF SteeringOK, ApartOK, NoneVanishes
<1> QED BY <1>1, SteeringAlways, PTL

\* Most steps are invisible to the user.
LEMMA Invisible ==
    ASSUME UNCHANGED <<mirror, returned, history>> PROVE UNCHANGED Promise!vars
  BY DEF Promise!vars, history

\* Every step is a step of Handover, or a stutter.
LEMMA HandoverStep == SteeringOK /\ [Next]_vars => [Promise!Next]_(Promise!vars)
<1> SUFFICES ASSUME SteeringOK, [Next]_vars PROVE Promise!Next \/ UNCHANGED Promise!vars
  OBVIOUS
<1>1. ASSUME NEW i \in Inputs, Steer(i) PROVE Promise!Next
  <2>1. i \notin Promise!Known
    BY <1>1 DEF Steer, SteeringOK, ApartOK, Promise!Known, ToSet, Promise!ToSet
  <2>2. Promise!Accept(i)
    BY <1>1, <2>1 DEF Steer, Promise!Accept
  <2> QED BY <2>2 DEF Promise!Next
<1>2. ASSUME NEW i \in Inputs, RecallQueued(i) PROVE Promise!Next
  <2>1. Pos(mirror, i) \in 1..Len(mirror) /\ mirror[Pos(mirror, i)] = i
    BY <1>2, PosIs DEF RecallQueued, SteeringOK, TypeOK
  <2>2. Promise!TakeBack(i)
    BY <1>2, <2>1 DEF RecallQueued, Without, Promise!TakeBack, RemoveAt, Promise!RemoveAt
  <2> QED BY <2>2 DEF Promise!Next
<1>3. ASSUME NEW i \in Inputs, RecallReturned(i) PROVE Promise!Next
  <2>1. Pos(returned, i) \in 1..Len(returned) /\ returned[Pos(returned, i)] = i
    BY <1>3, PosIs DEF RecallReturned, SteeringOK, TypeOK
  <2>2. Promise!TakeBack(i)
    BY <1>3, <2>1 DEF RecallReturned, Without, Promise!TakeBack, RemoveAt, Promise!RemoveAt
  <2> QED BY <2>2 DEF Promise!Next
<1>4. CASE Evict
  <2>1. Promise!Drop
    BY <1>4 DEF Evict, Promise!Drop, ToSet, Promise!ToSet
  <2> QED BY <2>1 DEF Promise!Next
<1>5. CASE DeliverOne
  <2>1. Promise!Deliver
    BY <1>5, DeliversHead DEF DeliverOne, Promise!Deliver
  <2> QED BY <2>1 DEF Promise!Next
<1>6. CASE DriveEnds
  <2>1. CASE mirror = <<>>
    <3>1. returned' = returned /\ mirror' = mirror /\ UNCHANGED history
      BY <1>6, <2>1 DEF DriveEnds, SteeringOK, TypeOK
    <3> QED BY <3>1, Invisible
  <2>2. CASE mirror # <<>>
    <3>1. Promise!PutBack
      BY <1>6, <2>2 DEF DriveEnds, history, Promise!PutBack
    <3> QED BY <3>1 DEF Promise!Next
  <2> QED BY <2>1, <2>2
<1>7. CASE Abort \/ Launch \/ EngineStarts \/ BootAborted \/ TurnFails \/ DiscardContext
           \/ SummarizeContext \/ SummarizeFails \/ FoldEnds \/ HookContinues \/ HooksEnd
  BY <1>7, Invisible DEF Abort, Launch, EngineStarts, BootAborted, TurnFails, DiscardContext,
     SummarizeContext, SummarizeFails, FoldEnds, HookContinues, HooksEnd, Keep, lists
<1>8. ASSUME NEW more \in BOOLEAN, Assemble(more) PROVE UNCHANGED Promise!vars
  BY <1>8, Invisible DEF Assemble, EngineEnds, Keep, lists
<1>9. CASE TurnEnds \/ SummarizeEnds
  BY <1>8, <1>9 DEF TurnEnds, SummarizeEnds
<1>10. CASE DiscardEnds \/ SummarizeAborted \/ FoldFails \/ Leaves
  BY <1>10, Invisible DEF DiscardEnds, SummarizeAborted, FoldFails, Leaves, EngineEnds
<1>11. CASE UNCHANGED vars
  BY <1>11, Invisible DEF vars, lists
<1> QED
  BY <1>1, <1>2, <1>3, <1>4, <1>5, <1>6, <1>7, <1>9, <1>10, <1>11
  DEF Next, Requests, Engine, SessionRun

\* Steering implements Handover.
THEOREM SteeringImplementsHandover ==
    ASSUME NoLossySetup PROVE Spec => KeepsPromise
<1>1. Init => Promise!Init
  BY DEF Init, Promise!Init
<1>2. SteeringOK /\ [Next]_vars => [Promise!Next]_(Promise!vars)
  BY HandoverStep
<1>3. Spec => Promise!Init /\ [][Promise!Next]_(Promise!vars)
  BY <1>1, <1>2, SteeringAlways, PTL DEF Spec
<1> QED BY <1>3 DEF KeepsPromise, Promise!Spec

-----------------------------------------------------------------------------
(* What holds in every setup, the lossy one included: core's own lists are right, whatever
   the mirror shows. *)

\* The model is given an accepted input at most once.
GivenOnce == Distinct(delivered) /\ ToSet(delivered) \subseteq ToSet(accepted)

\* An input is with core in one place, and was accepted.
CoreOK ==
    /\ drained # <<>> <=> phase \in {"fold", "deliver"}
    /\ Distinct(queue) /\ Distinct(drained) /\ Distinct(delivered)
    /\ ToSet(queue) \cap (ToSet(drained) \cup ToSet(delivered)) = {}
    /\ ToSet(drained) \cap ToSet(delivered) = {}
    /\ ToSet(queue) \cup ToSet(drained) \cup ToSet(delivered) \subseteq ToSet(accepted)

GivenOK == TypeOK /\ CoreOK

\* The steps that move the run and leave every list alone.
LEMMA MovesGiven ==
    ASSUME GivenOK, Keep, UNCHANGED setup,
           phase' \in Phases, cut' \in BOOLEAN, aborted' \in BOOLEAN,
           phase' \in {"fold", "deliver"} <=> phase \in {"fold", "deliver"}
    PROVE  GivenOK'
<1>1. TypeOK'
  BY DEF GivenOK, TypeOK, Keep, lists, history
<1>2. CoreOK'
  BY DEF GivenOK, CoreOK, Keep, lists, history
<1> QED BY <1>1, <1>2 DEF GivenOK

\* The end of an engine run empties core's queue, when nothing is being delivered.
LEMMA EngineEndsGiven ==
    ASSUME GivenOK, NEW c \in BOOLEAN, EngineEnds(c), phase \notin {"fold", "deliver"}
    PROVE  GivenOK'
<1> USE DEF GivenOK, EngineEnds, AfterEngine
<1>1. TypeOK'
  <2>1. phase' \in Phases /\ queue' \in Seq(Inputs) /\ cut' \in BOOLEAN
    BY DEF Phases
  <2> QED BY <2>1 DEF TypeOK, history
<1>2. CoreOK'
  <2>1. phase' \notin {"fold", "deliver"} /\ Distinct(queue') /\ ToSet(queue') = {}
    BY ToSetEmpty DEF Distinct
  <2> QED BY <2>1 DEF CoreOK, history
<1> QED BY <1>1, <1>2

\* The assembly moves the whole queue.
LEMMA AssembleGiven ==
    ASSUME GivenOK, NEW more \in BOOLEAN, Assemble(more), phase \in {"turn", "summarize"}
    PROVE  GivenOK'
<1>0. cut \in BOOLEAN /\ aborted \in BOOLEAN
  BY DEF GivenOK, TypeOK
<1>1. CASE queue = <<>> /\ more
  <2>1. Goto("turn") /\ Keep
    BY <1>1 DEF Assemble
  <2> QED BY <1>0, <2>1, MovesGiven DEF Goto, Phases, EnginePhases
<1>2. CASE queue = <<>> /\ ~more
  <2>1. EngineEnds(FALSE)
    BY <1>2 DEF Assemble
  <2> QED BY <2>1, EngineEndsGiven
<1>3. CASE queue # <<>>
  <2>1. /\ drained' = queue /\ queue' = <<>> /\ drained = <<>>
        /\ phase' \in {"fold", "deliver"}
        /\ UNCHANGED <<setup, cut, aborted, mirror, returned, history>>
    BY <1>3 DEF Assemble, Goto, GivenOK, CoreOK
  <2>2. TypeOK'
    <3>1. phase' \in Phases /\ drained' \in Seq(Inputs) /\ queue' \in Seq(Inputs)
      BY <2>1 DEF GivenOK, TypeOK, Phases, EnginePhases
    <3> QED BY <2>1, <3>1 DEF GivenOK, TypeOK, history
  <2>3. CoreOK'
    <3>1. Distinct(queue') /\ ToSet(queue') = {} /\ ToSet(drained') = ToSet(queue)
      BY <2>1, ToSetEmpty DEF Distinct
    <3> QED BY <1>3, <2>1, <3>1 DEF GivenOK, CoreOK, history
  <2> QED BY <2>2, <2>3 DEF GivenOK
<1> QED BY <1>1, <1>2, <1>3

\* What the callers do to core's queue: append to it, and take one out.
LEMMA RequestsGiven ==
    ASSUME GivenOK, Requests
    PROVE  GivenOK'
<1>0. cut \in BOOLEAN /\ aborted \in BOOLEAN /\ phase \in Phases
  BY DEF GivenOK, TypeOK
<1>1. ASSUME NEW i \in Inputs, Steer(i) PROVE GivenOK'
  <2> USE DEF Steer, GivenOK
  <2>1. /\ ToSet(queue') = ToSet(queue) \cup {i}
        /\ ToSet(accepted') = ToSet(accepted) \cup {i}
        /\ queue' \in Seq(Inputs) /\ mirror' \in Seq(Inputs) /\ accepted' \in Seq(Inputs)
        /\ i \notin ToSet(queue) => Distinct(queue')
    BY <1>1, ToSetAppend DEF TypeOK, CoreOK
  <2>2. i \notin ToSet(queue)
    BY <1>1 DEF CoreOK
  <2>3. i \notin ToSet(drained) /\ i \notin ToSet(delivered)
    BY <1>1 DEF CoreOK
  <2>4. TypeOK'
    BY <1>1, <2>1 DEF TypeOK, run
  <2>5. CoreOK'
    BY <1>1, <2>1, <2>2, <2>3 DEF CoreOK, run
  <2> QED BY <2>4, <2>5
<1>2. ASSUME NEW i \in Inputs, RecallQueued(i) PROVE GivenOK'
  <2> USE DEF RecallQueued, GivenOK
  <2>1. /\ queue' \in Seq(Inputs) /\ ToSet(queue') = ToSet(queue) \ {i} /\ Distinct(queue')
    BY <1>2, WithoutElements DEF TypeOK, CoreOK
  <2>2. mirror' \in Seq(Inputs)
    BY <1>2, PosIs, RemoveAtElements DEF TypeOK, Without
  <2>3. TypeOK'
    BY <1>2, <2>1, <2>2 DEF TypeOK, run
  <2>4. CoreOK'
    BY <1>2, <2>1 DEF CoreOK, run
  <2> QED BY <2>3, <2>4
<1>3. ASSUME NEW i \in Inputs, RecallReturned(i) PROVE GivenOK'
  <2> USE DEF RecallReturned, GivenOK
  <2>1. returned' \in Seq(Inputs)
    BY <1>3, PosIs, RemoveAtElements DEF TypeOK, Without
  <2>2. TypeOK'
    BY <1>3, <2>1 DEF TypeOK, run
  <2>3. CoreOK'
    BY <1>3 DEF CoreOK, run
  <2> QED BY <2>2, <2>3
<1>4. CASE Abort
  BY <1>0, <1>4, MovesGiven DEF Abort, Keep
<1>5. CASE Evict
  <2> USE DEF Evict, GivenOK
  <2>1. ToSet(returned) \subseteq Inputs
    BY DEF ToSet, TypeOK
  <2>2. TypeOK'
    BY <1>5, <2>1 DEF TypeOK, run
  <2>3. CoreOK'
    BY <1>5 DEF CoreOK, run
  <2> QED BY <2>2, <2>3
<1>6. CASE Launch
  <2>1. /\ Keep /\ setup' = setup /\ phase' = "boot" /\ phase = "off"
        /\ cut' \in BOOLEAN /\ aborted' \in BOOLEAN
    BY <1>6 DEF Launch, Running
  <2> QED BY <2>1, MovesGiven DEF Phases
<1> QED BY <1>1, <1>2, <1>3, <1>4, <1>5, <1>6 DEF Requests

\* The next message goes from what was taken out to the model.
LEMMA DeliverOneGiven ==
    ASSUME GivenOK, DeliverOne
    PROVE  GivenOK'
<1> USE DEF GivenOK, DeliverOne, Goto
<1>1. drained \in Seq(Inputs) /\ drained # <<>> /\ mirror \in Seq(Inputs)
  BY DEF TypeOK, CoreOK
<1>2. /\ drained' \in Seq(Inputs) /\ Head(drained) \in Inputs
      /\ ToSet(drained) = {Head(drained)} \cup ToSet(drained')
      /\ Head(drained) \notin ToSet(drained') /\ Distinct(drained')
  BY <1>1, ToSetTail DEF CoreOK
<1>3. /\ delivered' \in Seq(Inputs)
      /\ ToSet(delivered') = ToSet(delivered) \cup {Head(drained)}
      /\ Head(drained) \notin ToSet(delivered) => Distinct(delivered')
  BY <1>2, ToSetAppend DEF TypeOK, CoreOK
<1>4. mirror' \in Seq(Inputs)
  BY <1>1
<1>5. TypeOK'
  BY <1>2, <1>3, <1>4 DEF TypeOK, Phases, EnginePhases
<1>6. drained' # <<>> <=> Len(drained) # 1
  <2>1. drained' \in Seq(Inputs) /\ Len(drained') = Len(drained) - 1 /\ Len(drained) \in Nat
    BY <1>1
  <2>2. drained' # <<>> <=> Len(drained') # 0
    BY <2>1
  <2> QED BY <2>1, <2>2
<1>7. CoreOK'
  <2>1. (drained # <<>> <=> phase \in {"fold", "deliver"})'
    BY <1>6
  <2> QED BY <1>2, <1>3, <2>1 DEF CoreOK
<1> QED BY <1>5, <1>7

\* Every step of the engine, the end of a compaction that discards included.
LEMMA EngineGiven ==
    ASSUME GivenOK, Engine
    PROVE  GivenOK'
<1>0. cut \in BOOLEAN /\ aborted \in BOOLEAN /\ phase \in Phases
  BY DEF GivenOK, TypeOK
<1>1. CASE EngineStarts
  BY <1>0, <1>1, MovesGiven DEF EngineStarts, Goto, Phases, EnginePhases
<1>2. CASE BootAborted
  BY <1>0, <1>2, MovesGiven DEF BootAborted, AfterEngine, Phases
<1>3. CASE TurnEnds
  BY <1>3, AssembleGiven DEF TurnEnds
<1>4. CASE TurnFails
  BY <1>0, <1>4, MovesGiven DEF TurnFails, Goto, Phases, EnginePhases
<1>5. CASE DiscardContext
  BY <1>0, <1>5, MovesGiven DEF DiscardContext, Goto, Phases, EnginePhases
<1>6. CASE DiscardEnds
  BY <1>6, EngineEndsGiven DEF DiscardEnds
<1>7. CASE SummarizeContext
  BY <1>0, <1>7, MovesGiven DEF SummarizeContext, Goto, Phases, EnginePhases
<1>8. CASE SummarizeEnds
  BY <1>8, AssembleGiven DEF SummarizeEnds
<1>9. CASE SummarizeFails
  BY <1>0, <1>9, MovesGiven DEF SummarizeFails, Goto, Phases, EnginePhases
<1>10. CASE SummarizeAborted
  BY <1>10, EngineEndsGiven DEF SummarizeAborted
<1>11. CASE FoldEnds
  BY <1>0, <1>11, MovesGiven DEF FoldEnds, Goto, Phases, EnginePhases
<1>12. CASE FoldFails
  <2> USE DEF GivenOK, FoldFails, Goto
  <2>1. phase' \in Phases /\ <<>> \in Seq(Inputs)
    BY <1>12 DEF Phases
  <2>2. TypeOK'
    BY <1>12, <2>1 DEF TypeOK, history
  <2>3. CoreOK'
    BY <1>12, ToSetEmpty DEF CoreOK, Distinct, history
  <2> QED BY <2>2, <2>3
<1>13. CASE DeliverOne
  BY <1>13, DeliverOneGiven
<1>14. CASE Leaves
  BY <1>14, EngineEndsGiven DEF Leaves
<1> QED BY <1>1, <1>2, <1>3, <1>4, <1>5, <1>6, <1>7, <1>8, <1>9, <1>10, <1>11, <1>12,
           <1>13, <1>14 DEF Engine

\* The Session around the engine.
LEMMA SessionRunGiven ==
    ASSUME GivenOK, SessionRun
    PROVE  GivenOK'
<1>0. cut \in BOOLEAN /\ aborted \in BOOLEAN
  BY DEF GivenOK, TypeOK
<1>1. CASE HookContinues
  BY <1>0, <1>1, MovesGiven DEF HookContinues, Goto, Phases
<1>2. CASE HooksEnd
  BY <1>0, <1>2, MovesGiven DEF HooksEnd, Goto, Phases
<1>3. CASE DriveEnds
  <2> USE DEF DriveEnds, GivenOK, Goto, history
  <2>1. returned' \in Seq(Inputs) /\ mirror' \in Seq(Inputs)
    BY <1>3, ToSetConcat DEF TypeOK
  <2>2. TypeOK'
    BY <1>3, <2>1 DEF TypeOK, Phases
  <2>3. CoreOK'
    BY <1>3 DEF CoreOK
  <2> QED BY <2>2, <2>3
<1> QED BY <1>1, <1>2, <1>3 DEF SessionRun

\* In every setup the lists are what they should be.
LEMMA GivenAlways == Spec => []GivenOK
<1>1. Init => GivenOK
  <2> SUFFICES ASSUME Init PROVE GivenOK
    OBVIOUS
  <2>1. TypeOK
    BY SteeringInit DEF SteeringOK
  <2>2. CoreOK
    BY ToSetEmpty DEF Init, CoreOK, Distinct
  <2> QED BY <2>1, <2>2 DEF GivenOK
<1>2. GivenOK /\ [Next]_vars => GivenOK'
  <2> SUFFICES ASSUME GivenOK, [Next]_vars PROVE GivenOK'
    OBVIOUS
  <2>1. CASE Next
    BY <2>1, RequestsGiven, EngineGiven, SessionRunGiven DEF Next
  <2>2. CASE UNCHANGED vars
    BY <2>2 DEF vars, run, lists, history, GivenOK, TypeOK, CoreOK
  <2> QED BY <2>1, <2>2
<1> QED BY <1>1, <1>2, PTL DEF Spec

\* Type correctness, in every setup.
THEOREM SteeringTypeCorrect == Spec => []TypeOK
<1>1. GivenOK => TypeOK
  BY DEF GivenOK
<1> QED BY <1>1, GivenAlways, PTL

\* In every setup, the lossy one included, the model is given only accepted inputs and none
\* of them twice: what goes wrong there is what the user is shown and handed back.
THEOREM SteeringGivenOnce == Spec => []GivenOnce
<1>1. GivenOK => GivenOnce
  BY DEF GivenOK, CoreOK, GivenOnce
<1> QED BY <1>1, GivenAlways, PTL

=============================================================================
