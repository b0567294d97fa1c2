------------------------- MODULE SubscribersProofs -------------------------
(***************************************************************************)
(* The types of DefaultSubscriber and its user, and the calls they make:   *)
(* what the proofs about a pipeline and about a merge share.               *)
(***************************************************************************)
EXTENDS Subscribers, SequenceTheorems, FiniteSetTheorems, TLAPS

(* A set of natural numbers has a least element.                           *)
LEMMA LeastExists ==
  ASSUME NEW T, T \subseteq Nat, T # {}
  PROVE  Min(T) \in T /\ \A y \in T : Min(T) =< y
<1> DEFINE Less == {ss \in Nat \X Nat : ss[1] < ss[2]}
<1>1. \A x, y \in Nat : y < x => <<y, x>> \in Less
  OBVIOUS
<1>2. IsWellFoundedOn(Less, Nat)
  BY NatLessThanWellFounded DEF OpToRel
<1> HIDE DEF Less
<1>3. PICK x \in T : \A y \in T : ~(<<y, x>> \in Less)
  BY <1>2, WFMin
<1>4. ASSUME NEW y \in T PROVE x =< y
  <2>1. x \in Nat /\ y \in Nat /\ ~(y < x)
    BY <1>1, <1>3
  <2> QED BY <2>1
<1> QED BY <1>3, <1>4 DEF Min

(* What erase() leaves of a sequence.                                      *)
LEMMA RemovedKeepsOrder ==
  ASSUME NEW S, NEW s \in Seq(S), NEW k \in 1 .. Len(s)
  PROVE  /\ RemoveAt(s, k) \in Seq(S)
         /\ Len(RemoveAt(s, k)) = Len(s) - 1 /\ DOMAIN RemoveAt(s, k) = 1 .. Len(s) - 1
         /\ \A j \in 1 .. Len(s) - 1 : RemoveAt(s, k)[j] = s[IF j < k THEN j ELSE j + 1]
<1> DEFINE n      == Len(s)
           before == SubSeq(s, 1, k - 1)
           behind == SubSeq(s, k + 1, n)
<1>1. n \in Nat /\ k \in 1 .. n /\ \A i \in 1 .. n : s[i] \in S
  BY LenProperties, ElementOfSeq
<1>2. before \in Seq(S) /\ Len(before) = k - 1 /\ \A j \in 1 .. k - 1 : before[j] = s[j]
  BY <1>1, SubSeqProperties
<1>3. behind \in Seq(S) /\ Len(behind) = n - k /\ \A j \in 1 .. n - k : behind[j] = s[k + j]
  BY <1>1, SubSeqProperties
<1>4. RemoveAt(s, k) = before \o behind
  BY DEF RemoveAt
<1> HIDE DEF n, before, behind
<1>5. /\ before \o behind \in Seq(S) /\ Len(before \o behind) = (k - 1) + (n - k)
      /\ \A j \in 1 .. (k - 1) + (n - k) :
           (before \o behind)[j] = IF j <= k - 1 THEN before[j] ELSE behind[j - (k - 1)]
  <2>1. /\ before \o behind \in Seq(S) /\ Len(before \o behind) = Len(before) + Len(behind)
        /\ \A j \in 1 .. Len(before) + Len(behind) :
             (before \o behind)[j] = IF j <= Len(before) THEN before[j] ELSE behind[j - Len(before)]
    BY <1>2, <1>3, ConcatProperties
  <2> QED BY <1>2, <1>3, <2>1
<1>6. (k - 1) + (n - k) = n - 1
  BY <1>1
<1>7. ASSUME NEW j \in 1 .. n - 1
      PROVE  (before \o behind)[j] = s[IF j < k THEN j ELSE j + 1]
  <2>1. CASE j < k
    BY <1>1, <1>2, <1>5, <1>6, <2>1
  <2>2. CASE ~(j < k)
    <3>1. j - (k - 1) \in 1 .. n - k /\ k + (j - (k - 1)) = j + 1 /\ ~(j <= k - 1)
      BY <1>1, <2>2
    <3>2. behind[j - (k - 1)] = s[j + 1]
      BY <1>3, <3>1
    <3> QED BY <1>5, <1>6, <2>2, <3>1, <3>2
  <2> QED BY <2>1, <2>2
<1>8. DOMAIN (before \o behind) = 1 .. n - 1
  BY <1>5, <1>6, LenProperties
<1> QED BY <1>4, <1>5, <1>6, <1>7, <1>8 DEF n

LEMMA TupleConcat ==
  \A a, b : <<a>> \o <<b>> = <<a, b>> /\ <<a>> \o <<>> = <<a>> /\ <<>> \o <<b>> = <<b>>
<1> SUFFICES ASSUME NEW a, NEW b
             PROVE  <<a>> \o <<b>> = <<a, b>> /\ <<a>> \o <<>> = <<a>> /\ <<>> \o <<b>> = <<b>>
  OBVIOUS
<1>1. <<a>> \o <<b>> = <<a, b>>
  <2> DEFINE s == <<a>>
             r == <<b>>
             t == <<a, b>>
             S == {a, b}
  <2>1. /\ s \in Seq(S) /\ Len(s) = 1 /\ s[1] = a /\ r \in Seq(S) /\ Len(r) = 1 /\ r[1] = b
        /\ t \in Seq(S) /\ Len(t) = 2 /\ t[1] = a /\ t[2] = b
    OBVIOUS
  <2> HIDE DEF s, r, t, S
  <2>2. /\ s \o r \in Seq(S) /\ Len(s \o r) = Len(t)
        /\ \A k \in 1 .. Len(t) : (s \o r)[k] = t[k]
    BY <2>1, ConcatProperties
  <2>3. s \o r = t
    BY <2>1, <2>2, SeqEqual
  <2> QED BY <2>3 DEF s, r, t
<1>2. <<a>> \o <<>> = <<a>>
  <2> DEFINE s == <<a>>
  <2>1. s \in Seq({a})
    OBVIOUS
  <2> HIDE DEF s
  <2>2. s \o <<>> = s
    BY <2>1
  <2> QED BY <2>2 DEF s
<1>3. <<>> \o <<b>> = <<b>>
  <2>1. <<b>> \in Seq({b}) /\ <<>> \in Seq({b})
    OBVIOUS
  <2> QED BY <2>1, ConcatProperties
<1> QED BY <1>1, <1>2, <1>3

LEMMA LoggedIsTyped ==
  ASSUME SubscriberTypeOK, NEW c \in Calls(Ends \cup {"onNext"})
  PROVE  Logged(c) \in [values : Seq(Nat), end : Ends \cup {"none"},
                        late : Seq(Calls(Ends \cup {"onNext"}))]
<1>1. c.arg \in Nat /\ c.sig \in Ends \cup {"onNext"}
  BY DEF Calls
<1>2. /\ log.values \in Seq(Nat) /\ log.late \in Seq(Calls(Ends \cup {"onNext"}))
      /\ log \in [values : Seq(Nat), end : Ends \cup {"none"},
                  late : Seq(Calls(Ends \cup {"onNext"}))]
  BY DEF SubscriberTypeOK
<1>3. /\ Append(log.values, c.arg) \in Seq(Nat)
      /\ Append(log.late, c) \in Seq(Calls(Ends \cup {"onNext"}))
  BY <1>1, <1>2, AppendProperties
<1> QED BY <1>1, <1>2, <1>3 DEF Logged

UserState == [calls : 0 .. MaxCalls, asked : Nat, canceled : BOOLEAN]

LEMMA UserActs ==
  ASSUME NEW u \in UserState, NEW n \in Nat
  PROVE  /\ [u EXCEPT !.asked = @ + n] \in UserState
         /\ u.calls < MaxCalls =>
              /\ [u EXCEPT !.calls = @ + 1, !.asked = @ + n] \in UserState
              /\ [u EXCEPT !.calls = @ + 1, !.canceled = TRUE] \in UserState
<1>1. u.asked + n \in Nat /\ (u.calls < MaxCalls => u.calls + 1 \in 0 .. MaxCalls)
  BY UserAssumption DEF UserState
<1> QED BY <1>1 DEF UserState

LEMMA SubscriberIsTyped ==
  ASSUME SubscriberTypeOK, NEW t, NEW signals, Head(agenda[t]) \in Calls(signals),
         SubscriberStep(t)
  PROVE  SubscriberTypeOK'
<1>1. /\ Size \subseteq Nat /\ SizeMax \in Size /\ 0 \in Size /\ \A n \in Demands : n \in Nat
      /\ \A n \in Size : Decrement(n) \in Size
  BY SizeAssumption, UserAssumption DEF Size, Decrement, Plus
<1>2. /\ subscriber \in [m_autoRequest : BOOLEAN, m_remaining : Size, held : BOOLEAN]
      /\ user \in UserState
  BY DEF SubscriberTypeOK, UserState
<1>3. ASSUME NEW sig \in Ends \cup {"onNext"}, On(t, Subscriber, sig)
      PROVE  Logged(Head(agenda[t])) \in [values : Seq(Nat), end : Ends \cup {"none"},
                                               late : Seq(Calls(Ends \cup {"onNext"}))]
  <2>1. Head(agenda[t]) \in Calls(Ends \cup {"onNext"})
    BY <1>3 DEF On, Calls
  <2> QED BY <2>1, LoggedIsTyped
<1>4. ASSUME NEW more, Reacts(t, more)
      PROVE  user' \in UserState
  <2>1. ASSUME MayCall
        PROVE  user.calls < MaxCalls
    BY <2>1 DEF MayCall
  <2>2. ASSUME NEW n \in Demands, MayCall
        PROVE  [user EXCEPT !.calls = @ + 1, !.asked = @ + n] \in UserState
    BY <1>1, <1>2, <2>1, <2>2, UserActs
  <2>3. ASSUME MayCall
        PROVE  [user EXCEPT !.calls = @ + 1, !.canceled = TRUE] \in UserState
    <3>1. 0 \in Nat
      OBVIOUS
    <3> QED BY <1>2, <2>1, <2>3, <3>1, UserActs
  <2>4. CASE MayCall /\ UserRequest(t, more)
    <3>1. PICK n \in Demands : user' = [user EXCEPT !.calls = @ + 1, !.asked = @ + n]
      BY <2>4 DEF UserRequest
    <3> QED BY <2>2, <2>4, <3>1
  <2>5. CASE MayCall /\ UserCancel(t, more)
    BY <2>3, <2>5 DEF UserCancel
  <2> QED BY <1>2, <1>4, <2>4, <2>5 DEF Reacts
<1>5. ASSUME RequestsAll(t)
      PROVE  user' \in UserState
  BY <1>1, <1>2, <1>5, UserActs DEF RequestsAll
<1>6. CASE OnSubscribed(t)
  BY <1>1, <1>2, <1>4, <1>5, <1>6 DEF OnSubscribed, SubscriberTypeOK, UserState
<1>7. CASE OnNext(t)
  <2>1. log' = Logged(Head(agenda[t])) /\ On(t, Subscriber, "onNext")
    BY <1>7 DEF OnNext
  <2>2. subscriber' \in [m_autoRequest : BOOLEAN, m_remaining : Size, held : BOOLEAN]
    BY <1>1, <1>2, <1>7 DEF OnNext
  <2>3. user' \in UserState
    BY <1>4, <1>7 DEF OnNext
  <2> QED BY <1>3, <2>1, <2>2, <2>3 DEF SubscriberTypeOK, UserState
<1>8. CASE Received(t)
  BY <1>1, <1>2, <1>5, <1>8 DEF Received, SubscriberTypeOK, UserState
<1>9. CASE OnEnd(t)
  <2>1. PICK sig \in Ends : On(t, Subscriber, sig)
    BY <1>9 DEF OnEnd, Ends
  <2>2. log' = Logged(Head(agenda[t])) /\ user' = user
    BY <1>9 DEF OnEnd
  <2>3. subscriber' \in [m_autoRequest : BOOLEAN, m_remaining : Size, held : BOOLEAN]
    BY <1>2, <1>9 DEF OnEnd
  <2> QED BY <1>2, <1>3, <2>1, <2>2, <2>3 DEF SubscriberTypeOK, UserState
<1> QED BY <1>6, <1>7, <1>8, <1>9 DEF SubscriberStep

LEMMA UserIsTyped ==
  ASSUME SubscriberTypeOK, UserCalls
  PROVE  SubscriberTypeOK'
<1>1. user \in UserState /\ user.calls < MaxCalls /\ \A n \in Demands : n \in Nat
  <2>1. user \in UserState
    BY DEF SubscriberTypeOK, UserState
  <2>2. user.calls < MaxCalls
    BY DEF UserCalls, MayCall
  <2> QED BY <2>1, <2>2, UserAssumption, SizeAssumption DEF Size
<1>2. user' \in UserState
  <2>1. \A n \in Demands : [user EXCEPT !.calls = @ + 1, !.asked = @ + n] \in UserState
    BY <1>1, UserActs
  <2>2. [user EXCEPT !.calls = @ + 1, !.canceled = TRUE] \in UserState
    <3>1. 0 \in Nat
      OBVIOUS
    <3> QED BY <1>1, <3>1, UserActs
  <2>3. \/ \E n \in Demands : user' = [user EXCEPT !.calls = @ + 1, !.asked = @ + n]
        \/ user' = [user EXCEPT !.calls = @ + 1, !.canceled = TRUE]
    BY DEF UserCalls
  <2> QED BY <2>1, <2>2, <2>3
<1>3. UNCHANGED <<subscriber, log>>
  BY DEF UserCalls
<1> QED BY <1>2, <1>3 DEF SubscriberTypeOK, UserState


(* The calls that the subscriber and its user make, on the part below and  *)
(* on the subscriber itself.                                               *)
UserSent == {Request(Depth, n) : n \in Nat} \cup {Cancel(Depth), Call(Subscriber, "received", 0)}

LEMMA SubscriberCalls ==
  ASSUME NEW t, SubscriberStep(t)
  PROVE  \E calls \in Seq(UserSent) : Makes(t, calls)
<1>1. /\ \A n \in Nat : Request(Depth, n) \in UserSent
      /\ Cancel(Depth) \in UserSent /\ Call(Subscriber, "received", 0) \in UserSent
  BY DEF UserSent
<1>2. SizeMax \in Nat /\ \A n \in Demands : n \in Nat
  BY UserAssumption, SizeAssumption DEF Size
<1> HIDE DEF UserSent
<1>3. <<>> \in Seq(UserSent) /\ <<Call(Subscriber, "received", 0)>> \in Seq(UserSent)
  BY <1>1
<1>4. CASE OnEnd(t)
  BY <1>3, <1>4 DEF OnEnd
<1>5. ASSUME RequestsAll(t)
      PROVE  \E calls \in Seq(UserSent) : Makes(t, calls)
  <2>1. <<Request(Depth, SizeMax)>> \in Seq(UserSent)
    BY <1>1, <1>2
  <2> QED BY <1>3, <1>5, <2>1 DEF RequestsAll
<1>6. CASE Received(t)
  BY <1>3, <1>5, <1>6 DEF Received
<1>7. ASSUME NEW more \in Seq(UserSent), Reacts(t, more)
      PROVE  \E calls \in Seq(UserSent) : Makes(t, calls)
  <2>1. ASSUME NEW n \in Demands PROVE <<Request(Depth, n)>> \o more \in Seq(UserSent)
    <3>1. <<Request(Depth, n)>> \in Seq(UserSent)
      BY <1>1, <1>2
    <3> QED BY <3>1, ConcatProperties
  <2>2. <<Cancel(Depth)>> \o more \in Seq(UserSent)
    <3>1. <<Cancel(Depth)>> \in Seq(UserSent)
      BY <1>1
    <3> QED BY <3>1, ConcatProperties
  <2> QED BY <1>7, <2>1, <2>2 DEF Reacts, UserRequest, UserCancel
<1>8. CASE OnSubscribed(t)
  BY <1>3, <1>5, <1>7, <1>8 DEF OnSubscribed
<1>9. CASE OnNext(t)
  BY <1>3, <1>7, <1>9 DEF OnNext
<1> QED BY <1>4, <1>6, <1>8, <1>9 DEF SubscriberStep

LEMMA UserMakesOne ==
  ASSUME UserCalls
  PROVE  \E d \in UserSent : agenda' = [agenda EXCEPT ![Client] = <<d>>] /\ UNCHANGED pending
<1>1. \A n \in Demands : n \in Nat
  BY UserAssumption, SizeAssumption DEF Size
<1>2. /\ \A n \in Demands : Request(Depth, n) \in UserSent
      /\ Cancel(Depth) \in UserSent
  BY <1>1 DEF UserSent
<1> QED BY <1>2 DEF UserCalls

LEMMA SubscriberInitTyped ==
  ASSUME SubscriberInit
  PROVE  SubscriberTypeOK
<1>1. /\ {0} \subseteq Size /\ AutoRequest \subseteq BOOLEAN /\ {FALSE} \subseteq BOOLEAN
      /\ 0 \in 0 .. MaxCalls /\ 0 \in Nat
  BY UserAssumption, SizeAssumption DEF Size
<1>2. /\ subscriber \in [m_autoRequest : AutoRequest, m_remaining : {0}, held : {FALSE}]
      /\ user = [calls |-> 0, asked |-> 0, canceled |-> FALSE]
      /\ log = [values |-> <<>>, end |-> "none", late |-> <<>>]
  BY DEF SubscriberInit
<1>3. subscriber \in [m_autoRequest : BOOLEAN, m_remaining : Size, held : BOOLEAN]
  BY <1>1, <1>2
<1>4. user \in [calls : 0 .. MaxCalls, asked : Nat, canceled : BOOLEAN]
  BY <1>1, <1>2
<1>5. log \in [values : Seq(Nat), end : Ends \cup {"none"}, late : Seq(Calls(Ends \cup {"onNext"}))]
  BY <1>2, EmptySeq
<1> QED BY <1>3, <1>4, <1>5 DEF SubscriberTypeOK

---------------------------------------------------------------------------
(* The sum of the values of a function, as the number of its pieces.       *)
Pieces(f) == UNION {{k} \X (1 .. f[k]) : k \in DOMAIN f}
Total(f)  == Cardinality(Pieces(f))

LEMMA PiecesAre ==
  \A S : \A f \in [S -> Nat] : \A w :
    w \in Pieces(f) <=> \E k \in S : \E i \in 1 .. f[k] : w = <<k, i>>
<1> SUFFICES ASSUME NEW S, NEW f \in [S -> Nat], NEW w
             PROVE  w \in Pieces(f) <=> \E k \in S : \E i \in 1 .. f[k] : w = <<k, i>>
  OBVIOUS
<1>1. \A k : w \in {k} \X (1 .. f[k]) <=> \E i \in 1 .. f[k] : w = <<k, i>>
  OBVIOUS
<1> QED BY <1>1 DEF Pieces

LEMMA PiecesOfOne ==
  ASSUME NEW k, NEW n \in Nat
  PROVE  IsFiniteSet({k} \X (1 .. n)) /\ Cardinality({k} \X (1 .. n)) = n
<1>1. IsFiniteSet(1 .. n) /\ Cardinality(1 .. n) = n
  <2>1. 1 \in Int /\ n \in Int
    OBVIOUS
  <2>2. IsFiniteSet(1 .. n) /\ Cardinality(1 .. n) = IF 1 > n THEN 0 ELSE n - 1 + 1
    BY <2>1, FS_Interval
  <2> QED BY <2>2
<1>2. IsFiniteSet({k}) /\ Cardinality({k}) = 1
  BY FS_Singleton
<1> DEFINE U == 1 .. n
           V == {k}
<1>3. IsFiniteSet(U) /\ Cardinality(U) = n /\ IsFiniteSet(V) /\ Cardinality(V) = 1
  BY <1>1, <1>2
<1> HIDE DEF U, V
<1>4. IsFiniteSet(V \X U) /\ Cardinality(V \X U) = Cardinality(V) * Cardinality(U)
  BY <1>3, FS_Product
<1>5. Cardinality(V \X U) = n
  BY <1>3, <1>4
<1> QED BY <1>4, <1>5 DEF U, V

LEMMA TotalIsNat ==
  ASSUME NEW S, IsFiniteSet(S), NEW f \in [S -> Nat]
  PROVE  IsFiniteSet(Pieces(f)) /\ Total(f) \in Nat
<1> DEFINE T == {{k} \X (1 .. f[k]) : k \in S}
           g == [k \in S |-> {k} \X (1 .. f[k])]
<1>1. g \in Surjection(S, T)
  BY DEF Surjection
<1>2. IsFiniteSet(T)
  <2> HIDE DEF g, T
  <2> QED BY <1>1, FS_Surjection
<1>3. \A U \in T : IsFiniteSet(U)
  <2>1. ASSUME NEW k \in S PROVE IsFiniteSet({k} \X (1 .. f[k]))
    <3>1. f[k] \in Nat
      OBVIOUS
    <3> QED BY <3>1, PiecesOfOne
  <2> QED BY <2>1
<1>4. Pieces(f) = UNION T
  BY DEF Pieces
<1>5. IsFiniteSet(Pieces(f))
  <2> HIDE DEF T
  <2> QED BY <1>2, <1>3, <1>4, FS_UNION
<1> QED BY <1>5, FS_CardinalityType DEF Total

(* One value changes.                                                      *)
LEMMA TotalChanges ==
  ASSUME NEW S, NEW f \in [S -> Nat], NEW g \in [S -> Nat], NEW k \in S,
         \A j \in S \ {k} : g[j] = f[j], IsFiniteSet(Pieces(f))
  PROVE  /\ IsFiniteSet(Pieces(g)) /\ Total(f) \in Nat /\ Total(g) \in Nat
         /\ Total(g) + f[k] = Total(f) + g[k]
<1> DEFINE old  == {k} \X (1 .. f[k])
           new  == {k} \X (1 .. g[k])
           rest == {w \in Pieces(f) : w[1] # k}
<1>1. Pieces(f) = rest \cup old /\ rest \cap old = {}
  <2>1. \A w \in old : w[1] = k /\ \E i \in 1 .. f[k] : w = <<k, i>>
    OBVIOUS
  <2>2. ASSUME NEW w \in Pieces(f), w[1] = k PROVE w \in old
    <3>1. PICK j \in S : \E i \in 1 .. f[j] : w = <<j, i>>
      BY PiecesAre
    <3>2. j = k
      BY <2>2, <3>1
    <3> QED BY <3>1, <3>2
  <2>3. old \subseteq Pieces(f)
    BY <2>1, PiecesAre
  <2> QED BY <2>1, <2>2, <2>3
<1>2. Pieces(g) = rest \cup new /\ rest \cap new = {}
  <2>1. \A w \in new : w[1] = k /\ \E i \in 1 .. g[k] : w = <<k, i>>
    OBVIOUS
  <2>2. ASSUME NEW w \in Pieces(g) PROVE w \in rest \cup new
    <3>1. PICK j \in S : \E i \in 1 .. g[j] : w = <<j, i>>
      BY PiecesAre
    <3>2. CASE j = k
      BY <3>1, <3>2
    <3>3. CASE j # k
      <4>1. w[1] = j /\ \E i \in 1 .. f[j] : w = <<j, i>>
        BY <3>1, <3>3
      <4> QED BY <3>3, <4>1, PiecesAre
    <3> QED BY <3>2, <3>3
  <2>3. ASSUME NEW w \in rest PROVE w \in Pieces(g)
    <3>1. PICK j \in S : \E i \in 1 .. f[j] : w = <<j, i>>
      BY PiecesAre
    <3>2. j # k
      BY <3>1
    <3>3. \E i \in 1 .. g[j] : w = <<j, i>>
      BY <3>1, <3>2
    <3> QED BY <3>3, PiecesAre
  <2>4. new \subseteq Pieces(g)
    BY <2>1, PiecesAre
  <2> QED BY <2>1, <2>2, <2>3, <2>4
<1>3. IsFiniteSet(rest) /\ Cardinality(rest) \in Nat
  <2>1. rest \subseteq Pieces(f)
    OBVIOUS
  <2> HIDE DEF rest
  <2> QED BY <2>1, FS_Subset, FS_CardinalityType
<1>4. /\ IsFiniteSet(old) /\ Cardinality(old) = f[k] /\ f[k] \in Nat
      /\ IsFiniteSet(new) /\ Cardinality(new) = g[k] /\ g[k] \in Nat
  BY PiecesOfOne
<1> HIDE DEF old, new, rest
<1>5. Total(f) = Cardinality(rest) + f[k]
  <2>1. Cardinality(rest \cap old) = 0
    BY <1>1, FS_EmptySet
  <2>2. Cardinality(rest \cup old) = Cardinality(rest) + Cardinality(old) - Cardinality(rest \cap old)
    BY <1>3, <1>4, FS_Union
  <2> QED BY <1>1, <1>3, <1>4, <2>1, <2>2 DEF Total
<1>6. Total(g) = Cardinality(rest) + g[k] /\ IsFiniteSet(Pieces(g))
  <2>1. Cardinality(rest \cap new) = 0
    BY <1>2, FS_EmptySet
  <2>2. /\ IsFiniteSet(rest \cup new)
        /\ Cardinality(rest \cup new) = Cardinality(rest) + Cardinality(new) - Cardinality(rest \cap new)
    BY <1>3, <1>4, FS_Union
  <2> QED BY <1>2, <1>3, <1>4, <2>1, <2>2 DEF Total
<1> QED BY <1>3, <1>4, <1>5, <1>6

LEMMA TotalOfSequence ==
  ASSUME NEW s \in Seq(Nat)
  PROVE  /\ s \in [1 .. Len(s) -> Nat] /\ Len(s) \in Nat
         /\ IsFiniteSet(Pieces(s)) /\ Total(s) \in Nat
<1>1. s \in [1 .. Len(s) -> Nat] /\ Len(s) \in Nat
  BY LenProperties, ElementOfSeq
<1>2. IsFiniteSet(1 .. Len(s))
  BY <1>1, FS_Interval
<1> QED BY <1>1, <1>2, TotalIsNat

LEMMA PiecesOfSequence ==
  ASSUME NEW s \in Seq(Nat)
  PROVE  \A w : w \in Pieces(s) <=> \E k \in 1 .. Len(s) : \E i \in 1 .. s[k] : w = <<k, i>>
<1> DEFINE D == 1 .. Len(s)
<1>1. s \in [D -> Nat]
  BY TotalOfSequence
<1> HIDE DEF D
<1>2. \A w : w \in Pieces(s) <=> \E k \in D : \E i \in 1 .. s[k] : w = <<k, i>>
  BY <1>1, PiecesAre
<1> QED BY <1>2 DEF D

LEMMA TotalConcat ==
  ASSUME NEW s \in Seq(Nat), NEW r \in Seq(Nat)
  PROVE  Total(s \o r) = Total(s) + Total(r)
<1> DEFINE n == Len(s)
           m == Len(r)
           shift == [w \in Pieces(r) |-> <<n + w[1], w[2]>>]
           T == {<<n + w[1], w[2]>> : w \in Pieces(r)}
<1>0. PICK b : b = s \o r
  OBVIOUS
<1>1. /\ n \in Nat /\ m \in Nat /\ s \in [1 .. n -> Nat] /\ r \in [1 .. m -> Nat]
      /\ b \in Seq(Nat) /\ Len(b) = n + m /\ b \in [1 .. n + m -> Nat]
      /\ \A k \in 1 .. n : b[k] = s[k]
      /\ \A k \in 1 .. m : b[n + k] = r[k]
  <2>1. n \in Nat /\ m \in Nat /\ s \in [1 .. n -> Nat] /\ r \in [1 .. m -> Nat]
    BY TotalOfSequence
  <2>2. /\ b \in Seq(Nat) /\ Len(b) = n + m
        /\ \A k \in 1 .. n : b[k] = s[k]
        /\ \A k \in 1 .. m : b[n + k] = r[k]
    BY <1>0, <2>1, ConcatProperties
  <2> HIDE DEF n, m
  <2>3. b \in [1 .. n + m -> Nat]
    BY <2>2, TotalOfSequence
  <2> QED BY <2>1, <2>2, <2>3
<1> HIDE DEF n, m
<1>a. \A w : w \in Pieces(s) <=> \E k \in 1 .. n : \E i \in 1 .. s[k] : w = <<k, i>>
  BY PiecesOfSequence DEF n
<1>b. \A w : w \in Pieces(r) <=> \E k \in 1 .. m : \E i \in 1 .. r[k] : w = <<k, i>>
  BY PiecesOfSequence DEF m
<1>c. \A w : w \in Pieces(b) <=> \E k \in 1 .. n + m : \E i \in 1 .. b[k] : w = <<k, i>>
  <2>1. b \in Seq(Nat) /\ Len(b) = n + m
    BY <1>1
  <2>2. \A w : w \in Pieces(b) <=> \E k \in 1 .. Len(b) : \E i \in 1 .. b[k] : w = <<k, i>>
    BY <2>1, PiecesOfSequence
  <2> QED BY <2>1, <2>2
<1>2. ASSUME NEW w \in Pieces(r)
      PROVE  \E k \in 1 .. m : \E i \in 1 .. r[k] : w = <<k, i>> /\ w[1] = k /\ w[2] = i
  <2>1. PICK k \in 1 .. m : \E i \in 1 .. r[k] : w = <<k, i>>
    BY <1>b
  <2>2. PICK i \in 1 .. r[k] : w = <<k, i>>
    BY <2>1
  <2>3. w[1] = k /\ w[2] = i
    BY <2>2
  <2> QED BY <2>2, <2>3
<1>3. shift \in Bijection(Pieces(r), T)
  <2>1. ASSUME NEW v \in Pieces(r), NEW w \in Pieces(r), shift[v] = shift[w]
        PROVE  v = w
    <3>1. PICK k \in 1 .. m, i \in Int : v = <<k, i>> /\ v[1] = k /\ v[2] = i
      BY <1>2
    <3>2. PICK j \in 1 .. m, l \in Int : w = <<j, l>> /\ w[1] = j /\ w[2] = l
      BY <1>2
    <3>3. n + k = n + j /\ i = l
      BY <2>1, <3>1, <3>2
    <3> QED BY <1>1, <3>1, <3>2, <3>3
  <2> QED BY <2>1 DEF Bijection, Injection, Surjection, IsInjective
<1>4. IsFiniteSet(T) /\ Cardinality(T) = Total(r)
  <2>1. ExistsBijection(Pieces(r), T)
    BY <1>3 DEF ExistsBijection
  <2> HIDE DEF T
  <2> QED BY <2>1, TotalOfSequence, FS_Bijection DEF Total
<1>5. Pieces(b) \subseteq Pieces(s) \cup T
  <2> SUFFICES ASSUME NEW w \in Pieces(b)
               PROVE  w \in Pieces(s) \cup T
    OBVIOUS
  <2>1. PICK k \in 1 .. n + m : \E i \in 1 .. b[k] : w = <<k, i>>
    BY <1>c
  <2>2. PICK i \in 1 .. b[k] : w = <<k, i>>
    BY <2>1
  <2>3. CASE k \in 1 .. n
    BY <1>1, <1>a, <2>2, <2>3
  <2>4. CASE ~(k \in 1 .. n)
    <3>1. k - n \in 1 .. m /\ n + (k - n) = k
      BY <1>1, <2>4
    <3>2. <<k - n, i>> \in Pieces(r)
      <4>1. b[k] = r[k - n]
        BY <1>1, <3>1
      <4> QED BY <1>b, <2>2, <3>1, <4>1
    <3>3. <<k, i>> = <<n + <<k - n, i>>[1], <<k - n, i>>[2]>>
      BY <3>1
    <3> QED BY <2>2, <3>2, <3>3
  <2> QED BY <2>3, <2>4
<1>6. Pieces(s) \subseteq Pieces(b)
  <2> SUFFICES ASSUME NEW w \in Pieces(s) PROVE w \in Pieces(b)
    OBVIOUS
  <2>1. PICK k \in 1 .. n : \E i \in 1 .. s[k] : w = <<k, i>>
    BY <1>a
  <2>2. k \in 1 .. n + m /\ b[k] = s[k]
    BY <1>1
  <2> QED BY <1>c, <2>1, <2>2
<1>7. T \subseteq Pieces(b)
  <2> SUFFICES ASSUME NEW w \in Pieces(r) PROVE <<n + w[1], w[2]>> \in Pieces(b)
    OBVIOUS
  <2>1. PICK k \in 1 .. m : \E i \in 1 .. r[k] : w[1] = k /\ w[2] = i
    BY <1>2
  <2>2. n + k \in 1 .. n + m /\ b[n + k] = r[k]
    BY <1>1
  <2>3. \E i \in 1 .. b[n + k] : <<n + w[1], w[2]>> = <<n + k, i>>
    BY <2>1, <2>2
  <2> QED BY <1>c, <2>2, <2>3
<1>8. Pieces(s) \cap T = {}
  <2> SUFFICES ASSUME NEW v \in Pieces(s), NEW w \in Pieces(r), v = <<n + w[1], w[2]>>
               PROVE  FALSE
    OBVIOUS
  <2>1. PICK k \in 1 .. n : \E i \in 1 .. s[k] : v = <<k, i>>
    BY <1>a
  <2>2. PICK j \in 1 .. m : w[1] = j
    BY <1>2
  <2>3. v[1] = k /\ v[1] = n + j
    BY <2>1, <2>2
  <2> QED BY <1>1, <2>3
<1>9. Pieces(b) = Pieces(s) \cup T
  BY <1>5, <1>6, <1>7
<1>10. Total(s) \in Nat /\ IsFiniteSet(Pieces(s)) /\ Total(r) \in Nat
  BY TotalOfSequence
<1> HIDE DEF T
<1>11. Cardinality(Pieces(b)) = Cardinality(Pieces(s)) + Cardinality(T) - Cardinality(Pieces(s) \cap T)
  BY <1>4, <1>9, <1>10, FS_Union
<1>12. Cardinality(Pieces(s) \cap T) = 0
  BY <1>8, FS_EmptySet
<1>13. Total(b) = Total(s) + Total(r)
  BY <1>4, <1>10, <1>11, <1>12 DEF Total
<1> QED BY <1>0, <1>13

LEMMA TotalOfFew ==
  /\ Total(<<>>) = 0
  /\ \A n \in Nat : Total(<<n>>) = n
<1>1. Total(<<>>) = 0
  <2>1. DOMAIN <<>> = {} /\ UNION {} = {}
    OBVIOUS
  <2>2. Pieces(<<>>) = {}
    BY <2>1 DEF Pieces
  <2> QED BY <2>2, FS_EmptySet DEF Total
<1>2. ASSUME NEW n \in Nat PROVE Total(<<n>>) = n
  <2>1. DOMAIN <<n>> = {1} /\ <<n>>[1] = n
    OBVIOUS
  <2>2. Pieces(<<n>>) = {1} \X (1 .. n)
    BY <2>1 DEF Pieces
  <2> QED BY <2>2, PiecesOfOne DEF Total
<1> QED BY <1>1, <1>2

LEMMA NoTotal ==
  ASSUME NEW S, NEW f \in [S -> Nat], \A k \in S : f[k] = 0
  PROVE  Pieces(f) = {} /\ IsFiniteSet(Pieces(f)) /\ Total(f) = 0
<1>1. Pieces(f) = {}
  <2>1. \A k \in S : ~\E i \in 1 .. f[k] : TRUE
    OBVIOUS
  <2> QED BY <2>1, PiecesAre
<1> QED BY <1>1, FS_EmptySet DEF Total

=============================================================================
