---------------------------- MODULE MergeProofs ----------------------------
(***************************************************************************)
(* A merge, for any number of publishers and whatever they and the         *)
(* subscriber do.  Its list of publishers: its index is a place of it, its *)
(* types are kept, and its turns are fair: no publisher is asked for a     *)
(* second value before each of those that were there at its last turn, and *)
(* still are, has been asked.  What it delivers: it implements Interleave, *)
(* gives no value unasked, keeps none back, and ends once.                 *)
(***************************************************************************)
EXTENDS Merge, SubscribersProofs

Members == {"m_subscriptions", "m_currentIndex", "sourceCompleted", "m_completed",
            "m_canceled", "m_remaining", "m_requested", "scheduler"}

(* IndexInRange of a state m of MergeSubscription, and what the proof needs *)
(* to know of the types: nothing of the calls under way is among it.       *)
Walkable(m) ==
  /\ m = [f \in Members |-> m[f]]
  /\ m.m_subscriptions \in Seq(Publishers)
  /\ m.m_currentIndex \in Nat
  /\ IF m.m_subscriptions = <<>> THEN m.m_currentIndex = 0
     ELSE m.m_currentIndex < Len(m.m_subscriptions)

(* What find_if finds is a place of the list.                              *)
LEMMA FoundInList ==
  ASSUME NEW s \in Seq(Publishers), NEW p \in Publishers
  PROVE  SelectInSeq(s, LAMBDA q : q = p) \in 0 .. Len(s)
<1> DEFINE I == {i \in 1 .. Len(s) : s[i] = p}
<1>1. Len(s) \in Nat
  BY LenProperties
<1>2. I # {} => Min(I) \in I
  <2>1. I \subseteq Nat
    BY <1>1
  <2> HIDE DEF I
  <2> QED BY <2>1, LeastExists
<1> QED BY <1>1, <1>2 DEF SelectInSeq

(* The members the walk does not depend on may change.                     *)
LEMMA OthersMayChange ==
  ASSUME NEW m, Walkable(m), NEW x,
         NEW f \in Members \ {"m_subscriptions", "m_currentIndex"}
  PROVE  Walkable([m EXCEPT ![f] = x])
BY DEF Walkable, Members

(* The index after the removal of element k of n, and its range.           *)
Moved(i, k, n) == IF i > k - 1 THEN i - 1 ELSE IF i >= n - 1 THEN 0 ELSE i

LEMMA MovedIsInRange ==
  ASSUME NEW n \in Nat, NEW k \in 1 .. n, NEW i \in Nat, i < n
  PROVE  Moved(i, k, n) \in Nat /\ IF n = 1 THEN Moved(i, k, n) = 0 ELSE Moved(i, k, n) < n - 1
BY DEF Moved

(* removePublisher() moves the index with the elements behind it.          *)
LEMMA RemovalKeeps ==
  ASSUME Walkable(merge), NEW p \in Publishers
  PROVE  Walkable(Removed(p))
<1> DEFINE s    == merge.m_subscriptions
           k    == SelectInSeq(s, LAMBDA q : q = p)
           left == IF merge.m_remaining > 0 THEN merge.m_remaining - 1 ELSE 0
           i    == merge.m_currentIndex
           to   == Moved(i, k, Len(s))
<1>1. s \in Seq(Publishers) /\ Len(s) \in Nat /\ i \in Nat /\ k \in 0 .. Len(s)
  BY FoundInList, LenProperties DEF Walkable
<1>2. CASE k = 0
  <2>1. Removed(p) = [merge EXCEPT !["m_remaining"] = left]
    BY <1>2 DEF Removed
  <2> HIDE DEF left
  <2>2. "m_remaining" \in Members \ {"m_subscriptions", "m_currentIndex"}
    BY DEF Members
  <2>3. Walkable([merge EXCEPT !["m_remaining"] = left])
    BY <2>2, OthersMayChange
  <2> QED BY <2>1, <2>3
<1>3. CASE k # 0
  <2>1. k \in 1 .. Len(s) /\ s # <<>> /\ i < Len(s)
    BY <1>1, <1>3, EmptySeq DEF Walkable
  <2>2. RemoveAt(s, k) \in Seq(Publishers) /\ Len(RemoveAt(s, k)) = Len(s) - 1
    BY <1>1, <2>1, RemovedKeepsOrder
  <2>3. to \in Nat /\ IF RemoveAt(s, k) = <<>> THEN to = 0 ELSE to < Len(RemoveAt(s, k))
    <3>1. to \in Nat /\ IF Len(s) = 1 THEN to = 0 ELSE to < Len(s) - 1
      BY <1>1, <2>1, MovedIsInRange
    <3>2. RemoveAt(s, k) = <<>> <=> Len(s) = 1
      <4> DEFINE r == RemoveAt(s, k)
      <4>1. r = <<>> <=> Len(r) = 0
        BY <2>2, EmptySeq
      <4> HIDE DEF k, s, i, to
      <4>2. Len(r) = 0 <=> Len(s) = 1
        BY <1>1, <2>2
      <4> QED BY <4>1, <4>2
    <3> QED BY <1>1, <2>1, <2>2, <3>1, <3>2
  <2>4. Removed(p) = [[[merge EXCEPT !["m_remaining"] = left]
                              EXCEPT !["m_subscriptions"] = RemoveAt(s, k)]
                              EXCEPT !["m_currentIndex"] = to]
    BY <1>3 DEF Removed, Walkable, Members, Moved
  <2> HIDE DEF k, s, i, to, left
  <2> QED BY <2>2, <2>3, <2>4 DEF Walkable, Members
<1> QED BY <1>2, <1>3

---------------------------------------------------------------------------
LEMMA CancelsKeeps ==
  ASSUME NEW t, NEW m, NEW calls, Walkable(m), Cancels(t, m, calls)
  PROVE  Walkable(merge')
<1>1. "m_canceled" \in Members \ {"m_subscriptions", "m_currentIndex"}
  BY DEF Members
<1>2. Walkable([m EXCEPT !["m_canceled"] = TRUE])
  BY <1>1, OthersMayChange
<1> QED BY <1>2 DEF Cancels

LEMMA ConcludesKeeps ==
  ASSUME NEW t, NEW m, Walkable(m), Concludes(t, m)
  PROVE  Walkable(merge')
<1> DEFINE over == ~m.m_completed /\ m.m_remaining = 0 /\ m.sourceCompleted
<1>1. "m_completed" \in Members \ {"m_subscriptions", "m_currentIndex"}
  BY DEF Members
<1>2. Walkable([m EXCEPT !["m_completed"] = m.m_completed \/ over])
  BY <1>1, OthersMayChange
<1>3. merge' = [m EXCEPT !["m_completed"] = m.m_completed \/ over]
  BY DEF Concludes
<1> QED BY <1>2, <1>3

(* The handlers of the source, of the subscriber's calls and of a publisher. *)
LEMMA HandlesKeeps ==
  ASSUME NEW t, Walkable(merge), Handles(t)
  PROVE  Walkable(merge')
<1> DEFINE Free == Members \ {"m_subscriptions", "m_currentIndex"}
<1>0. /\ "m_remaining" \in Free /\ "m_requested" \in Free /\ "sourceCompleted" \in Free
  BY DEF Members
<1>1. CASE Subscribed(t)
  BY <1>1 DEF Subscribed
<1>2. CASE SourceNext(t)
  <2>1. Walkable([merge EXCEPT !["m_remaining"] = merge.m_remaining + 1])
    BY <1>0, OthersMayChange
  <2> QED BY <1>2, <2>1 DEF SourceNext
<1>3. CASE SourceError(t)
  BY <1>3, CancelsKeeps DEF SourceError
<1>4. CASE SourceComplete(t)
  <2>1. Walkable([merge EXCEPT !["sourceCompleted"] = TRUE])
    BY <1>0, OthersMayChange
  <2> QED BY <1>4, <2>1, ConcludesKeeps DEF SourceComplete
<1>5. CASE MergeRequest(t)
  <2>1. Walkable([merge EXCEPT !["m_requested"] = Plus(merge.m_requested, Arg(t))])
    BY <1>0, OthersMayChange
  <2> QED BY <1>5, <2>1 DEF MergeRequest
<1>6. CASE MergeCancel(t)
  BY <1>6, CancelsKeeps DEF MergeCancel
<1>7. ASSUME NEW p \in Publishers, Receives(t, p) \/ OnPublisherNextValue(t, p)
      PROVE  Walkable(merge')
  BY <1>7 DEF Receives, OnPublisherNextValue
<1>8. ASSUME NEW p \in Publishers, Adds(t, p)
      PROVE  Walkable(merge')
  <2> DEFINE s == merge.m_subscriptions
  <2>1. /\ Append(s, p) \in Seq(Publishers) /\ Append(s, p) # <<>>
        /\ Len(s) \in Nat /\ Len(Append(s, p)) = Len(s) + 1
    BY AppendProperties, LenProperties, EmptySeq DEF Walkable
  <2>2. s # <<>> => merge.m_currentIndex < Len(s)
    BY DEF Walkable
  <2>3. merge.m_currentIndex \in Nat /\ merge.m_currentIndex < Len(s) + 1
    <3>1. CASE s = <<>>
      BY <2>1, <3>1 DEF Walkable
    <3>2. CASE s # <<>>
      BY <2>1, <2>2, <3>2 DEF Walkable
    <3> QED BY <3>1, <3>2
  <2>4. merge' = [merge EXCEPT !["m_subscriptions"] = Append(s, p)]
    BY <1>8 DEF Adds
  <2> HIDE DEF s
  <2> QED BY <2>1, <2>3, <2>4 DEF Walkable, Members
<1>9. ASSUME NEW p \in Publishers, OnPublisherError(t, p)
      PROVE  Walkable(merge')
  BY <1>9, RemovalKeeps, CancelsKeeps DEF OnPublisherError
<1>10. ASSUME NEW p \in Publishers, OnPublisherComplete(t, p)
       PROVE  Walkable(merge')
  BY <1>10, RemovalKeeps, ConcludesKeeps DEF OnPublisherComplete
<1> QED BY <1>1, <1>2, <1>3, <1>4, <1>5, <1>6, <1>7, <1>8, <1>9, <1>10 DEF Handles

(* A turn of the loop in tryRequest(): there is a publisher, and the index *)
(* moves on among those that are there.                                    *)
LEMMA GivesTurnKeeps ==
  ASSUME NEW t, Walkable(merge), GivesTurn(t)
  PROVE  Walkable(merge')
<1> DEFINE n  == Len(merge.m_subscriptions)
           to == (merge.m_currentIndex + 1) % n
<1>1. n \in Nat /\ n # 0 /\ merge.m_subscriptions # <<>>
  BY LenProperties, EmptySeq DEF GivesTurn, Stuck, Walkable
<1>2. to \in Nat /\ to < n
  <2>1. merge.m_currentIndex + 1 \in Nat
    BY DEF Walkable
  <2> HIDE DEF n
  <2> QED BY <1>1, <2>1
<1>3. merge' = [[merge EXCEPT !["m_requested"] = merge.m_requested - 1]
                       EXCEPT !["m_currentIndex"] = to]
  BY DEF GivesTurn, Walkable, Members
<1> HIDE DEF to
<1> QED BY <1>1, <1>2, <1>3 DEF Walkable, Members

(* m_currentIndex is a place of m_subscriptions whenever tryRequest() reads *)
(* it, or 0 if there is none: for any number of publishers, any way they   *)
(* end, and any calls of the subscriber.                                   *)
THEOREM MergeIndexInRange == Spec => []IndexInRange
<1>1. Init => Walkable(merge)
  <2> SUFFICES ASSUME Init PROVE Walkable(merge)
    OBVIOUS
  <2>1. merge \in [m_subscriptions : {<<>>}, m_currentIndex : {0}, sourceCompleted : {FALSE},
                   m_completed : {FALSE}, m_canceled : {FALSE}, m_remaining : {0},
                   m_requested : {0}, scheduler : Scheduled]
    BY DEF Init
  <2>2. merge = [f \in Members |-> merge[f]]
    BY <2>1 DEF Members
  <2>3. merge.m_subscriptions = <<>> /\ merge.m_currentIndex = 0
    BY <2>1
  <2>4. merge.m_subscriptions \in Seq(Publishers)
    BY <2>3, EmptySeq
  <2> QED BY <2>2, <2>3, <2>4 DEF Walkable
<1>2. Walkable(merge) /\ [Next]_vars => Walkable(merge)'
  <2> SUFFICES ASSUME Walkable(merge), [Next]_vars PROVE Walkable(merge')
    BY DEF Walkable
  <2>1. ASSUME Merges(Client) PROVE Walkable(merge')
    BY <2>1, HandlesKeeps, GivesTurnKeeps DEF Merges, StopsTurns
  <2>2. ASSUME Source(Client) \/ Inner(Client) PROVE merge' = merge
    BY <2>2 DEF Source, Inner, Subscribes, Requested, Canceled, mergeVars
  <2>3. ASSUME Takes \/ Terminated \/ UNCHANGED mergeVars \/ UNCHANGED vars PROVE merge' = merge
    BY <2>3 DEF Takes, Terminated, mergeVars, vars
  <2> QED BY <2>1, <2>2, <2>3 DEF Next, Works
<1>3. Walkable(merge) => IndexInRange
  BY DEF Walkable, IndexInRange
<1> QED BY <1>1, <1>2, <1>3, PTL DEF Spec

---------------------------------------------------------------------------
(* The calls under way.                                                    *)
MergeCalls == {c \in Calls(Sent) : c.at = Depth /\ c.sig = "onNext" => c.arg \in Publishers}
Tasks      == [when : {"now"}, call : MergeCalls]

CallsTypeOK ==
  /\ agenda \in [Threads -> Seq(Calls(Sent))]
  /\ agenda[Client] \in Seq(MergeCalls)
  /\ pending \in Seq(Tasks)

(* A call of publisher p, of the source or of MergeSubscription after      *)
(* which p may come to be in m_subscriptions.                              *)
Token(p, c) ==
  \/ c.at = Depth /\ c.sig = "subscribe"
  \/ c.at = 0 /\ c.sig = "subscribe"
  \/ c.at = 0 /\ c.sig = "emit" /\ c.arg <= p
  \/ c.at = 0 /\ c.sig = "emitted" /\ c.arg < p
  \/ c.at = Depth /\ c.sig = "onNext" /\ c.arg = p
  \/ c.at = p /\ c.sig \in {"subscribe", "onSubscribe", "add"}

Has(s, p) == \E k \in DOMAIN s : Token(p, s[k])
One(s, p) == \A j, k \in DOMAIN s : Token(p, s[j]) /\ Token(p, s[k]) => j = k

(* What the handler of call c makes: at most one such call, if it was one. *)
Conserves(c, calls) ==
  /\ calls \in Seq(MergeCalls)
  /\ \A p \in Publishers : One(calls, p) /\ (Has(calls, p) => Token(p, c))

LEMMA DepthIsNat == Depth \in Nat /\ Depth > 0 /\ Client \in Threads
BY DepthAssumption, MergeAssumption DEF Threads

LEMMA CallIsTyped ==
  ASSUME NEW i \in 0 .. Subscriber, NEW sig \in Sent, NEW arg \in Nat,
         i = Depth /\ sig = "onNext" => arg \in Publishers
  PROVE  /\ Call(i, sig, arg) \in MergeCalls
         /\ Call(i, sig, arg).at = i /\ Call(i, sig, arg).sig = sig /\ Call(i, sig, arg).arg = arg
<1>1. Call(i, sig, arg) \in Calls(Sent)
  BY DEF Calls, Call
<1>2. Call(i, sig, arg).at = i /\ Call(i, sig, arg).sig = sig /\ Call(i, sig, arg).arg = arg
  BY DEF Call
<1> HIDE DEF Calls, Call
<1> QED BY <1>1, <1>2 DEF MergeCalls

(* The calls that are none of them.                                        *)
Harmless == Sent \ {"subscribe", "onSubscribe", "add", "emit", "emitted"}
Plain    == {c \in MergeCalls : \/ c.at = Subscriber
                                \/ c.sig \in Harmless /\ ~(c.at = Depth /\ c.sig = "onNext")}

LEMMA PlacesDiffer ==
  /\ Depth # 0 /\ Subscriber # 0 /\ Depth # Subscriber
  /\ 0 \notin Publishers /\ Depth \notin Publishers /\ Subscriber \notin Publishers
  /\ 0 \in Nat /\ 1 \in Nat
BY DepthIsNat DEF Subscriber, Publishers

(* The parts a call may be at, and the signals it may carry, name by name. *)
Places == {0, Depth, Subscriber} \cup Publishers

LEMMA PlacesNamed ==
  0 \in Places /\ Depth \in Places /\ Subscriber \in Places /\ Publishers \subseteq Places
BY DEF Places

LEMMA SentNamed ==
  /\ "subscribe" \in Sent /\ "onSubscribe" \in Sent /\ "onNext" \in Sent
  /\ "onComplete" \in Sent /\ "onError" \in Sent /\ "request" \in Sent /\ "cancel" \in Sent
  /\ "emit" \in Sent /\ "emitted" \in Sent /\ "received" \in Sent /\ "add" \in Sent
  /\ "onPublisherNextValue" \in Sent /\ "onPublisherError" \in Sent
  /\ "onPublisherComplete" \in Sent /\ "tryRequest" \in Sent
BY DEF Sent

LEMMA NewCall ==
  ASSUME NEW i \in Places, NEW sig \in Sent, NEW arg \in Nat,
         i = Depth /\ sig = "onNext" => arg \in Publishers
  PROVE  /\ Call(i, sig, arg) \in MergeCalls
         /\ Call(i, sig, arg).at = i /\ Call(i, sig, arg).sig = sig /\ Call(i, sig, arg).arg = arg
<1>1. i \in 0 .. Subscriber
  BY DepthIsNat DEF Places, Subscriber, Publishers
<1> QED BY <1>1, CallIsTyped

LEMMA CallIsPlain ==
  ASSUME NEW i \in 0 .. Subscriber, NEW sig \in Sent, NEW arg \in Nat,
         i = Subscriber \/ (sig \in Harmless /\ ~(i = Depth /\ sig = "onNext"))
  PROVE  Call(i, sig, arg) \in Plain
<1>1. i = Depth /\ sig = "onNext" => arg \in Publishers
  BY DepthIsNat DEF Subscriber
<1> QED BY <1>1, CallIsTyped DEF Plain

LEMMA PlainIsNoToken ==
  ASSUME NEW d \in Plain, NEW p \in Publishers
  PROVE  ~Token(p, d)
BY DepthIsNat DEF Plain, Harmless, Token, Publishers, Subscriber

LEMMA PlainConserve ==
  ASSUME NEW c, NEW calls \in Seq(Plain)
  PROVE  Conserves(c, calls) /\ \A p \in Publishers : ~Has(calls, p)
<1>1. calls \in Seq(MergeCalls) /\ \A k \in DOMAIN calls : calls[k] \in Plain
  BY SeqMonotonic, ElementOfSeq, LenProperties DEF Plain
<1> QED BY <1>1, PlainIsNoToken DEF Conserves, One, Has

LEMMA SingleConserves ==
  ASSUME NEW c, NEW d \in MergeCalls, \A p \in Publishers : Token(p, d) => Token(p, c)
  PROVE  Conserves(c, <<d>>)
<1>1. <<d>> \in Seq(MergeCalls) /\ DOMAIN <<d>> = {1} /\ <<d>>[1] = d
  OBVIOUS
<1> HIDE DEF MergeCalls
<1> QED BY <1>1 DEF Conserves, One, Has

---------------------------------------------------------------------------
(* The calls each handler makes.                                           *)
Sends(calls) == Makes(Client, calls) \/ Leaves(Client, TRUE, calls)

LEMMA LeavesSends ==
  ASSUME NEW later, NEW calls, Leaves(Client, later, calls)
  PROVE  Sends(calls)
BY DEF Leaves, Sends

LEMMA HeadIsTyped ==
  ASSUME CallsTypeOK, agenda[Client] # <<>>
  PROVE  /\ Head(agenda[Client]) \in MergeCalls
         /\ Head(agenda[Client]) \in Calls(Sent)
         /\ Arg(Client) \in Nat
BY HeadTailProperties DEF CallsTypeOK, Arg, MergeCalls, Calls

LEMMA SourceConserves ==
  ASSUME CallsTypeOK, input.end \in Ends, Source(Client)
  PROVE  \E calls : Conserves(Head(agenda[Client]), calls) /\ Sends(calls)
<1> DEFINE c == Head(agenda[Client])
           q == Arg(Client)
<1>0. q \in Nat /\ Depth \in Nat /\ Depth > 0
  BY HeadIsTyped, DepthIsNat DEF Source, On
<1>1. CASE On(Client, 0, "subscribe") /\ Leaves(Client, input.later, <<Call(0, "emit", 1)>>)
  <2>1. Call(0, "emit", 1) \in MergeCalls
    BY <1>0, CallIsTyped DEF Subscriber, Sent
  <2>2. Conserves(c, <<Call(0, "emit", 1)>>)
    BY <1>0, <1>1, <2>1, SingleConserves DEF On, Token, Call
  <2> QED BY <1>1, <2>2, LeavesSends
<1>2. CASE On(Client, 0, "emit") /\ Makes(Client, <<Call(Depth, input.end, 0)>>)
  <2>1. Call(Depth, input.end, 0) \in Plain
    BY <1>0, CallIsPlain DEF Subscriber, Sent, Harmless, Ends
  <2>2. <<Call(Depth, input.end, 0)>> \in Seq(Plain)
    BY <2>1
  <2> QED BY <1>2, <2>2, PlainConserve DEF Sends
<1>3. CASE /\ On(Client, 0, "emit") /\ q \in Publishers
           /\ Makes(Client, <<Call(Depth, "onNext", q), Call(0, "emitted", q)>>)
  <2> DEFINE d == Call(Depth, "onNext", q)
             e == Call(0, "emitted", q)
  <2>1. /\ d \in MergeCalls /\ d.at = Depth /\ d.sig = "onNext" /\ d.arg = q
        /\ e \in MergeCalls /\ e.at = 0 /\ e.sig = "emitted" /\ e.arg = q
    BY <1>0, <1>3, NewCall, PlacesNamed, SentNamed, PlacesDiffer
  <2>2. ASSUME NEW p \in Publishers
        PROVE  /\ Token(p, d) => p = q /\ Token(p, c)
               /\ Token(p, e) => p # q /\ Token(p, c)
    BY <1>0, <1>3, <2>1 DEF Token, On, Arg, Publishers
  <2> HIDE DEF d, e
  <2> DEFINE both == <<d, e>>
  <2>3. both \in Seq(MergeCalls) /\ DOMAIN both = {1, 2} /\ both[1] = d /\ both[2] = e
    BY <2>1
  <2> HIDE DEF both, c, q
  <2>4. ASSUME NEW p \in Publishers
        PROVE  One(both, p) /\ (Has(both, p) => Token(p, c))
    BY <2>2, <2>3 DEF Has, One
  <2> QED BY <1>3, <2>3, <2>4 DEF Sends, Conserves, d, e, both, c, q
<1>4. CASE On(Client, 0, "emitted") /\ Leaves(Client, input.later, <<Call(0, "emit", q + 1)>>)
  <2> DEFINE d == Call(0, "emit", q + 1)
  <2>1. d \in MergeCalls /\ d.at = 0 /\ d.sig = "emit" /\ d.arg = q + 1
    BY <1>0, CallIsTyped DEF Subscriber, Sent
  <2>2. \A p \in Publishers : Token(p, d) => Token(p, c)
    BY <1>0, <1>4, <2>1 DEF On, Token, Arg, Publishers
  <2> HIDE DEF d
  <2>3. Conserves(c, <<d>>)
    BY <2>1, <2>2, SingleConserves
  <2> QED BY <1>4, <2>3, LeavesSends DEF d
<1> QED BY <1>1, <1>2, <1>3, <1>4 DEF Source

TypeInv == CallsTypeOK /\ TypeOK

LEMMA PublisherIsTyped ==
  ASSUME TypeOK, NEW p \in Publishers
  PROVE  /\ Pub(p) \in Published /\ inner[p].m_current \in Nat
         /\ p \in Nat /\ p \in 0 .. Subscriber /\ p # Subscriber /\ p # Depth /\ p # 0
         /\ \A k \in Nat : Element(p, k) \in Nat
<1>1. Pub(p) \in Published /\ inner[p].m_current \in Nat
  BY MergeAssumption DEF TypeOK, Pub
<1>2. p \in Nat /\ p \in 0 .. Subscriber /\ p # Subscriber /\ p # Depth /\ p # 0
  BY DepthIsNat DEF Publishers, Subscriber
<1>3. \A k \in Nat : Element(p, k) \in Nat
  BY <1>2, DepthIsNat DEF Element
<1> QED BY <1>1, <1>2, <1>3

LEMMA SubscribesConserves ==
  ASSUME TypeInv, NEW p \in Publishers, Subscribes(Client, p)
  PROVE  \E calls : Conserves(Head(agenda[Client]), calls) /\ Sends(calls)
<1> DEFINE c == Head(agenda[Client])
<1>0. 0 \in Nat /\ p \in 0 .. Subscriber /\ p # Depth
  BY PublisherIsTyped DEF TypeInv
<1>1. CASE Gate(p)
  <2> DEFINE values == [k \in 1 .. Pub(p).size |-> Call(p, "onNext", Element(p, k))]
             end    == IF Pub(p).end = "none" THEN <<>> ELSE <<Call(p, Pub(p).end, 0)>>
  <2>1. Pub(p).size \in Nat /\ Pub(p).end \in {"onComplete", "onError", "none"}
    BY PublisherIsTyped DEF TypeInv, Published
  <2>2. \A k \in 1 .. Pub(p).size : Call(p, "onNext", Element(p, k)) \in Plain
    <3>1. "onNext" \in Sent /\ "onNext" \in Harmless
      BY DEF Sent, Harmless
    <3>2. \A k \in 1 .. Pub(p).size : Element(p, k) \in Nat
      BY <2>1, PublisherIsTyped DEF TypeInv
    <3> QED BY <1>0, <3>1, <3>2, CallIsPlain
  <2>3. values \in Seq(Plain)
    BY <2>1, <2>2, IsASeq
  <2>4. end \in Seq(Plain)
    <3>1. CASE Pub(p).end = "none"
      BY <3>1
    <3>2. CASE Pub(p).end # "none"
      <4>1. Pub(p).end \in Sent /\ Pub(p).end \in Harmless /\ Pub(p).end # "onNext"
        BY <2>1, <3>2 DEF Sent, Harmless
      <4>2. Call(p, Pub(p).end, 0) \in Plain
        BY <1>0, <4>1, CallIsPlain
      <4> QED BY <3>2, <4>2
    <3> QED BY <3>1, <3>2
  <2>5. values \o end \in Seq(Plain)
    BY <2>3, <2>4, ConcatProperties
  <2>6. Leaves(Client, Pub(p).later, values \o end)
    BY <1>1 DEF Subscribes
  <2> HIDE DEF values, end
  <2> QED BY <2>5, <2>6, PlainConserve, LeavesSends
<1>2. CASE Pub(p).kind = "error"
  <2>1. "onError" \in Sent /\ "onError" \in Harmless
    BY DEF Sent, Harmless
  <2>2. <<Call(p, "onError", 0)>> \in Seq(Plain)
    BY <1>0, <2>1, CallIsPlain
  <2> QED BY <1>2, <2>2, PlainConserve, LeavesSends DEF Subscribes, Gate
<1>3. CASE ~Gate(p) /\ Pub(p).kind # "error"
  <2> DEFINE d == Call(p, "onSubscribe", 0)
  <2>1. d \in MergeCalls /\ d.at = p /\ d.sig = "onSubscribe"
    BY <1>0, CallIsTyped DEF Sent
  <2>2. \A r \in Publishers : Token(r, d) => Token(r, c)
    BY <1>0, <2>1, PublisherIsTyped DEF Subscribes, On, Token, TypeInv
  <2>3. Makes(Client, <<d>>)
    BY <1>3 DEF Subscribes
  <2> HIDE DEF d
  <2> QED BY <2>1, <2>2, <2>3, SingleConserves DEF Sends
<1> QED BY <1>1, <1>2, <1>3

LEMMA InnerConserves ==
  ASSUME TypeInv, Inner(Client)
  PROVE  \E calls : Conserves(Head(agenda[Client]), calls) /\ Sends(calls)
<1>0. /\ "onNext" \in Sent /\ "onNext" \in Harmless
      /\ "onComplete" \in Sent /\ "onComplete" \in Harmless /\ 0 \in Nat
  BY DEF Sent, Harmless
<1>1. ASSUME NEW p \in Publishers, Canceled(Client, p)
      PROVE  \E calls \in Seq(Plain) : Sends(calls)
  <2>1. <<Call(p, "onComplete", 0)>> \in Seq(Plain)
    BY <1>0, CallIsPlain, PublisherIsTyped DEF TypeInv
  <2> QED BY <1>1, <2>1, LeavesSends DEF Canceled
<1>2. ASSUME NEW p \in Publishers, Requested(Client, p)
      PROVE  \E calls \in Seq(Plain) : Sends(calls)
  <2> DEFINE v == <<Call(p, "onNext", Element(p, inner[p].m_current + 1))>>
             e == <<Call(p, "onComplete", 0)>>
  <2>1. v \in Seq(Plain) /\ e \in Seq(Plain) /\ <<>> \in Seq(Plain)
    BY <1>0, CallIsPlain, PublisherIsTyped DEF TypeInv
  <2> HIDE DEF v, e
  <2>2. v \o e \in Seq(Plain) /\ v \o <<>> \in Seq(Plain)
        /\ <<>> \o e \in Seq(Plain) /\ <<>> \o <<>> \in Seq(Plain)
    BY <2>1, ConcatProperties
  <2>3. PICK over, done, last \in BOOLEAN :
               Leaves(Client, Pub(p).later,
                      IF over THEN <<>> ELSE (IF done THEN <<>> ELSE v) \o (IF last THEN e ELSE <<>>))
    BY <1>2 DEF Requested, v, e
  <2> QED BY <2>1, <2>2, <2>3, LeavesSends
<1> QED BY <1>1, <1>2, SubscribesConserves, PlainConserve DEF Inner

(* cancel() walks some of the publishers that are there.                   *)
LEMMA WalkIsTyped ==
  ASSUME NEW s \in Seq(Publishers), NEW walk \in Walks(s)
  PROVE  walk \in Seq(Publishers)
<1>1. PICK places \in SeqOf(DOMAIN s, Len(s)) : walk = [j \in DOMAIN places |-> s[places[j]]]
  BY DEF Walks
<1>2. PICK n \in 0 .. Len(s) : places \in [1 .. n -> DOMAIN s]
  BY <1>1 DEF SeqOf
<1>3. n \in Nat /\ \A j \in 1 .. n : s[places[j]] \in Publishers
  BY <1>2, LenProperties, ElementOfSeq
<1>4. walk = [j \in 1 .. n |-> s[places[j]]]
  BY <1>1, <1>2
<1> QED BY <1>3, <1>4, IsASeq

LEMMA CancelsSends ==
  ASSUME NEW m, m.m_subscriptions \in Seq(Publishers), NEW calls \in Seq(Plain),
         Cancels(Client, m, calls)
  PROVE  \E more \in Seq(Plain) : Sends(more)
<1>1. PICK walk \in Walks(m.m_subscriptions) :
             Makes(Client, [k \in DOMAIN walk |-> Call(walk[k], "cancel", 0)] \o calls)
  BY DEF Cancels
<1>2. walk \in Seq(Publishers)
  BY WalkIsTyped
<1>3. "cancel" \in Sent /\ "cancel" \in Harmless /\ 0 \in Nat /\ "cancel" # "onNext"
  BY DEF Sent, Harmless
<1>4. \A k \in 1 .. Len(walk) : walk[k] \in 0 .. Subscriber
  BY <1>2, ElementOfSeq, DepthIsNat DEF Publishers, Subscriber
<1>5. \A k \in 1 .. Len(walk) : Call(walk[k], "cancel", 0) \in Plain
  BY <1>3, <1>4, CallIsPlain
<1>6. [k \in DOMAIN walk |-> Call(walk[k], "cancel", 0)] \in Seq(Plain)
  BY <1>2, <1>5, LenProperties, IsASeq
<1> QED BY <1>1, <1>6, ConcatProperties DEF Sends

LEMMA ConcludesSends ==
  ASSUME NEW m, Concludes(Client, m)
  PROVE  \E calls \in Seq(Plain) : Sends(calls)
<1>1. <<Completion(Depth)>> \in Seq(Plain) /\ <<>> \in Seq(Plain)
  BY DepthIsNat, CallIsPlain DEF Completion, Subscriber, Sent
<1> QED BY <1>1 DEF Concludes, Sends

(* The handlers of MergeSubscription that do not start a publisher.        *)
LEMMA MergesPlain ==
  ASSUME TypeInv, Walkable(merge),
         \/ SourceError(Client) \/ SourceComplete(Client)
         \/ MergeRequest(Client) \/ MergeCancel(Client)
         \/ GivesTurn(Client) \/ StopsTurns(Client)
         \/ \E p \in Publishers :
              \/ Adds(Client, p) \/ OnPublisherNextValue(Client, p)
              \/ OnPublisherError(Client, p) \/ OnPublisherComplete(Client, p)
  PROVE  \E calls \in Seq(Plain) : Sends(calls)
<1>0. /\ Depth \in 0 .. Subscriber /\ Subscriber \in 0 .. Subscriber /\ 0 \in Nat /\ 1 \in Nat
      /\ {"tryRequest", "request"} \subseteq Sent \cap Harmless /\ {"onNext", "onError"} \subseteq Sent
      /\ Subscriber = Depth + 1
  BY DepthIsNat DEF Subscriber, Sent, Harmless
<1>1. /\ Call(Depth, "tryRequest", 0) \in Plain
      /\ <<>> \in Seq(Plain) /\ <<Call(Depth, "tryRequest", 0)>> \in Seq(Plain)
  <2>1. Call(Depth, "tryRequest", 0) \in Plain
    BY <1>0, CallIsPlain
  <2> QED BY <2>1
<1>2. <<Failure(Depth)>> \in Seq(Plain)
  BY <1>0, CallIsPlain DEF Failure
<1>3. merge.m_subscriptions \in Seq(Publishers)
  BY DEF Walkable
<1>4. CASE SourceError(Client) \/ MergeCancel(Client)
  BY <1>1, <1>2, <1>3, <1>4, CancelsSends DEF SourceError, MergeCancel
<1>5. CASE SourceComplete(Client)
  BY <1>5, ConcludesSends DEF SourceComplete
<1>6. CASE MergeRequest(Client) \/ StopsTurns(Client)
  BY <1>1, <1>6 DEF MergeRequest, StopsTurns, Sends
<1>7. CASE GivesTurn(Client)
  <2> DEFINE q == merge.m_subscriptions[merge.m_currentIndex + 1]
  <2>1. q \in Publishers
    <3>1. PICK s \in Seq(Publishers), k \in Nat :
            s = merge.m_subscriptions /\ k = merge.m_currentIndex /\ q = s[k + 1]
      BY <1>3 DEF Walkable
    <3>2. s # <<>> /\ k < Len(s)
      BY <1>7, <3>1 DEF Walkable, GivesTurn, Stuck
    <3>3. k + 1 \in 1 .. Len(s)
      BY <3>2, LenProperties
    <3>4. s[k + 1] \in Publishers
      BY <3>3, ElementOfSeq
    <3> QED BY <3>1, <3>4
  <2>2. Makes(Client, <<Call(q, "request", 1), Call(Depth, "tryRequest", 0)>>)
    BY <1>7 DEF GivesTurn
  <2> HIDE DEF q
  <2>3. Call(q, "request", 1) \in Plain
    BY <1>0, <2>1, CallIsPlain, PublisherIsTyped DEF TypeInv
  <2>4. <<Call(q, "request", 1), Call(Depth, "tryRequest", 0)>> \in Seq(Plain)
    BY <1>1, <2>3
  <2> QED BY <2>2, <2>4 DEF Sends
<1>8. ASSUME NEW p \in Publishers, Adds(Client, p)
      PROVE  \E calls \in Seq(Plain) : Sends(calls)
  BY <1>1, <1>8 DEF Adds, Sends
<1>9. ASSUME NEW p \in Publishers, OnPublisherNextValue(Client, p)
      PROVE  \E calls \in Seq(Plain) : Sends(calls)
  <2>1. Arg(Client) \in Nat
    BY <1>9, HeadIsTyped DEF OnPublisherNextValue, On, TypeInv
  <2>2. <<Value(Depth, Arg(Client))>> \in Seq(Plain)
    BY <1>0, <2>1, CallIsPlain DEF Value
  <2> QED BY <1>1, <1>9, <2>2 DEF OnPublisherNextValue, Sends
<1>10. ASSUME NEW p \in Publishers, OnPublisherError(Client, p)
       PROVE  \E calls \in Seq(Plain) : Sends(calls)
  BY <1>2, <1>10, RemovalKeeps, CancelsSends DEF OnPublisherError, Walkable
<1>11. ASSUME NEW p \in Publishers, OnPublisherComplete(Client, p)
       PROVE  \E calls \in Seq(Plain) : Sends(calls)
  BY <1>11, ConcludesSends DEF OnPublisherComplete
<1> QED BY <1>4, <1>5, <1>6, <1>7, <1>8, <1>9, <1>10, <1>11

LEMMA MergesConserves ==
  ASSUME TypeInv, Walkable(merge), Merges(Client)
  PROVE  \E calls : Conserves(Head(agenda[Client]), calls) /\ Sends(calls)
<1> DEFINE c == Head(agenda[Client])
<1>0. 0 \in Nat /\ Depth \in 0 .. Subscriber /\ 0 \in 0 .. Subscriber /\ Depth # 0
      /\ Depth \in Nat /\ Subscriber = Depth + 1 /\ Subscriber \in 0 .. Subscriber
  BY DepthIsNat DEF Subscriber
<1>1. CASE Subscribed(Client)
  <2> DEFINE d == Call(0, "subscribe", 0)
             e == Subscription(Depth)
  <2>1. d \in MergeCalls
    BY <1>0, CallIsTyped DEF Sent
  <2>2. e \in Plain /\ e \in MergeCalls
    BY <1>0, CallIsPlain DEF Sent, Subscription, Plain
  <2>3. \A p \in Publishers : Token(p, c) /\ ~Token(p, e)
    BY <1>1, <2>2, PlainIsNoToken DEF Subscribed, On, Token
  <2>4. Makes(Client, <<d, e>>)
    BY <1>1 DEF Subscribed
  <2> HIDE DEF d, e, c
  <2> DEFINE both == <<d, e>>
  <2>5. both \in Seq(MergeCalls) /\ DOMAIN both = {1, 2} /\ both[1] = d /\ both[2] = e
    BY <2>1, <2>2
  <2> HIDE DEF both
  <2>6. ASSUME NEW p \in Publishers
        PROVE  One(both, p) /\ (Has(both, p) => Token(p, c))
    BY <2>3, <2>5 DEF One, Has
  <2>7. Conserves(c, both)
    BY <2>5, <2>6 DEF Conserves
  <2> QED BY <2>4, <2>7 DEF Sends, both, c
<1>2. CASE SourceNext(Client)
  <2> DEFINE q == Arg(Client)
             d == Call(q, "subscribe", 0)
  <2>1. q \in Publishers
    BY <1>2, HeadIsTyped DEF SourceNext, On, TypeInv, MergeCalls, Arg
  <2>2. d \in MergeCalls /\ d.at = q /\ d.sig = "subscribe"
    <3>1. q \in 0 .. Subscriber /\ "subscribe" \in Sent /\ "subscribe" # "onNext"
      BY <2>1, PublisherIsTyped DEF Sent, TypeInv
    <3> HIDE DEF q
    <3> QED BY <1>0, <3>1, CallIsTyped
  <2>3. \A p \in Publishers : Token(p, d) => Token(p, c)
    BY <1>0, <1>2, <2>1, <2>2, PublisherIsTyped DEF SourceNext, On, Token, TypeInv, Arg
  <2>4. Makes(Client, <<d>>)
    BY <1>2 DEF SourceNext
  <2> HIDE DEF d
  <2> QED BY <2>2, <2>3, <2>4, SingleConserves DEF Sends
<1>3. ASSUME NEW p \in Publishers, Receives(Client, p)
      PROVE  \E calls : Conserves(c, calls) /\ Sends(calls)
  <2>1. PICK sig \in DOMAIN Handlers :
               /\ On(Client, p, sig)
               /\ Leaves(Client, merge.scheduler, <<Call(p, Handlers[sig], Arg(Client))>>)
    BY <1>3 DEF Receives
  <2> DEFINE d == Call(p, Handlers[sig], Arg(Client))
  <2>2. Handlers[sig] \in Sent /\ Handlers[sig] # "onNext"
        /\ Handlers[sig] \notin {"subscribe", "onSubscribe", "emit", "emitted"}
        /\ (Handlers[sig] = "add" => sig = "onSubscribe")
    BY DEF Handlers, Sent
  <2>3. Arg(Client) \in Nat
    <3>1. agenda[Client] # <<>>
      BY <2>1 DEF On
    <3> QED BY <3>1, HeadIsTyped DEF TypeInv
  <2>4. d \in MergeCalls /\ d.at = p /\ d.sig = Handlers[sig]
    BY <2>2, <2>3, CallIsTyped, PublisherIsTyped DEF TypeInv
  <2> HIDE DEF Handlers
  <2>5. \A r \in Publishers : Token(r, d) => Token(r, c)
    BY <1>0, <2>1, <2>2, <2>4, PublisherIsTyped DEF On, Token, TypeInv
  <2> HIDE DEF d
  <2>6. Conserves(c, <<d>>)
    BY <2>4, <2>5, SingleConserves
  <2> QED BY <2>1, <2>6, LeavesSends DEF d
<1> QED BY <1>1, <1>2, <1>3, MergesPlain, PlainConserve DEF Merges, Handles

LEMMA UserSentIsPlain == UserSent \subseteq Plain
<1>1. /\ Depth \in 0 .. Subscriber /\ Subscriber \in 0 .. Subscriber /\ 0 \in Nat
      /\ {"request", "cancel"} \subseteq Sent \cap Harmless /\ "received" \in Sent
  BY DepthIsNat DEF Subscriber, Sent, Harmless
<1>2. \A n \in Nat : Request(Depth, n) \in Plain
  BY <1>1, CallIsPlain DEF Request
<1>3. Cancel(Depth) \in Plain /\ Call(Subscriber, "received", 0) \in Plain
  BY <1>1, CallIsPlain DEF Cancel
<1> QED BY <1>2, <1>3 DEF UserSent

LEMMA SubscriberConserves ==
  ASSUME TypeInv, SubscriberStep(Client)
  PROVE  \E calls \in Seq(Plain) : Makes(Client, calls)
<1>1. Seq(UserSent) \subseteq Seq(Plain)
  BY UserSentIsPlain, SeqMonotonic
<1> QED BY <1>1, SubscriberCalls

---------------------------------------------------------------------------
(* At most one of the calls under way can lead to publisher p, and a step  *)
(* makes none where there was none.                                        *)
Waiting   == [k \in DOMAIN pending |-> pending[k].call]
Held(p)   == Has(agenda[Client], p) \/ Has(Waiting, p)
Single(p) ==
  /\ One(agenda[Client], p) /\ One(Waiting, p)
  /\ ~(Has(agenda[Client], p) /\ Has(Waiting, p))

(* The three facts a step leaves to the next.                              *)
KeepsTokens ==
  /\ CallsTypeOK'
  /\ \A p \in Publishers : /\ Held(p)' => Held(p)
                           /\ Single(p) => Single(p)'

LEMMA ConcatTokens ==
  ASSUME NEW s \in Seq(MergeCalls), NEW r \in Seq(MergeCalls), NEW p \in Publishers
  PROVE  /\ Has(s \o r, p) => Has(s, p) \/ Has(r, p)
         /\ One(s, p) /\ One(r, p) /\ ~(Has(s, p) /\ Has(r, p)) => One(s \o r, p)
<1>1. /\ Len(s) \in Nat /\ Len(r) \in Nat /\ DOMAIN s = 1 .. Len(s) /\ DOMAIN r = 1 .. Len(r)
      /\ Len(s \o r) = Len(s) + Len(r) /\ DOMAIN (s \o r) = 1 .. Len(s) + Len(r)
  BY LenProperties, ConcatProperties
<1>2. ASSUME NEW k \in DOMAIN (s \o r)
      PROVE  \/ k \in DOMAIN s /\ (s \o r)[k] = s[k]
             \/ k - Len(s) \in DOMAIN r /\ k \notin DOMAIN s /\ (s \o r)[k] = r[k - Len(s)]
  BY <1>1, ConcatProperties
<1>3. Has(s \o r, p) => Has(s, p) \/ Has(r, p)
  BY <1>2 DEF Has
<1>4. ASSUME One(s, p), One(r, p), ~(Has(s, p) /\ Has(r, p)),
             NEW j \in DOMAIN (s \o r), NEW k \in DOMAIN (s \o r),
             Token(p, (s \o r)[j]), Token(p, (s \o r)[k])
      PROVE  j = k
  <2>1. CASE j \in DOMAIN s /\ k \in DOMAIN s
    BY <1>2, <1>4, <2>1 DEF One
  <2>2. CASE j \notin DOMAIN s /\ k \notin DOMAIN s
    <3>1. j - Len(s) = k - Len(s)
      BY <1>2, <1>4, <2>2 DEF One
    <3> QED BY <1>1, <3>1
  <2>3. CASE (j \in DOMAIN s) # (k \in DOMAIN s)
    BY <1>2, <1>4, <2>3 DEF Has
  <2> QED BY <2>1, <2>2, <2>3
<1> QED BY <1>3, <1>4 DEF One

LEMMA TailTokens ==
  ASSUME NEW s \in Seq(MergeCalls), s # <<>>, NEW p \in Publishers
  PROVE  /\ Tail(s) \in Seq(MergeCalls)
         /\ Has(Tail(s), p) => Has(s, p)
         /\ Token(p, Head(s)) => Has(s, p)
         /\ One(s, p) => One(Tail(s), p) /\ ~(Token(p, Head(s)) /\ Has(Tail(s), p))
<1>1. /\ Tail(s) \in Seq(MergeCalls) /\ Len(s) \in Nat /\ DOMAIN s = 1 .. Len(s)
      /\ DOMAIN Tail(s) = 1 .. Len(s) - 1 /\ 1 \in DOMAIN s /\ Head(s) = s[1]
      /\ \A k \in DOMAIN Tail(s) : k + 1 \in DOMAIN s /\ Tail(s)[k] = s[k + 1] /\ k \in Nat
  BY HeadTailProperties, LenProperties
<1>2. One(s, p) => One(Tail(s), p)
  <2> SUFFICES ASSUME One(s, p), NEW j \in DOMAIN Tail(s), NEW k \in DOMAIN Tail(s),
                      Token(p, Tail(s)[j]), Token(p, Tail(s)[k])
               PROVE  j = k
    BY DEF One
  <2>1. j + 1 = k + 1
    BY <1>1 DEF One
  <2> QED BY <1>1, <2>1
<1>3. ASSUME One(s, p), Token(p, Head(s)), NEW k \in DOMAIN Tail(s), Token(p, Tail(s)[k])
      PROVE  FALSE
  <2>1. k + 1 = 1
    BY <1>1, <1>3 DEF One
  <2> QED BY <1>1, <2>1
<1> QED BY <1>1, <1>2, <1>3 DEF Has

(* The calls of the scheduler's tasks.                                     *)
LEMMA WaitingIsTyped ==
  ASSUME CallsTypeOK
  PROVE  Waiting \in Seq(MergeCalls)
<1>1. pending \in Seq(Tasks) /\ Len(pending) \in Nat /\ DOMAIN pending = 1 .. Len(pending)
  BY LenProperties DEF CallsTypeOK
<1>2. \A k \in 1 .. Len(pending) : pending[k].call \in MergeCalls
  <2>1. \A k \in 1 .. Len(pending) : pending[k] \in Tasks
    BY <1>1, ElementOfSeq
  <2>2. \A task \in Tasks : task.call \in MergeCalls
    BY DEF Tasks
  <2> QED BY <2>1, <2>2
<1>3. Waiting = [k \in 1 .. Len(pending) |-> pending[k].call]
  BY <1>1 DEF Waiting
<1> QED BY <1>1, <1>2, <1>3, IsASeq

LEMMA AppendsTasks ==
  ASSUME CallsTypeOK, NEW calls \in Seq(MergeCalls),
         pending' = pending \o [k \in DOMAIN calls |-> [when |-> "now", call |-> calls[k]]]
  PROVE  pending' \in Seq(Tasks) /\ Waiting' = Waiting \o calls
<1> DEFINE more == [k \in DOMAIN calls |-> [when |-> "now", call |-> calls[k]]]
           n    == Len(pending)
<1>1. more \in Seq(Tasks) /\ Len(more) = Len(calls)
  <2>1. more = [k \in 1 .. Len(calls) |-> [when |-> "now", call |-> calls[k]]] /\ Len(calls) \in Nat
    BY LenProperties
  <2>2. \A k \in 1 .. Len(calls) : [when |-> "now", call |-> calls[k]] \in Tasks
    BY ElementOfSeq DEF Tasks
  <2> HIDE DEF more
  <2> QED BY <2>1, <2>2, IsASeq
<1>2. pending \in Seq(Tasks) /\ n \in Nat /\ Len(calls) \in Nat
  BY LenProperties DEF CallsTypeOK
<1>3. \A k \in 1 .. Len(calls) : more[k].call = calls[k]
  BY LenProperties
<1>4. pending' = pending \o more
  OBVIOUS
<1> HIDE DEF more, n
<1>5. /\ pending' \in Seq(Tasks) /\ Len(pending') = n + Len(calls)
      /\ DOMAIN pending' = 1 .. n + Len(calls)
      /\ \A k \in 1 .. n + Len(calls) :
           pending'[k] = IF k <= n THEN pending[k] ELSE more[k - n]
  <2>1. n = Len(pending)
    BY DEF n
  <2>2. /\ pending \o more \in Seq(Tasks) /\ Len(pending \o more) = n + Len(calls)
        /\ \A k \in 1 .. n + Len(calls) :
             (pending \o more)[k] = IF k <= n THEN pending[k] ELSE more[k - n]
    <3>1. /\ pending \o more \in Seq(Tasks) /\ Len(pending \o more) = Len(pending) + Len(more)
          /\ \A k \in 1 .. Len(pending) + Len(more) :
               (pending \o more)[k] = IF k <= Len(pending) THEN pending[k] ELSE more[k - Len(pending)]
      BY <1>1, <1>2, ConcatProperties
    <3> QED BY <1>1, <2>1, <3>1
  <2>3. DOMAIN (pending \o more) = 1 .. n + Len(calls)
    BY <2>2, LenProperties
  <2> QED BY <1>4, <2>2, <2>3
<1>6. Waiting \in Seq(MergeCalls) /\ Len(Waiting) = n
      /\ \A k \in 1 .. n : Waiting[k] = pending[k].call
  <2>1. Waiting \in Seq(MergeCalls)
    BY WaitingIsTyped
  <2>2. Waiting = [k \in 1 .. n |-> pending[k].call]
    BY <1>2, LenProperties DEF Waiting, n
  <2> QED BY <1>2, <2>1, <2>2, LenProperties
<1>7. /\ Waiting \o calls \in Seq(MergeCalls) /\ Len(Waiting \o calls) = n + Len(calls)
      /\ \A k \in 1 .. n + Len(calls) :
           (Waiting \o calls)[k] = IF k <= n THEN Waiting[k] ELSE calls[k - n]
  BY <1>2, <1>6, ConcatProperties
<1>8. Waiting' = [k \in 1 .. n + Len(calls) |-> pending'[k].call]
  BY <1>5 DEF Waiting
<1>9. Waiting \o calls = [k \in 1 .. n + Len(calls) |-> (Waiting \o calls)[k]]
  BY <1>2, <1>7, LenProperties
<1>10. ASSUME NEW k \in 1 .. n + Len(calls)
      PROVE  pending'[k].call = (Waiting \o calls)[k]
  <2>1. CASE k <= n
    BY <1>2, <1>5, <1>6, <1>7, <2>1
  <2>2. CASE ~(k <= n)
    <3>1. k - n \in 1 .. Len(calls)
      BY <1>2, <2>2
    <3> QED BY <1>3, <1>5, <1>7, <2>2, <3>1
  <2> QED BY <2>1, <2>2
<1> QED BY <1>5, <1>8, <1>9, <1>10

(* A handler's calls take the place of its own.                            *)
LEMMA SendsKeep ==
  ASSUME CallsTypeOK, agenda[Client] # <<>>, NEW calls,
         Conserves(Head(agenda[Client]), calls), Sends(calls)
  PROVE  /\ KeepsTokens
         /\ \A p \in Publishers :
              /\ Single(p) /\ Token(p, Head(agenda[Client])) /\ ~Has(calls, p) => ~Held(p)'
              /\ Token(p, Head(agenda[Client])) => Held(p)
<1> DEFINE s == agenda[Client]
           c == Head(s)
<1>1. s \in Seq(MergeCalls) /\ Waiting \in Seq(MergeCalls) /\ calls \in Seq(MergeCalls)
  BY WaitingIsTyped DEF CallsTypeOK, Conserves
<1>2. Tail(s) \in Seq(MergeCalls)
  BY <1>1, TailTokens, HeadTailProperties
<1>3. calls \o Tail(s) \in Seq(MergeCalls) /\ Waiting \o calls \in Seq(MergeCalls)
  BY <1>1, <1>2, ConcatProperties
<1>4. Seq(MergeCalls) \subseteq Seq(Calls(Sent))
  BY SeqMonotonic DEF MergeCalls
<1>5. \/ agenda'[Client] = calls \o Tail(s) /\ Waiting' = Waiting
      \/ agenda'[Client] = Tail(s) /\ Waiting' = Waiting \o calls
  BY <1>1, DepthIsNat, AppendsTasks DEF CallsTypeOK, Sends, Makes, Leaves, Waiting
<1>6. CallsTypeOK'
  <2>1. pending' \in Seq(Tasks)
    BY <1>1, AppendsTasks DEF CallsTypeOK, Sends, Makes, Leaves
  <2>2. \E r \in Seq(Calls(Sent)) : agenda' = [agenda EXCEPT ![Client] = r]
    BY <1>2, <1>3, <1>4 DEF Sends, Makes, Leaves
  <2> QED BY <1>2, <1>3, <1>5, <2>1, <2>2 DEF CallsTypeOK
<1>7. ASSUME NEW p \in Publishers
      PROVE  /\ Held(p)' => Held(p)
             /\ Single(p) => Single(p)'
             /\ Single(p) /\ Token(p, c) /\ ~Has(calls, p) => ~Held(p)'
             /\ Token(p, c) => Held(p)
  <2>1. One(calls, p) /\ (Has(calls, p) => Token(p, c))
    BY DEF Conserves
  <2>2. /\ Has(Tail(s), p) => Has(s, p)
        /\ Token(p, c) => Has(s, p)
        /\ One(s, p) => One(Tail(s), p) /\ ~(Token(p, c) /\ Has(Tail(s), p))
    BY <1>1, TailTokens
  <2>3. /\ Has(calls \o Tail(s), p) => Has(calls, p) \/ Has(Tail(s), p)
        /\ One(calls, p) /\ One(Tail(s), p) /\ ~(Has(calls, p) /\ Has(Tail(s), p))
             => One(calls \o Tail(s), p)
    BY <1>1, <1>2, ConcatTokens
  <2>4. /\ Has(Waiting \o calls, p) => Has(Waiting, p) \/ Has(calls, p)
        /\ One(Waiting, p) /\ One(calls, p) /\ ~(Has(Waiting, p) /\ Has(calls, p))
             => One(Waiting \o calls, p)
    BY <1>1, ConcatTokens
  <2>5. CASE agenda'[Client] = calls \o Tail(s) /\ Waiting' = Waiting
    BY <2>1, <2>2, <2>3, <2>5 DEF Held, Single, Has, One
  <2>6. CASE agenda'[Client] = Tail(s) /\ Waiting' = Waiting \o calls
    BY <2>1, <2>2, <2>4, <2>6 DEF Held, Single, Has, One
  <2> QED BY <1>5, <2>5, <2>6
<1> QED BY <1>6, <1>7 DEF KeepsTokens

(* The scheduler's task becomes the call of the thread that runs it.       *)
LEMMA TakesKeep ==
  ASSUME CallsTypeOK, Dispatch(Client)
  PROVE  KeepsTokens
<1>1. PICK k \in DOMAIN pending : /\ agenda' = [agenda EXCEPT ![Client] = <<pending[k].call>>]
                                  /\ pending' = RemoveAt(pending, k)
  BY DEF Dispatch
<1> DEFINE d == pending[k].call
           n == Len(pending)
<1>2. pending \in Seq(Tasks) /\ n \in Nat /\ k \in 1 .. n /\ agenda[Client] = <<>>
  BY LenProperties DEF CallsTypeOK, Dispatch
<1>3. d \in MergeCalls
  <2>1. pending[k] \in Tasks
    BY <1>2, ElementOfSeq
  <2> QED BY <2>1 DEF Tasks
<1>4. /\ pending' \in Seq(Tasks) /\ DOMAIN pending' = 1 .. n - 1
      /\ \A j \in 1 .. n - 1 : pending'[j] = pending[IF j < k THEN j ELSE j + 1]
  BY <1>1, <1>2, RemovedKeepsOrder
<1>5. agenda' \in [Threads -> Seq(Calls(Sent))] /\ agenda'[Client] = <<d>>
      /\ <<d>> \in Seq(MergeCalls) /\ DOMAIN <<d>> = {1} /\ <<d>>[1] = d
  BY <1>1, <1>3, DepthIsNat DEF CallsTypeOK, MergeCalls
<1>6. CallsTypeOK'
  BY <1>4, <1>5 DEF CallsTypeOK
<1>7. /\ DOMAIN Waiting = 1 .. n /\ Waiting[k] = d
      /\ DOMAIN Waiting' = 1 .. n - 1
      /\ \A j \in 1 .. n - 1 : Waiting'[j] = Waiting[IF j < k THEN j ELSE j + 1]
  BY <1>2, <1>4, LenProperties DEF Waiting
<1> HIDE DEF d, n
<1>8. ASSUME NEW p \in Publishers
      PROVE  /\ Held(p)' => Held(p)
             /\ Single(p) => Single(p)'
  <2>1. Has(<<d>>, p) => Token(p, d)
    BY <1>5 DEF Has
  <2>2. One(<<d>>, p)
    BY <1>5 DEF One
  <2>3. Token(p, d) => Has(Waiting, p)
    BY <1>2, <1>7 DEF Has
  <2>4. Has(Waiting', p) => Has(Waiting, p)
    <3> SUFFICES ASSUME NEW j \in 1 .. n - 1, Token(p, Waiting'[j]) PROVE Has(Waiting, p)
      BY <1>7 DEF Has
    <3>1. (IF j < k THEN j ELSE j + 1) \in 1 .. n
      BY <1>2
    <3> QED BY <1>7, <3>1 DEF Has
  <2>5. ASSUME One(Waiting, p)
        PROVE  One(Waiting', p)
    <3> SUFFICES ASSUME NEW i \in 1 .. n - 1, NEW j \in 1 .. n - 1,
                        Token(p, Waiting'[i]), Token(p, Waiting'[j])
                 PROVE  i = j
      BY <1>7 DEF One
    <3>1. /\ (IF i < k THEN i ELSE i + 1) \in 1 .. n
          /\ (IF j < k THEN j ELSE j + 1) \in 1 .. n
      BY <1>2
    <3>2. (IF i < k THEN i ELSE i + 1) = (IF j < k THEN j ELSE j + 1)
      BY <1>7, <2>5, <3>1 DEF One
    <3> QED BY <1>2, <3>2
  <2>6. ASSUME One(Waiting, p), Token(p, d)
        PROVE  ~Has(Waiting', p)
    <3> SUFFICES ASSUME NEW j \in 1 .. n - 1, Token(p, Waiting'[j]) PROVE FALSE
      BY <1>7 DEF Has
    <3>1. (IF j < k THEN j ELSE j + 1) \in 1 .. n
      BY <1>2
    <3>2. (IF j < k THEN j ELSE j + 1) = k
      BY <1>2, <1>7, <2>6, <3>1 DEF One
    <3> QED BY <1>2, <3>2
  <2>7. agenda'[Client] = <<d>>
    BY <1>5
  <2> QED BY <2>1, <2>2, <2>3, <2>4, <2>5, <2>6, <2>7 DEF Held, Single
<1> QED BY <1>6, <1>8 DEF KeepsTokens

LEMMA UserKeeps ==
  ASSUME CallsTypeOK, UserCalls
  PROVE  KeepsTokens
<1>1. PICK d \in Plain : agenda' = [agenda EXCEPT ![Client] = <<d>>]
  BY UserMakesOne, UserSentIsPlain
<1>2. pending' = pending /\ Waiting' = Waiting
  BY DEF UserCalls, Waiting
<1>3. agenda'[Client] = <<d>> /\ <<d>> \in Seq(Plain) /\ <<d>> \in Seq(MergeCalls)
      /\ agenda' \in [Threads -> Seq(Calls(Sent))]
  BY <1>1, DepthIsNat DEF CallsTypeOK, Plain, MergeCalls
<1>4. \A p \in Publishers : ~Has(agenda'[Client], p) /\ One(agenda'[Client], p)
  BY <1>3, PlainConserve DEF Conserves
<1> QED BY <1>2, <1>3, <1>4 DEF KeepsTokens, CallsTypeOK, Held, Single

---------------------------------------------------------------------------
(* The order of the turns: place a of the list comes sooner than place b,  *)
(* going round from place i + 1, and nobody waits for a publisher that is  *)
(* to be asked after it.                                                   *)
Sooner(a, b, i) == IF a > i THEN b > a \/ b <= i ELSE b <= i /\ b > a

Ordered(s, i, ahead) ==
  /\ \A a, b \in DOMAIN s : s[a] = s[b] => a = b
  /\ \A a, b \in DOMAIN s : s[a] \in ahead[s[b]] => Sooner(a, b, i)

LEMMA OrderedAppend ==
  ASSUME NEW s \in Seq(Publishers), NEW i, NEW ahead, Ordered(s, i, ahead),
         NEW p \in Publishers, p \notin ToSet(s),
         ahead[p] = {}, \A r \in Publishers : p \notin ahead[r]
  PROVE  Ordered(Append(s, p), i, ahead) /\ ToSet(Append(s, p)) = ToSet(s) \cup {p}
<1> DEFINE q == Append(s, p)
           n == Len(s)
<1>1. /\ n \in Nat /\ DOMAIN s = 1 .. n /\ DOMAIN q = 1 .. n + 1
      /\ \A k \in 1 .. n : q[k] = s[k] /\ s[k] \in Publishers /\ s[k] # p
      /\ q[n + 1] = p
  BY AppendProperties, LenProperties, ElementOfSeq DEF ToSet
<1> HIDE DEF q, n
<1>2. ASSUME NEW k \in 1 .. n + 1
      PROVE  k \in 1 .. n \/ k = n + 1
  BY <1>1
<1>3. ASSUME NEW a \in DOMAIN q, NEW b \in DOMAIN q
      PROVE  (q[a] = q[b] => a = b) /\ (q[a] \in ahead[q[b]] => Sooner(a, b, i))
  <2>1. CASE a \in 1 .. n /\ b \in 1 .. n
    BY <1>1, <2>1 DEF Ordered
  <2>2. CASE a = n + 1 \/ b = n + 1
    BY <1>1, <1>2, <1>3, <2>2
  <2> QED BY <1>1, <1>2, <2>1, <2>2
<1>4. ToSet(q) = ToSet(s) \cup {p}
  BY <1>1, <1>2 DEF ToSet
<1> QED BY <1>3, <1>4 DEF Ordered, q

LEMMA OrderedRemoval ==
  ASSUME NEW s \in Seq(Publishers), NEW i \in Nat, i < Len(s), NEW ahead, Ordered(s, i, ahead),
         NEW k \in 1 .. Len(s)
  PROVE  /\ Ordered(RemoveAt(s, k), Moved(i, k, Len(s)), ahead)
         /\ ToSet(RemoveAt(s, k)) = ToSet(s) \ {s[k]}
<1> DEFINE q    == RemoveAt(s, k)
           n    == Len(s)
           j    == Moved(i, k, n)
           f(a) == IF a < k THEN a ELSE a + 1
<1>1. /\ n \in Nat /\ k \in 1 .. n /\ i < n /\ DOMAIN s = 1 .. n /\ DOMAIN q = 1 .. n - 1
      /\ \A a \in 1 .. n - 1 : q[a] = s[f(a)]
  BY RemovedKeepsOrder, LenProperties
<1>2. ASSUME NEW a \in 1 .. n - 1
      PROVE  f(a) \in 1 .. n /\ f(a) # k
  BY <1>1
<1>3. ASSUME NEW a \in 1 .. n - 1, NEW b \in 1 .. n - 1
      PROVE  (f(a) = f(b) => a = b) /\ (Sooner(f(a), f(b), i) => Sooner(a, b, j))
  BY <1>1 DEF Sooner, Moved
<1>4. ASSUME NEW c \in 1 .. n, c # k
      PROVE  \E a \in 1 .. n - 1 : f(a) = c
  <2>1. CASE c < k
    BY <1>1, <2>1
  <2>2. CASE ~(c < k)
    <3>1. c - 1 \in 1 .. n - 1 /\ f(c - 1) = c
      BY <1>1, <1>4, <2>2
    <3> QED BY <3>1
  <2> QED BY <2>1, <2>2
<1> HIDE DEF q, n, j, f
<1>5. \A a, b \in DOMAIN q : q[a] = q[b] => a = b
  BY <1>1, <1>2, <1>3 DEF Ordered
<1>6. \A a, b \in DOMAIN q : q[a] \in ahead[q[b]] => Sooner(a, b, j)
  BY <1>1, <1>2, <1>3 DEF Ordered
<1>7. ToSet(q) = ToSet(s) \ {s[k]}
  <2>1. ASSUME NEW a \in DOMAIN q PROVE q[a] \in ToSet(s) \ {s[k]}
    BY <1>1, <1>2 DEF ToSet, Ordered
  <2>2. ASSUME NEW c \in DOMAIN s, s[c] # s[k] PROVE s[c] \in ToSet(q)
    <3>1. PICK a \in 1 .. n - 1 : f(a) = c
      BY <1>1, <1>4, <2>2
    <3> QED BY <1>1, <3>1 DEF ToSet
  <2> QED BY <2>1, <2>2 DEF ToSet
<1> QED BY <1>5, <1>6, <1>7 DEF Ordered, q, j, n

(* The publisher whose turn it is goes to the end of the round, and waits  *)
(* for all of the others; nobody waits for it any more.                    *)
LEMMA OrderedTurn ==
  ASSUME NEW s \in Seq(Publishers), NEW i \in Nat, i < Len(s),
         NEW ahead \in [Publishers -> SUBSET Publishers], Ordered(s, i, ahead)
  PROVE  /\ ahead[s[i + 1]] \cap ToSet(s) = {}
         /\ Ordered(s, (i + 1) % Len(s),
                    [q \in Publishers |-> IF q = s[i + 1] THEN ToSet(s) \ {s[i + 1]}
                                          ELSE ahead[q] \ {s[i + 1]}])
<1> DEFINE n    == Len(s)
           p    == s[i + 1]
           j    == (i + 1) % n
           next == [q \in Publishers |-> IF q = p THEN ToSet(s) \ {p} ELSE ahead[q] \ {p}]
<1>1. n \in Nat /\ DOMAIN s = 1 .. n /\ i + 1 \in 1 .. n /\ \A a \in 1 .. n : s[a] \in Publishers
  BY LenProperties, ElementOfSeq
<1> HIDE DEF n
<1>2. j = IF i + 1 = n THEN 0 ELSE i + 1
  <2>1. CASE i + 1 = n
    BY <1>1, <2>1
  <2>2. CASE i + 1 # n
    BY <1>1, <2>2
  <2> QED BY <2>1, <2>2
<1> HIDE DEF j
<1>3. \A a \in 1 .. n : ~Sooner(a, i + 1, i)
  BY <1>1 DEF Sooner
<1>4. ahead[p] \cap ToSet(s) = {}
  BY <1>1, <1>3 DEF Ordered, ToSet
<1>5. \A a \in 1 .. n : a # i + 1 => Sooner(a, i + 1, j)
  BY <1>1, <1>2 DEF Sooner
<1>6. \A a, b \in 1 .. n : a # i + 1 /\ b # i + 1 /\ Sooner(a, b, i) => Sooner(a, b, j)
  BY <1>1, <1>2 DEF Sooner
<1>7. ASSUME NEW a \in DOMAIN s, NEW b \in DOMAIN s, s[a] \in next[s[b]]
      PROVE  Sooner(a, b, j)
  <2>1. a \in 1 .. n /\ b \in 1 .. n /\ s[a] # p /\ a # i + 1
    BY <1>1, <1>7
  <2>2. CASE s[b] = p
    <3>1. b = i + 1
      BY <1>1, <2>2 DEF Ordered
    <3> QED BY <1>5, <2>1, <3>1
  <2>3. CASE s[b] # p
    <3>1. s[a] \in ahead[s[b]] /\ b # i + 1
      BY <1>1, <1>7, <2>3
    <3> QED BY <1>1, <1>6, <2>1, <3>1 DEF Ordered
  <2> QED BY <2>2, <2>3
<1> QED BY <1>4, <1>7 DEF Ordered, j, n

---------------------------------------------------------------------------
(* The types of the publishers and of MergeSubscription.                   *)
LEMMA InnerIsTyped ==
  ASSUME TypeInv, Inner(Client)
  PROVE  inner' \in [Publishers -> [m_current : Nat, m_completed : BOOLEAN, m_canceled : BOOLEAN]]
<1> DEFINE State == [m_current : Nat, m_completed : BOOLEAN, m_canceled : BOOLEAN]
<1>0. inner \in [Publishers -> State]
  BY DEF TypeInv, TypeOK
<1>1. ASSUME NEW p \in Publishers, Subscribes(Client, p)
      PROVE  inner' = inner
  BY <1>1 DEF Subscribes, mergeVars
<1>2. ASSUME NEW p \in Publishers, Requested(Client, p)
      PROVE  inner' \in [Publishers -> State]
  <2>1. PICK m \in Nat, b \in BOOLEAN :
               \/ inner' = inner
               \/ inner' = [inner EXCEPT ![p].m_current = m, ![p].m_completed = b]
    <3>1. inner[p].m_current + 1 \in Nat /\ inner[p].m_current \in Nat
      BY <1>0
    <3> QED BY <1>2, <3>1 DEF Requested
  <2> QED BY <1>0, <2>1
<1>3. ASSUME NEW p \in Publishers, Canceled(Client, p)
      PROVE  inner' \in [Publishers -> State]
  BY <1>0, <1>3 DEF Canceled
<1> QED BY <1>0, <1>1, <1>2, <1>3 DEF Inner

MergeState == [m_subscriptions : Seq(Publishers), m_currentIndex : Nat,
               sourceCompleted : BOOLEAN, m_completed : BOOLEAN, m_canceled : BOOLEAN,
               m_remaining : Nat, m_requested : Size, scheduler : BOOLEAN]

(* What removePublisher() does to the list and to the index.               *)
LEMMA RemovalFound ==
  ASSUME TypeInv, Walkable(merge), NEW p \in Publishers
  PROVE  /\ Removed(p) \in MergeState
         /\ \/ /\ Removed(p).m_subscriptions = merge.m_subscriptions
               /\ Removed(p).m_currentIndex = merge.m_currentIndex
            \/ \E k \in 1 .. Len(merge.m_subscriptions) :
                 /\ Removed(p).m_subscriptions = RemoveAt(merge.m_subscriptions, k)
                 /\ Removed(p).m_currentIndex
                      = Moved(merge.m_currentIndex, k, Len(merge.m_subscriptions))
<1> DEFINE s    == merge.m_subscriptions
           i    == merge.m_currentIndex
           k    == SelectInSeq(s, LAMBDA q : q = p)
           left == IF merge.m_remaining > 0 THEN merge.m_remaining - 1 ELSE 0
           to   == Moved(i, k, Len(s))
<1>1. /\ merge \in MergeState /\ s \in Seq(Publishers) /\ Len(s) \in Nat /\ i \in Nat
      /\ k \in 0 .. Len(s) /\ left \in Nat
  <2>1. merge \in MergeState
    BY DEF TypeInv, TypeOK, MergeState
  <2>2. s \in Seq(Publishers) /\ i \in Nat /\ left \in Nat
    BY <2>1 DEF MergeState
  <2>3. Len(s) \in Nat
    BY <2>2, LenProperties
  <2>4. k \in 0 .. Len(s)
    BY <2>2, FoundInList
  <2> QED BY <2>1, <2>2, <2>3, <2>4
<1>2. CASE k = 0
  <2>1. Removed(p) = [merge EXCEPT !.m_remaining = left]
    BY <1>2 DEF Removed
  <2> HIDE DEF left, k
  <2> QED BY <1>1, <2>1 DEF MergeState
<1>3. CASE k # 0
  <2>1. Removed(p) = [merge EXCEPT !.m_remaining = left, !.m_subscriptions = RemoveAt(s, k),
                                   !.m_currentIndex = to]
    BY <1>3 DEF Removed, Moved
  <2>2. k \in 1 .. Len(s) /\ RemoveAt(s, k) \in Seq(Publishers)
    BY <1>1, <1>3, RemovedKeepsOrder
  <2>3. to \in Nat
    BY <1>1, <2>2 DEF Moved
  <2> HIDE DEF left, k, to, s, i
  <2>4. Removed(p) \in MergeState
    BY <1>1, <2>1, <2>2, <2>3 DEF MergeState
  <2>5. Removed(p).m_subscriptions = RemoveAt(s, k) /\ Removed(p).m_currentIndex = to
    BY <1>1, <2>1 DEF MergeState
  <2> QED BY <2>2, <2>4, <2>5 DEF s, i, to
<1> QED BY <1>2, <1>3

(* The list and the index of a state m of MergeSubscription are those of n. *)
SameList(m, n) ==
  m.m_subscriptions = n.m_subscriptions /\ m.m_currentIndex = n.m_currentIndex

LEMMA CancelsList ==
  ASSUME NEW m \in MergeState, NEW calls, Cancels(Client, m, calls)
  PROVE  merge' \in MergeState /\ SameList(merge', m)
<1>1. merge' = [m EXCEPT !.m_canceled = TRUE]
  BY DEF Cancels
<1> QED BY <1>1 DEF MergeState, SameList

LEMMA ConcludesList ==
  ASSUME NEW m \in MergeState, Concludes(Client, m)
  PROVE  merge' \in MergeState /\ SameList(merge', m)
<1>1. PICK over \in BOOLEAN : merge' = [m EXCEPT !.m_completed = @ \/ over]
  BY DEF Concludes
<1> QED BY <1>1 DEF MergeState, SameList

(* How a handler of MergeSubscription changes the list.                    *)
LEMMA HandlesList ==
  ASSUME TypeInv, Walkable(merge), Handles(Client)
  PROVE  /\ merge' \in MergeState
         /\ \/ SameList(merge', merge)
            \/ \E p \in Publishers :
                 /\ On(Client, p, "add")
                 /\ Adds(Client, p)
                 /\ merge'.m_subscriptions = Append(merge.m_subscriptions, p)
                 /\ merge'.m_currentIndex = merge.m_currentIndex
            \/ \E k \in 1 .. Len(merge.m_subscriptions) :
                 /\ merge'.m_subscriptions = RemoveAt(merge.m_subscriptions, k)
                 /\ merge'.m_currentIndex
                      = Moved(merge.m_currentIndex, k, Len(merge.m_subscriptions))
<1>0. merge \in MergeState
  BY DEF TypeInv, TypeOK, MergeState
<1>1. ASSUME Subscribed(Client) \/ \E p \in Publishers : \/ Receives(Client, p)
                                                         \/ OnPublisherNextValue(Client, p)
      PROVE  merge' = merge
  BY <1>1 DEF Subscribed, Receives, OnPublisherNextValue
<1>2. ASSUME SourceNext(Client)
      PROVE  merge' \in MergeState /\ SameList(merge', merge)
  <2>1. merge' = [merge EXCEPT !.m_remaining = @ + 1]
    BY <1>2 DEF SourceNext
  <2> QED BY <1>0, <2>1 DEF MergeState, SameList
<1>3. ASSUME SourceError(Client) \/ MergeCancel(Client)
      PROVE  merge' \in MergeState /\ SameList(merge', merge)
  BY <1>0, <1>3, CancelsList DEF SourceError, MergeCancel
<1>4. ASSUME SourceComplete(Client)
      PROVE  merge' \in MergeState /\ SameList(merge', merge)
  <2> DEFINE m == [merge EXCEPT !.sourceCompleted = TRUE]
  <2>1. m \in MergeState /\ SameList(m, merge)
    BY <1>0 DEF MergeState, SameList
  <2>2. Concludes(Client, m)
    BY <1>4 DEF SourceComplete
  <2> HIDE DEF m
  <2> QED BY <2>1, <2>2, ConcludesList DEF SameList
<1>5. ASSUME MergeRequest(Client)
      PROVE  merge' \in MergeState /\ SameList(merge', merge)
  <2>1. merge' = [merge EXCEPT !.m_requested = Plus(@, Arg(Client))]
    BY <1>5 DEF MergeRequest
  <2>2. Arg(Client) \in Nat /\ merge.m_requested \in Size
    BY <1>0, <1>5, HeadIsTyped DEF MergeRequest, On, TypeInv, MergeState
  <2>3. Plus(merge.m_requested, Arg(Client)) \in Size
    BY <2>2, SizeAssumption DEF Plus, Size
  <2> QED BY <1>0, <2>1, <2>3 DEF MergeState, SameList
<1>6. ASSUME NEW p \in Publishers, Adds(Client, p)
      PROVE  /\ merge' \in MergeState
             /\ On(Client, p, "add")
             /\ merge'.m_subscriptions = Append(merge.m_subscriptions, p)
             /\ merge'.m_currentIndex = merge.m_currentIndex
  <2>1. On(Client, p, "add") /\ merge' = [merge EXCEPT !.m_subscriptions = Append(@, p)]
    BY <1>6 DEF Adds
  <2>2. Append(merge.m_subscriptions, p) \in Seq(Publishers)
    BY <1>0, AppendProperties DEF MergeState
  <2> QED BY <1>0, <2>1, <2>2 DEF MergeState
<1>7. ASSUME NEW p \in Publishers, OnPublisherError(Client, p) \/ OnPublisherComplete(Client, p)
      PROVE  merge' \in MergeState /\ SameList(merge', Removed(p))
  BY <1>7, RemovalFound, CancelsList, ConcludesList DEF OnPublisherError, OnPublisherComplete
<1>8. ASSUME NEW p \in Publishers, OnPublisherError(Client, p) \/ OnPublisherComplete(Client, p)
      PROVE  \/ SameList(merge', merge)
             \/ \E k \in 1 .. Len(merge.m_subscriptions) :
                  /\ merge'.m_subscriptions = RemoveAt(merge.m_subscriptions, k)
                  /\ merge'.m_currentIndex
                       = Moved(merge.m_currentIndex, k, Len(merge.m_subscriptions))
  <2>1. SameList(merge', Removed(p))
    BY <1>7, <1>8
  <2>2. \/ SameList(Removed(p), merge)
        \/ \E k \in 1 .. Len(merge.m_subscriptions) :
             /\ Removed(p).m_subscriptions = RemoveAt(merge.m_subscriptions, k)
             /\ Removed(p).m_currentIndex
                  = Moved(merge.m_currentIndex, k, Len(merge.m_subscriptions))
    BY RemovalFound DEF SameList
  <2> QED BY <2>1, <2>2 DEF SameList
<1> QED BY <1>0, <1>1, <1>2, <1>3, <1>4, <1>5, <1>6, <1>7, <1>8 DEF Handles, SameList

(* A turn: the demand goes down by one, and the index moves on.            *)
LEMMA TurnsList ==
  ASSUME TypeInv, Walkable(merge), GivesTurn(Client)
  PROVE  LET s == merge.m_subscriptions
             i == merge.m_currentIndex
         IN  /\ merge' \in MergeState
             /\ s \in Seq(Publishers) /\ i \in Nat /\ i < Len(s) /\ s[i + 1] \in Publishers
             /\ merge'.m_subscriptions = s
             /\ merge'.m_currentIndex = (i + 1) % Len(s)
             /\ turns' = [asked |-> [turns.asked EXCEPT ![s[i + 1]] = @ + 1],
                          ahead |-> [q \in Publishers |-> IF q = s[i + 1] THEN ToSet(s) \ {s[i + 1]}
                                                          ELSE turns.ahead[q] \ {s[i + 1]}]]
<1> DEFINE s == merge.m_subscriptions
           i == merge.m_currentIndex
<1>1. merge \in MergeState /\ s \in Seq(Publishers) /\ i \in Nat /\ Len(s) \in Nat
  BY LenProperties DEF TypeInv, TypeOK, MergeState
<1>2. s # <<>> /\ i < Len(s) /\ merge.m_requested \in Size \ {0}
  BY <1>1 DEF GivesTurn, Stuck, Walkable, MergeState
<1>3. s[i + 1] \in Publishers
  BY <1>1, <1>2, ElementOfSeq
<1>4. merge' = [merge EXCEPT !.m_requested = @ - 1, !.m_currentIndex = (@ + 1) % Len(s)]
  BY DEF GivesTurn
<1>5. merge.m_requested - 1 \in Size
  BY <1>2, SizeAssumption DEF Size
<1>6. (i + 1) % Len(s) \in Nat
  BY <1>1, <1>2
<1>7. merge' \in MergeState /\ merge'.m_subscriptions = s /\ merge'.m_currentIndex = (i + 1) % Len(s)
  BY <1>1, <1>4, <1>5, <1>6 DEF MergeState
<1>8. turns' = [asked |-> [turns.asked EXCEPT ![s[i + 1]] = @ + 1],
                ahead |-> [q \in Publishers |-> IF q = s[i + 1] THEN ToSet(s) \ {s[i + 1]}
                                                ELSE turns.ahead[q] \ {s[i + 1]}]]
  BY DEF GivesTurn, Present
<1> QED BY <1>1, <1>2, <1>3, <1>7, <1>8

---------------------------------------------------------------------------
(* Every step, with what it does to the calls and to the types.            *)
LEMMA MergeStep ==
  ASSUME [Next]_vars
  PROVE  \/ UNCHANGED vars
         \/ (Source(Client) \/ Inner(Client)) /\ UNCHANGED <<subscriberVars, merge, turns, input>>
         \/ Merges(Client) /\ UNCHANGED <<subscriberVars, input, inner>>
         \/ SubscriberStep(Client) /\ UNCHANGED mergeVars
         \/ Dispatch(Client) /\ UNCHANGED <<subscriberVars, mergeVars>>
         \/ UserCalls /\ UNCHANGED mergeVars
<1>1. Inner(Client) \/ Source(Client) => UNCHANGED <<merge, turns, input>>
  BY DEF Inner, Subscribes, Requested, Canceled, Source, mergeVars
<1>2. Merges(Client) => UNCHANGED <<input, inner>>
  BY DEF Merges
<1> QED BY <1>1, <1>2 DEF Next, Works, Takes, Terminated

LEMMA WorksConserve ==
  ASSUME TypeInv, Walkable(merge),
         Source(Client) \/ Inner(Client) \/ Merges(Client) \/ SubscriberStep(Client)
  PROVE  /\ agenda[Client] # <<>>
         /\ \E calls : Conserves(Head(agenda[Client]), calls) /\ Sends(calls)
<1>1. agenda[Client] # <<>>
  BY DEF Source, Inner, Subscribes, Requested, Canceled, SubscriberStep, OnSubscribed, OnNext,
         Received, OnEnd, Merges, Handles, GivesTurn, StopsTurns, Subscribed, SourceNext,
         SourceError, SourceComplete, MergeRequest, MergeCancel, Receives, Adds,
         OnPublisherNextValue, OnPublisherError, OnPublisherComplete, On
<1>2. CASE Source(Client)
  <2>1. input.end \in Ends
    BY MergeAssumption DEF TypeInv, TypeOK, Ends
  <2> QED BY <1>1, <1>2, <2>1, SourceConserves DEF TypeInv
<1>3. CASE SubscriberStep(Client)
  BY <1>1, <1>3, SubscriberConserves, PlainConserve DEF Sends
<1> QED BY <1>1, <1>2, <1>3, InnerConserves, MergesConserves

LEMMA StepKeepsTokens ==
  ASSUME TypeInv, Walkable(merge), [Next]_vars
  PROVE  KeepsTokens
<1>1. CASE UNCHANGED vars
  BY <1>1 DEF vars, callVars, KeepsTokens, TypeInv, CallsTypeOK, Held, Single, Waiting
<1>2. CASE Source(Client) \/ Inner(Client) \/ Merges(Client) \/ SubscriberStep(Client)
  BY <1>2, WorksConserve, SendsKeep DEF TypeInv
<1> QED BY <1>1, <1>2, MergeStep, TakesKeep, UserKeeps DEF TypeInv

LEMMA TypeInvStep ==
  ASSUME TypeInv, Walkable(merge), [Next]_vars
  PROVE  TypeInv'
<1>1. CallsTypeOK'
  BY StepKeepsTokens DEF KeepsTokens
<1>2. SignalsTypeOK(Sent)'
  <2>1. Tasks \subseteq [when : {"now", "delayed", "point"}, call : Calls(Sent)]
    BY DEF Tasks, MergeCalls
  <2> QED BY <1>1, <2>1, SeqMonotonic DEF CallsTypeOK, SignalsTypeOK
<1>3. SubscriberTypeOK'
  <2>1. UNCHANGED subscriberVars => SubscriberTypeOK'
    BY DEF subscriberVars, TypeInv, TypeOK, SubscriberTypeOK
  <2>2. SubscriberTypeOK
    BY DEF TypeInv, TypeOK
  <2>3. SubscriberStep(Client) => SubscriberTypeOK'
    <3>1. SubscriberStep(Client) => Head(agenda[Client]) \in Calls(Sent)
      BY HeadIsTyped DEF TypeInv, SubscriberStep, OnSubscribed, OnNext, Received, OnEnd, On
    <3> QED BY <2>2, <3>1, SubscriberIsTyped
  <2> QED BY <2>1, <2>2, <2>3, MergeStep, UserIsTyped DEF vars
<1>4. input' = input
  BY MergeStep DEF vars, mergeVars
<1>5. inner' \in [Publishers -> [m_current : Nat, m_completed : BOOLEAN, m_canceled : BOOLEAN]]
  <2>1. Source(Client) => inner' = inner
    BY DEF Source, mergeVars
  <2>2. inner' = inner => inner' \in [Publishers -> [m_current : Nat, m_completed : BOOLEAN,
                                                    m_canceled : BOOLEAN]]
    BY DEF TypeInv, TypeOK
  <2> QED BY <2>1, <2>2, MergeStep, InnerIsTyped DEF vars, mergeVars
<1>6. merge' \in MergeState
  <2>1. merge \in MergeState
    BY DEF TypeInv, TypeOK, MergeState
  <2>2. Merges(Client) => merge' \in MergeState
    BY <2>1, HandlesList, TurnsList DEF Merges, StopsTurns
  <2> QED BY <2>1, <2>2, MergeStep DEF vars, mergeVars
<1>7. turns' \in [asked : [Publishers -> Nat], ahead : [Publishers -> SUBSET Publishers]]
  <2>1. turns \in [asked : [Publishers -> Nat], ahead : [Publishers -> SUBSET Publishers]]
    BY DEF TypeInv, TypeOK
  <2>2. ASSUME GivesTurn(Client)
        PROVE  turns' \in [asked : [Publishers -> Nat], ahead : [Publishers -> SUBSET Publishers]]
    <3> DEFINE s == merge.m_subscriptions
               p == s[merge.m_currentIndex + 1]
    <3>1. /\ s \in Seq(Publishers) /\ p \in Publishers
          /\ turns' = [asked |-> [turns.asked EXCEPT ![p] = @ + 1],
                       ahead |-> [q \in Publishers |-> IF q = p THEN ToSet(s) \ {p}
                                                       ELSE turns.ahead[q] \ {p}]]
      BY <2>2, TurnsList
    <3>2. ToSet(s) \subseteq Publishers
      BY <3>1, ElementOfSeq, LenProperties DEF ToSet
    <3> HIDE DEF s, p
    <3>3. [turns.asked EXCEPT ![p] = @ + 1] \in [Publishers -> Nat]
      BY <2>1, <3>1
    <3>4. [q \in Publishers |-> IF q = p THEN ToSet(s) \ {p} ELSE turns.ahead[q] \ {p}]
            \in [Publishers -> SUBSET Publishers]
      BY <2>1, <3>2
    <3> QED BY <3>1, <3>3, <3>4
  <2>3. Merges(Client) /\ ~GivesTurn(Client) => turns' = turns
    BY DEF Merges, StopsTurns
  <2> QED BY <2>1, <2>2, <2>3, MergeStep DEF vars, mergeVars
<1> QED BY <1>1, <1>2, <1>3, <1>4, <1>5, <1>6, <1>7 DEF TypeInv, TypeOK, MergeState

LEMMA InitTyped ==
  ASSUME Init
  PROVE  TypeInv /\ Walkable(merge)
<1>1. merge \in [m_subscriptions : {<<>>}, m_currentIndex : {0}, sourceCompleted : {FALSE},
                 m_completed : {FALSE}, m_canceled : {FALSE}, m_remaining : {0},
                 m_requested : {0}, scheduler : Scheduled]
  BY DEF Init
<1>2. merge \in MergeState
  <2>1. /\ {<<>>} \subseteq Seq(Publishers) /\ {0} \subseteq Nat /\ {FALSE} \subseteq BOOLEAN
        /\ {0} \subseteq Size /\ Scheduled \subseteq BOOLEAN
    BY MergeAssumption, SizeAssumption DEF Size
  <2> QED BY <1>1, <2>1 DEF MergeState
<1>3. CallsTypeOK
  <2> DEFINE d == Call(Depth, "subscribe", 0)
  <2>1. d \in MergeCalls
    BY DepthIsNat, CallIsTyped DEF Subscriber, Sent
  <2>2. d \in Calls(Sent)
    BY <2>1 DEF MergeCalls
  <2>3. agenda = [t \in Threads |-> IF t = Client THEN <<d>> ELSE <<>>] /\ pending = <<>>
    BY DEF Init, SignalsInit
  <2> HIDE DEF d
  <2>4. <<d>> \in Seq(MergeCalls) /\ <<d>> \in Seq(Calls(Sent)) /\ <<>> \in Seq(Calls(Sent))
        /\ <<>> \in Seq(Tasks)
    BY <2>1, <2>2
  <2> QED BY <2>3, <2>4, DepthIsNat DEF CallsTypeOK
<1>4. SignalsTypeOK(Sent)
  <2>1. pending = <<>>
    BY DEF Init, SignalsInit
  <2> QED BY <1>3, <2>1 DEF CallsTypeOK, SignalsTypeOK
<1>5. SubscriberTypeOK
  BY SubscriberInitTyped DEF Init
<1>6. input \in [publishers : Merged, later : BOOLEAN, end : SourceEnds]
  BY MergeAssumption DEF Init
<1>7. /\ inner \in [Publishers -> [m_current : Nat, m_completed : BOOLEAN, m_canceled : BOOLEAN]]
      /\ turns \in [asked : [Publishers -> Nat], ahead : [Publishers -> SUBSET Publishers]]
  BY DEF Init
<1>8. Walkable(merge)
  BY <1>1, <1>2 DEF Walkable, MergeState, Members
<1> QED BY <1>2, <1>3, <1>4, <1>5, <1>6, <1>7, <1>8 DEF TypeInv, TypeOK, MergeState

(* A publisher that may still come is not there, and nobody is ahead of it *)
(* or behind it.                                                           *)
Fresh(p) ==
  p \notin Present /\ turns.ahead[p] = {} /\ \A r \in Publishers : p \notin turns.ahead[r]

InTurn ==
  /\ \A p \in Publishers : Single(p) /\ (Held(p) => Fresh(p))
  /\ Ordered(merge.m_subscriptions, merge.m_currentIndex, turns.ahead)

MergeInv == TypeInv /\ Walkable(merge) /\ InTurn

LEMMA InitInTurn ==
  ASSUME Init
  PROVE  InTurn
<1>1. /\ agenda[Client] = <<Call(Depth, "subscribe", 0)>> /\ Waiting = <<>>
      /\ merge.m_subscriptions = <<>> /\ turns.ahead = [p \in Publishers |-> {}]
  BY DepthIsNat DEF Init, SignalsInit, Waiting
<1>2. \A p \in Publishers : Single(p)
  BY <1>1 DEF Single, One, Has
<1>3. Present = {}
  BY <1>1 DEF Present, ToSet
<1> QED BY <1>1, <1>2, <1>3 DEF InTurn, Fresh, Ordered

LEMMA MergeInductive == MergeInv /\ [Next]_vars => MergeInv'
<1> SUFFICES ASSUME MergeInv, [Next]_vars PROVE MergeInv'
  OBVIOUS
<1> DEFINE s == merge.m_subscriptions
           i == merge.m_currentIndex
<1>1. TypeInv /\ Walkable(merge) /\ TypeInv' /\ KeepsTokens
  BY TypeInvStep, StepKeepsTokens DEF MergeInv
<1>2. /\ s \in Seq(Publishers) /\ i \in Nat /\ (s # <<>> => i < Len(s))
      /\ turns.ahead \in [Publishers -> SUBSET Publishers]
  BY <1>1 DEF Walkable, TypeInv, TypeOK
<1>3. /\ \A p \in Publishers : Single(p)' /\ (Held(p)' => Fresh(p))
      /\ Ordered(s, i, turns.ahead) /\ Present = ToSet(s)
  BY <1>1 DEF MergeInv, InTurn, KeepsTokens, Present
<1>4. ASSUME SameList(merge', merge), turns' = turns
      PROVE  Walkable(merge') /\ InTurn'
  <2>1. merge' \in MergeState
    BY <1>1 DEF TypeInv, TypeOK, MergeState
  <2>2. Walkable(merge')
    BY <1>1, <1>4, <2>1 DEF Walkable, SameList, MergeState, Members
  <2>3. Present' = Present
    BY <1>4 DEF Present, SameList
  <2> QED BY <1>3, <1>4, <2>2, <2>3 DEF InTurn, Fresh, SameList
<1>5. ASSUME merge' = merge, turns' = turns
      PROVE  Walkable(merge') /\ InTurn'
  BY <1>4, <1>5 DEF SameList
<1>6. ASSUME Handles(Client), turns' = turns, Merges(Client)
      PROVE  Walkable(merge') /\ InTurn'
  <2>1. Walkable(merge')
    BY <1>1, <1>6, HandlesKeeps
  <2>2. ASSUME NEW p \in Publishers, On(Client, p, "add"), Adds(Client, p),
               merge'.m_subscriptions = Append(s, p), merge'.m_currentIndex = i
        PROVE  InTurn'
    <3>1. agenda[Client] # <<>> /\ Token(p, Head(agenda[Client]))
      BY <2>2 DEF On, Token
    <3>2. PICK calls \in Seq(Plain) : Sends(calls)
      BY <1>1, <2>2, MergesPlain
    <3>3. Conserves(Head(agenda[Client]), calls) /\ ~Has(calls, p)
      BY <3>2, PlainConserve
    <3>4. ~Held(p)' /\ Held(p)
      BY <1>1, <3>1, <3>2, <3>3, SendsKeep DEF TypeInv, MergeInv, InTurn
    <3>5. Fresh(p)
      BY <3>4 DEF MergeInv, InTurn
    <3>6. Ordered(Append(s, p), i, turns.ahead) /\ ToSet(Append(s, p)) = ToSet(s) \cup {p}
      BY <1>2, <1>3, <3>5, OrderedAppend DEF Fresh
    <3>7. Present' = Present \cup {p}
      BY <1>3, <2>2, <3>6 DEF Present
    <3> QED BY <1>3, <1>6, <2>2, <3>4, <3>6, <3>7 DEF InTurn, Fresh
  <2>3. ASSUME NEW k \in 1 .. Len(s), merge'.m_subscriptions = RemoveAt(s, k),
               merge'.m_currentIndex = Moved(i, k, Len(s))
        PROVE  InTurn'
    <3>1. i < Len(s)
      BY <1>2, LenProperties, EmptySeq
    <3>2. Ordered(RemoveAt(s, k), Moved(i, k, Len(s)), turns.ahead)
          /\ ToSet(RemoveAt(s, k)) = ToSet(s) \ {s[k]}
      BY <1>2, <1>3, <3>1, OrderedRemoval
    <3>3. Present' = Present \ {s[k]}
      BY <1>3, <2>3, <3>2 DEF Present
    <3> QED BY <1>3, <1>6, <2>3, <3>2, <3>3 DEF InTurn, Fresh
  <2> QED BY <1>1, <1>4, <1>6, <2>1, <2>2, <2>3, HandlesList
<1>7. ASSUME GivesTurn(Client)
      PROVE  Walkable(merge') /\ InTurn'
  <2> DEFINE p    == s[i + 1]
             next == [q \in Publishers |-> IF q = p THEN ToSet(s) \ {p} ELSE turns.ahead[q] \ {p}]
  <2>1. Walkable(merge')
    BY <1>1, <1>7, GivesTurnKeeps
  <2>2. /\ i < Len(s) /\ p \in Publishers
        /\ merge'.m_subscriptions = s /\ merge'.m_currentIndex = (i + 1) % Len(s)
        /\ turns'.ahead = next
    BY <1>1, <1>7, TurnsList
  <2>3. Ordered(s, (i + 1) % Len(s), next)
    <3>1. Ordered(s, i, turns.ahead)
      BY <1>3
    <3> HIDE DEF s, i
    <3> QED BY <1>2, <2>2, <3>1, OrderedTurn
  <2>4. p \in Present /\ Present' = Present
    BY <1>2, <1>3, <2>2, LenProperties DEF Present, ToSet
  <2> HIDE DEF p
  <2>5. ASSUME NEW q \in Publishers, Fresh(q)
        PROVE  Fresh(q)'
    BY <1>3, <2>2, <2>4, <2>5 DEF Fresh
  <2> QED BY <1>3, <2>1, <2>2, <2>3, <2>5 DEF InTurn
<1>8. ASSUME Merges(Client)
      PROVE  Walkable(merge') /\ InTurn'
  BY <1>5, <1>6, <1>7, <1>8 DEF Merges, StopsTurns
<1>9. Walkable(merge') /\ InTurn'
  BY <1>5, <1>8, MergeStep DEF vars, mergeVars
<1> QED BY <1>1, <1>9 DEF MergeInv, Walkable

LEMMA MergeInvariant == Spec => []MergeInv
<1>1. Init => MergeInv
  BY InitTyped, InitInTurn DEF MergeInv
<1> QED BY <1>1, MergeInductive, PTL DEF Spec

(* Every variable of a merge keeps its type: m_requested a std::size_t, in *)
(* m_subscriptions none but the publishers.                                *)
THEOREM MergeTypeCorrect == Spec => []TypeOK
<1>1. MergeInv => TypeOK
  BY DEF MergeInv, TypeInv
<1> QED BY <1>1, MergeInvariant, PTL

(* tryRequest() asks no publisher again before each of those that were     *)
(* there the last time, and still are: however many there are, however     *)
(* they come and remove themselves between two turns, or within one.       *)
THEOREM MergeTakesTurns == Spec => TakesTurns
<1>1. ASSUME MergeInv, [Next]_vars, NEW p \in Publishers, turns'.asked[p] > turns.asked[p]
      PROVE  turns.ahead[p] \cap Present = {}
  <2>1. turns.asked \in [Publishers -> Nat] /\ turns.ahead \in [Publishers -> SUBSET Publishers]
    BY <1>1 DEF MergeInv, TypeInv, TypeOK
  <2>2. turns' # turns
    BY <1>1, <2>1
  <2>3. GivesTurn(Client)
    BY <1>1, <2>2, MergeStep DEF Merges, StopsTurns, vars, mergeVars
  <2> DEFINE s == merge.m_subscriptions
             q == s[merge.m_currentIndex + 1]
  <2>4. /\ s \in Seq(Publishers) /\ merge.m_currentIndex \in Nat /\ merge.m_currentIndex < Len(s)
        /\ q \in Publishers /\ turns'.asked = [turns.asked EXCEPT ![q] = @ + 1]
    BY <1>1, <2>3, TurnsList DEF MergeInv
  <2>5. q = p
    BY <1>1, <2>1, <2>4
  <2>6. Ordered(s, merge.m_currentIndex, turns.ahead)
    BY <1>1 DEF MergeInv, InTurn
  <2> QED BY <2>1, <2>4, <2>5, <2>6, OrderedTurn DEF Present
<1>2. MergeInv /\ [Next]_vars =>
        [\A p \in Publishers :
           turns'.asked[p] > turns.asked[p] => turns.ahead[p] \cap Present = {}]_vars
  BY <1>1
<1> QED BY <1>2, MergeInvariant, PTL DEF Spec, TakesTurns

---------------------------------------------------------------------------
(* The signals of the publishers.  A value makes three calls on its way:   *)
(* of its publisher's handler, of MergeSubscription, of the subscriber;    *)
(* an end two, and is counted as what comes after the last value.          *)
Stage(c) ==
  IF c.at \in Publishers /\ c.sig \in {"onNext", "onComplete", "onError"} THEN 1
  ELSE IF c.at \in Publishers /\ c.sig \in {"onPublisherNextValue", "onPublisherComplete",
                                            "onPublisherError"} THEN 2
  ELSE IF c.at = Subscriber /\ c.sig = "onNext" THEN 3 ELSE 0

IsValue(c) == c.sig \in {"onNext", "onPublisherNextValue"}
Of(c)      == IF c.at = Subscriber THEN Origin(c.arg)[1] ELSE c.at
Ordinal(c) == IF IsValue(c) THEN Origin(c.arg)[2] ELSE Pub(c.at).size + 1

LEMMA OriginOfElement ==
  ASSUME NEW p \in Publishers, NEW k \in Nat
  PROVE  Origin(Element(p, k)) = <<p, k>> /\ Element(p, k) \in Nat
<1>1. Depth \in Nat /\ Depth > 0 /\ p \in Nat /\ p < Depth
  BY DepthIsNat DEF Publishers
<1> DEFINE e == k * Depth + p
<1>2. k * Depth \in Nat /\ e \in Nat
  BY <1>1
<1>3. e % Depth = p
  BY <1>1, <1>2
<1>4. e \div Depth = k
  BY <1>1, <1>2
<1> QED BY <1>2, <1>3, <1>4 DEF Origin, Element

---------------------------------------------------------------------------
(* The calls under way, those of the thread first and then those of the    *)
(* tasks, as one queue: a handler takes the first and puts those it makes  *)
(* in front or, if a scheduler runs them, at the end.                      *)
Queue == agenda[Client] \o Waiting
Under == ToSet(agenda[Client]) \cup ToSet(Waiting)
Rest  == ToSet(Tail(agenda[Client])) \cup ToSet(Waiting)

(* A call of the source, or the one that makes it emit or ends it.         *)
SourceCall(c) ==
  \/ c.at = 0
  \/ c.at = Depth /\ c.sig \in {"subscribe", "onComplete", "onError"}

Failures == {"onError", "onPublisherError"}

(* A call that leads to the error of the subscriber: an error on its way,  *)
(* or what a publisher or source that fails has yet to be asked for.       *)
Erring(c) ==
  \/ c.at \in Publishers /\ c.sig \in Failures
  \/ c.at = Subscriber /\ c.sig = "onError"

Fatal(c) ==
  \/ Erring(c)
  \/ input.end = "onError" /\ SourceCall(c)
  \/ \E p \in Failing : Token(p, c)

(* What the queue never has, one call before another: a second call of the *)
(* source, a second error, and a signal of a publisher ahead of an earlier *)
(* one, or behind a later one that has come as far.                        *)
Apart(what, c, d) ==
  CASE what = "source"  -> ~(SourceCall(c) /\ SourceCall(d))
    [] what = "failure" -> ~(Fatal(c) /\ Fatal(d))
    [] what = "order"   ->
         Stage(c) > 0 /\ Stage(d) > 0 /\ Of(c) = Of(d) =>
           IF Stage(c) >= Stage(d) THEN Ordinal(c) < Ordinal(d) ELSE Ordinal(d) < Ordinal(c)

Chain(what, s) == \A j, k \in DOMAIN s : j < k => Apart(what, s[j], s[k])

LEMMA ConcatSet ==
  ASSUME NEW s \in Seq(MergeCalls), NEW r \in Seq(MergeCalls)
  PROVE  /\ s \o r \in Seq(MergeCalls) /\ ToSet(s \o r) = ToSet(s) \cup ToSet(r)
         /\ ToSet(s) \subseteq MergeCalls
<1>1. /\ s \o r \in Seq(MergeCalls) /\ Len(s) \in Nat /\ Len(r) \in Nat
      /\ DOMAIN s = 1 .. Len(s) /\ DOMAIN r = 1 .. Len(r)
      /\ DOMAIN (s \o r) = 1 .. Len(s) + Len(r)
      /\ \A k \in 1 .. Len(s) + Len(r) :
           (s \o r)[k] = IF k <= Len(s) THEN s[k] ELSE r[k - Len(s)]
  BY LenProperties, ConcatProperties
<1>2. ToSet(s \o r) \subseteq ToSet(s) \cup ToSet(r)
  <2> SUFFICES ASSUME NEW k \in 1 .. Len(s) + Len(r)
               PROVE  (s \o r)[k] \in ToSet(s) \cup ToSet(r)
    BY <1>1 DEF ToSet
  <2>1. CASE k <= Len(s)
    BY <1>1, <2>1 DEF ToSet
  <2>2. CASE ~(k <= Len(s))
    <3>1. k - Len(s) \in 1 .. Len(r)
      BY <1>1, <2>2
    <3> QED BY <1>1, <2>2, <3>1 DEF ToSet
  <2> QED BY <2>1, <2>2
<1>3. ToSet(s) \subseteq ToSet(s \o r)
  <2> SUFFICES ASSUME NEW k \in 1 .. Len(s) PROVE s[k] \in ToSet(s \o r)
    BY <1>1 DEF ToSet
  <2>1. k \in 1 .. Len(s) + Len(r) /\ k <= Len(s)
    BY <1>1
  <2> QED BY <1>1, <2>1 DEF ToSet
<1>4. ToSet(r) \subseteq ToSet(s \o r)
  <2> SUFFICES ASSUME NEW k \in 1 .. Len(r) PROVE r[k] \in ToSet(s \o r)
    BY <1>1 DEF ToSet
  <2>1. Len(s) + k \in 1 .. Len(s) + Len(r) /\ ~(Len(s) + k <= Len(s)) /\ (Len(s) + k) - Len(s) = k
    BY <1>1
  <2> QED BY <1>1, <2>1 DEF ToSet
<1>5. ToSet(s) \subseteq MergeCalls
  BY <1>1, ElementOfSeq DEF ToSet
<1> QED BY <1>1, <1>2, <1>3, <1>4, <1>5

LEMMA SmallSets ==
  /\ ToSet(<<>>) = {}
  /\ \A c : ToSet(<<c>>) = {c}
  /\ \A c, d : ToSet(<<c, d>>) = {c, d}
<1>1. ToSet(<<>>) = {}
  BY DEF ToSet
<1>2. \A c : ToSet(<<c>>) = {c}
  <2> SUFFICES ASSUME NEW c PROVE ToSet(<<c>>) = {c}
    OBVIOUS
  <2>1. DOMAIN <<c>> = {1} /\ <<c>>[1] = c
    OBVIOUS
  <2> QED BY <2>1 DEF ToSet
<1>3. \A c, d : ToSet(<<c, d>>) = {c, d}
  <2> SUFFICES ASSUME NEW c, NEW d PROVE ToSet(<<c, d>>) = {c, d}
    OBVIOUS
  <2>1. DOMAIN <<c, d>> = {1, 2} /\ <<c, d>>[1] = c /\ <<c, d>>[2] = d
    OBVIOUS
  <2> QED BY <2>1 DEF ToSet
<1> QED BY <1>1, <1>2, <1>3

LEMMA HeadTailSet ==
  ASSUME NEW s \in Seq(MergeCalls), s # <<>>
  PROVE  Tail(s) \in Seq(MergeCalls) /\ Head(s) \in MergeCalls /\ ToSet(s) = {Head(s)} \cup ToSet(Tail(s))
<1>1. /\ Tail(s) \in Seq(MergeCalls) /\ Head(s) \in MergeCalls /\ Len(s) \in Nat /\ DOMAIN s = 1 .. Len(s)
      /\ 1 \in 1 .. Len(s) /\ Head(s) = s[1] /\ DOMAIN Tail(s) = 1 .. Len(s) - 1
      /\ \A k \in 1 .. Len(s) - 1 : Tail(s)[k] = s[k + 1]
  BY HeadTailProperties, LenProperties, EmptySeq
<1>2. ASSUME NEW k \in 1 .. Len(s) - 1
      PROVE  s[k + 1] \in ToSet(s)
  BY <1>1 DEF ToSet
<1>3. ASSUME NEW k \in 1 .. Len(s)
      PROVE  s[k] \in {Head(s)} \cup ToSet(Tail(s))
  <2>1. CASE k = 1
    BY <1>1, <2>1
  <2>2. CASE k # 1
    <3>1. k - 1 \in 1 .. Len(s) - 1 /\ (k - 1) + 1 = k
      BY <1>1, <2>2
    <3>2. Tail(s)[k - 1] = s[k]
      BY <1>1, <3>1
    <3> QED BY <1>1, <3>1, <3>2 DEF ToSet
  <2> QED BY <2>1, <2>2
<1>4. ToSet(Tail(s)) \subseteq ToSet(s) /\ Head(s) \in ToSet(s)
  BY <1>1, <1>2 DEF ToSet
<1>5. ToSet(s) \subseteq {Head(s)} \cup ToSet(Tail(s))
  BY <1>1, <1>3 DEF ToSet
<1> QED BY <1>1, <1>4, <1>5

LEMMA ChainConcat ==
  ASSUME NEW what, NEW s \in Seq(MergeCalls), NEW r \in Seq(MergeCalls)
  PROVE  Chain(what, s \o r) <=>
           /\ Chain(what, s) /\ Chain(what, r)
           /\ \A c \in ToSet(s), d \in ToSet(r) : Apart(what, c, d)
<1> DEFINE n == Len(s)
           m == Len(r)
<1>1. /\ n \in Nat /\ m \in Nat /\ DOMAIN s = 1 .. n /\ DOMAIN r = 1 .. m
      /\ DOMAIN (s \o r) = 1 .. n + m
      /\ \A k \in 1 .. n : (s \o r)[k] = s[k]
      /\ \A k \in 1 .. m : (s \o r)[n + k] = r[k]
  BY LenProperties, ConcatProperties
<1> HIDE DEF n, m
<1>2. ASSUME NEW k \in 1 .. n + m, ~(k \in 1 .. n)
      PROVE  k - n \in 1 .. m /\ n + (k - n) = k
  BY <1>1, <1>2
<1>3. ASSUME Chain(what, s), Chain(what, r),
             \A c \in ToSet(s), d \in ToSet(r) : Apart(what, c, d),
             NEW j \in 1 .. n + m, NEW k \in 1 .. n + m, j < k
      PROVE  Apart(what, (s \o r)[j], (s \o r)[k])
  <2>1. CASE j \in 1 .. n /\ k \in 1 .. n
    BY <1>1, <1>3, <2>1 DEF Chain
  <2>2. CASE j \in 1 .. n /\ ~(k \in 1 .. n)
    <3>1. s[j] \in ToSet(s) /\ r[k - n] \in ToSet(r)
      BY <1>1, <1>2, <2>2 DEF ToSet
    <3>2. (s \o r)[j] = s[j] /\ (s \o r)[k] = r[k - n]
      BY <1>1, <1>2, <2>2
    <3> QED BY <1>3, <3>1, <3>2
  <2>3. CASE ~(j \in 1 .. n)
    <3>1. ~(k \in 1 .. n)
      BY <1>1, <1>3, <2>3
    <3>2. j - n \in 1 .. m /\ k - n \in 1 .. m /\ j - n < k - n
          /\ (s \o r)[j] = r[j - n] /\ (s \o r)[k] = r[k - n]
      BY <1>1, <1>2, <1>3, <2>3, <3>1
    <3> QED BY <1>1, <1>3, <3>2 DEF Chain
  <2> QED BY <2>1, <2>2, <2>3
<1>4. ASSUME Chain(what, s \o r)
      PROVE  Chain(what, s)
  <2> SUFFICES ASSUME NEW j \in 1 .. n, NEW k \in 1 .. n, j < k PROVE Apart(what, s[j], s[k])
    BY <1>1 DEF Chain
  <2>1. j \in 1 .. n + m /\ k \in 1 .. n + m
    BY <1>1
  <2> QED BY <1>1, <1>4, <2>1 DEF Chain
<1>5. ASSUME Chain(what, s \o r)
      PROVE  Chain(what, r)
  <2> SUFFICES ASSUME NEW j \in 1 .. m, NEW k \in 1 .. m, j < k PROVE Apart(what, r[j], r[k])
    BY <1>1 DEF Chain
  <2>1. n + j \in 1 .. n + m /\ n + k \in 1 .. n + m /\ n + j < n + k
    BY <1>1
  <2>2. (s \o r)[n + j] = r[j] /\ (s \o r)[n + k] = r[k]
    BY <1>1
  <2> QED BY <1>1, <1>5, <2>1, <2>2 DEF Chain
<1>6. ASSUME Chain(what, s \o r), NEW j \in 1 .. n, NEW k \in 1 .. m
      PROVE  Apart(what, s[j], r[k])
  <2>1. j \in 1 .. n + m /\ n + k \in 1 .. n + m /\ j < n + k
    BY <1>1
  <2>2. (s \o r)[j] = s[j] /\ (s \o r)[n + k] = r[k]
    BY <1>1
  <2> QED BY <1>1, <1>6, <2>1, <2>2 DEF Chain
<1>7. ASSUME Chain(what, s \o r), NEW c \in ToSet(s), NEW d \in ToSet(r)
      PROVE  Apart(what, c, d)
  BY <1>1, <1>6, <1>7 DEF ToSet
<1> QED BY <1>1, <1>3, <1>4, <1>5, <1>7 DEF Chain

Behind(calls) == IF calls = <<>> THEN {} ELSE ToSet(Tail(calls))

LEMMA BehindConcat ==
  ASSUME NEW s \in Seq(MergeCalls), NEW r \in Seq(MergeCalls)
  PROVE  /\ Behind(s) \subseteq ToSet(s)
         /\ Behind(s \o r) \subseteq Behind(s) \cup ToSet(r)
         /\ s = <<>> => Behind(s \o r) = Behind(r)
<1>1. s # <<>> => Behind(s) = ToSet(Tail(s)) /\ Behind(s) \subseteq ToSet(s)
  BY HeadTailSet DEF Behind
<1>2. Behind(s) \subseteq ToSet(s) /\ Behind(r) \subseteq ToSet(r)
  BY HeadTailSet, SmallSets DEF Behind
<1>3. CASE s = <<>>
  <2>1. s \o r = r
    BY <1>3
  <2> QED BY <1>2, <1>3, <2>1
<1>4. CASE s # <<>>
  <2>1. Tail(s) \in Seq(MergeCalls) /\ Len(s) \in Nat /\ Len(s) > 0
    BY <1>4, HeadTailSet, LenProperties, EmptySeq
  <2>2. s \o r \in Seq(MergeCalls) /\ s \o r # <<>>
    BY <2>1, ConcatProperties, EmptySeq, LenProperties
  <2>3. Tail(s \o r) = Tail(s) \o r
    <3> DEFINE a == Tail(s \o r)
               b == Tail(s) \o r
    <3>1. a \in Seq(MergeCalls) /\ b \in Seq(MergeCalls) /\ Len(a) = Len(b)
          /\ Len(b) = Len(s) - 1 + Len(r)
      BY <2>1, <2>2, ConcatProperties, HeadTailProperties, LenProperties
    <3>2. ASSUME NEW k \in 1 .. Len(b) PROVE a[k] = b[k]
      <4>1. k \in Nat /\ k >= 1 /\ Len(r) \in Nat /\ k + 1 \in 1 .. Len(s) + Len(r)
        BY <2>1, <3>1, <3>2, LenProperties
      <4>2. a[k] = (s \o r)[k + 1]
        BY <2>2, <3>1, <3>2, HeadTailProperties, LenProperties
      <4>3. (s \o r)[k + 1] = IF k + 1 <= Len(s) THEN s[k + 1] ELSE r[k + 1 - Len(s)]
        BY <4>1, ConcatProperties
      <4>4. b[k] = IF k <= Len(s) - 1 THEN Tail(s)[k] ELSE r[k - (Len(s) - 1)]
        <5>1. Len(Tail(s)) = Len(s) - 1
          BY <1>4, HeadTailProperties
        <5> QED BY <2>1, <3>1, <3>2, <5>1, ConcatProperties
      <4>5. k <= Len(s) - 1 => Tail(s)[k] = s[k + 1]
        BY <1>4, <2>1, <4>1, HeadTailProperties
      <4>6. k - (Len(s) - 1) = k + 1 - Len(s) /\ (k <= Len(s) - 1 <=> k + 1 <= Len(s))
        BY <2>1, <4>1
      <4> QED BY <4>2, <4>3, <4>4, <4>5, <4>6
    <3> HIDE DEF a, b
    <3>3. a = b
      BY <3>1, <3>2, SeqEqual
    <3> QED BY <3>3 DEF a, b
  <2>4. ToSet(Tail(s) \o r) = ToSet(Tail(s)) \cup ToSet(r)
    BY <2>1, ConcatSet
  <2> QED BY <1>1, <1>4, <2>2, <2>3, <2>4 DEF Behind
<1> QED BY <1>2, <1>3, <1>4

(* What a handler's calls do to the queue.                                 *)
LEMMA QueueSends ==
  ASSUME CallsTypeOK, agenda[Client] # <<>>, NEW calls \in Seq(MergeCalls), Sends(calls)
  PROVE  /\ Under = {Head(agenda[Client])} \cup Rest
         /\ Under' = ToSet(calls) \cup Rest
         /\ Rest \subseteq MergeCalls /\ ToSet(calls) \subseteq MergeCalls
<1>1. agenda[Client] \in Seq(MergeCalls) /\ Waiting \in Seq(MergeCalls)
  BY WaitingIsTyped DEF CallsTypeOK
<1>2. /\ Tail(agenda[Client]) \in Seq(MergeCalls)
      /\ ToSet(agenda[Client]) = {Head(agenda[Client])} \cup ToSet(Tail(agenda[Client]))
  BY <1>1, HeadTailSet
<1>3. /\ ToSet(calls \o Tail(agenda[Client])) = ToSet(calls) \cup ToSet(Tail(agenda[Client]))
      /\ ToSet(Waiting \o calls) = ToSet(Waiting) \cup ToSet(calls)
      /\ Rest \subseteq MergeCalls /\ ToSet(calls) \subseteq MergeCalls
  BY <1>1, <1>2, ConcatSet DEF Rest
<1>4. \/ agenda'[Client] = calls \o Tail(agenda[Client]) /\ Waiting' = Waiting
      \/ agenda'[Client] = Tail(agenda[Client]) /\ Waiting' = Waiting \o calls
  BY DepthIsNat, AppendsTasks DEF CallsTypeOK, Sends, Makes, Leaves, Waiting
<1>5. Under' = ToSet(agenda'[Client]) \cup ToSet(Waiting')
  BY DEF Under
<1>6. CASE agenda'[Client] = calls \o Tail(agenda[Client]) /\ Waiting' = Waiting
  BY <1>2, <1>3, <1>5, <1>6 DEF Under, Rest
<1>7. CASE agenda'[Client] = Tail(agenda[Client]) /\ Waiting' = Waiting \o calls
  BY <1>2, <1>3, <1>5, <1>7 DEF Under, Rest
<1> QED BY <1>3, <1>4, <1>6, <1>7

LEMMA HeadIsApart ==
  ASSUME CallsTypeOK, agenda[Client] # <<>>, NEW what, Chain(what, Queue)
  PROVE  \A d \in Rest : Apart(what, Head(agenda[Client]), d)
<1> DEFINE s == agenda[Client]
           c == Head(s)
<1>1. s \in Seq(MergeCalls) /\ Waiting \in Seq(MergeCalls)
  BY WaitingIsTyped DEF CallsTypeOK
<1>2. /\ Tail(s) \in Seq(MergeCalls) /\ c \in MergeCalls
      /\ ToSet(s) = {c} \cup ToSet(Tail(s))
  BY <1>1, HeadTailSet
<1>3. Chain(what, s) /\ \A d \in ToSet(Waiting) : Apart(what, c, d)
  BY <1>1, <1>2, ChainConcat DEF Queue
<1>4. <<c>> \in Seq(MergeCalls) /\ s = <<c>> \o Tail(s)
  <2>1. <<c>> \in Seq(MergeCalls)
    BY <1>2
  <2>2. s = <<c>> \o Tail(s)
    BY <1>1, ConcatProperties, HeadTailProperties
  <2> QED BY <2>1, <2>2
<1>5. \A d \in ToSet(Tail(s)) : Apart(what, c, d)
  <2> DEFINE t == Tail(s)
  <2>1. Chain(what, <<c>> \o t) /\ t \in Seq(MergeCalls) /\ c \in ToSet(<<c>>)
    BY <1>2, <1>3, <1>4, SmallSets
  <2> HIDE DEF t, c
  <2> QED BY <1>4, <2>1, ChainConcat DEF t
<1> HIDE DEF c
<1> QED BY <1>3, <1>5 DEF Rest, c

LEMMA ChainSends ==
  ASSUME CallsTypeOK, agenda[Client] # <<>>, NEW calls \in Seq(MergeCalls),
         NEW what, Chain(what, Queue), Chain(what, calls),
         \/ /\ Makes(Client, calls)
            /\ \A c \in ToSet(calls), d \in Rest : Apart(what, c, d)
         \/ /\ Leaves(Client, TRUE, calls)
            /\ \A c \in ToSet(calls), d \in Rest : Apart(what, d, c)
  PROVE  Chain(what, agenda'[Client] \o Waiting')
<1> DEFINE s == agenda[Client]
           c == Head(s)
           t == Tail(s)
<1>1. s \in Seq(MergeCalls) /\ Waiting \in Seq(MergeCalls)
  BY WaitingIsTyped DEF CallsTypeOK
<1>2. t \in Seq(MergeCalls) /\ c \in MergeCalls /\ ToSet(s) = {c} \cup ToSet(t)
  BY <1>1, HeadTailSet
<1>3. Chain(what, s) /\ Chain(what, Waiting) /\ \A e \in ToSet(s), d \in ToSet(Waiting) : Apart(what, e, d)
  BY <1>1, ChainConcat DEF Queue
<1>4. Chain(what, t)
  <2>1. <<c>> \in Seq(MergeCalls) /\ s = <<c>> \o t
    <3>1. <<c>> \in Seq(MergeCalls)
      BY <1>2
    <3>2. s = <<c>> \o t
      BY <1>1, ConcatProperties, HeadTailProperties
    <3> QED BY <3>1, <3>2
  <2> HIDE DEF c, t
  <2>2. Chain(what, <<c>> \o t) <=>
          /\ Chain(what, <<c>>) /\ Chain(what, t)
          /\ \A e \in ToSet(<<c>>), d \in ToSet(t) : Apart(what, e, d)
    BY <1>2, <2>1, ChainConcat
  <2> QED BY <1>3, <2>1, <2>2
<1>5. CASE Makes(Client, calls) /\ \A e \in ToSet(calls), d \in Rest : Apart(what, e, d)
  <2>1. agenda'[Client] = calls \o t /\ Waiting' = Waiting
    BY <1>5, DepthIsNat DEF CallsTypeOK, Makes, Waiting
  <2>2. calls \o t \in Seq(MergeCalls) /\ ToSet(calls \o t) = ToSet(calls) \cup ToSet(t)
    BY <1>2, ConcatSet
  <2> HIDE DEF t
  <2>3. Chain(what, calls \o t)
    BY <1>2, <1>4, <1>5, ChainConcat DEF Rest, t
  <2>4. \A e \in ToSet(calls \o t), d \in ToSet(Waiting) : Apart(what, e, d)
    BY <1>2, <1>3, <1>5, <2>2 DEF Rest
  <2> QED BY <1>1, <1>3, <2>1, <2>2, <2>3, <2>4, ChainConcat
<1>6. CASE Leaves(Client, TRUE, calls) /\ \A e \in ToSet(calls), d \in Rest : Apart(what, d, e)
  <2>1. agenda'[Client] = t /\ Waiting' = Waiting \o calls
    BY <1>6, DepthIsNat, AppendsTasks DEF CallsTypeOK, Leaves
  <2>2. Waiting \o calls \in Seq(MergeCalls) /\ ToSet(Waiting \o calls) = ToSet(Waiting) \cup ToSet(calls)
    BY <1>1, ConcatSet
  <2>3. Chain(what, Waiting \o calls)
    BY <1>1, <1>3, <1>6, ChainConcat DEF Rest
  <2>4. \A e \in ToSet(t), d \in ToSet(Waiting \o calls) : Apart(what, e, d)
    BY <1>2, <1>3, <1>6, <2>2 DEF Rest
  <2> HIDE DEF t
  <2> QED BY <1>2, <1>4, <2>1, <2>2, <2>3, <2>4, ChainConcat
<1> QED BY <1>5, <1>6

(* The scheduler's tasks are taken in their order: all are due at once.    *)
LEMMA QueueTakes ==
  ASSUME CallsTypeOK, Dispatch(Client)
  PROVE  /\ agenda'[Client] \o Waiting' = Queue /\ Under' = Under
         /\ Behind(agenda'[Client]) = {} /\ ToSet(Waiting') \subseteq ToSet(Waiting)
<1>1. PICK k \in DOMAIN pending : /\ IsNext(k)
                                  /\ agenda' = [agenda EXCEPT ![Client] = <<pending[k].call>>]
                                  /\ pending' = RemoveAt(pending, k)
  BY DEF Dispatch
<1> DEFINE n == Len(pending)
           d == pending[1].call
<1>2. /\ pending \in Seq(Tasks) /\ n \in Nat /\ k \in 1 .. n /\ DOMAIN pending = 1 .. n
      /\ agenda[Client] = <<>>
  BY LenProperties DEF CallsTypeOK, Dispatch
<1>3. \A j \in 1 .. n : pending[j] \in Tasks /\ pending[j].when = "now"
  <2>1. \A j \in 1 .. n : pending[j] \in Tasks
    BY <1>2, ElementOfSeq
  <2>2. \A task \in Tasks : task.when = "now"
    BY DEF Tasks
  <2> QED BY <2>1, <2>2
<1>4. k = 1
  <2> SUFFICES ASSUME k # 1 PROVE FALSE
    OBVIOUS
  <2>1. 1 \in 1 .. k - 1 /\ 1 \in 1 .. n
    BY <1>2
  <2> QED BY <1>1, <1>2, <1>3, <2>1 DEF IsNext
<1>5. /\ DOMAIN pending' = 1 .. n - 1 /\ pending' \in Seq(Tasks)
      /\ \A j \in 1 .. n - 1 : pending'[j] = pending[j + 1]
  <2>1. /\ pending' \in Seq(Tasks) /\ DOMAIN pending' = 1 .. n - 1
        /\ \A j \in 1 .. n - 1 : pending'[j] = pending[IF j < k THEN j ELSE j + 1]
    BY <1>1, <1>2, RemovedKeepsOrder
  <2> QED BY <1>4, <2>1
<1>6. /\ Waiting = [j \in 1 .. n |-> pending[j].call]
      /\ Waiting' = [j \in 1 .. n - 1 |-> pending[j + 1].call]
      /\ Waiting \in Seq(MergeCalls)
  BY <1>2, <1>5, WaitingIsTyped DEF Waiting
<1>7. Waiting # <<>> /\ d = Head(Waiting) /\ Waiting' = Tail(Waiting) /\ d \in MergeCalls
  <2>1. Len(Waiting) = n /\ n > 0 /\ 1 \in 1 .. n /\ DOMAIN Waiting = 1 .. n
    BY <1>2, <1>6, LenProperties
  <2>2. Waiting # <<>> /\ Head(Waiting) = d
    BY <1>6, <2>1, EmptySeq
  <2>3. Waiting' = Tail(Waiting)
    <3> DEFINE r == Tail(Waiting)
    <3>1. /\ r \in Seq(MergeCalls) /\ Len(r) = n - 1
          /\ \A j \in 1 .. n - 1 : r[j] = Waiting[j + 1]
      BY <1>6, <2>1, <2>2, HeadTailProperties
    <3>2. r = [j \in 1 .. n - 1 |-> r[j]]
      <4> HIDE DEF r
      <4> QED BY <3>1, LenProperties
    <3>3. \A j \in 1 .. n - 1 : r[j] = pending[j + 1].call
      <4>1. \A j \in 1 .. n - 1 : j + 1 \in 1 .. n
        BY <1>2
      <4> QED BY <1>6, <3>1, <4>1
    <3> HIDE DEF r
    <3> QED BY <1>6, <3>2, <3>3 DEF r
  <2> QED BY <1>6, <2>2, <2>3, HeadTailSet
<1>8. agenda'[Client] = <<d>>
  BY <1>1, <1>4, DepthIsNat DEF CallsTypeOK
<1> HIDE DEF d, n
<1>9. <<d>> \o Waiting' = Waiting /\ Queue = Waiting
  <2>1. Waiting = <<Head(Waiting)>> \o Tail(Waiting)
    <3> DEFINE w == Waiting
    <3>1. w \in Seq(MergeCalls) /\ w # <<>>
      BY <1>6, <1>7
    <3> HIDE DEF w
    <3>2. w = <<Head(w)>> \o Tail(w)
      BY <3>1, ConcatProperties, HeadTailProperties
    <3> QED BY <3>2 DEF w
  <2>2. <<>> \o Waiting = Waiting
    BY <1>6
  <2> QED BY <1>2, <1>7, <2>1, <2>2 DEF Queue
<1>10. ToSet(Waiting) = {d} \cup ToSet(Waiting')
  BY <1>6, <1>7, HeadTailSet
<1>11. Under' = ToSet(agenda'[Client]) \cup ToSet(Waiting') /\ ToSet(<<d>>) = {d} /\ ToSet(<<>>) = {}
  BY SmallSets DEF Under
<1>12. Behind(<<d>>) = {}
  <2>1. Tail(<<d>>) = <<>> /\ <<d>> # <<>>
    OBVIOUS
  <2> QED BY <2>1, SmallSets DEF Behind
<1> QED BY <1>2, <1>8, <1>9, <1>10, <1>11, <1>12 DEF Under

LEMMA QueueUser ==
  ASSUME CallsTypeOK, UserCalls
  PROVE  \E d \in UserSent :
           /\ Under' = {d} \cup Under /\ Waiting' = Waiting
           /\ Behind(agenda'[Client]) = {}
           /\ agenda'[Client] \o Waiting' = <<d>> \o Queue /\ Queue \in Seq(MergeCalls)
<1>1. PICK d \in UserSent : agenda' = [agenda EXCEPT ![Client] = <<d>>] /\ UNCHANGED pending
  BY UserMakesOne
<1>2. agenda'[Client] = <<d>> /\ Waiting' = Waiting /\ agenda[Client] = <<>>
      /\ Waiting \in Seq(MergeCalls)
  BY <1>1, DepthIsNat, WaitingIsTyped DEF CallsTypeOK, Waiting, UserCalls, Idle
<1>3. Queue = Waiting /\ Under = ToSet(Waiting)
  <2>1. <<>> \o Waiting = Waiting
    BY <1>2
  <2> QED BY <1>2, <2>1, SmallSets DEF Queue, Under
<1>4. Tail(<<d>>) = <<>> /\ <<d>> # <<>>
  OBVIOUS
<1>5. Under' = ToSet(agenda'[Client]) \cup ToSet(Waiting')
  BY DEF Under
<1> QED BY <1>1, <1>2, <1>3, <1>4, <1>5, SmallSets DEF Behind

---------------------------------------------------------------------------
(* The calls that are run at once: nothing is ever put in front of them.   *)
(* Among them is a publisher's signal if nobody has it wait, unless the    *)
(* publisher has more to say, or nothing counts any more.                  *)
Urgent(c) ==
  \/ c.at = Subscriber /\ c.sig \in {"onNext", "onComplete"}
  \/ c.at = Depth /\ c.sig = "onNext"
  \/ c.at \in Publishers /\ c.sig = "request"
  \/ Stage(c) = 2 /\ ~merge.scheduler
  \/ /\ Stage(c) = 1 /\ ~merge.m_canceled
     /\ ~Gate(c.at) /\ ~Pub(c.at).later /\ ~inner[c.at].m_completed

Prompt ==
  /\ \A c \in Behind(agenda[Client]) : ~Urgent(c)
  /\ \A c \in ToSet(Waiting) : ~Urgent(c)

(* What is not taken back.                                                 *)
GoesOn ==
  /\ input' = input /\ merge'.scheduler = merge.scheduler
  /\ merge.m_canceled => merge'.m_canceled
  /\ \A p \in Publishers : inner[p].m_completed => inner'[p].m_completed

LEMMA UrgentBefore ==
  ASSUME GoesOn, NEW c
  PROVE  Urgent(c)' => Urgent(c)
<1>1. Stage(c) = 1 => c.at \in Publishers
  BY DEF Stage
<1> QED BY <1>1 DEF GoesOn, Urgent, Gate, Pub

LEMMA RestIsNotUrgent ==
  ASSUME Prompt, agenda[Client] # <<>>
  PROVE  \A c \in Rest : ~Urgent(c)
BY DEF Prompt, Behind, Rest

LEMMA PromptSends ==
  ASSUME CallsTypeOK, Prompt, GoesOn, agenda[Client] # <<>>, NEW calls \in Seq(MergeCalls),
         \/ Makes(Client, calls) /\ \A c \in Behind(calls) : ~Urgent(c)'
         \/ Leaves(Client, TRUE, calls) /\ \A c \in ToSet(calls) : ~Urgent(c)'
  PROVE  Prompt'
<1> DEFINE s == agenda[Client]
           t == Tail(s)
<1>1. s \in Seq(MergeCalls) /\ t \in Seq(MergeCalls) /\ Waiting \in Seq(MergeCalls)
  BY WaitingIsTyped, HeadTailSet DEF CallsTypeOK
<1>2. (\A c \in ToSet(t) : ~Urgent(c)') /\ (\A c \in ToSet(Waiting) : ~Urgent(c)')
  BY UrgentBefore, RestIsNotUrgent DEF Rest
<1>3. Behind(t) \subseteq ToSet(t) /\ Behind(calls \o t) \subseteq Behind(calls) \cup ToSet(t)
      /\ ToSet(Waiting \o calls) = ToSet(Waiting) \cup ToSet(calls)
  <2> HIDE DEF t
  <2> QED BY <1>1, BehindConcat, ConcatSet
<1>4. Prompt' = /\ \A c \in Behind(agenda'[Client]) : ~Urgent(c)'
                /\ \A c \in ToSet(Waiting') : ~Urgent(c)'
  BY DEF Prompt, Behind
<1>5. CASE Makes(Client, calls) /\ \A c \in Behind(calls) : ~Urgent(c)'
  <2>1. agenda'[Client] = calls \o t /\ Waiting' = Waiting
    BY <1>5, DepthIsNat DEF CallsTypeOK, Makes, Waiting
  <2> HIDE DEF t
  <2> QED BY <1>2, <1>3, <1>4, <1>5, <2>1
<1>6. CASE Leaves(Client, TRUE, calls) /\ \A c \in ToSet(calls) : ~Urgent(c)'
  <2>1. agenda'[Client] = t /\ Waiting' = Waiting \o calls
    BY <1>6, DepthIsNat, AppendsTasks DEF CallsTypeOK, Leaves
  <2> HIDE DEF t
  <2> QED BY <1>2, <1>3, <1>4, <1>6, <2>1
<1> QED BY <1>5, <1>6

---------------------------------------------------------------------------
(* A publisher that hands out a subscription.                              *)
Joins(p) == ~Gate(p) /\ Pub(p).kind # "error"

(* The calls each part is made; those of the source are SourceCalls.       *)
Known(c) ==
  /\ c.at = Depth => c.sig \in {"subscribe", "onNext", "onComplete", "onError", "request",
                               "cancel", "tryRequest"}
  /\ c.at = Subscriber => c.sig \in {"onSubscribe", "onNext", "onComplete", "onError", "received"}
  /\ c.at \in Publishers => c.sig \in {"subscribe", "onSubscribe", "onNext", "onComplete",
        "onError", "request", "cancel", "add", "onPublisherNextValue", "onPublisherError",
        "onPublisherComplete"}

(* What is true of a call for the publishers and the source as they are.   *)
Proper(c) ==
  /\ Known(c)
  /\ c.at = 0 /\ c.sig = "emit" => c.arg > 0
  /\ c.at = Depth /\ c.sig \in Ends => input.end = c.sig
  /\ c.at = Subscriber /\ c.sig = "onError" => input.end = "onError" \/ Failing # {}
  /\ c.at \in Publishers /\ c.sig \in Failures => EndOf(c.at) = "onError"
  /\ c.at \in Publishers /\ c.sig \in {"onSubscribe", "add", "request"} => Joins(c.at)
  /\ Stage(c) > 0 /\ IsValue(c) => \E p \in Publishers, k \in Nat :
                                     c.arg = Element(p, k) /\ Of(c) = p

(* ... and what MergeSubscription has to do with it.                       *)
Sound(c) ==
  /\ Proper(c)
  /\ merge.sourceCompleted => ~SourceCall(c) /\ ~(c.at = Depth /\ c.sig = "onNext")
  /\ c.at = Subscriber => /\ merge.m_canceled => c.sig \notin {"onNext", "onComplete"}
                          /\ c.sig = "onError" => merge.m_canceled
                          /\ c.sig = "onComplete" => merge.m_completed /\ log.end = "none"
  /\ c.at \in Publishers => /\ c.sig = "cancel"  => merge.m_canceled
                            /\ c.sig = "request" => c.at \in Present

Always ==
  /\ Prompt /\ Chain("source", Queue)
  /\ \A c \in Under : Sound(c)
  /\ merge.sourceCompleted => input.end = "onComplete"
  /\ merge.m_completed => merge.sourceCompleted /\ merge.m_remaining = 0
  /\ log.end = "onError" => merge.m_canceled
  /\ log.end = "onComplete" => merge.m_completed
  /\ \A p \in Present : Joins(p)

LEMMA ProperStays ==
  ASSUME input' = input, NEW c
  PROVE  Proper(c)' <=> Proper(c)
BY DEF Proper, Known, Failing, EndOf, Joins, Gate, Pub

LEMMA RestIsSound ==
  ASSUME CallsTypeOK, Always, GoesOn, agenda[Client] # <<>>,
         merge'.sourceCompleted => merge.sourceCompleted \/ SourceCall(Head(agenda[Client]))
  PROVE  \A c \in Rest : Sound(c)'
<1> SUFFICES ASSUME NEW c \in Rest PROVE Sound(c)'
  OBVIOUS
<1>1. c \in Under
  <2>1. agenda[Client] \in Seq(MergeCalls)
    BY DEF CallsTypeOK
  <2> QED BY <2>1, HeadTailSet DEF Under, Rest
<1>2. Sound(c) /\ ~Urgent(c)
  BY <1>1, RestIsNotUrgent DEF Always
<1>3. ~(SourceCall(Head(agenda[Client])) /\ SourceCall(c))
  BY HeadIsApart DEF Always, Apart
<1>4. Proper(c)'
  BY <1>2, ProperStays DEF Sound, GoesOn
<1>5. /\ c.at = Subscriber => c.sig \notin {"onNext", "onComplete"}
      /\ ~(c.at = Depth /\ c.sig = "onNext")
      /\ c.at \in Publishers => c.sig # "request"
  BY <1>2 DEF Urgent
<1>6. (SourceCall(c))' <=> SourceCall(c)
  BY DEF SourceCall
<1> QED BY <1>2, <1>3, <1>4, <1>5, <1>6 DEF Sound, GoesOn

(* What a handler has to see to, besides the calls it makes.               *)
Steady ==
  /\ GoesOn
  /\ merge'.sourceCompleted =>
       input.end = "onComplete" /\ (merge.sourceCompleted \/ SourceCall(Head(agenda[Client])))
  /\ merge'.m_completed => merge'.sourceCompleted /\ merge'.m_remaining = 0
  /\ log'.end = "onError" => merge'.m_canceled
  /\ log'.end = "onComplete" => merge'.m_completed
  /\ \A p \in Present' : Joins(p)

(* ... and for each call.                                                  *)
Follows(d) == Sound(d)' /\ (SourceCall(d) => SourceCall(Head(agenda[Client])))

LEMMA AlwaysSends ==
  ASSUME CallsTypeOK, Always, Steady, agenda[Client] # <<>>, NEW calls \in Seq(MergeCalls),
         \/ Makes(Client, calls) /\ \A d \in Behind(calls) : ~Urgent(d)'
         \/ Leaves(Client, TRUE, calls) /\ \A d \in ToSet(calls) : ~Urgent(d)',
         \A d \in ToSet(calls) : Follows(d), Chain("source", calls)
  PROVE  Always'
<1> DEFINE c == Head(agenda[Client])
<1>0. GoesOn
  BY DEF Steady
<1>1. Prompt'
  BY <1>0, PromptSends DEF Always
<1>2. Chain("source", agenda'[Client] \o Waiting')
  <2>1. \A d \in Rest : ~(SourceCall(c) /\ SourceCall(d))
    BY HeadIsApart DEF Always, Apart
  <2>2. \A d \in ToSet(calls), e \in Rest : Apart("source", d, e) /\ Apart("source", e, d)
    BY <2>1 DEF Apart, Follows
  <2> QED BY <2>2, ChainSends DEF Always
<1>3. Chain("source", Queue)'
  BY <1>2 DEF Chain, Apart, SourceCall, Queue
<1>4. \A d \in Under' : Sound(d)'
  BY <1>0, RestIsSound, QueueSends DEF Sends, Steady, Follows
<1>5. input' = input /\ \A p : Joins(p)' <=> Joins(p)
  BY <1>0 DEF GoesOn, Joins, Gate, Pub
<1> QED BY <1>1, <1>3, <1>4, <1>5 DEF Always, Steady

LEMMA AlwaysNone ==
  ASSUME CallsTypeOK, Always, Steady, agenda[Client] # <<>>,
         Makes(Client, <<>>) \/ Leaves(Client, TRUE, <<>>)
  PROVE  Always'
<1>1. <<>> \in Seq(MergeCalls) /\ ToSet(<<>>) = {} /\ Behind(<<>>) = {} /\ Chain("source", <<>>)
  BY SmallSets DEF Behind, Chain
<1> QED BY <1>1, AlwaysSends

LEMMA SingleChain ==
  ASSUME NEW d, NEW what
  PROVE  Chain(what, <<d>>) /\ Behind(<<d>>) = {}
<1>1. DOMAIN <<d>> = {1} /\ Tail(<<d>>) = <<>> /\ <<d>> # <<>>
  OBVIOUS
<1> QED BY <1>1, SmallSets DEF Chain, Behind

LEMMA AlwaysOne ==
  ASSUME CallsTypeOK, Always, Steady, agenda[Client] # <<>>, NEW d \in MergeCalls, Follows(d),
         Makes(Client, <<d>>) \/ (Leaves(Client, TRUE, <<d>>) /\ ~Urgent(d)')
  PROVE  Always'
<1>1. <<d>> \in Seq(MergeCalls)
  OBVIOUS
<1>2. ToSet(<<d>>) = {d} /\ Chain("source", <<d>>) /\ Behind(<<d>>) = {}
  BY SmallSets, SingleChain
<1> QED BY <1>1, <1>2, AlwaysSends

LEMMA PairChain ==
  ASSUME NEW d \in MergeCalls, NEW e \in MergeCalls, NEW what
  PROVE  /\ <<d, e>> \in Seq(MergeCalls) /\ Behind(<<d, e>>) = {e}
         /\ Chain(what, <<d, e>>) <=> Apart(what, d, e)
<1>1. /\ <<d, e>> \in Seq(MergeCalls) /\ DOMAIN <<d, e>> = {1, 2} /\ Tail(<<d, e>>) = <<e>>
      /\ <<d, e>> # <<>> /\ <<d, e>>[1] = d /\ <<d, e>>[2] = e
  OBVIOUS
<1>2. Chain(what, <<d, e>>) <=> Apart(what, d, e)
  <2> DEFINE s == <<d, e>>
  <2>1. DOMAIN s = {1, 2} /\ s[1] = d /\ s[2] = e
    BY <1>1
  <2> HIDE DEF s
  <2>2. \A j, k \in DOMAIN s : j < k <=> j = 1 /\ k = 2
    BY <2>1
  <2>3. Chain(what, s) <=> Apart(what, s[1], s[2])
    BY <2>1, <2>2 DEF Chain
  <2> QED BY <2>1, <2>3 DEF s
<1> QED BY <1>1, <1>2, SmallSets DEF Behind

LEMMA AlwaysTwo ==
  ASSUME CallsTypeOK, Always, Steady, agenda[Client] # <<>>, NEW d \in MergeCalls, NEW e \in MergeCalls,
         Follows(d), Follows(e), ~Urgent(e)', ~(SourceCall(d) /\ SourceCall(e)),
         Makes(Client, <<d, e>>) \/ (Leaves(Client, TRUE, <<d, e>>) /\ ~Urgent(d)')
  PROVE  Always'
<1>1. ToSet(<<d, e>>) = {d, e}
  BY SmallSets
<1>2. <<d, e>> \in Seq(MergeCalls) /\ Behind(<<d, e>>) = {e} /\ Chain("source", <<d, e>>)
  BY PairChain DEF Apart
<1> QED BY <1>1, <1>2, AlwaysSends

(* Steps that are no handler's.                                            *)
LEMMA AlwaysTakes ==
  ASSUME CallsTypeOK, Always, Takes
  PROVE  Always'
<1>1. /\ agenda'[Client] \o Waiting' = Queue /\ Under' = Under
      /\ Behind(agenda'[Client]) = {} /\ ToSet(Waiting') \subseteq ToSet(Waiting)
  BY QueueTakes DEF Takes
<1>2. input' = input /\ inner' = inner /\ merge' = merge /\ log' = log
  BY DEF Takes, mergeVars, subscriberVars
<1>3. Prompt'
  BY <1>1, <1>2, UrgentBefore DEF Prompt, GoesOn, Always
<1>4. Chain("source", Queue)'
  BY <1>1 DEF Chain, Apart, SourceCall, Queue, Always
<1>5. \A c \in Under' : Sound(c)'
  BY <1>1, <1>2, ProperStays DEF Sound, SourceCall, Present, Always
<1> QED BY <1>2, <1>3, <1>4, <1>5 DEF Always, Present, Joins, Gate, Pub

LEMMA UserSentIsSound ==
  ASSUME NEW c \in UserSent
  PROVE  Sound(c) /\ ~SourceCall(c) /\ Stage(c) = 0 /\ ~Urgent(c) /\ c.sig # "onComplete"
<1>1. \/ c.at = Depth /\ c.sig \in {"request", "cancel"}
      \/ c.at = Subscriber /\ c.sig = "received"
  <2>1. ASSUME NEW n, c = Call(Depth, "request", n) PROVE c.at = Depth /\ c.sig = "request"
    BY <2>1 DEF Call
  <2>2. c = Call(Depth, "cancel", 0) => c.at = Depth /\ c.sig = "cancel"
    BY DEF Call
  <2>3. c = Call(Subscriber, "received", 0) => c.at = Subscriber /\ c.sig = "received"
    BY DEF Call
  <2> QED BY <2>1, <2>2, <2>3 DEF UserSent, Request, Cancel
<1>2. Depth # 0 /\ Depth # Subscriber /\ Subscriber # 0 /\ Depth \notin Publishers /\ Subscriber \notin Publishers
  BY DepthIsNat DEF Subscriber, Publishers
<1> QED BY <1>1, <1>2 DEF Sound, Proper, Known, SourceCall, Stage, Urgent, Ends

LEMMA AlwaysUser ==
  ASSUME CallsTypeOK, Always, UserCalls, UNCHANGED mergeVars
  PROVE  Always'
<1>1. PICK d \in UserSent :
           /\ Under' = {d} \cup Under /\ Waiting' = Waiting
           /\ Behind(agenda'[Client]) = {}
           /\ agenda'[Client] \o Waiting' = <<d>> \o Queue /\ Queue \in Seq(MergeCalls)
  BY QueueUser
<1>2. input' = input /\ inner' = inner /\ merge' = merge /\ log' = log
  BY DEF UserCalls, mergeVars
<1>3. Prompt'
  BY <1>1, <1>2, UrgentBefore DEF Prompt, GoesOn, Always
<1>4. Chain("source", <<d>> \o Queue)
  <2>1. <<d>> \in Seq(MergeCalls) /\ DOMAIN <<d>> = {1}
    BY UserSentIsPlain DEF Plain
  <2>2. Chain("source", <<d>>)
    BY <2>1 DEF Chain
  <2>3. \A c \in ToSet(<<d>>), e \in ToSet(Queue) : Apart("source", c, e)
    BY UserSentIsSound, SmallSets DEF Apart
  <2> QED BY <1>1, <2>1, <2>2, <2>3, ChainConcat DEF Always
<1>5. Chain("source", Queue)'
  <2>1. Chain("source", agenda'[Client] \o Waiting')
    BY <1>1, <1>4
  <2> QED BY <2>1 DEF Chain, Apart, SourceCall, Queue
<1>6. \A c \in Under' : Sound(c)'
  <2>1. \A c : Sound(c)' <=> Sound(c)
    BY <1>2, ProperStays DEF Sound, SourceCall, Present
  <2> QED BY <1>1, <2>1, UserSentIsSound DEF Always
<1> QED BY <1>2, <1>3, <1>5, <1>6 DEF Always, Present, Joins, Gate, Pub

---------------------------------------------------------------------------
(* Each handler leaves the calls under way as they should be.              *)
LEMMA HeadIsUnder ==
  ASSUME CallsTypeOK, agenda[Client] # <<>>
  PROVE  Head(agenda[Client]) \in Under /\ Under = {Head(agenda[Client])} \cup Rest /\ Rest \subseteq MergeCalls
<1>1. agenda[Client] \in Seq(MergeCalls) /\ Waiting \in Seq(MergeCalls)
  BY WaitingIsTyped DEF CallsTypeOK
<1>2. /\ Tail(agenda[Client]) \in Seq(MergeCalls)
      /\ ToSet(agenda[Client]) = {Head(agenda[Client])} \cup ToSet(Tail(agenda[Client]))
  BY <1>1, HeadTailSet
<1>3. ToSet(Tail(agenda[Client])) \subseteq MergeCalls /\ ToSet(Waiting) \subseteq MergeCalls
  BY <1>1, <1>2, ConcatSet
<1> QED BY <1>2, <1>3 DEF Under, Rest

LEMMA HeadIsSound ==
  ASSUME CallsTypeOK, Always, agenda[Client] # <<>>
  PROVE  Sound(Head(agenda[Client]))
BY HeadIsUnder DEF Always

LEMMA SourceAlways ==
  ASSUME TypeInv, Always, Source(Client), UNCHANGED subscriberVars
  PROVE  Always'
<1> DEFINE c == Head(agenda[Client])
<1>0. PICK q \in Nat : q = Arg(Client)
  BY HeadIsTyped DEF Source, On, TypeInv, Arg
<1>1. CallsTypeOK /\ agenda[Client] # <<>> /\ c.at = 0 /\ q \in Nat /\ c.arg = q
  BY <1>0 DEF Source, On, TypeInv, Arg
<1>2. Steady
  BY DEF Source, Steady, GoesOn, mergeVars, subscriberVars, Always, Present
<1>3. Sound(c) /\ SourceCall(c) /\ ~merge'.sourceCompleted
  BY <1>1, HeadIsSound DEF Sound, SourceCall, Source, mergeVars
<1>4. ASSUME NEW n \in Nat, n > 0, \/ Leaves(Client, input.later, <<Call(0, "emit", n)>>)
      PROVE  Always'
  <2> DEFINE d == Call(0, "emit", n)
  <2>1. d \in MergeCalls /\ d.at = 0 /\ d.sig = "emit" /\ d.arg = n
    BY NewCall, PlacesNamed, SentNamed, PlacesDiffer
  <2>2. Follows(d) /\ ~Urgent(d)'
    BY <1>3, <1>4, <2>1, PlacesDiffer
    DEF Follows, Sound, Proper, Known, SourceCall, Stage, Urgent
  <2>3. Makes(Client, <<d>>) \/ Leaves(Client, TRUE, <<d>>)
    BY <1>4 DEF Leaves
  <2> HIDE DEF d
  <2> QED BY <1>1, <1>2, <2>1, <2>2, <2>3, AlwaysOne
<1>5. CASE On(Client, 0, "emit") /\ Makes(Client, <<Call(Depth, input.end, 0)>>)
  <2> DEFINE d == Call(Depth, input.end, 0)
  <2>1. input.end \in Ends /\ input' = input
    BY MergeAssumption DEF Source, mergeVars, TypeInv, TypeOK, Ends
  <2>2. d \in MergeCalls /\ d.at = Depth /\ d.sig = input.end
    BY <2>1, NewCall, PlacesNamed, SentNamed, PlacesDiffer DEF Ends
  <2>3. Follows(d)
    BY <1>3, <2>1, <2>2, PlacesDiffer DEF Follows, Sound, Proper, Known, SourceCall, Stage, Ends
  <2> HIDE DEF d
  <2> QED BY <1>1, <1>2, <1>5, <2>2, <2>3, AlwaysOne DEF d
<1>6. CASE /\ q \in Publishers
           /\ Makes(Client, <<Call(Depth, "onNext", q), Call(0, "emitted", q)>>)
  <2> DEFINE d == Call(Depth, "onNext", q)
             e == Call(0, "emitted", q)
  <2>1. /\ d \in MergeCalls /\ d.at = Depth /\ d.sig = "onNext" /\ d.arg = q
        /\ e \in MergeCalls /\ e.at = 0 /\ e.sig = "emitted" /\ e.arg = q
    BY <1>1, <1>6, NewCall, PlacesNamed, SentNamed, PlacesDiffer
  <2>3. Makes(Client, <<d, e>>)
    BY <1>6
  <2> HIDE DEF d, e
  <2>4. Follows(d) /\ ~SourceCall(d)
    BY <1>3, <2>1, PlacesDiffer DEF Follows, Sound, Proper, Known, SourceCall, Stage, Ends
  <2>5. Follows(e) /\ ~Urgent(e)'
    BY <1>3, <2>1, PlacesDiffer DEF Follows, Sound, Proper, Known, SourceCall, Stage, Urgent
  <2> QED BY <1>1, <1>2, <2>1, <2>3, <2>4, <2>5, AlwaysTwo
<1>7. q + 1 \in Nat /\ q + 1 > 0 /\ 1 > 0 /\ 1 \in Nat
  BY <1>1
<1>8. \/ Leaves(Client, input.later, <<Call(0, "emit", 1)>>)
      \/ Leaves(Client, input.later, <<Call(0, "emit", q + 1)>>)
      \/ On(Client, 0, "emit") /\ Makes(Client, <<Call(Depth, input.end, 0)>>)
      \/ q \in Publishers /\ Makes(Client, <<Call(Depth, "onNext", q), Call(0, "emitted", q)>>)
  BY <1>0 DEF Source
<1> QED BY <1>4, <1>5, <1>6, <1>7, <1>8

LEMMA SubscribesAlways ==
  ASSUME TypeInv, Always, NEW p \in Publishers, Subscribes(Client, p), UNCHANGED subscriberVars
  PROVE  Always'
<1> DEFINE c == Head(agenda[Client])
<1>1. CallsTypeOK /\ agenda[Client] # <<>> /\ c.at = p /\ Pub(p) \in Published
  BY PublisherIsTyped DEF Subscribes, On, TypeInv
<1>2. Steady /\ input' = input /\ merge' = merge
  BY DEF Subscribes, Steady, GoesOn, mergeVars, subscriberVars, Always, Present
<1>3. CASE Gate(p)
  <2> DEFINE values == [k \in 1 .. Pub(p).size |-> Call(p, "onNext", Element(p, k))]
             end    == IF Pub(p).end = "none" THEN <<>> ELSE <<Call(p, Pub(p).end, 0)>>
             Good(d) == d \in MergeCalls /\ Follows(d) /\ ~Urgent(d)' /\ ~SourceCall(d)
  <2>1. Pub(p).size \in Nat /\ Pub(p).end \in {"onComplete", "onError", "none"}
    BY <1>1 DEF Published
  <2>2. \A d : d.at = p /\ d \in MergeCalls => ~Urgent(d)' \/ d.sig \notin {"onNext", "onComplete", "onError"}
    BY <1>2, <1>3, PlacesDiffer DEF Urgent, Stage, Gate, Pub
  <2>3. ASSUME NEW k \in 1 .. Pub(p).size PROVE Good(Call(p, "onNext", Element(p, k)))
    <3> DEFINE d == Call(p, "onNext", Element(p, k))
    <3>1. k \in Nat /\ Element(p, k) \in Nat
      BY <2>1, OriginOfElement
    <3>2. d \in MergeCalls /\ d.at = p /\ d.sig = "onNext" /\ d.arg = Element(p, k)
      BY <3>1, NewCall, PlacesNamed, SentNamed, PlacesDiffer
    <3> HIDE DEF d
    <3>3. Follows(d) /\ ~SourceCall(d)
      BY <3>1, <3>2, PlacesDiffer DEF Follows, Sound, Proper, Known, SourceCall, Stage, Of, Failures
    <3> QED BY <2>2, <3>2, <3>3 DEF d
  <2>4. ASSUME NEW sig \in {"onComplete", "onError"}, sig = Pub(p).end PROVE Good(Call(p, sig, 0))
    <3> DEFINE d == Call(p, sig, 0)
    <3>2. d \in MergeCalls /\ d.at = p /\ d.sig = Pub(p).end
      BY <2>4, NewCall, PlacesNamed, SentNamed, PlacesDiffer
    <3>4. EndOf(p)' = Pub(p).end
      BY <1>2, <1>3 DEF EndOf, Gate, Pub
    <3>5. d.sig \in {"onComplete", "onError"}
      BY <2>1, <2>4, <3>2
    <3> HIDE DEF d
    <3>6. d.sig = "onError" => EndOf(p)' = "onError"
      BY <3>2, <3>4
    <3>3. Follows(d) /\ ~SourceCall(d)
      BY <3>2, <3>5, <3>6, PlacesDiffer
      DEF Follows, Sound, Proper, Known, SourceCall, Stage, Failures, IsValue
    <3>7. Good(d)
      BY <2>2, <3>2, <3>3, <3>5
    <3> QED BY <3>7 DEF d
  <2> DEFINE calls == values \o end
  <2>5. calls \in Seq(MergeCalls) /\ \A d \in ToSet(calls) : Good(d)
    <3>1. values \in Seq(MergeCalls) /\ \A d \in ToSet(values) : Good(d)
      <4>1. values \in Seq(MergeCalls)
        BY <2>1, <2>3, IsASeq
      <4>2. \A d \in ToSet(values) : Good(d)
        BY <2>3 DEF ToSet
      <4> QED BY <4>1, <4>2
    <3>2. end \in Seq(MergeCalls) /\ \A d \in ToSet(end) : Good(d)
      <4> HIDE DEF Good
      <4>1. CASE Pub(p).end = "none"
        BY <4>1, SmallSets
      <4>2. CASE Pub(p).end # "none"
        <5>0. PICK sig \in {"onComplete", "onError"} : sig = Pub(p).end
          BY <2>1, <4>2
        <5> DEFINE d == Call(p, sig, 0)
        <5>1. Good(d) /\ d \in MergeCalls
          BY <2>4, <5>0 DEF Good
        <5>2. end = <<d>>
          BY <4>2, <5>0
        <5> HIDE DEF d, end
        <5> QED BY <5>1, <5>2, SmallSets
      <4> QED BY <4>1, <4>2
    <3> HIDE DEF values, end, Good
    <3> QED BY <3>1, <3>2, ConcatSet
  <2>6. Leaves(Client, Pub(p).later, calls)
    BY <1>3 DEF Subscribes
  <2> HIDE DEF values, end, calls
  <2>7. Behind(calls) \subseteq ToSet(calls) /\ \A k \in DOMAIN calls : calls[k] \in ToSet(calls)
    BY <2>5, BehindConcat DEF ToSet
  <2>8. Chain("source", calls)
    BY <2>5, <2>7 DEF Chain, Apart
  <2>9. Makes(Client, calls) \/ Leaves(Client, TRUE, calls)
    BY <2>6 DEF Leaves
  <2> QED BY <1>1, <1>2, <2>5, <2>7, <2>8, <2>9, AlwaysSends
<1>4. CASE ~Gate(p) /\ Pub(p).kind = "error"
  <2> DEFINE d == Call(p, "onError", 0)
  <2>1. d \in MergeCalls /\ d.at = p /\ d.sig = "onError"
    BY NewCall, PlacesNamed, SentNamed, PlacesDiffer
  <2>2. EndOf(p)' = "onError"
    BY <1>2, <1>4 DEF EndOf, Gate, Pub
  <2>3. Makes(Client, <<d>>) \/ (Leaves(Client, TRUE, <<d>>) /\ Pub(p).later)
    BY <1>4 DEF Subscribes, Leaves
  <2> HIDE DEF d
  <2>4. Follows(d)
    BY <2>1, <2>2, PlacesDiffer DEF Follows, Sound, Proper, Known, SourceCall, Stage, Of, Failures, IsValue
  <2>5. Pub(p).later => ~Urgent(d)'
    BY <1>2, <2>1, PlacesDiffer DEF Urgent, Stage, Pub
  <2> QED BY <1>1, <1>2, <2>1, <2>3, <2>4, <2>5, AlwaysOne
<1>5. CASE ~Gate(p) /\ Pub(p).kind # "error"
  <2> DEFINE d == Call(p, "onSubscribe", 0)
  <2>1. d \in MergeCalls /\ d.at = p /\ d.sig = "onSubscribe"
    BY NewCall, PlacesNamed, SentNamed, PlacesDiffer
  <2>3. Makes(Client, <<d>>)
    BY <1>5 DEF Subscribes
  <2>2. Joins(p)'
    BY <1>2, <1>5 DEF Joins, Gate, Pub
  <2> HIDE DEF d
  <2>4. Follows(d)
    BY <2>1, <2>2, PlacesDiffer DEF Follows, Sound, Proper, Known, SourceCall, Stage, Failures
  <2> QED BY <1>1, <1>2, <2>1, <2>3, <2>4, AlwaysOne
<1> QED BY <1>3, <1>4, <1>5

(* What a request(1) does: nothing, or it emits the next value, the end or *)
(* both.                                                                   *)
Emits(p, current, ends, calls) ==
  /\ ~inner[p].m_completed /\ Pub(p).kind # "never"
  /\ inner'[p].m_current = current /\ (inner'[p].m_completed <=> ends = 1)
  /\ Leaves(Client, Pub(p).later, calls)

LEMMA RequestedEmits ==
  ASSUME TypeInv, NEW p \in Publishers, Requested(Client, p)
  PROVE  \E n \in Nat, v, e \in MergeCalls :
             /\ n = inner[p].m_current
             /\ \A q \in Publishers \ {p} : inner'[q] = inner[q]
             /\ inner[p].m_completed \in BOOLEAN
             /\ v.at = p /\ v.sig = "onNext" /\ v.arg = Element(p, n + 1)
             /\ e.at = p /\ e.sig = "onComplete"
             /\ \/ /\ inner' = inner /\ Leaves(Client, Pub(p).later, <<>>)
                   /\ inner[p].m_completed \/ inner[p].m_canceled \/ Pub(p).kind = "never"
                \/ n = Pub(p).size /\ Emits(p, n, 1, <<e>>)
                \/ n # Pub(p).size /\ Pub(p).kind # "just" /\ Emits(p, n + 1, 0, <<v>>)
                \/ n # Pub(p).size /\ Pub(p).kind = "just" /\ Emits(p, n + 1, 1, <<v, e>>)
<1>0. PICK n \in Nat : n = inner[p].m_current
  BY DEF TypeInv, TypeOK
<1> DEFINE v == Call(p, "onNext", Element(p, n + 1))
           e == Call(p, "onComplete", 0)
           over == inner[p].m_completed \/ inner[p].m_canceled \/ Pub(p).kind = "never"
           done == n = Pub(p).size
           last == done \/ Pub(p).kind = "just"
           State == [m_current : Nat, m_completed : BOOLEAN, m_canceled : BOOLEAN]
<1>1. inner \in [Publishers -> State]
  BY DEF TypeInv, TypeOK
<1>2. n \in Nat /\ inner[p].m_completed \in BOOLEAN /\ Element(p, n + 1) \in Nat
  <2>1. n + 1 \in Nat
    OBVIOUS
  <2> QED BY <1>1, <2>1, OriginOfElement
<1>3. v \in MergeCalls /\ v.at = p /\ v.sig = "onNext" /\ v.arg = Element(p, n + 1)
  BY <1>2, NewCall, PlacesNamed, SentNamed, PlacesDiffer
<1>4. e \in MergeCalls /\ e.at = p /\ e.sig = "onComplete"
  BY NewCall, PlacesNamed, SentNamed, PlacesDiffer
<1>5. ASSUME ~over
      PROVE  /\ inner'[p].m_current = IF done THEN n ELSE n + 1
             /\ inner'[p].m_completed = last
             /\ \A q \in Publishers \ {p} : inner'[q] = inner[q]
  BY <1>0, <1>1, <1>5 DEF Requested
<1>6. ASSUME ~over
      PROVE  Leaves(Client, Pub(p).later, (IF done THEN <<>> ELSE <<v>>) \o (IF last THEN <<e>> ELSE <<>>))
  BY <1>0, <1>6 DEF Requested
<1>7. over => inner' = inner /\ Leaves(Client, Pub(p).later, <<>>)
  BY DEF Requested
<1> HIDE DEF v, e
<1>8. <<v>> \o <<e>> = <<v, e>> /\ <<v>> \o <<>> = <<v>> /\ <<>> \o <<e>> = <<e>>
  BY TupleConcat
<1>9. CASE over
  BY <1>0, <1>2, <1>3, <1>4, <1>7, <1>9
<1>10. CASE ~over /\ done
  <2>1. Leaves(Client, Pub(p).later, <<e>>)
    BY <1>6, <1>8, <1>10
  <2>2. Emits(p, n, 1, <<e>>)
    BY <1>5, <1>10, <2>1 DEF Emits
  <2> QED BY <1>0, <1>2, <1>3, <1>4, <1>5, <1>10, <2>2
<1>11. CASE ~over /\ ~done /\ Pub(p).kind # "just"
  <2>1. Leaves(Client, Pub(p).later, <<v>>)
    BY <1>6, <1>8, <1>11
  <2>2. Emits(p, n + 1, 0, <<v>>)
    <3>1. ~inner'[p].m_completed /\ inner'[p].m_current = n + 1
      BY <1>5, <1>11
    <3> QED BY <1>11, <2>1, <3>1 DEF Emits
  <2> QED BY <1>0, <1>2, <1>3, <1>4, <1>5, <1>11, <2>2
<1>12. CASE ~over /\ ~done /\ Pub(p).kind = "just"
  <2>1. Leaves(Client, Pub(p).later, <<v, e>>)
    BY <1>6, <1>8, <1>12
  <2>2. Emits(p, n + 1, 1, <<v, e>>)
    BY <1>5, <1>12, <2>1 DEF Emits
  <2> QED BY <1>0, <1>2, <1>3, <1>4, <1>5, <1>12, <2>2
<1> QED BY <1>9, <1>10, <1>11, <1>12

LEMMA RequestedAlways ==
  ASSUME TypeInv, Always, NEW p \in Publishers, Requested(Client, p), UNCHANGED subscriberVars
  PROVE  Always'
<1>1. CallsTypeOK /\ agenda[Client] # <<>>
  BY DEF Requested, On, TypeInv
<1>2. input' = input /\ merge' = merge
  BY DEF Requested
<1>3. PICK n \in Nat, v, e \in MergeCalls :
      /\ \A q \in Publishers \ {p} : inner'[q] = inner[q]
      /\ inner[p].m_completed \in BOOLEAN
      /\ v.at = p /\ v.sig = "onNext" /\ v.arg = Element(p, n + 1)
      /\ e.at = p /\ e.sig = "onComplete"
      /\ \/ inner' = inner /\ Leaves(Client, Pub(p).later, <<>>)
         \/ Emits(p, n, 1, <<e>>) \/ Emits(p, n + 1, 0, <<v>>)
         \/ Emits(p, n + 1, 1, <<v, e>>)
  <2>1. PICK n \in Nat, v, e \in MergeCalls :
          /\ n = inner[p].m_current
          /\ \A q \in Publishers \ {p} : inner'[q] = inner[q]
          /\ inner[p].m_completed \in BOOLEAN
          /\ v.at = p /\ v.sig = "onNext" /\ v.arg = Element(p, n + 1)
          /\ e.at = p /\ e.sig = "onComplete"
          /\ \/ /\ inner' = inner /\ Leaves(Client, Pub(p).later, <<>>)
                /\ inner[p].m_completed \/ inner[p].m_canceled \/ Pub(p).kind = "never"
             \/ n = Pub(p).size /\ Emits(p, n, 1, <<e>>)
             \/ n # Pub(p).size /\ Pub(p).kind # "just" /\ Emits(p, n + 1, 0, <<v>>)
             \/ n # Pub(p).size /\ Pub(p).kind = "just" /\ Emits(p, n + 1, 1, <<v, e>>)
    BY RequestedEmits
  <2> QED BY <2>1
<1>4. Steady
  BY <1>2, <1>3 DEF Steady, GoesOn, Emits, subscriberVars, Always, Present
<1>5. n + 1 \in Nat /\ Follows(v) /\ Follows(e) /\ ~SourceCall(v)
  <2>1. n + 1 \in Nat
    BY <1>3
  <2> QED BY <1>3, <2>1, PlacesDiffer
       DEF Follows, Sound, Proper, Known, SourceCall, Stage, Of, Failures, IsValue
<1>6. Pub(p).later => ~Urgent(v)' /\ ~Urgent(e)'
  BY <1>2, <1>3, PlacesDiffer DEF Urgent, Stage, Pub
<1>7. inner'[p].m_completed => ~Urgent(e)'
  BY <1>3, PlacesDiffer DEF Urgent, Stage
<1>8. CASE inner' = inner /\ Leaves(Client, Pub(p).later, <<>>)
  BY <1>1, <1>4, <1>8, AlwaysNone DEF Leaves
<1>9. CASE Emits(p, n, 1, <<e>>)
  BY <1>1, <1>3, <1>4, <1>5, <1>6, <1>9, AlwaysOne DEF Leaves, Emits
<1>10. CASE Emits(p, n + 1, 0, <<v>>)
  BY <1>1, <1>3, <1>4, <1>5, <1>6, <1>10, AlwaysOne DEF Leaves, Emits
<1>11. CASE Emits(p, n + 1, 1, <<v, e>>)
  <2>1. Makes(Client, <<v, e>>) \/ (Leaves(Client, TRUE, <<v, e>>) /\ Pub(p).later)
    BY <1>11 DEF Leaves, Emits
  <2>2. ~Urgent(e)'
    BY <1>7, <1>11 DEF Emits
  <2> QED BY <1>1, <1>3, <1>4, <1>5, <1>6, <2>1, <2>2, AlwaysTwo
<1> QED BY <1>3, <1>8, <1>9, <1>10, <1>11

LEMMA CanceledAlways ==
  ASSUME TypeInv, Always, NEW p \in Publishers, Canceled(Client, p), UNCHANGED subscriberVars
  PROVE  Always'
<1> DEFINE e == Call(p, "onComplete", 0)
<1>1. CallsTypeOK /\ agenda[Client] # <<>>
  BY DEF Canceled, On, TypeInv
<1>2. input' = input /\ merge' = merge /\ merge.m_canceled
  BY <1>1, HeadIsSound DEF Canceled, On, Sound
<1>3. \A q \in Publishers : inner'[q].m_completed = inner[q].m_completed
  BY DEF Canceled, TypeInv, TypeOK
<1>4. Steady
  BY <1>2, <1>3 DEF Steady, GoesOn, subscriberVars, Always, Present
<1>5. e \in MergeCalls /\ e.at = p /\ e.sig = "onComplete"
  BY NewCall, PlacesNamed, SentNamed, PlacesDiffer
<1>6. Makes(Client, <<e>>) \/ Leaves(Client, TRUE, <<e>>)
  BY DEF Canceled, Leaves
<1> HIDE DEF e
<1>7. Follows(e) /\ ~Urgent(e)'
  BY <1>2, <1>5, PlacesDiffer DEF Follows, Sound, Proper, Known, SourceCall, Stage, IsValue, Failures, Urgent
<1> QED BY <1>1, <1>4, <1>5, <1>6, <1>7, AlwaysOne

---------------------------------------------------------------------------
(* The handlers of MergeSubscription.                                      *)
LEMMA FoundIs ==
  ASSUME NEW s \in Seq(Publishers), NEW p \in Publishers
  PROVE  LET k == SelectInSeq(s, LAMBDA q : q = p)
         IN  IF p \in ToSet(s) THEN k \in 1 .. Len(s) /\ s[k] = p ELSE k = 0
<1> DEFINE I == {i \in 1 .. Len(s) : s[i] = p}
<1>1. Len(s) \in Nat /\ DOMAIN s = 1 .. Len(s)
  BY LenProperties
<1>2. I # {} => Min(I) \in I
  <2>1. I \subseteq Nat
    BY <1>1
  <2> HIDE DEF I
  <2> QED BY <2>1, LeastExists
<1>3. I # {} <=> p \in ToSet(s)
  BY <1>1 DEF ToSet
<1> QED BY <1>1, <1>2, <1>3 DEF SelectInSeq

(* What removePublisher() leaves.                                          *)
LEMMA RemovedState ==
  ASSUME MergeInv, NEW p \in Publishers
  PROVE  /\ merge \in MergeState /\ Removed(p) \in MergeState
         /\ ToSet(Removed(p).m_subscriptions) = Present \ {p}
         /\ Removed(p).sourceCompleted = merge.sourceCompleted
         /\ Removed(p).m_completed = merge.m_completed
         /\ Removed(p).m_canceled = merge.m_canceled
         /\ Removed(p).m_requested = merge.m_requested
         /\ Removed(p).scheduler = merge.scheduler
         /\ Removed(p).m_remaining = IF merge.m_remaining > 0 THEN merge.m_remaining - 1 ELSE 0
<1> DEFINE s    == merge.m_subscriptions
           i    == merge.m_currentIndex
           k    == SelectInSeq(s, LAMBDA q : q = p)
           left == IF merge.m_remaining > 0 THEN merge.m_remaining - 1 ELSE 0
           to   == Moved(i, k, Len(s))
<1>1. merge \in MergeState /\ s \in Seq(Publishers) /\ i \in Nat /\ Present = ToSet(s) /\ left \in Nat
  BY DEF MergeInv, TypeInv, TypeOK, MergeState, Present
<1>2. IF p \in ToSet(s) THEN k \in 1 .. Len(s) /\ s[k] = p ELSE k = 0
  BY <1>1, FoundIs
<1>3. CASE k = 0
  <2>1. Removed(p) = [merge EXCEPT !.m_remaining = left]
    BY <1>3 DEF Removed
  <2>2. p \notin ToSet(s)
    <3>1. ~(0 \in 1 .. Len(s))
      OBVIOUS
    <3> QED BY <1>2, <1>3, <3>1
  <2> HIDE DEF left, k
  <2> QED BY <1>1, <2>1, <2>2 DEF MergeState, left
<1>4. CASE k # 0
  <2>1. Removed(p) = [merge EXCEPT !.m_remaining = left, !.m_subscriptions = RemoveAt(s, k),
                                   !.m_currentIndex = to]
    BY <1>4 DEF Removed, Moved
  <2>2. k \in 1 .. Len(s) /\ s[k] = p
    BY <1>2, <1>4
  <2>3. i < Len(s) /\ Ordered(s, i, turns.ahead)
    BY <1>1, <2>2, LenProperties, EmptySeq DEF MergeInv, Walkable, InTurn
  <2>5. to \in Nat
    BY <1>1, <2>2 DEF Moved
  <2> HIDE DEF left, k, to, s, i
  <2>4. ToSet(RemoveAt(s, k)) = ToSet(s) \ {p} /\ RemoveAt(s, k) \in Seq(Publishers)
    <3>1. ToSet(RemoveAt(s, k)) = ToSet(s) \ {s[k]}
      BY <1>1, <2>2, <2>3, OrderedRemoval
    <3>2. RemoveAt(s, k) \in Seq(Publishers)
      BY <1>1, <2>2, RemovedKeepsOrder
    <3> QED BY <2>2, <3>1, <3>2
  <2> QED BY <1>1, <2>1, <2>4, <2>5 DEF MergeState, left
<1> QED BY <1>3, <1>4

LEMMA CancelIsTyped ==
  ASSUME NEW p \in Publishers
  PROVE  /\ Call(p, "cancel", 0) \in MergeCalls
         /\ Call(p, "cancel", 0).at = p /\ Call(p, "cancel", 0).sig = "cancel"
<1> DEFINE sig == "cancel"
<1>1. sig \in Sent /\ p # Depth /\ 0 \in Nat /\ p \in Places
  BY PlacesDiffer, PlacesNamed DEF Sent
<1> HIDE DEF sig
<1>2. Call(p, sig, 0) \in MergeCalls /\ Call(p, sig, 0).at = p /\ Call(p, sig, 0).sig = sig
  BY <1>1, NewCall
<1> QED BY <1>2 DEF sig

(* cancel() makes calls of cancel() of publishers that are there.          *)
LEMMA CancelsMakes ==
  ASSUME NEW m \in MergeState, NEW more \in Seq(MergeCalls), Cancels(Client, m, more)
  PROVE  \E calls \in Seq(MergeCalls) :
           /\ Makes(Client, calls \o more)
           /\ \A d \in ToSet(calls) : d.at \in Publishers /\ d.sig = "cancel"
           /\ m.m_subscriptions = <<>> => calls = <<>>
<1>1. PICK walk \in Walks(m.m_subscriptions) :
             Makes(Client, [k \in DOMAIN walk |-> Call(walk[k], "cancel", 0)] \o more)
  BY DEF Cancels
<1>2. m.m_subscriptions \in Seq(Publishers) /\ walk \in Seq(Publishers)
  BY WalkIsTyped DEF MergeState
<1>3. \A k \in 1 .. Len(walk) : walk[k] \in Publishers
  BY <1>2, ElementOfSeq
<1>4. ASSUME NEW k \in 1 .. Len(walk)
      PROVE  /\ Call(walk[k], "cancel", 0) \in MergeCalls
             /\ Call(walk[k], "cancel", 0).at \in Publishers /\ Call(walk[k], "cancel", 0).sig = "cancel"
  <2>1. PICK w \in Publishers : w = walk[k]
    BY <1>3
  <2>2. Call(w, "cancel", 0) \in MergeCalls /\ Call(w, "cancel", 0).at = w /\ Call(w, "cancel", 0).sig = "cancel"
    BY CancelIsTyped
  <2> QED BY <2>1, <2>2
<1> DEFINE calls == [k \in DOMAIN walk |-> Call(walk[k], "cancel", 0)]
<1>5. calls \in Seq(MergeCalls)
  BY <1>2, <1>4, LenProperties, IsASeq
<1>6. \A d \in ToSet(calls) : d.at \in Publishers /\ d.sig = "cancel"
  BY <1>2, <1>4, LenProperties DEF ToSet
<1>7. ASSUME m.m_subscriptions = <<>> PROVE calls = <<>>
  <2>1. PICK places \in SeqOf({}, 0) : walk = [j \in DOMAIN places |-> m.m_subscriptions[places[j]]]
    <3>1. DOMAIN <<>> = {} /\ Len(<<>>) = 0
      OBVIOUS
    <3> QED BY <1>7, <3>1 DEF Walks
  <2>2. DOMAIN places = {}
    BY <2>1 DEF SeqOf
  <2>3. Len(walk) = 0
    BY <1>2, <2>1, <2>2, LenProperties
  <2>4. Len(calls) = 0
    BY <1>2, <1>5, <2>3, LenProperties
  <2> QED BY <1>5, <2>4, EmptySeq
<1> QED BY <1>1, <1>5, <1>6, <1>7

LEMMA CancelsAlways ==
  ASSUME TypeInv, Always, agenda[Client] # <<>>, UNCHANGED <<subscriberVars, input, inner>>,
         NEW m \in MergeState, NEW more \in Seq(MergeCalls), Cancels(Client, m, more),
         m.scheduler = merge.scheduler, m.sourceCompleted = merge.sourceCompleted,
         m.m_completed = merge.m_completed, merge.m_remaining = 0 => m.m_remaining = 0,
         ToSet(m.m_subscriptions) \subseteq Present,
         \A d \in ToSet(more) : /\ d.at = Subscriber /\ d.sig = "onError"
                                /\ input.end = "onError" \/ Failing # {}
  PROVE  Always'
<1>1. PICK calls \in Seq(MergeCalls) :
           /\ Makes(Client, calls \o more)
           /\ \A d \in ToSet(calls) : d.at \in Publishers /\ d.sig = "cancel"
  BY CancelsMakes
<1>2. merge' = [m EXCEPT !.m_canceled = TRUE]
  BY DEF Cancels
<1>3. /\ merge'.m_canceled /\ merge'.scheduler = merge.scheduler
      /\ merge'.sourceCompleted = merge.sourceCompleted /\ Present' \subseteq Present
      /\ merge'.m_completed = merge.m_completed /\ (merge.m_remaining = 0 => merge'.m_remaining = 0)
  BY <1>2 DEF MergeState, Present
<1>4. CallsTypeOK /\ Steady
  BY <1>3 DEF TypeInv, Steady, GoesOn, subscriberVars, Always
<1>5. ASSUME NEW d \in ToSet(calls) \cup ToSet(more)
      PROVE  Follows(d) /\ ~Urgent(d)' /\ ~SourceCall(d)
  <2>1. CASE d \in ToSet(calls)
    BY <1>1, <1>3, <2>1, PlacesDiffer
    DEF Follows, Sound, Proper, Known, SourceCall, Stage, IsValue, Failures, Urgent
  <2>2. CASE d \in ToSet(more)
    <3>1. input'.end = "onError" \/ Failing' # {}
      BY <2>2 DEF Failing, EndOf, Gate, Pub
    <3> QED BY <1>3, <2>2, <3>1, PlacesDiffer
         DEF Follows, Sound, Proper, Known, SourceCall, Stage, IsValue, Failures, Urgent
  <2> QED BY <1>5, <2>1, <2>2
<1>6. /\ calls \o more \in Seq(MergeCalls) /\ ToSet(calls \o more) = ToSet(calls) \cup ToSet(more)
      /\ Behind(calls \o more) \subseteq ToSet(calls \o more)
  BY ConcatSet, BehindConcat
<1>7. Chain("source", calls \o more)
  <2> DEFINE all == calls \o more
  <2>1. \A k \in DOMAIN all : all[k] \in ToSet(all)
    BY DEF ToSet
  <2> HIDE DEF all
  <2> QED BY <1>5, <1>6, <2>1 DEF Chain, Apart, all
<1> QED BY <1>1, <1>4, <1>5, <1>6, <1>7, AlwaysSends

LEMMA FailureIsTyped ==
  /\ <<Failure(Depth)>> \in Seq(MergeCalls) /\ <<>> \in Seq(MergeCalls)
  /\ \A d \in ToSet(<<Failure(Depth)>>) : d.at = Subscriber /\ d.sig = "onError"
<1> DEFINE d == Failure(Depth)
<1>1. d \in MergeCalls /\ d.at = Subscriber /\ d.sig = "onError"
  BY NewCall, PlacesNamed, SentNamed, PlacesDiffer DEF Failure, Subscriber
<1> HIDE DEF d
<1> QED BY <1>1, SmallSets DEF d

LEMMA ConcludesAlways ==
  ASSUME TypeInv, Always, agenda[Client] # <<>>, UNCHANGED <<subscriberVars, input, inner>>,
         NEW m \in MergeState, Concludes(Client, m),
         m.scheduler = merge.scheduler, m.m_canceled = merge.m_canceled,
         m.m_completed = merge.m_completed, merge.m_remaining = 0 => m.m_remaining = 0,
         merge.sourceCompleted => m.sourceCompleted,
         m.sourceCompleted => /\ input.end = "onComplete"
                              /\ merge.sourceCompleted \/ SourceCall(Head(agenda[Client])),
         ToSet(m.m_subscriptions) \subseteq Present
  PROVE  Always'
<1> DEFINE d == Completion(Depth)
<1>1. PICK over \in BOOLEAN :
             /\ over <=> ~m.m_completed /\ m.m_remaining = 0 /\ m.sourceCompleted
             /\ merge' = [m EXCEPT !.m_completed = @ \/ over]
             /\ Makes(Client, IF over /\ ~m.m_canceled THEN <<d>> ELSE <<>>)
  BY DEF Concludes, MergeState
<1>2. /\ merge'.m_canceled = merge.m_canceled /\ merge'.scheduler = merge.scheduler
      /\ merge'.sourceCompleted = m.sourceCompleted /\ Present' \subseteq Present
      /\ merge'.m_completed <=> merge.m_completed \/ over
      /\ merge'.m_remaining = m.m_remaining
  BY <1>1 DEF MergeState, Present
<1>8. over /\ ~merge.m_canceled => log.end = "none"
  <2>1. log.end \in Ends \cup {"none"}
    BY DEF TypeInv, TypeOK, SubscriberTypeOK
  <2>2. over => log.end # "onComplete"
    BY <1>1 DEF Always
  <2>3. log.end = "onError" => merge.m_canceled
    BY DEF Always
  <2> QED BY <2>1, <2>2, <2>3 DEF Ends
<1>3. CallsTypeOK /\ Steady
  BY <1>1, <1>2 DEF TypeInv, Steady, GoesOn, subscriberVars, Always
<1>4. d \in MergeCalls /\ d.at = Subscriber /\ d.sig = "onComplete"
  BY NewCall, PlacesNamed, SentNamed, PlacesDiffer DEF Completion, Subscriber
<1> HIDE DEF d
<1>5. over /\ ~m.m_canceled => Follows(d)
  BY <1>2, <1>4, <1>8, PlacesDiffer
  DEF Follows, Sound, Proper, Known, SourceCall, Stage, IsValue, Failures, subscriberVars
<1>6. CASE over /\ ~m.m_canceled
  BY <1>1, <1>3, <1>4, <1>5, <1>6, AlwaysOne
<1>7. CASE ~(over /\ ~m.m_canceled)
  BY <1>1, <1>3, <1>7, AlwaysNone
<1> QED BY <1>6, <1>7

LEMMA AppendSet ==
  ASSUME NEW s \in Seq(Publishers), NEW p \in Publishers
  PROVE  ToSet(Append(s, p)) = ToSet(s) \cup {p}
<1> DEFINE r == Append(s, p)
           n == Len(s)
<1>1. /\ n \in Nat /\ DOMAIN s = 1 .. n /\ DOMAIN r = 1 .. n + 1 /\ r[n + 1] = p
      /\ \A k \in 1 .. n : r[k] = s[k]
  BY AppendProperties, LenProperties
<1> HIDE DEF r, n
<1>2. \A k \in 1 .. n + 1 : k \in 1 .. n \/ k = n + 1
  BY <1>1
<1>3. n + 1 \in 1 .. n + 1 /\ 1 .. n \subseteq 1 .. n + 1
  BY <1>1
<1>4. ToSet(r) = ToSet(s) \cup {p}
  BY <1>1, <1>2, <1>3 DEF ToSet
<1> QED BY <1>4 DEF r

LEMMA ReceivesAlways ==
  ASSUME TypeInv, Always, NEW p \in Publishers, Receives(Client, p),
         UNCHANGED <<subscriberVars, input, inner>>
  PROVE  Always'
<1> DEFINE c == Head(agenda[Client])
<1>1. PICK sig \in DOMAIN Handlers :
             /\ On(Client, p, sig)
             /\ Leaves(Client, merge.scheduler, <<Call(p, Handlers[sig], Arg(Client))>>)
  BY DEF Receives
<1>0. PICK n \in Nat : n = Arg(Client)
  BY <1>1, HeadIsTyped DEF On, TypeInv, Arg
<1> DEFINE d == Call(p, Handlers[sig], n)
<1>2. CallsTypeOK /\ agenda[Client] # <<>> /\ c.at = p /\ c.sig = sig /\ c.arg = n
  BY <1>0, <1>1 DEF On, TypeInv, Arg
<1>3. merge' = merge /\ input' = input /\ Steady
  BY DEF Receives, Steady, GoesOn, subscriberVars, Always, Present
<1>4. /\ sig \in {"onSubscribe", "onNext", "onComplete", "onError"}
      /\ Handlers[sig] = CASE sig = "onSubscribe" -> "add" [] sig = "onNext" -> "onPublisherNextValue"
                           [] sig = "onComplete" -> "onPublisherComplete" [] sig = "onError" -> "onPublisherError"
  BY DEF Handlers
<1>5. d \in MergeCalls /\ d.at = p /\ d.sig = Handlers[sig] /\ d.arg = c.arg
  BY <1>2, <1>4, NewCall, PlacesNamed, SentNamed, PlacesDiffer
<1> HIDE DEF d
<1>6. Sound(c)
  BY <1>2, HeadIsSound
<1>7. Sound(d)'
  <2> HIDE DEF c
  <2>1. Sound(d)
    <3>2. CASE sig = "onSubscribe"
      BY <1>2, <1>4, <1>5, <1>6, <3>2, PlacesDiffer
      DEF Sound, Proper, Known, SourceCall, Stage, IsValue, Of, Failures
    <3>3. CASE sig = "onNext"
      BY <1>2, <1>4, <1>5, <1>6, <3>3, PlacesDiffer
      DEF Sound, Proper, Known, SourceCall, Stage, IsValue, Of, Failures
    <3>4. CASE sig \in {"onComplete", "onError"}
      BY <1>2, <1>4, <1>5, <1>6, <3>4, PlacesDiffer
      DEF Sound, Proper, Known, SourceCall, Stage, IsValue, Of, Failures
    <3> QED BY <1>4, <3>2, <3>3, <3>4
  <2> QED BY <1>3, <2>1, ProperStays DEF Sound, SourceCall, Present, subscriberVars
<1>8. Follows(d)
  BY <1>5, <1>7, PlacesDiffer DEF Follows, SourceCall
<1>9. merge.scheduler => ~Urgent(d)'
  BY <1>3, <1>4, <1>5, PlacesDiffer DEF Urgent, Stage
<1>10. Makes(Client, <<d>>) \/ (Leaves(Client, TRUE, <<d>>) /\ merge.scheduler)
  BY <1>0, <1>1 DEF Leaves, d
<1> QED BY <1>2, <1>3, <1>5, <1>8, <1>9, <1>10, AlwaysOne

LEMMA HandlesAlways ==
  ASSUME MergeInv, Always, Handles(Client), UNCHANGED <<subscriberVars, input, inner>>
  PROVE  Always'
<1> DEFINE c == Head(agenda[Client])
<1>0. TypeInv /\ CallsTypeOK /\ merge \in MergeState
  BY DEF MergeInv, TypeInv, TypeOK, MergeState
<1>1. ASSUME agenda[Client] # <<>>
      PROVE  Sound(c) /\ c \in MergeCalls /\ c.arg = Arg(Client) /\ Arg(Client) \in Nat
  BY <1>0, <1>1, HeadIsSound, HeadIsTyped DEF Arg
<1>2. CASE Subscribed(Client)
  <2> DEFINE d == Call(0, "subscribe", 0)
             e == Subscription(Depth)
  <2>1. d \in MergeCalls /\ d.at = 0 /\ d.sig = "subscribe"
    BY NewCall, PlacesNamed, SentNamed, PlacesDiffer
  <2>2. e \in MergeCalls /\ e.at = Subscriber /\ e.sig = "onSubscribe"
    BY NewCall, PlacesNamed, SentNamed, PlacesDiffer DEF Subscription, Subscriber
  <2>3. agenda[Client] # <<>> /\ SourceCall(c) /\ merge' = merge
    BY <1>2 DEF Subscribed, On, SourceCall
  <2>4. Makes(Client, <<d, e>>)
    BY <1>2 DEF Subscribed
  <2> HIDE DEF d, e
  <2>5. Steady /\ ~merge'.sourceCompleted
    BY <1>1, <2>3 DEF Steady, GoesOn, subscriberVars, Always, Present, Sound
  <2>6. Follows(d) /\ Follows(e) /\ ~Urgent(e)' /\ ~SourceCall(e)
    BY <2>1, <2>2, <2>3, <2>5, PlacesDiffer
    DEF Follows, Sound, Proper, Known, SourceCall, Stage, Urgent
  <2> QED BY <1>0, <2>1, <2>2, <2>3, <2>4, <2>5, <2>6, AlwaysTwo
<1>3. CASE SourceNext(Client)
  <2>1. agenda[Client] # <<>> /\ c.at = Depth /\ c.sig = "onNext"
    BY <1>3 DEF SourceNext, On
  <2>2. PICK p \in Publishers : p = Arg(Client)
    BY <1>1, <2>1 DEF MergeCalls
  <2> DEFINE d == Call(p, "subscribe", 0)
  <2>3. Makes(Client, <<d>>) /\ merge' = [merge EXCEPT !.m_remaining = @ + 1]
    BY <1>3, <2>2 DEF SourceNext
  <2>4. d \in MergeCalls /\ d.at = p /\ d.sig = "subscribe"
    BY <2>2, NewCall, PlacesNamed, SentNamed, PlacesDiffer
  <2> HIDE DEF d
  <2>5. Steady
    <3>1. ~merge.sourceCompleted /\ ~merge.m_completed
      BY <1>1, <2>1 DEF Sound, Always
    <3> QED BY <1>0, <2>3, <3>1 DEF Steady, GoesOn, subscriberVars, Always, Present, MergeState
  <2>6. Follows(d)
    BY <2>2, <2>4, PlacesDiffer DEF Follows, Sound, Proper, Known, SourceCall, Stage, Failures
  <2> QED BY <1>0, <2>1, <2>3, <2>4, <2>5, <2>6, AlwaysOne
<1>4. CASE SourceError(Client)
  <2>1. agenda[Client] # <<>> /\ c.at = Depth /\ c.sig = "onError"
    BY <1>4 DEF SourceError, On
  <2>2. input.end = "onError"
    BY <1>1, <2>1 DEF Sound, Proper, Ends
  <2> QED BY <1>0, <1>4, <2>1, <2>2, FailureIsTyped, CancelsAlways DEF SourceError, Present
<1>5. CASE SourceComplete(Client)
  <2> DEFINE m == [merge EXCEPT !.sourceCompleted = TRUE]
  <2>1. agenda[Client] # <<>> /\ c.at = Depth /\ c.sig = "onComplete"
    BY <1>5 DEF SourceComplete, On
  <2>2. input.end = "onComplete" /\ SourceCall(c)
    BY <1>1, <2>1 DEF Sound, Proper, Ends, SourceCall
  <2>3. /\ m \in MergeState /\ m.scheduler = merge.scheduler /\ m.m_canceled = merge.m_canceled
        /\ m.m_subscriptions = merge.m_subscriptions /\ m.m_completed = merge.m_completed
        /\ m.m_remaining = merge.m_remaining /\ m.sourceCompleted
    BY <1>0 DEF MergeState
  <2>4. Concludes(Client, m)
    BY <1>5 DEF SourceComplete
  <2> HIDE DEF m
  <2> QED BY <1>0, <2>1, <2>2, <2>3, <2>4, ConcludesAlways DEF Present
<1>6. CASE MergeRequest(Client)
  <2> DEFINE d == Call(Depth, "tryRequest", 0)
  <2>1. agenda[Client] # <<>> /\ Makes(Client, <<d>>)
        /\ \E n : merge' = [merge EXCEPT !.m_requested = n]
    BY <1>6 DEF MergeRequest, On
  <2>2. Steady
    BY <1>0, <2>1 DEF Steady, GoesOn, subscriberVars, Always, Present, MergeState
  <2>3. d \in MergeCalls /\ d.at = Depth /\ d.sig = "tryRequest"
    BY NewCall, PlacesNamed, SentNamed, PlacesDiffer
  <2> HIDE DEF d
  <2>4. Follows(d)
    BY <2>3, PlacesDiffer DEF Follows, Sound, Proper, Known, SourceCall, Stage, Ends
  <2> QED BY <1>0, <2>1, <2>2, <2>3, <2>4, AlwaysOne
<1>7. CASE MergeCancel(Client)
  <2>1. agenda[Client] # <<>>
    BY <1>7 DEF MergeCancel, On
  <2>2. ToSet(<<>>) = {}
    BY SmallSets
  <2> QED BY <1>0, <1>7, <2>1, <2>2, FailureIsTyped, CancelsAlways DEF MergeCancel, Present
<1>8. ASSUME NEW p \in Publishers, Adds(Client, p)
      PROVE  Always'
  <2> DEFINE d == Call(Depth, "tryRequest", 0)
  <2>1. agenda[Client] # <<>> /\ Makes(Client, <<d>>) /\ c.at = p /\ c.sig = "add"
        /\ merge' = [merge EXCEPT !.m_subscriptions = Append(@, p)]
    BY <1>8 DEF Adds, On
  <2>2. Joins(p)
    BY <1>1, <2>1 DEF Sound, Proper
  <2>3. Present' = Present \cup {p}
    <3> DEFINE s == merge.m_subscriptions
    <3>1. s \in Seq(Publishers) /\ merge'.m_subscriptions = Append(s, p)
      BY <1>0, <2>1 DEF MergeState
    <3> HIDE DEF s
    <3>2. ToSet(Append(s, p)) = ToSet(s) \cup {p}
      BY <3>1, AppendSet
    <3> QED BY <3>1, <3>2 DEF Present, s
  <2>4. Steady
    BY <1>0, <2>1, <2>2, <2>3 DEF Steady, GoesOn, subscriberVars, Always, MergeState
  <2>5. d \in MergeCalls /\ d.at = Depth /\ d.sig = "tryRequest"
    BY NewCall, PlacesNamed, SentNamed, PlacesDiffer
  <2> HIDE DEF d
  <2>6. Follows(d)
    BY <2>5, PlacesDiffer DEF Follows, Sound, Proper, Known, SourceCall, Stage, Ends
  <2> QED BY <1>0, <2>1, <2>4, <2>5, <2>6, AlwaysOne
<1>9. ASSUME NEW p \in Publishers, OnPublisherNextValue(Client, p)
      PROVE  Always'
  <2>0. PICK n \in Nat : n = c.arg
    BY <1>1, <1>9 DEF OnPublisherNextValue, On
  <2> DEFINE d == Value(Depth, n)
  <2>1. agenda[Client] # <<>> /\ c.at = p /\ c.sig = "onPublisherNextValue" /\ merge' = merge
        /\ Makes(Client, IF merge.m_canceled THEN <<>> ELSE <<d>>)
    BY <1>9, <2>0 DEF OnPublisherNextValue, On, Arg
  <2>2. Steady
    BY <2>1 DEF Steady, GoesOn, subscriberVars, Always, Present
  <2>3. d \in MergeCalls /\ d.at = Subscriber /\ d.sig = "onNext" /\ d.arg = n
    <3>1. d = Call(Subscriber, "onNext", n)
      BY DEF Value, Subscriber
    <3> HIDE DEF d
    <3> QED BY <3>1, NewCall, PlacesNamed, SentNamed, PlacesDiffer
  <2> HIDE DEF d
  <2>4. PICK q \in Publishers, k \in Nat : n = Element(q, k)
    BY <1>1, <2>0, <2>1 DEF Sound, Proper, Stage, IsValue
  <2>5. Of(d) = q
    BY <2>3, <2>4, OriginOfElement DEF Of
  <2>6. ~merge.m_canceled => Follows(d)
    BY <2>1, <2>3, <2>4, <2>5, PlacesDiffer DEF Follows, Sound, Proper, Known, SourceCall, Failures
  <2>7. CASE merge.m_canceled
    BY <1>0, <2>1, <2>2, <2>7, AlwaysNone
  <2>8. CASE ~merge.m_canceled
    BY <1>0, <2>1, <2>2, <2>3, <2>6, <2>8, AlwaysOne
  <2> QED BY <2>7, <2>8
<1>10. ASSUME NEW p \in Publishers, OnPublisherError(Client, p)
       PROVE  Always'
  <2>1. agenda[Client] # <<>> /\ c.at = p /\ c.sig = "onPublisherError"
    BY <1>10 DEF OnPublisherError, On
  <2>2. Failing # {}
    BY <1>1, <2>1 DEF Sound, Proper, Failures, Failing
  <2>3. /\ Removed(p) \in MergeState /\ Removed(p).scheduler = merge.scheduler
        /\ Removed(p).sourceCompleted = merge.sourceCompleted
        /\ Removed(p).m_completed = merge.m_completed
        /\ merge.m_remaining = 0 => Removed(p).m_remaining = 0
        /\ ToSet(Removed(p).m_subscriptions) \subseteq Present
    BY RemovedState
  <2> QED BY <1>0, <1>10, <2>1, <2>2, <2>3, FailureIsTyped, CancelsAlways DEF OnPublisherError
<1>11. ASSUME NEW p \in Publishers, OnPublisherComplete(Client, p)
       PROVE  Always'
  <2>1. agenda[Client] # <<>>
    BY <1>11 DEF OnPublisherComplete, On
  <2>3. /\ Removed(p) \in MergeState /\ Removed(p).scheduler = merge.scheduler
        /\ Removed(p).sourceCompleted = merge.sourceCompleted /\ Removed(p).m_canceled = merge.m_canceled
        /\ Removed(p).m_completed = merge.m_completed
        /\ merge.m_remaining = 0 => Removed(p).m_remaining = 0
        /\ ToSet(Removed(p).m_subscriptions) \subseteq Present
    BY RemovedState
  <2>4. merge.sourceCompleted => input.end = "onComplete"
    BY DEF Always
  <2> QED BY <1>0, <1>11, <2>1, <2>3, <2>4, ConcludesAlways DEF OnPublisherComplete
<1> QED BY <1>0, <1>2, <1>3, <1>4, <1>5, <1>6, <1>7, <1>8, <1>9, <1>10, <1>11, ReceivesAlways DEF Handles

LEMMA TurnsAlways ==
  ASSUME MergeInv, Always, GivesTurn(Client), UNCHANGED <<subscriberVars, input, inner>>
  PROVE  Always'
<1>0. TypeInv /\ Walkable(merge) /\ CallsTypeOK /\ merge \in MergeState
  BY DEF MergeInv, TypeInv, TypeOK, MergeState
<1>9. PICK q \in Publishers : q = merge.m_subscriptions[merge.m_currentIndex + 1]
  BY <1>0, TurnsList
<1> DEFINE d == Call(q, "request", 1)
           e == Call(Depth, "tryRequest", 0)
<1>1. /\ q \in Publishers /\ q \in Present /\ Present' = Present
      /\ merge'.scheduler = merge.scheduler /\ merge'.m_canceled = merge.m_canceled
      /\ merge'.sourceCompleted = merge.sourceCompleted
      /\ merge'.m_completed = merge.m_completed /\ merge'.m_remaining = merge.m_remaining
  <2>1. /\ q \in Publishers /\ merge.m_subscriptions \in Seq(Publishers)
        /\ merge'.m_subscriptions = merge.m_subscriptions
        /\ merge.m_currentIndex \in Nat /\ merge.m_currentIndex < Len(merge.m_subscriptions)
    BY <1>0, TurnsList
  <2>2. merge.m_currentIndex + 1 \in DOMAIN merge.m_subscriptions
    BY <2>1, LenProperties
  <2>3. \E n, i : merge' = [merge EXCEPT !.m_requested = n, !.m_currentIndex = i]
    BY DEF GivesTurn
  <2> QED BY <1>0, <1>9, <2>1, <2>2, <2>3 DEF Present, ToSet, MergeState
<1>2. agenda[Client] # <<>> /\ Makes(Client, <<d, e>>)
  BY <1>9 DEF GivesTurn, On
<1>3. d \in MergeCalls /\ d.at = q /\ d.sig = "request"
  BY <1>1, NewCall, PlacesNamed, SentNamed, PlacesDiffer
<1>4. e \in MergeCalls /\ e.at = Depth /\ e.sig = "tryRequest"
  BY NewCall, PlacesNamed, SentNamed, PlacesDiffer
<1> HIDE DEF d, e
<1>5. Steady
  BY <1>1 DEF Steady, GoesOn, subscriberVars, Always
<1>6. Joins(q)'
  BY <1>1 DEF Always, Joins, Gate, Pub
<1>7. Follows(d) /\ Follows(e) /\ ~Urgent(e)' /\ ~SourceCall(e)
  BY <1>1, <1>3, <1>4, <1>6, PlacesDiffer
  DEF Follows, Sound, Proper, Known, SourceCall, Stage, Urgent, Failures, Ends
<1> QED BY <1>0, <1>2, <1>3, <1>4, <1>5, <1>7, AlwaysTwo

LEMMA MergesAlways ==
  ASSUME MergeInv, Always, Merges(Client), UNCHANGED subscriberVars
  PROVE  Always'
<1>1. CASE StopsTurns(Client)
  <2>1. agenda[Client] # <<>> /\ Makes(Client, <<>>) /\ Steady /\ CallsTypeOK
    BY <1>1 DEF StopsTurns, On, Steady, GoesOn, Merges, subscriberVars, Always, Present, MergeInv, TypeInv
  <2> QED BY <2>1, AlwaysNone
<1> QED BY <1>1, HandlesAlways, TurnsAlways DEF Merges

LEMMA SubscriberAlways ==
  ASSUME TypeInv, Always, SubscriberStep(Client), UNCHANGED mergeVars
  PROVE  Always'
<1> DEFINE c == Head(agenda[Client])
<1>1. CallsTypeOK /\ agenda[Client] # <<>> /\ c.at = Subscriber
  BY DEF SubscriberStep, OnSubscribed, OnNext, Received, OnEnd, On, TypeInv
<1>2. PICK calls \in Seq(UserSent) : Makes(Client, calls)
  BY SubscriberCalls
<1>3. calls \in Seq(MergeCalls) /\ \A d \in ToSet(calls) : d \in UserSent
  <2>1. UserSent \subseteq MergeCalls
    BY UserSentIsPlain DEF Plain
  <2> QED BY <2>1, ElementOfSeq, LenProperties DEF ToSet
<1>4. Sound(c)
  BY <1>1, HeadIsSound
<1>5. Steady
  <2>1. log'.end = "onError" => log.end = "onError" \/ c.sig = "onError"
    BY DEF SubscriberStep, OnSubscribed, OnNext, Received, OnEnd, Logged, TypeInv, TypeOK, SubscriberTypeOK, On
  <2>2. log'.end = "onComplete" => log.end = "onComplete" \/ c.sig = "onComplete"
    BY DEF SubscriberStep, OnSubscribed, OnNext, Received, OnEnd, Logged, TypeInv, TypeOK, SubscriberTypeOK, On
  <2> QED BY <1>1, <1>4, <2>1, <2>2 DEF Steady, GoesOn, mergeVars, Always, Present, Sound
<1>6. \A d \in ToSet(calls) : Follows(d) /\ ~Urgent(d)' /\ ~SourceCall(d)
  <2> SUFFICES ASSUME NEW d \in ToSet(calls) PROVE Follows(d) /\ ~Urgent(d)' /\ ~SourceCall(d)
    OBVIOUS
  <2>1. Sound(d) /\ ~SourceCall(d) /\ ~Urgent(d) /\ d.sig # "onComplete"
    BY <1>3, UserSentIsSound
  <2>2. Sound(d)'
    BY <2>1, ProperStays DEF Sound, SourceCall, Present, mergeVars
  <2>3. ~Urgent(d)'
    BY <1>5, <2>1, UrgentBefore DEF Steady
  <2> QED BY <2>1, <2>2, <2>3 DEF Follows
<1>7. Chain("source", calls) /\ Behind(calls) \subseteq ToSet(calls)
  <2>1. \A k \in DOMAIN calls : calls[k] \in ToSet(calls)
    BY DEF ToSet
  <2> QED BY <1>3, <1>6, <2>1, BehindConcat DEF Chain, Apart
<1> QED BY <1>1, <1>2, <1>3, <1>5, <1>6, <1>7, AlwaysSends

LEMMA AlwaysStep ==
  ASSUME MergeInv, Always, [Next]_vars
  PROVE  Always'
<1>1. TypeInv /\ CallsTypeOK
  BY DEF MergeInv, TypeInv
<1>2. CASE UNCHANGED vars
  <2>1. input' = input /\ inner' = inner /\ merge' = merge /\ log' = log
        /\ agenda' = agenda /\ pending' = pending
    BY <1>2 DEF vars, callVars, subscriberVars, mergeVars
  <2> QED BY <2>1, ProperStays
      DEF Always, Prompt, Urgent, Gate, Pub, Chain, Apart, SourceCall, Queue, Waiting, Behind,
          Under, Sound, Present, Joins
<1>3. CASE (Source(Client) \/ Inner(Client)) /\ UNCHANGED subscriberVars
  BY <1>1, <1>3, SourceAlways, SubscribesAlways, RequestedAlways, CanceledAlways DEF Inner
<1>4. CASE Dispatch(Client) /\ UNCHANGED <<subscriberVars, mergeVars>>
  BY <1>1, <1>4, AlwaysTakes DEF Takes
<1>5. CASE UserCalls /\ UNCHANGED mergeVars
  BY <1>1, <1>5, AlwaysUser
<1> QED BY <1>1, <1>2, <1>3, <1>4, <1>5, MergesAlways, SubscriberAlways, MergeStep DEF subscriberVars

LEMMA InitAlways ==
  ASSUME Init
  PROVE  Always
<1> DEFINE c == Call(Depth, "subscribe", 0)
<1>1. /\ agenda[Client] = <<c>> /\ Waiting = <<>> /\ merge.m_subscriptions = <<>>
      /\ ~merge.sourceCompleted /\ ~merge.m_canceled /\ ~merge.m_completed /\ log.end = "none"
  <2>1. agenda[Client] = <<c>> /\ pending = <<>>
    BY DEF Init, SignalsInit, Threads
  <2>2. Waiting = <<>>
    <3>1. Len(<<>>) = 0
      OBVIOUS
    <3>2. DOMAIN Waiting = {}
      BY <2>1, <3>1 DEF Waiting
    <3> QED BY <3>2 DEF Waiting
  <2>3. merge.m_subscriptions = <<>> /\ ~merge.sourceCompleted /\ ~merge.m_canceled /\ ~merge.m_completed
    BY DEF Init
  <2>4. log.end = "none"
    BY DEF Init, SubscriberInit
  <2> QED BY <2>1, <2>2, <2>3, <2>4
<1>2. c.at = Depth /\ c.sig = "subscribe"
  BY DEF Call
<1>3. Queue = <<c>> /\ Under = {c} /\ Present = {}
  BY <1>1, SmallSets DEF Queue, Under, Present
<1> HIDE DEF c
<1>4. Prompt /\ Chain("source", Queue)
  BY <1>1, <1>3, SingleChain, SmallSets DEF Prompt
<1>5. Sound(c)
  BY <1>1, <1>2, PlacesDiffer DEF Sound, Proper, Known, Stage, Ends
<1> QED BY <1>1, <1>3, <1>4, <1>5 DEF Always

---------------------------------------------------------------------------
(* The account of a publisher, as long as nothing is canceled: what it has *)
(* sent is with the subscriber or on its way, and nothing twice.           *)
Outcome(c)  == IF IsValue(c) THEN "value" ELSE IF c.sig \in Failures THEN "onError" ELSE "onComplete"
Mark(c)     == [ordinal |-> Ordinal(c), outcome |-> Outcome(c)]
Signals(p)  == {c \in Under : Stage(c) > 0 /\ Of(c) = p}
Marks(p)    == {Mark(c) : c \in Signals(p)}
EndOut(p)   == \E m \in Marks(p) : m.outcome # "value"
Joining(p)  == \E c \in Under : c.at = p /\ c.sig \in {"subscribe", "onSubscribe", "add"}

Taken(p) == Cardinality({k \in DOMAIN log.values : Origin(log.values[k])[1] = p})

(* How many of its signals it has sent, the end among them.                *)
Issued(p) ==
  IF Joins(p) THEN inner[p].m_current + (IF inner[p].m_completed THEN 1 ELSE 0)
  ELSE IF Held(p) THEN 0
  ELSE Pub(p).size + (IF EndOf(p) = "none" THEN 0 ELSE 1)

Over(p) == Taken(p) = Pub(p).size /\ EndOf(p) = "onComplete"

(* A publisher that has been subscribed to and never ends.                 *)
Silent(p) == Gate(p) /\ EndOf(p) = "none" /\ ~Held(p)

Account(p) ==
  /\ \A m \in Marks(p) :
       /\ Taken(p) < m.ordinal /\ m.ordinal <= Issued(p)
       /\ IF m.outcome = "value" THEN m.ordinal <= Pub(p).size
          ELSE m.ordinal = Pub(p).size + 1 /\ m.outcome = EndOf(p)
  /\ Taken(p) <= Issued(p) /\ Taken(p) <= Pub(p).size
  /\ \A o \in Taken(p) + 1 .. Issued(p) :
       o <= Pub(p).size => \E m \in Marks(p) : m.ordinal = o
  /\ Held(p) \/ p \in Present \/ EndOut(p) \/ Silent(p) \/ Over(p)

(* What its subscription has sent, if it hands out one.                    *)
Handout(p) ==
  /\ Pub(p).kind # "never" => inner[p].m_current <= Pub(p).size
  /\ inner[p].m_completed => inner[p].m_current = Pub(p).size
  /\ Held(p) => inner[p].m_current = 0 /\ ~inner[p].m_completed
  /\ Pub(p).kind = "never" => inner[p].m_current = 0 /\ ~inner[p].m_completed
  /\ Pub(p).kind = "just" /\ ~inner[p].m_completed => inner[p].m_current = 0

(* The publishers m_remaining counts.                                      *)
Counts(p) == Joining(p) \/ p \in Present \/ EndOut(p) \/ Silent(p)
Counted   == {p \in Publishers : Counts(p)}

Demand ==
  merge.m_requested > 0 /\ Present # {} =>
    \E c \in Under : c.at = Depth /\ c.sig = "tryRequest"

Flow ==
  /\ Chain("order", Queue)
  /\ \A p \in Publishers : Account(p) /\ Handout(p)
  /\ Cardinality(Counted) <= merge.m_remaining
  /\ Demand

Delivers == Always /\ (~merge.m_canceled => Flow)

(* What is left to run when a merge has completed.                         *)
Tame(c) ==
  \/ c.at = Depth /\ c.sig \in {"request", "cancel", "tryRequest"}
  \/ c.at = Subscriber /\ c.sig \in {"received", "onSubscribe", "onComplete"}

---------------------------------------------------------------------------
(* What the calls of a handler change in the accounts.                     *)
LEMMA HasIs ==
  ASSUME NEW s, NEW p
  PROVE  Has(s, p) <=> \E c \in ToSet(s) : Token(p, c)
BY DEF Has, ToSet

LEMMA HeldIs ==
  ASSUME NEW p
  PROVE  Held(p) <=> \E c \in Under : Token(p, c)
BY HasIs DEF Held, Under

LEMMA HeldSends ==
  ASSUME CallsTypeOK, agenda[Client] # <<>>, NEW calls \in Seq(MergeCalls), Sends(calls), NEW p
  PROVE  Held(p)' <=> \E c \in ToSet(calls) \cup Rest : Token(p, c)
<1>1. Held(p)' <=> \E c \in Under' : Token(p, c)
  BY HasIs DEF Held, Under
<1> QED BY <1>1, QueueSends

LEMMA TakenIsNat ==
  ASSUME log.values \in Seq(Nat), NEW p
  PROVE  Taken(p) \in Nat
<1> DEFINE T == {k \in DOMAIN log.values : Origin(log.values[k])[1] = p}
<1>1. IsFiniteSet(1 .. Len(log.values)) /\ DOMAIN log.values = 1 .. Len(log.values)
  BY FS_Interval, LenProperties
<1>2. IsFiniteSet(T)
  BY <1>1, FS_Subset
<1> HIDE DEF T
<1>3. Cardinality(T) \in Nat
  BY <1>2, FS_CardinalityType
<1> QED BY <1>3 DEF Taken, T

LEMMA TakenOfOne ==
  ASSUME log.values \in Seq(Nat), NEW v \in Nat, log'.values = Append(log.values, v), NEW p
  PROVE  Taken(p)' = IF Origin(v)[1] = p THEN Taken(p) + 1 ELSE Taken(p)
<1> DEFINE s == log.values
           r == log'.values
           n == Len(s)
           T == {k \in DOMAIN s : Origin(s[k])[1] = p}
           R == {k \in DOMAIN r : Origin(r[k])[1] = p}
<1>1. /\ n \in Nat /\ DOMAIN s = 1 .. n /\ DOMAIN r = 1 .. n + 1 /\ r[n + 1] = v
      /\ \A k \in 1 .. n : r[k] = s[k]
  BY AppendProperties, LenProperties
<1>2. IsFiniteSet(T) /\ n + 1 \notin T
  <2>1. IsFiniteSet(1 .. n) /\ T \subseteq 1 .. n
    BY <1>1, FS_Interval
  <2> QED BY <1>1, <2>1, FS_Subset
<1>3. R = IF Origin(v)[1] = p THEN T \cup {n + 1} ELSE T
  <2> HIDE DEF s, r, n
  <2>1. 1 .. n + 1 = 1 .. n \cup {n + 1} /\ n + 1 \notin 1 .. n
    BY <1>1
  <2> QED BY <1>1, <2>1
<1> HIDE DEF T, R, n
<1>4. Cardinality(T \cup {n + 1}) = Cardinality(T) + 1
  BY <1>2, FS_AddElement
<1>5. Taken(p) = Cardinality(T)
  BY DEF Taken, T
<1>6. Taken(p)' = Cardinality(R)
  BY DEF Taken, R
<1> QED BY <1>3, <1>4, <1>5, <1>6

LEMMA MarkStays ==
  ASSUME input' = input, NEW c
  PROVE  Mark(c)' = Mark(c) /\ Ordinal(c)' = Ordinal(c)
BY DEF Mark, Ordinal, Outcome, Pub

LEMMA MarksSends ==
  ASSUME CallsTypeOK, agenda[Client] # <<>>, NEW calls \in Seq(MergeCalls), Sends(calls), NEW p,
         input' = input
  PROVE  Marks(p)' = {Mark(d) : d \in {e \in ToSet(calls) \cup Rest : Stage(e) > 0 /\ Of(e) = p}}
<1>1. Signals(p)' = {e \in ToSet(calls) \cup Rest : Stage(e) > 0 /\ Of(e) = p}
  BY QueueSends DEF Signals, Stage, Of
<1>2. Marks(p)' = {Mark(d)' : d \in Signals(p)'}
  BY DEF Marks
<1> QED BY <1>1, <1>2, MarkStays

LEMMA MarksKept ==
  ASSUME CallsTypeOK, agenda[Client] # <<>>, NEW calls \in Seq(MergeCalls), Sends(calls), NEW p,
         input' = input,
         \A d \in ToSet(calls) : Stage(d) > 0 /\ Of(d) = p => Mark(d) \in Marks(p),
         LET c == Head(agenda[Client])
         IN  Stage(c) > 0 /\ Of(c) = p =>
               \E d \in ToSet(calls) : Stage(d) > 0 /\ Of(d) = p /\ Mark(d) = Mark(c)
  PROVE  Marks(p)' = Marks(p)
<1> DEFINE c == Head(agenda[Client])
           S == {e \in ToSet(calls) \cup Rest : Stage(e) > 0 /\ Of(e) = p}
<1>1. Marks(p)' = {Mark(d) : d \in S} /\ Under = {c} \cup Rest
  BY MarksSends, HeadIsUnder
<1>2. Marks(p) = {Mark(d) : d \in {e \in {c} \cup Rest : Stage(e) > 0 /\ Of(e) = p}}
  BY <1>1 DEF Marks, Signals
<1> HIDE DEF c
<1>3. \A d \in S : Mark(d) \in Marks(p)
  BY <1>2
<1>4. \A d \in {e \in {c} \cup Rest : Stage(e) > 0 /\ Of(e) = p} : \E e \in S : Mark(e) = Mark(d)
  BY DEF c
<1> QED BY <1>1, <1>2, <1>3, <1>4

(* A publisher that a step does not concern.                               *)
LEMMA AccountStays ==
  ASSUME NEW p, input' = input, Taken(p)' = Taken(p), inner'[p] = inner[p],
         Marks(p)' = Marks(p), Held(p)' <=> Held(p), p \in Present' <=> p \in Present
  PROVE  /\ Account(p)' <=> Account(p)
         /\ Handout(p)' <=> Handout(p)
         /\ EndOut(p)' <=> EndOut(p)
         /\ Silent(p)' <=> Silent(p)
<1>1. /\ Pub(p)' = Pub(p) /\ (Gate(p)' <=> Gate(p)) /\ EndOf(p)' = EndOf(p) /\ (Joins(p)' <=> Joins(p))
      /\ Taken(p)' = Taken(p)
  BY DEF Pub, Gate, EndOf, Joins
<1>2. Issued(p)' = Issued(p) /\ (Over(p)' <=> Over(p)) /\ (Silent(p)' <=> Silent(p)) /\ (EndOut(p)' <=> EndOut(p))
  BY <1>1 DEF Issued, Over, Silent, EndOut
<1>3. Account(p)' <=> Account(p)
  BY <1>1, <1>2 DEF Account
<1>4. Handout(p)' <=> Handout(p)
  BY <1>1 DEF Handout
<1> QED BY <1>2, <1>3, <1>4

LEMMA OrderStays ==
  ASSUME input' = input
  PROVE  Chain("order", Queue)' <=> Chain("order", agenda'[Client] \o Waiting')
<1>1. ASSUME NEW c, NEW d PROVE Apart("order", c, d)' <=> Apart("order", c, d)
  BY MarkStays DEF Apart, Stage, Of
<1> QED BY <1>1 DEF Chain, Queue

LEMMA OrderSends ==
  ASSUME CallsTypeOK, agenda[Client] # <<>>, NEW calls \in Seq(MergeCalls),
         input' = input, Chain("order", Queue), Chain("order", calls),
         \/ /\ Makes(Client, calls)
            /\ \A d \in ToSet(calls), e \in Rest : Apart("order", d, e)
         \/ /\ Leaves(Client, TRUE, calls)
            /\ \A d \in ToSet(calls), e \in Rest : Apart("order", e, d)
  PROVE  Chain("order", Queue)'
<1>1. Chain("order", agenda'[Client] \o Waiting')
  BY ChainSends
<1> QED BY <1>1, OrderStays

LEMMA PublishersFinite ==
  ASSUME NEW T, T \subseteq Publishers
  PROVE  IsFiniteSet(T) /\ Cardinality(T) \in Nat
<1>1. IsFiniteSet(Publishers)
  BY DepthIsNat, FS_Interval DEF Publishers
<1>2. IsFiniteSet(T)
  BY <1>1, FS_Subset
<1> QED BY <1>2, FS_CardinalityType

LEMMA CountedChanges ==
  /\ Counted \subseteq Publishers /\ Counted' \subseteq Publishers
  /\ Cardinality(Counted) \in Nat /\ Cardinality(Counted') \in Nat
  /\ Counted' \subseteq Counted => Cardinality(Counted') <= Cardinality(Counted)
  /\ \A p \in Publishers : Counted' \subseteq Counted \cup {p} =>
                             Cardinality(Counted') <= Cardinality(Counted) + 1
  /\ \A p \in Counted : Counted' \subseteq Counted \ {p} =>
                             Cardinality(Counted') <= Cardinality(Counted) - 1 /\ Cardinality(Counted) > 0
<1> DEFINE T == Counted
           R == Counted'
<1>1. T \subseteq Publishers /\ R \subseteq Publishers
  BY DEF Counted
<1> HIDE DEF T, R
<1>2. IsFiniteSet(T) /\ Cardinality(T) \in Nat /\ IsFiniteSet(R) /\ Cardinality(R) \in Nat
  BY <1>1, PublishersFinite
<1>3. R \subseteq T => Cardinality(R) <= Cardinality(T)
  BY <1>2, FS_Subset
<1>4. ASSUME NEW p \in Publishers, R \subseteq T \cup {p}
      PROVE  Cardinality(R) <= Cardinality(T) + 1
  <2>1. IsFiniteSet(T \cup {p}) /\ Cardinality(T \cup {p}) <= Cardinality(T) + 1
        /\ Cardinality(T \cup {p}) \in Nat
    <3>1. PICK n \in Nat : n = Cardinality(T)
      BY <1>2
    <3>2. IsFiniteSet(T \cup {p}) /\ Cardinality(T \cup {p}) = IF p \in T THEN n ELSE n + 1
      BY <1>2, <3>1, FS_AddElement
    <3> QED BY <3>1, <3>2
  <2>2. Cardinality(R) <= Cardinality(T \cup {p})
    BY <1>4, <2>1, FS_Subset
  <2> QED BY <1>2, <2>1, <2>2
<1>5. ASSUME NEW p \in T, R \subseteq T \ {p}
      PROVE  Cardinality(R) <= Cardinality(T) - 1 /\ Cardinality(T) > 0
  <2>1. IsFiniteSet(T \ {p}) /\ Cardinality(T \ {p}) = Cardinality(T) - 1 /\ Cardinality(T \ {p}) \in Nat
    <3>1. IsFiniteSet(T \ {p}) /\ Cardinality(T \ {p}) = Cardinality(T) - 1
      BY <1>2, FS_RemoveElement
    <3> QED BY <3>1, FS_CardinalityType
  <2>2. Cardinality(R) <= Cardinality(T \ {p})
    BY <1>5, <2>1, FS_Subset
  <2> QED BY <1>2, <2>1, <2>2
<1> QED BY <1>1, <1>2, <1>3, <1>4, <1>5 DEF T, R

LEMMA CountedNoMore ==
  ASSUME TypeInv, Flow, merge'.m_remaining = merge.m_remaining, Counted' \subseteq Counted
  PROVE  Cardinality(Counted)' <= merge'.m_remaining
<1>1. Cardinality(Counted') <= Cardinality(Counted)
  BY CountedChanges
<1>2. Cardinality(Counted) <= merge.m_remaining /\ Cardinality(Counted)' = Cardinality(Counted')
  BY DEF Flow
<1>3. merge.m_remaining \in Nat
  BY DEF TypeInv, TypeOK
<1> QED BY <1>1, <1>2, <1>3, CountedChanges

---------------------------------------------------------------------------
(* A step that passes signals on, or none, and changes no account.         *)
Starts(p, c) == c.at = p /\ c.sig \in {"subscribe", "onSubscribe", "add"}

LEMMA FlowKeeps ==
  ASSUME merge.m_remaining \in Nat, Flow, input' = input, inner' = inner, log'.values = log.values, Present' = Present,
         merge'.m_remaining = merge.m_remaining, Chain("order", Queue)', Demand',
         \A p \in Publishers : /\ Marks(p)' = Marks(p) /\ (Held(p)' <=> Held(p))
                               /\ Joining(p)' => Counts(p)
  PROVE  Flow'
<1>1. ASSUME NEW p \in Publishers
      PROVE  Account(p)' /\ Handout(p)' /\ (Counts(p)' => Counts(p))
  <2>1. Account(p) /\ Handout(p) /\ Taken(p)' = Taken(p)
    BY DEF Flow, Taken
  <2> QED BY <2>1, AccountStays DEF Counts
<1>2. Counted' \subseteq Counted
  BY <1>1 DEF Counted
<1>3. Cardinality(Counted)' <= merge'.m_remaining
  <2>1. Cardinality(Counted') <= Cardinality(Counted)
    BY <1>2, CountedChanges
  <2>2. Cardinality(Counted) <= merge.m_remaining /\ Cardinality(Counted)' = Cardinality(Counted')
    BY DEF Flow
  <2> HIDE DEF Counted
  <2> QED BY <2>1, <2>2, CountedChanges
<1> QED BY <1>1, <1>3 DEF Flow

LEMMA JoiningSends ==
  ASSUME CallsTypeOK, agenda[Client] # <<>>, NEW calls \in Seq(MergeCalls), Sends(calls), NEW p
  PROVE  Joining(p)' <=> \E d \in ToSet(calls) \cup Rest : Starts(p, d)
<1>1. Joining(p)' <=> \E d \in Under' : Starts(p, d)
  BY DEF Joining, Starts
<1> QED BY <1>1, QueueSends

LEMMA JoiningIs ==
  ASSUME NEW p
  PROVE  Joining(p) <=> \E d \in Under : Starts(p, d)
BY DEF Joining, Starts

LEMMA FlowCalls ==
  ASSUME TypeInv, CallsTypeOK, Flow, agenda[Client] # <<>>, NEW calls \in Seq(MergeCalls), Sends(calls),
         input' = input, inner' = inner, log'.values = log.values, Present' = Present,
         merge'.m_remaining = merge.m_remaining, Demand',
         Stage(Head(agenda[Client])) = 0,
         \A d \in ToSet(calls) :
           /\ Stage(d) = 0
           /\ \A p \in Publishers : /\ Token(p, d)  => Token(p, Head(agenda[Client]))
                                    /\ Starts(p, d) => Starts(p, Head(agenda[Client])),
         \A p \in Publishers : Token(p, Head(agenda[Client])) => \E d \in ToSet(calls) : Token(p, d)
  PROVE  Flow'
<1> DEFINE c == Head(agenda[Client])
<1>1. c \in Under /\ Under = {c} \cup Rest
  BY HeadIsUnder
<1>2. Chain("order", Queue)'
  <2>1. \A d \in ToSet(calls) : \A e : Apart("order", d, e) /\ Apart("order", e, d)
    BY DEF Apart
  <2>2. Chain("order", calls)
    <3>1. \A k \in DOMAIN calls : calls[k] \in ToSet(calls)
      BY DEF ToSet
    <3> QED BY <2>1, <3>1 DEF Chain
  <2> QED BY <2>1, <2>2, OrderSends DEF Flow, Sends
<1>3. ASSUME NEW p \in Publishers
      PROVE  /\ Marks(p)' = Marks(p) /\ (Held(p)' <=> Held(p))
             /\ Joining(p)' => Counts(p)
  <2>1. Marks(p)' = Marks(p)
    BY MarksKept
  <2>2. Held(p)' <=> Held(p)
    BY <1>1, HeldSends, HeldIs
  <2>3. Joining(p)' => Joining(p)
    BY <1>1, JoiningSends, JoiningIs
  <2> QED BY <2>1, <2>2, <2>3 DEF Counts
<1>4. merge.m_remaining \in Nat
  BY DEF TypeInv, TypeOK
<1> QED BY <1>2, <1>3, <1>4, FlowKeeps

(* A signal that comes one call nearer to the subscriber.                  *)
LEMMA FlowMoves ==
  ASSUME TypeInv, CallsTypeOK, Always, Flow, agenda[Client] # <<>>, NEW d \in MergeCalls,
         \/ Makes(Client, <<d>>) /\ (Stage(d) = 3 \/ ~merge.scheduler)
         \/ Leaves(Client, TRUE, <<d>>),
         UNCHANGED <<input, inner, log, merge>>,
         Stage(Head(agenda[Client])) \in {1, 2}, Stage(d) = Stage(Head(agenda[Client])) + 1,
         Of(d) = Of(Head(agenda[Client])), Mark(d) = Mark(Head(agenda[Client])),
         \A p \in Publishers : /\ ~Token(p, d) /\ ~Starts(p, d)
                               /\ ~Token(p, Head(agenda[Client])),
         Head(agenda[Client]).at # Depth
  PROVE  Flow'
<1> DEFINE c == Head(agenda[Client])
<1>1. /\ c \in Under /\ Under = {c} \cup Rest /\ <<d>> \in Seq(MergeCalls) /\ ToSet(<<d>>) = {d}
      /\ Sends(<<d>>) /\ c \in MergeCalls /\ Ordinal(d) = Ordinal(c)
  <2>1. c \in Under /\ Under = {c} \cup Rest /\ Sends(<<d>>) /\ c \in MergeCalls
    BY HeadIsUnder, HeadIsTyped DEF Sends
  <2>2. ToSet(<<d>>) = {d} /\ <<d>> \in Seq(MergeCalls)
    BY SmallSets
  <2> QED BY <2>1, <2>2 DEF Mark
<1>2. \A e \in Rest : Apart("order", c, e) /\ ~Urgent(e)
  BY HeadIsApart, RestIsNotUrgent DEF Flow, Always
<1>3. Chain("order", Queue)'
  <2>1. Chain("order", <<d>>)
    BY SingleChain
  <2>2. ASSUME NEW e \in Rest, Makes(Client, <<d>>) /\ (Stage(d) = 3 \/ ~merge.scheduler)
        PROVE  Apart("order", d, e)
    <3>1. Stage(e) # Stage(d)
      <4>1. Stage(d) = 3 => Stage(e) # 3
        BY <1>2 DEF Urgent, Stage
      <4>2. Stage(d) = 2 => Stage(e) # 2
        BY <1>2, <2>2 DEF Urgent
      <4> QED BY <4>1, <4>2
    <3>2. Stage(e) \in {0, 1, 2, 3}
      BY DEF Stage
    <3>3. Stage(d) >= Stage(e) <=> Stage(c) >= Stage(e)
      BY <3>1, <3>2
    <3> HIDE DEF c
    <3> QED BY <1>1, <1>2, <3>3 DEF Apart, c
  <2>3. ASSUME NEW e \in Rest
        PROVE  Apart("order", e, d)
    <3>1. Stage(e) \in {0, 1, 2, 3}
      BY DEF Stage
    <3>2. CASE Stage(e) > 0 /\ Of(e) = Of(d) /\ Stage(e) >= Stage(d)
      <4>1. ~(Stage(c) >= Stage(e))
        BY <3>1, <3>2
      <4>2. Ordinal(e) < Ordinal(c)
        BY <1>2, <3>2, <4>1 DEF Apart
      <4> QED BY <1>1, <3>2, <4>2 DEF Apart
    <3>3. CASE Stage(e) > 0 /\ Of(e) = Of(d) /\ ~(Stage(e) >= Stage(d))
      <4>1. Stage(c) >= Stage(e)
        BY <3>1, <3>3
      <4>2. Ordinal(c) < Ordinal(e)
        BY <1>2, <3>3, <4>1 DEF Apart
      <4> QED BY <1>1, <3>3, <4>2 DEF Apart
    <3> QED BY <3>2, <3>3 DEF Apart
  <2> QED BY <1>1, <2>1, <2>2, <2>3, OrderSends DEF Flow
<1>4. ASSUME NEW p \in Publishers
      PROVE  /\ Marks(p)' = Marks(p) /\ (Held(p)' <=> Held(p))
             /\ Joining(p)' => Counts(p)
  <2>1. Marks(p)' = Marks(p)
    <3>1. Stage(c) > 0 /\ Of(c) = p => Mark(d) \in Marks(p)
      BY <1>1 DEF Marks, Signals
    <3>2. \A e \in ToSet(<<d>>) : Stage(e) > 0 /\ Of(e) = p => Mark(e) \in Marks(p)
      <4>1. Of(d) = Of(c) /\ Stage(c) > 0
        OBVIOUS
      <4> QED BY <1>1, <3>1, <4>1
    <3>3. Stage(c) > 0 /\ Of(c) = p =>
            \E e \in ToSet(<<d>>) : Stage(e) > 0 /\ Of(e) = p /\ Mark(e) = Mark(c)
      <4>1. Stage(d) \in {2, 3} /\ Of(d) = Of(c) /\ Mark(d) = Mark(c)
        OBVIOUS
      <4> QED BY <1>1, <4>1
    <3>4. input' = input
      OBVIOUS
    <3> HIDE DEF c
    <3>5. \A h : h = c => h = Head(agenda[Client])
      BY DEF c
    <3> QED BY <1>1, <3>2, <3>3, <3>4, <3>5, MarksKept
  <2>2. Held(p)' <=> Held(p)
    BY <1>1, HeldSends, HeldIs
  <2>3. Joining(p)' => Joining(p)
    BY <1>1, JoiningSends, JoiningIs
  <2> QED BY <2>1, <2>2, <2>3 DEF Counts
<1>5. Demand'
  <2>1. Under' = {d} \cup Rest
    BY <1>1, QueueSends
  <2> QED BY <1>1, <2>1 DEF Demand, Flow, Present
<1>6. merge.m_remaining \in Nat
  BY DEF TypeInv, TypeOK
<1> QED BY <1>3, <1>4, <1>5, <1>6, FlowKeeps DEF Present

(* The loop of tryRequest() is called until the demand is passed on.       *)
LEMMA DemandStays ==
  ASSUME CallsTypeOK, Flow, agenda[Client] # <<>>, NEW calls \in Seq(MergeCalls), Sends(calls),
         merge'.m_requested = merge.m_requested, Present' \subseteq Present,
         ~(Head(agenda[Client]).at = Depth /\ Head(agenda[Client]).sig = "tryRequest")
  PROVE  Demand'
<1>1. Under' = ToSet(calls) \cup Rest /\ Under = {Head(agenda[Client])} \cup Rest
  BY QueueSends
<1>2. Demand
  BY DEF Flow
<1>3. ASSUME merge'.m_requested > 0, Present' # {}
      PROVE  \E d \in Under' : d.at = Depth /\ d.sig = "tryRequest"
  <2>1. PICK d \in Under : d.at = Depth /\ d.sig = "tryRequest"
    BY <1>2, <1>3 DEF Demand
  <2>2. d \in Rest
    BY <1>1, <2>1
  <2> QED BY <1>1, <2>1, <2>2
<1> QED BY <1>3 DEF Demand

LEMMA FlowOne ==
  ASSUME TypeInv, CallsTypeOK, Flow, agenda[Client] # <<>>, NEW d \in MergeCalls, Sends(<<d>>),
         input' = input, inner' = inner, log'.values = log.values, Present' = Present,
         merge'.m_remaining = merge.m_remaining, Demand',
         Stage(Head(agenda[Client])) = 0, Stage(d) = 0,
         \A p \in Publishers : /\ Token(p, d) <=> Token(p, Head(agenda[Client]))
                               /\ Starts(p, d) => Starts(p, Head(agenda[Client]))
  PROVE  Flow'
<1>1. <<d>> \in Seq(MergeCalls) /\ ToSet(<<d>>) = {d}
  BY SmallSets
<1> QED BY <1>1, FlowCalls

LEMMA FlowNone ==
  ASSUME TypeInv, CallsTypeOK, Flow, agenda[Client] # <<>>, Sends(<<>>),
         input' = input, inner' = inner, log'.values = log.values, Present' = Present,
         merge'.m_remaining = merge.m_remaining, Demand',
         Stage(Head(agenda[Client])) = 0,
         \A p \in Publishers : ~Token(p, Head(agenda[Client]))
  PROVE  Flow'
<1>1. <<>> \in Seq(MergeCalls) /\ ToSet(<<>>) = {}
  BY SmallSets
<1> QED BY <1>1, FlowCalls

LEMMA SourceFlow ==
  ASSUME TypeInv, Always, Flow, Source(Client), UNCHANGED subscriberVars
  PROVE  Flow'
<1> DEFINE c == Head(agenda[Client])
           q == Arg(Client)
<1>1. CallsTypeOK /\ agenda[Client] # <<>> /\ c.at = 0 /\ q \in Nat /\ c.arg = q /\ Stage(c) = 0
  BY HeadIsTyped, PlacesDiffer DEF Source, On, TypeInv, Arg, Stage
<1>2. /\ input' = input /\ inner' = inner /\ log'.values = log.values /\ merge' = merge
      /\ Present' = Present
  BY DEF Source, mergeVars, subscriberVars, Present
<1>3. ASSUME NEW calls \in Seq(MergeCalls), Sends(calls) PROVE Demand'
  BY <1>1, <1>2, <1>3, DemandStays, PlacesDiffer
<1>4. ASSUME NEW n \in Nat, Leaves(Client, input.later, <<Call(0, "emit", n)>>),
             \A p \in Publishers : Token(p, c) <=> n <= p
      PROVE  Flow'
  <2> DEFINE d == Call(0, "emit", n)
  <2>1. d \in MergeCalls /\ d.at = 0 /\ d.sig = "emit" /\ d.arg = n
    BY NewCall, PlacesNamed, SentNamed, PlacesDiffer
  <2>2. Stage(d) = 0 /\ \A p \in Publishers : (Token(p, d) <=> n <= p) /\ ~Starts(p, d)
    BY <2>1, PlacesDiffer DEF Stage, Token, Starts
  <2>3. Sends(<<d>>) /\ <<d>> \in Seq(MergeCalls)
    BY <1>4, <2>1, LeavesSends
  <2> HIDE DEF d, c
  <2>4. Demand'
    BY <1>3, <2>3
  <2> QED BY <1>1, <1>2, <1>4, <2>1, <2>2, <2>3, <2>4, FlowOne DEF c
<1>5. CASE /\ On(Client, 0, "emit") /\ q \notin Publishers
           /\ Makes(Client, <<Call(Depth, input.end, 0)>>)
  <2> DEFINE d == Call(Depth, input.end, 0)
  <2>1. input.end \in Ends
    BY MergeAssumption DEF TypeInv, TypeOK, Ends
  <2>2. d \in MergeCalls /\ d.at = Depth /\ d.sig = input.end
    BY <2>1, NewCall, PlacesNamed, SentNamed, PlacesDiffer DEF Ends
  <2>3. Stage(d) = 0 /\ \A p \in Publishers : ~Token(p, d) /\ ~Starts(p, d)
    BY <2>1, <2>2, PlacesDiffer DEF Stage, Token, Starts, Ends
  <2>4. q > 0
    <3>1. Sound(c)
      BY <1>1, HeadIsSound
    <3> QED BY <1>1, <1>5, <3>1 DEF Sound, Proper, On
  <2>5. \A p \in Publishers : ~Token(p, c)
    <3>1. \A p \in Publishers : ~(q <= p)
      BY <1>1, <1>5, <2>4, DepthIsNat DEF Publishers
    <3> QED BY <1>1, <1>5, <3>1, PlacesDiffer DEF Token, On
  <2>6. Sends(<<d>>) /\ <<d>> \in Seq(MergeCalls)
    BY <1>5, <2>2 DEF Sends
  <2> HIDE DEF d, c, q
  <2>7. Demand'
    BY <1>3, <2>6
  <2> QED BY <1>1, <1>2, <2>2, <2>3, <2>5, <2>6, <2>7, FlowOne DEF c
<1>6. CASE /\ On(Client, 0, "emit") /\ q \in Publishers
           /\ Makes(Client, <<Call(Depth, "onNext", q), Call(0, "emitted", q)>>)
  <2> DEFINE d == Call(Depth, "onNext", q)
             e == Call(0, "emitted", q)
  <2>1. /\ d \in MergeCalls /\ d.at = Depth /\ d.sig = "onNext" /\ d.arg = q
        /\ e \in MergeCalls /\ e.at = 0 /\ e.sig = "emitted" /\ e.arg = q
    BY <1>1, <1>6, NewCall, PlacesNamed, SentNamed, PlacesDiffer
  <2>2. /\ Stage(d) = 0 /\ Stage(e) = 0
        /\ \A p \in Publishers : /\ Token(p, d) <=> p = q
                                 /\ Token(p, e) <=> q < p
                                 /\ Token(p, c) <=> q <= p
                                 /\ ~Starts(p, d) /\ ~Starts(p, e)
    BY <1>1, <1>6, <2>1, PlacesDiffer DEF Stage, Token, Starts, On
  <2>3. \A p \in Publishers : q <= p <=> (p = q \/ q < p)
    BY <1>1 DEF Publishers
  <2> HIDE DEF d, e, c, q
  <2> DEFINE calls == <<d, e>>
  <2>4. calls \in Seq(MergeCalls) /\ ToSet(calls) = {d, e}
    BY <2>1, PairChain, SmallSets
  <2>5. Sends(calls)
    BY <1>6 DEF Sends, d, e, q
  <2> HIDE DEF calls
  <2>6. Demand'
    BY <1>3, <2>4, <2>5
  <2> QED BY <1>1, <1>2, <2>2, <2>3, <2>4, <2>5, <2>6, FlowCalls DEF c
<1>7. CASE On(Client, 0, "subscribe") /\ Leaves(Client, input.later, <<Call(0, "emit", 1)>>)
  <2>1. \A p \in Publishers : Token(p, c) /\ 1 <= p
    BY <1>7 DEF On, Token, Publishers
  <2> QED BY <1>4, <1>7, <2>1
<1>8. CASE On(Client, 0, "emitted") /\ Leaves(Client, input.later, <<Call(0, "emit", q + 1)>>)
  <2>1. q + 1 \in Nat /\ \A p \in Publishers : q < p <=> q + 1 <= p
    BY <1>1 DEF Publishers
  <2>2. \A p \in Publishers : Token(p, c) <=> q < p
    BY <1>1, <1>8, PlacesDiffer DEF On, Token
  <2> HIDE DEF q
  <2> QED BY <1>4, <1>8, <2>1, <2>2 DEF q
<1> QED BY <1>5, <1>6, <1>7, <1>8 DEF Source

---------------------------------------------------------------------------
(* The signals a publisher sends.                                          *)
LEMMA MarkIsTyped ==
  ASSUME TypeInv, Always, NEW c \in Under, Stage(c) > 0
  PROVE  Of(c) \in Publishers /\ Ordinal(c) \in Nat /\ Mark(c).ordinal = Ordinal(c)
         /\ Mark(c).outcome = Outcome(c) /\ (Outcome(c) = "value" <=> IsValue(c))
<1>1. Sound(c)
  BY DEF Always
<1>2. CASE IsValue(c)
  <2>1. PICK p \in Publishers, k \in Nat : c.arg = Element(p, k) /\ Of(c) = p
    BY <1>1, <1>2 DEF Sound, Proper
  <2>2. Ordinal(c) = k
    BY <1>2, <2>1, OriginOfElement DEF Ordinal
  <2> QED BY <1>2, <2>1, <2>2 DEF Mark, Outcome
<1>3. CASE ~IsValue(c)
  <2>1. c.at \in Publishers
    BY <1>3 DEF Stage, IsValue
  <2>2. Of(c) = c.at
    BY <2>1, PlacesDiffer DEF Of
  <2>3. Ordinal(c) \in Nat
    BY <1>3, <2>1, PublisherIsTyped DEF Ordinal, Published, TypeInv
  <2> QED BY <1>3, <2>1, <2>2, <2>3 DEF Mark, Outcome
<1> QED BY <1>2, <1>3

LEMMA MarksAreTyped ==
  ASSUME TypeInv, Always, NEW p
  PROVE  \A m \in Marks(p) : m.ordinal \in Nat
BY MarkIsTyped DEF Marks, Signals

LEMMA NoneWithout ==
  ASSUME NEW calls \in Seq(MergeCalls), NEW c,
         \A d \in ToSet(calls), p \in Publishers : ~Token(p, d)
  PROVE  Conserves(c, calls) /\ \A p \in Publishers : ~Has(calls, p)
<1>1. \A k \in DOMAIN calls : calls[k] \in ToSet(calls)
  BY DEF ToSet
<1> QED BY <1>1 DEF Conserves, One, Has

(* Nothing of a publisher is under way before it is subscribed to.         *)
LEMMA HeldIsFresh ==
  ASSUME TypeInv, Always, Flow, NEW p \in Publishers, Held(p)
  PROVE  Issued(p) = 0 /\ Marks(p) = {} /\ Taken(p) = 0
<1>1. Issued(p) = 0
  BY DEF Flow, Handout, Issued
<1>2. Taken(p) \in Nat
  BY TakenIsNat DEF TypeInv, TypeOK, SubscriberTypeOK
<1>3. Account(p)
  BY DEF Flow
<1>4. ASSUME NEW m \in Marks(p) PROVE FALSE
  BY <1>1, <1>2, <1>3, <1>4, MarksAreTyped DEF Account
<1> QED BY <1>1, <1>2, <1>3, <1>4 DEF Account

(* A publisher that sends all it has when it is subscribed to.             *)
LEMMA FlowAtOnce ==
  ASSUME MergeInv, Always, Flow, NEW p \in Publishers, ~Joins(p),
         On(Client, p, "subscribe"), UNCHANGED <<input, inner, log, merge>>,
         NEW calls \in Seq(MergeCalls), Sends(calls), Chain("order", calls),
         \A d \in ToSet(calls) :
           /\ Stage(d) = 1 /\ d.at = p /\ Ordinal(d) \in Nat /\ Ordinal(d) > 0
           /\ IF Outcome(d) = "value" THEN Ordinal(d) <= Pub(p).size
              ELSE Ordinal(d) = Pub(p).size + 1 /\ Outcome(d) = EndOf(p),
         \A o \in 1 .. Pub(p).size : \E d \in ToSet(calls) : Ordinal(d) = o,
         EndOf(p) # "none" => \E d \in ToSet(calls) : Outcome(d) # "value",
         EndOf(p) = "none" => Gate(p)
  PROVE  Flow'
<1> DEFINE c == Head(agenda[Client])
           size == Pub(p).size
<1>1. /\ TypeInv /\ CallsTypeOK /\ agenda[Client] # <<>> /\ c.at = p /\ c.sig = "subscribe"
      /\ size \in Nat /\ Present' = Present
  BY PublisherIsTyped DEF MergeInv, TypeInv, On, Published, Present
<1>2. c \in Under /\ Under = {c} \cup Rest /\ Under' = ToSet(calls) \cup Rest
  BY <1>1, HeadIsUnder, QueueSends
<1>3. /\ Token(p, c) /\ Starts(p, c) /\ Stage(c) = 0
      /\ \A q \in Publishers \ {p} : ~Token(q, c) /\ ~Starts(q, c)
      /\ \A d \in ToSet(calls), q \in Publishers : ~Token(q, d) /\ ~Starts(q, d)
  <2>1. \A d \in ToSet(calls) : d.sig \in {"onNext", "onComplete", "onError"} /\ d.at = p
    BY DEF Stage
  <2> QED BY <1>1, <2>1, PlacesDiffer DEF Token, Starts, Stage
<1>4. Held(p) /\ Joining(p)
  BY <1>2, <1>3, HeldIs, JoiningIs
<1>5. Issued(p) = 0 /\ Marks(p) = {} /\ Taken(p) = 0
  BY <1>1, <1>4, HeldIsFresh
<1>6. \A e \in Rest : Stage(e) > 0 => Of(e) # p
  <2>1. Signals(p) = {}
    BY <1>5 DEF Marks
  <2> QED BY <1>2, <2>1 DEF Signals
<1>7. \A d \in ToSet(calls) : Of(d) = p
  BY PlacesDiffer DEF Of
<1>8. Chain("order", Queue)'
  <2>1. \A d \in ToSet(calls), e \in Rest : Apart("order", d, e) /\ Apart("order", e, d)
    BY <1>6, <1>7 DEF Apart
  <2>2. Makes(Client, calls) \/ Leaves(Client, TRUE, calls)
    BY DEF Sends
  <2> QED BY <1>1, <2>1, <2>2, OrderSends DEF Flow
<1>9. ~Held(p)'
  <2>1. Conserves(c, calls) /\ ~Has(calls, p) /\ Single(p)
    BY <1>3, NoneWithout DEF MergeInv, InTurn
  <2> QED BY <1>1, <1>3, <2>1, SendsKeep
<1>10. ASSUME NEW q \in Publishers \ {p}
       PROVE  Account(q)' /\ Handout(q)' /\ (Counts(q)' => Counts(q))
  <2>1. Marks(q)' = Marks(q)
    BY <1>1, <1>3, <1>7, MarksKept
  <2>2. Held(q)' <=> Held(q)
    BY <1>1, <1>2, <1>3, HeldSends, HeldIs
  <2>3. Joining(q)' => Joining(q)
    BY <1>1, <1>2, <1>3, JoiningSends, JoiningIs
  <2>4. Account(q) /\ Handout(q) /\ Taken(q)' = Taken(q)
    BY DEF Flow, Taken
  <2> QED BY <1>1, <2>1, <2>2, <2>3, <2>4, AccountStays DEF Counts
<1>11. /\ Pub(p)' = Pub(p) /\ EndOf(p)' = EndOf(p) /\ ~Joins(p)' /\ (Gate(p)' <=> Gate(p))
       /\ Taken(p)' = 0
  BY <1>5 DEF Pub, EndOf, Joins, Gate, Taken
<1>12. Issued(p)' = size + (IF EndOf(p) = "none" THEN 0 ELSE 1)
  BY <1>9, <1>11 DEF Issued
<1>13. Marks(p)' = {Mark(d) : d \in ToSet(calls)}
  <2>1. Marks(p)' = {Mark(d) : d \in {e \in ToSet(calls) \cup Rest : Stage(e) > 0 /\ Of(e) = p}}
    BY <1>1, MarksSends
  <2>2. {e \in ToSet(calls) \cup Rest : Stage(e) > 0 /\ Of(e) = p} = ToSet(calls)
    BY <1>6, <1>7
  <2> QED BY <2>1, <2>2
<1>23. \A d : Mark(d).outcome = Outcome(d)
  BY DEF Mark
<1>14. EndOut(p)' <=> \E d \in ToSet(calls) : Outcome(d) # "value"
  <2>1. EndOut(p)' <=> \E m \in Marks(p)' : m.outcome # "value"
    BY DEF EndOut
  <2> QED BY <1>13, <1>23, <2>1
<1>15. EndOut(p)' \/ Silent(p)'
  BY <1>9, <1>11, <1>14 DEF Silent
<1>16. \A d \in ToSet(calls) : Mark(d).ordinal = Ordinal(d) /\ Mark(d).outcome = Outcome(d)
  BY DEF Mark
<1>17. \A d \in ToSet(calls) :
         Ordinal(d) <= size + (IF EndOf(p) = "none" THEN 0 ELSE 1)
  <2>1. \A d \in ToSet(calls) : Outcome(d) # "none"
    BY DEF Outcome
  <2> QED BY <1>1, <2>1
<1>18. Account(p)'
  <2>1. \A m \in Marks(p)' :
          /\ 0 < m.ordinal /\ m.ordinal <= Issued(p)'
          /\ IF m.outcome = "value" THEN m.ordinal <= size
             ELSE m.ordinal = size + 1 /\ m.outcome = EndOf(p)
    BY <1>12, <1>13, <1>16, <1>17
  <2>2. 0 <= Issued(p)' /\ 0 <= size
    BY <1>1, <1>12
  <2>3. \A o \in 1 .. Issued(p)' : o <= size => \E m \in Marks(p)' : m.ordinal = o
    BY <1>1, <1>12, <1>13, <1>16
  <2>4. 0 + 1 = 1
    OBVIOUS
  <2> HIDE DEF size
  <2> QED BY <1>11, <1>15, <2>1, <2>2, <2>3, <2>4 DEF Account, size
<1>19. Handout(p)'
  BY <1>9, <1>11 DEF Flow, Handout
<1>20. Counted' \subseteq Counted
  <2>1. Counts(p)
    BY <1>4 DEF Counts
  <2> QED BY <1>10, <2>1 DEF Counted
<1>21. Cardinality(Counted)' <= merge'.m_remaining
  BY <1>1, <1>20, CountedNoMore
<1>22. Demand'
  BY <1>1, DemandStays, PlacesDiffer
<1> QED BY <1>8, <1>10, <1>18, <1>19, <1>21, <1>22 DEF Flow

LEMMA ValueIsTyped ==
  ASSUME NEW p \in Publishers, NEW v \in Nat
  PROVE  /\ Call(p, "onNext", v) \in MergeCalls /\ Call(p, "onNext", v).at = p
         /\ Call(p, "onNext", v).sig = "onNext" /\ Call(p, "onNext", v).arg = v
BY NewCall, PlacesNamed, SentNamed, PlacesDiffer

LEMMA SubscribesFlow ==
  ASSUME MergeInv, Always, Flow, NEW p \in Publishers, Subscribes(Client, p), UNCHANGED subscriberVars
  PROVE  Flow'
<1> DEFINE c == Head(agenda[Client])
           size == Pub(p).size
<1>1. /\ TypeInv /\ CallsTypeOK /\ agenda[Client] # <<>> /\ On(Client, p, "subscribe")
      /\ c.at = p /\ c.sig = "subscribe" /\ Pub(p) \in Published /\ size \in Nat
      /\ UNCHANGED <<input, inner, log, merge>> /\ Present' = Present
  BY PublisherIsTyped DEF Subscribes, On, MergeInv, TypeInv, Published, mergeVars, subscriberVars, Present
<1>2. CASE Gate(p)
  <2> DEFINE v(k)   == Call(p, "onNext", Element(p, k))
             e      == Call(p, Pub(p).end, 0)
             values == [k \in 1 .. size |-> v(k)]
             end    == IF Pub(p).end = "none" THEN <<>> ELSE <<e>>
             IsNth(d, k) == /\ d \in MergeCalls /\ Stage(d) = 1 /\ d.at = p /\ Of(d) = p
                            /\ Ordinal(d) = k /\ Outcome(d) = "value"
             IsLast(d) == /\ d \in MergeCalls /\ Stage(d) = 1 /\ d.at = p /\ Of(d) = p
                        /\ Ordinal(d) = size + 1 /\ Outcome(d) = EndOf(p) /\ Outcome(d) # "value"
  <2>1. EndOf(p) = Pub(p).end /\ Pub(p).end \in {"onComplete", "onError", "none"}
    BY <1>1, <1>2 DEF EndOf, Published, Gate
  <2>2. ASSUME NEW k \in 1 .. size PROVE IsNth(v(k), k)
    <3>1. k \in Nat /\ Element(p, k) \in Nat /\ Origin(Element(p, k)) = <<p, k>>
      BY <1>1, OriginOfElement
    <3>2. v(k) \in MergeCalls /\ v(k).at = p /\ v(k).sig = "onNext" /\ v(k).arg = Element(p, k)
      BY <3>1, ValueIsTyped
    <3> HIDE DEF v
    <3> QED BY <3>1, <3>2, PlacesDiffer DEF Stage, Of, Ordinal, IsValue, Outcome
  <2>3. ASSUME Pub(p).end # "none" PROVE IsLast(e)
    <3>1. e \in MergeCalls /\ e.at = p /\ e.sig = Pub(p).end
      BY <2>1, <2>3, NewCall, PlacesNamed, SentNamed, PlacesDiffer
    <3> HIDE DEF e
    <3> QED BY <2>1, <2>3, <3>1, PlacesDiffer DEF Stage, Of, Ordinal, IsValue, Outcome, Failures
  <2> HIDE DEF v, e
  <2>4. /\ values \in Seq(MergeCalls) /\ DOMAIN values = 1 .. size
        /\ \A k \in 1 .. size : IsNth(values[k], k)
    <3>1. values \in Seq(MergeCalls)
      BY <1>1, <2>2, IsASeq
    <3> QED BY <2>2, <3>1
  <2> HIDE DEF values
  <2>5. /\ \A d \in ToSet(values) : \E k \in 1 .. size : IsNth(d, k)
        /\ \A k \in 1 .. size : \E d \in ToSet(values) : IsNth(d, k)
    BY <2>4 DEF ToSet
  <2>6. /\ end \in Seq(MergeCalls) /\ Chain("order", end)
        /\ ToSet(end) = IF Pub(p).end = "none" THEN {} ELSE {e}
    <3>1. CASE Pub(p).end = "none"
      BY <3>1, SmallSets DEF Chain
    <3>2. CASE Pub(p).end # "none"
      <4>1. e \in MergeCalls /\ end = <<e>>
        BY <2>3, <3>2
      <4> HIDE DEF end
      <4> QED BY <3>2, <4>1, SmallSets, SingleChain
    <3> QED BY <3>1, <3>2
  <2> HIDE DEF end
  <2>7. Chain("order", values)
    <3> SUFFICES ASSUME NEW j \in 1 .. size, NEW k \in 1 .. size, j < k
                 PROVE  Apart("order", values[j], values[k])
      BY <2>4 DEF Chain
    <3>1. IsNth(values[j], j) /\ IsNth(values[k], k)
      BY <2>4
    <3> QED BY <3>1 DEF Apart
  <2> DEFINE calls == values \o end
  <2>8. calls \in Seq(MergeCalls) /\ ToSet(calls) = ToSet(values) \cup ToSet(end)
    BY <2>4, <2>6, ConcatSet
  <2>9. \A d \in ToSet(end) : IsLast(d)
    BY <2>3, <2>6
  <2>10. \A d \in ToSet(values), f \in ToSet(end) : Apart("order", d, f)
    <3> SUFFICES ASSUME NEW d \in ToSet(values), NEW f \in ToSet(end) PROVE Apart("order", d, f)
      OBVIOUS
    <3>1. PICK k \in 1 .. size : IsNth(d, k)
      BY <2>5
    <3>2. IsLast(f) /\ k < size + 1
      BY <1>1, <2>9
    <3> QED BY <3>1, <3>2 DEF Apart
  <2>11. Chain("order", calls)
    BY <2>4, <2>6, <2>7, <2>10, ChainConcat
  <2>12. Leaves(Client, Pub(p).later, calls)
    BY <1>2 DEF Subscribes, values, end, v, e
  <2> HIDE DEF calls
  <2>13. Sends(calls)
    BY <2>12, LeavesSends
  <2>14. ~Joins(p)
    BY <1>2 DEF Joins
  <2>15. \A d \in ToSet(calls) :
           /\ Stage(d) = 1 /\ d.at = p /\ Ordinal(d) \in Nat /\ Ordinal(d) > 0
           /\ IF Outcome(d) = "value" THEN Ordinal(d) <= size
              ELSE Ordinal(d) = size + 1 /\ Outcome(d) = EndOf(p)
    <3> SUFFICES ASSUME NEW d \in ToSet(calls)
                 PROVE  /\ Stage(d) = 1 /\ d.at = p /\ Ordinal(d) \in Nat /\ Ordinal(d) > 0
                        /\ IF Outcome(d) = "value" THEN Ordinal(d) <= size
                           ELSE Ordinal(d) = size + 1 /\ Outcome(d) = EndOf(p)
      OBVIOUS
    <3>1. CASE d \in ToSet(values)
      <4>1. PICK k \in 1 .. size : IsNth(d, k)
        BY <2>5, <3>1
      <4> QED BY <1>1, <4>1
    <3>2. CASE d \in ToSet(end)
      BY <1>1, <2>9, <3>2
    <3> QED BY <2>8, <3>1, <3>2
  <2>16. \A o \in 1 .. size : \E d \in ToSet(calls) : Ordinal(d) = o
    BY <2>5, <2>8
  <2>17. EndOf(p) # "none" => \E d \in ToSet(calls) : Outcome(d) # "value"
    BY <2>1, <2>6, <2>8, <2>9
  <2> QED BY <1>1, <1>2, <2>8, <2>11, <2>13, <2>14, <2>15, <2>16, <2>17, FlowAtOnce
<1>3. CASE ~Gate(p) /\ Pub(p).kind = "error"
  <2> DEFINE d == Call(p, "onError", 0)
  <2>1. d \in MergeCalls /\ d.at = p /\ d.sig = "onError"
    BY NewCall, PlacesNamed, SentNamed, PlacesDiffer
  <2>2. Leaves(Client, Pub(p).later, <<d>>)
    BY <1>3 DEF Subscribes
  <2> HIDE DEF d
  <2>3. EndOf(p) = "onError" /\ size = 0 /\ ~Joins(p)
    BY <1>1, <1>3 DEF EndOf, Joins, Published
  <2>4. Stage(d) = 1 /\ Ordinal(d) = 1 /\ Outcome(d) = "onError"
    BY <2>1, <2>3, PlacesDiffer DEF Stage, Ordinal, IsValue, Outcome, Failures
  <2>5. <<d>> \in Seq(MergeCalls) /\ ToSet(<<d>>) = {d} /\ Chain("order", <<d>>) /\ Sends(<<d>>)
    BY <2>1, <2>2, SmallSets, SingleChain, LeavesSends
  <2>6. ~(\E o \in 1 .. 0 : TRUE) /\ 1 \in Nat /\ 1 > 0 /\ 0 + 1 = 1
    OBVIOUS
  <2> QED BY <1>1, <2>1, <2>3, <2>4, <2>5, <2>6, FlowAtOnce
<1>4. CASE ~Gate(p) /\ Pub(p).kind # "error"
  <2> DEFINE d == Call(p, "onSubscribe", 0)
  <2>1. d \in MergeCalls /\ d.at = p /\ d.sig = "onSubscribe"
    BY NewCall, PlacesNamed, SentNamed, PlacesDiffer
  <2>2. Makes(Client, <<d>>)
    BY <1>4 DEF Subscribes
  <2> HIDE DEF d
  <2>3. Sends(<<d>>) /\ <<d>> \in Seq(MergeCalls)
    BY <2>1, <2>2 DEF Sends
  <2>4. Demand'
    BY <1>1, <2>3, DemandStays, PlacesDiffer
  <2>5. Stage(c) = 0 /\ Stage(d) = 0
    BY <1>1, <2>1, PlacesDiffer DEF Stage
  <2>6. \A q \in Publishers : (Token(q, d) <=> Token(q, c)) /\ (Starts(q, d) => Starts(q, c))
    BY <1>1, <2>1, PlacesDiffer DEF Token, Starts
  <2> QED BY <1>1, <2>1, <2>3, <2>4, <2>5, <2>6, FlowOne
<1> QED BY <1>2, <1>3, <1>4

(* A publisher that a step does not concern, as far as the calls go.       *)
LEMMA OthersKeep ==
  ASSUME CallsTypeOK, Flow, agenda[Client] # <<>>, NEW calls \in Seq(MergeCalls), Sends(calls),
         NEW q \in Publishers, input' = input, Taken(q)' = Taken(q), inner'[q] = inner[q],
         q \in Present' <=> q \in Present,
         \A d \in ToSet(calls) : (Stage(d) > 0 => Of(d) # q) /\ ~Token(q, d) /\ ~Starts(q, d),
         LET c == Head(agenda[Client])
         IN  (Stage(c) > 0 => Of(c) # q) /\ ~Token(q, c)
  PROVE  Account(q)' /\ Handout(q)' /\ (Counts(q)' => Counts(q)) /\ Marks(q)' = Marks(q)
<1> DEFINE c == Head(agenda[Client])
<1>1. Under = {c} \cup Rest
  BY HeadIsUnder
<1>2. Marks(q)' = Marks(q)
  BY MarksKept
<1>3. Held(q)' <=> Held(q)
  BY <1>1, HeldSends, HeldIs
<1>4. Joining(q)' => Joining(q)
  BY <1>1, JoiningSends, JoiningIs
<1>5. Account(q) /\ Handout(q)
  BY DEF Flow
<1> QED BY <1>2, <1>3, <1>4, <1>5, AccountStays DEF Counts

(* A publisher that sends what comes next.                                 *)
LEMMA FlowEmits ==
  ASSUME MergeInv, Always, Flow, ~merge.m_canceled, NEW p \in Publishers, On(Client, p, "request"),
         UNCHANGED <<input, log, merge>>, \A q \in Publishers \ {p} : inner'[q] = inner[q],
         NEW calls \in Seq(MergeCalls), NEW current \in Nat, NEW ends \in 0 .. 1, NEW last \in Nat,
         Emits(p, current, ends, calls), Chain("order", calls),
         last = current + ends, inner[p].m_current <= last,
         current <= Pub(p).size, ends = 1 => current = Pub(p).size,
         Pub(p).kind = "just" => ends = 1,
         \A d \in ToSet(calls) :
           /\ Stage(d) = 1 /\ d.at = p
           /\ Ordinal(d) \in Nat /\ inner[p].m_current < Ordinal(d) /\ Ordinal(d) <= last
           /\ IF Outcome(d) = "value" THEN Ordinal(d) <= Pub(p).size
              ELSE Ordinal(d) = Pub(p).size + 1 /\ Outcome(d) = EndOf(p),
         \A o \in inner[p].m_current + 1 .. last : \E d \in ToSet(calls) : Ordinal(d) = o
  PROVE  Flow'
<1> DEFINE c == Head(agenda[Client])
           size == Pub(p).size
           n == inner[p].m_current
<1>1. /\ TypeInv /\ CallsTypeOK /\ agenda[Client] # <<>> /\ c.at = p /\ c.sig = "request"
      /\ size \in Nat /\ n \in Nat /\ Present' = Present /\ ~inner[p].m_completed
  <2>1. TypeInv /\ Pub(p) \in Published
    BY PublisherIsTyped DEF MergeInv, TypeInv
  <2> QED BY <2>1 DEF MergeInv, TypeInv, TypeOK, On, Published, Present, Emits
<1>2. Sends(calls) /\ c \in Under /\ Under = {c} \cup Rest /\ Under' = ToSet(calls) \cup Rest
  <2>1. Sends(calls)
    BY LeavesSends DEF Emits
  <2> QED BY <1>1, <2>1, HeadIsUnder, QueueSends
<1>3. /\ Stage(c) = 0
      /\ \A q \in Publishers : ~Token(q, c) /\ ~Starts(q, c)
      /\ \A d \in ToSet(calls) : Of(d) = p /\ \A q \in Publishers : ~Token(q, d) /\ ~Starts(q, d)
  <2>1. \A d \in ToSet(calls) : d.sig \in {"onNext", "onComplete", "onError"} /\ d.at = p
    BY DEF Stage
  <2> QED BY <1>1, <2>1, PlacesDiffer DEF Token, Starts, Stage, Of
<1>4. p \in Present /\ Joins(p) /\ ~Held(p)
  <2>1. p \in Present /\ Joins(p)
    BY <1>1, <1>2 DEF Always, Sound
  <2> QED BY <2>1 DEF MergeInv, InTurn, Fresh
<1>5. Account(p) /\ Handout(p) /\ Issued(p) = n
  BY <1>1, <1>4 DEF Flow, Issued
<1>6. \A e \in Rest : Stage(e) > 0 /\ Of(e) = p => Ordinal(e) \in Nat /\ Ordinal(e) <= n
  <2> SUFFICES ASSUME NEW e \in Rest, Stage(e) > 0, Of(e) = p PROVE Ordinal(e) \in Nat /\ Ordinal(e) <= n
    OBVIOUS
  <2>1. e \in Under /\ Mark(e) \in Marks(p)
    BY <1>2 DEF Marks, Signals
  <2>2. Ordinal(e) \in Nat /\ Mark(e).ordinal = Ordinal(e)
    BY <1>1, <2>1, MarkIsTyped
  <2> QED BY <1>5, <2>1, <2>2 DEF Account
<1>7. Chain("order", Queue)'
  <2>1. ASSUME NEW d \in ToSet(calls), NEW e \in Rest
        PROVE  /\ Apart("order", e, d)
               /\ ~Pub(p).later => Apart("order", d, e)
    <3>1. CASE ~(Stage(e) > 0 /\ Of(e) = p)
      BY <1>3, <3>1 DEF Apart
    <3>2. CASE Stage(e) > 0 /\ Of(e) = p
      <4>1. Ordinal(e) < Ordinal(d) /\ Stage(d) = 1 /\ Stage(e) \in {1, 2, 3} /\ Of(d) = p
        <5>1. Stage(e) \in {0, 1, 2, 3}
          BY DEF Stage
        <5>2. Ordinal(e) \in Nat /\ Ordinal(e) <= n /\ n < Ordinal(d) /\ Ordinal(d) \in Nat
          BY <1>6, <3>2
        <5> QED BY <1>1, <1>3, <3>2, <5>1, <5>2
      <4>2. ~Pub(p).later => Stage(e) # 1
        <5>1. ~Urgent(e)
          BY RestIsNotUrgent, <1>1 DEF Always
        <5>2. Stage(e) = 1 => e.at = p
          BY <3>2, PlacesDiffer DEF Stage, Of
        <5> QED BY <1>1, <1>4, <5>1, <5>2 DEF Urgent, Joins
      <4> QED BY <4>1, <4>2 DEF Apart
    <3> QED BY <3>1, <3>2
  <2>2. (Makes(Client, calls) /\ ~Pub(p).later) \/ Leaves(Client, TRUE, calls)
    BY DEF Emits, Leaves
  <2> QED BY <1>1, <2>1, <2>2, OrderSends DEF Flow
<1>8. ASSUME NEW q \in Publishers \ {p}
      PROVE  Account(q)' /\ Handout(q)' /\ (Counts(q)' => Counts(q))
  <2>1. Taken(q)' = Taken(q)
    BY DEF Taken
  <2> QED BY <1>1, <1>2, <1>3, <2>1, OthersKeep
<1>9. /\ Pub(p)' = Pub(p) /\ EndOf(p)' = EndOf(p) /\ Joins(p)' /\ Taken(p)' = Taken(p)
      /\ ~Held(p)' /\ Issued(p)' = last
  <2>1. Pub(p)' = Pub(p) /\ EndOf(p)' = EndOf(p) /\ Joins(p)' /\ Taken(p)' = Taken(p)
    BY <1>4 DEF Pub, EndOf, Joins, Gate, Taken
  <2>2. ~Held(p)'
    BY <1>1, <1>2, <1>3, <1>4, HeldSends, HeldIs
  <2> QED BY <2>1, <2>2 DEF Issued, Emits
<1>10. Marks(p)' = Marks(p) \cup {Mark(d) : d \in ToSet(calls)}
  <2> DEFINE S == {e \in Rest : Stage(e) > 0 /\ Of(e) = p}
  <2>1. Marks(p)' = {Mark(d) : d \in {e \in ToSet(calls) \cup Rest : Stage(e) > 0 /\ Of(e) = p}}
    BY <1>1, <1>2, MarksSends
  <2>2. {e \in ToSet(calls) \cup Rest : Stage(e) > 0 /\ Of(e) = p} = ToSet(calls) \cup S
    BY <1>3
  <2>3. Signals(p) = S
    BY <1>2, <1>3 DEF Signals
  <2> HIDE DEF S
  <2> QED BY <2>1, <2>2, <2>3 DEF Marks
<1>11. \A d \in ToSet(calls) : Mark(d).ordinal = Ordinal(d) /\ Mark(d).outcome = Outcome(d)
  BY DEF Mark
<1>12. Account(p)'
  <2>0. Taken(p) \in Nat
    BY <1>1, TakenIsNat DEF TypeInv, TypeOK, SubscriberTypeOK
  <2>1. ASSUME NEW m \in Marks(p)'
        PROVE  /\ Taken(p) < m.ordinal /\ m.ordinal <= last
               /\ IF m.outcome = "value" THEN m.ordinal <= size
                  ELSE m.ordinal = size + 1 /\ m.outcome = EndOf(p)
    <3>1. CASE m \in Marks(p)
      <4>1. m.ordinal \in Nat
        BY <1>1, <3>1, MarksAreTyped
      <4> QED BY <1>1, <1>5, <3>1, <4>1 DEF Account
    <3>2. CASE m \in {Mark(d) : d \in ToSet(calls)}
      <4>1. PICK d \in ToSet(calls) : m = Mark(d)
        BY <3>2
      <4>2. Taken(p) <= n
        BY <1>5 DEF Account
      <4> QED BY <1>1, <1>11, <2>0, <4>1, <4>2
    <3> QED BY <1>10, <2>1, <3>1, <3>2
  <2>2. Taken(p) <= last /\ Taken(p) <= size
    BY <1>1, <1>5, <2>0 DEF Account
  <2>3. ASSUME NEW o \in Taken(p) + 1 .. last, o <= size
        PROVE  \E m \in Marks(p)' : m.ordinal = o
    <3>1. CASE o <= n
      <4>1. o \in Taken(p) + 1 .. Issued(p)
        BY <1>1, <1>5, <2>0, <3>1
      <4> QED BY <1>5, <1>10, <2>3, <4>1 DEF Account
    <3>2. CASE ~(o <= n)
      <4>1. o \in n + 1 .. last
        BY <1>1, <2>0, <3>2
      <4>2. PICK d \in ToSet(calls) : Ordinal(d) = o
        BY <4>1
      <4> QED BY <1>10, <1>11, <4>2
    <3> QED BY <3>1, <3>2
  <2> HIDE DEF size, n
  <2> QED BY <1>1, <1>4, <1>9, <2>1, <2>2, <2>3 DEF Account, size
<1>13. Handout(p)'
  <2>1. Pub(p).kind # "never" /\ inner'[p].m_current = current /\ (inner'[p].m_completed <=> ends = 1)
    BY DEF Emits
  <2> QED BY <1>9, <2>1 DEF Handout
<1>14. Counted' \subseteq Counted
  <2>1. Counts(p)
    BY <1>4 DEF Counts
  <2> QED BY <1>8, <2>1 DEF Counted
<1>15. Cardinality(Counted)' <= merge'.m_remaining
  BY <1>1, <1>14, CountedNoMore
<1>16. Demand'
  BY <1>1, <1>2, DemandStays, PlacesDiffer
<1> QED BY <1>7, <1>8, <1>12, <1>13, <1>15, <1>16 DEF Flow

LEMMA RequestedFlow ==
  ASSUME MergeInv, Always, Flow, ~merge.m_canceled, NEW p \in Publishers,
         Requested(Client, p), UNCHANGED subscriberVars
  PROVE  Flow'
<1> DEFINE c    == Head(agenda[Client])
           size == Pub(p).size
<1>1. /\ TypeInv /\ CallsTypeOK /\ agenda[Client] # <<>> /\ On(Client, p, "request")
      /\ c.at = p /\ c.sig = "request" /\ Pub(p) \in Published /\ size \in Nat
      /\ UNCHANGED <<input, log, merge>> /\ Present' = Present
  BY PublisherIsTyped DEF Requested, On, MergeInv, TypeInv, Published, subscriberVars, Present
<1>2. PICK n \in Nat, v, e \in MergeCalls :
      /\ n = inner[p].m_current
      /\ \A q \in Publishers \ {p} : inner'[q] = inner[q]
      /\ inner[p].m_completed \in BOOLEAN
      /\ v.at = p /\ v.sig = "onNext" /\ v.arg = Element(p, n + 1)
      /\ e.at = p /\ e.sig = "onComplete"
      /\ \/ inner' = inner /\ Leaves(Client, Pub(p).later, <<>>)
         \/ n = size /\ Emits(p, n, 1, <<e>>)
         \/ n # size /\ Pub(p).kind # "just" /\ Emits(p, n + 1, 0, <<v>>)
         \/ n # size /\ Pub(p).kind = "just" /\ Emits(p, n + 1, 1, <<v, e>>)
  <2>1. PICK n \in Nat, v, e \in MergeCalls :
          /\ n = inner[p].m_current
          /\ \A q \in Publishers \ {p} : inner'[q] = inner[q]
          /\ inner[p].m_completed \in BOOLEAN
          /\ v.at = p /\ v.sig = "onNext" /\ v.arg = Element(p, n + 1)
          /\ e.at = p /\ e.sig = "onComplete"
          /\ \/ /\ inner' = inner /\ Leaves(Client, Pub(p).later, <<>>)
                /\ inner[p].m_completed \/ inner[p].m_canceled \/ Pub(p).kind = "never"
             \/ n = Pub(p).size /\ Emits(p, n, 1, <<e>>)
             \/ n # Pub(p).size /\ Pub(p).kind # "just" /\ Emits(p, n + 1, 0, <<v>>)
             \/ n # Pub(p).size /\ Pub(p).kind = "just" /\ Emits(p, n + 1, 1, <<v, e>>)
    BY <1>1, RequestedEmits
  <2> QED BY <2>1
<1>3. Joins(p)
  <2>1. Sound(c)
    BY <1>1, HeadIsSound
  <2> QED BY <1>1, <2>1 DEF Sound, Proper
<1>4. n + 1 \in Nat /\ n + 2 \in Nat
  BY <1>2
<1>5. Stage(v) = 1 /\ Ordinal(v) = n + 1 /\ Outcome(v) = "value"
  <2>1. Origin(v.arg) = <<p, n + 1>>
    BY <1>2, <1>4, OriginOfElement
  <2> QED BY <1>2, <2>1 DEF Stage, Ordinal, IsValue, Outcome
<1>6. Stage(e) = 1 /\ Ordinal(e) = size + 1 /\ Outcome(e) = "onComplete" /\ Outcome(e) # "value"
  BY <1>2 DEF Stage, Ordinal, IsValue, Outcome, Failures
<1>7. Pub(p).kind # "never" => EndOf(p) = "onComplete" /\ n <= size
  <2>1. Handout(p)
    BY DEF Flow
  <2> QED BY <1>2, <1>3, <2>1 DEF EndOf, Joins, Handout
<1>8. CASE inner' = inner /\ Leaves(Client, Pub(p).later, <<>>)
  <2>1. Stage(c) = 0 /\ \A q \in Publishers : ~Token(q, c)
    BY <1>1, PlacesDiffer DEF Stage, Token
  <2>2. Sends(<<>>) /\ <<>> \in Seq(MergeCalls)
    BY <1>8, LeavesSends
  <2>3. Demand'
    BY <1>1, <2>2, DemandStays, PlacesDiffer
  <2> QED BY <1>1, <1>8, <2>1, <2>2, <2>3, FlowNone
<1> HIDE DEF c
<1>9. CASE n = size /\ Emits(p, n, 1, <<e>>)
  <2>1. <<e>> \in Seq(MergeCalls) /\ ToSet(<<e>>) = {e} /\ Chain("order", <<e>>)
    BY <1>2, SmallSets, SingleChain
  <2>2. Pub(p).kind # "never"
    BY <1>9 DEF Emits
  <2>3. PICK calls \in Seq(MergeCalls) : calls = <<e>>
    BY <2>1
  <2>4. /\ inner[p].m_current <= n + 1 /\ n <= Pub(p).size /\ n = Pub(p).size
        /\ Emits(p, n, 1, calls) /\ Chain("order", calls)
    BY <1>2, <1>4, <1>9, <2>1, <2>3
  <2>5. \A d \in ToSet(calls) :
          /\ Stage(d) = 1 /\ d.at = p
          /\ Ordinal(d) \in Nat /\ inner[p].m_current < Ordinal(d) /\ Ordinal(d) <= n + 1
          /\ IF Outcome(d) = "value" THEN Ordinal(d) <= Pub(p).size
             ELSE Ordinal(d) = Pub(p).size + 1 /\ Outcome(d) = EndOf(p)
    BY <1>2, <1>4, <1>6, <1>7, <1>9, <2>1, <2>2, <2>3
  <2>6. \A o \in inner[p].m_current + 1 .. n + 1 : \E d \in ToSet(calls) : Ordinal(d) = o
    BY <1>2, <1>6, <1>9, <2>1, <2>3
  <2>7. 1 \in 0 .. 1 /\ n + 1 \in Nat
    BY <1>4
  <2> QED BY <1>1, <1>2, <2>4, <2>5, <2>6, <2>7, FlowEmits
<1>10. CASE n # size /\ Pub(p).kind # "just" /\ Emits(p, n + 1, 0, <<v>>)
  <2>1. <<v>> \in Seq(MergeCalls) /\ ToSet(<<v>>) = {v} /\ Chain("order", <<v>>)
    BY <1>2, SmallSets, SingleChain
  <2>2. Pub(p).kind # "never" /\ n + 1 <= size
    BY <1>1, <1>2, <1>7, <1>10 DEF Emits
  <2>3. PICK calls \in Seq(MergeCalls) : calls = <<v>>
    BY <2>1
  <2>4. /\ inner[p].m_current <= n + 1 /\ n + 1 <= Pub(p).size /\ Pub(p).kind # "just"
        /\ Emits(p, n + 1, 0, calls) /\ Chain("order", calls)
    BY <1>2, <1>4, <1>10, <2>1, <2>2, <2>3
  <2>5. \A d \in ToSet(calls) :
          /\ Stage(d) = 1 /\ d.at = p
          /\ Ordinal(d) \in Nat /\ inner[p].m_current < Ordinal(d) /\ Ordinal(d) <= n + 1
          /\ IF Outcome(d) = "value" THEN Ordinal(d) <= Pub(p).size
             ELSE Ordinal(d) = Pub(p).size + 1 /\ Outcome(d) = EndOf(p)
    BY <1>2, <1>4, <1>5, <1>10, <2>1, <2>2, <2>3
  <2>6. \A o \in inner[p].m_current + 1 .. n + 1 : \E d \in ToSet(calls) : Ordinal(d) = o
    BY <1>2, <1>5, <1>10, <2>1, <2>3
  <2>7. 0 \in 0 .. 1 /\ n + 1 \in Nat /\ (n + 1) + 0 = n + 1 /\ 0 # 1
    BY <1>4
  <2> QED BY <1>1, <1>2, <2>4, <2>5, <2>6, <2>7, FlowEmits
<1>11. CASE n # size /\ Pub(p).kind = "just" /\ Emits(p, n + 1, 1, <<v, e>>)
  <2>1. size = 1 /\ n = 0 /\ Pub(p).kind # "never"
    BY <1>1, <1>2, <1>7, <1>11 DEF Published
  <2>2. <<v, e>> \in Seq(MergeCalls) /\ ToSet(<<v, e>>) = {v, e} /\ Chain("order", <<v, e>>)
    <3>1. Apart("order", v, e)
      BY <1>5, <1>6, <2>1 DEF Apart
    <3> QED BY <1>2, <3>1, SmallSets, PairChain
  <2>3. \A o \in 1 .. 2 : o = 1 \/ o = 2
    OBVIOUS
  <2>4. Ordinal(v) = 1 /\ Ordinal(e) = 2
    BY <1>5, <1>6, <2>1
  <2> HIDE DEF size
  <2>5. Emits(p, 1, 1, <<v, e>>) /\ 1 \in Nat /\ 2 \in Nat /\ 0 + 1 = 1 /\ 1 + 1 = 2 /\ 1 \in 0 .. 1
    BY <1>11, <2>1
  <2>6. PICK calls \in Seq(MergeCalls) : calls = <<v, e>>
    BY <2>2
  <2>7. /\ inner[p].m_current = 0 /\ 0 <= 2 /\ Pub(p).size = 1 /\ 1 <= 1
        /\ Emits(p, 1, 1, calls) /\ Chain("order", calls)
    <3>1. inner[p].m_current = 0 /\ 0 <= 2 /\ 1 <= 1
      BY <1>2, <2>1
    <3>2. Pub(p).size = 1
      BY <2>1 DEF size
    <3>3. Emits(p, 1, 1, calls)
      BY <2>5, <2>6
    <3>4. Chain("order", calls)
      BY <2>2, <2>6
    <3> QED BY <3>1, <3>2, <3>3, <3>4
  <2>8. \A d \in ToSet(calls) :
          /\ Stage(d) = 1 /\ d.at = p
          /\ Ordinal(d) \in Nat /\ 0 < Ordinal(d) /\ Ordinal(d) <= 2
          /\ IF Outcome(d) = "value" THEN Ordinal(d) <= 1
             ELSE Ordinal(d) = 1 + 1 /\ Outcome(d) = EndOf(p)
    BY <1>2, <1>5, <1>6, <1>7, <2>1, <2>2, <2>4, <2>6
  <2>9. \A o \in 0 + 1 .. 2 : \E d \in ToSet(calls) : Ordinal(d) = o
    BY <2>2, <2>3, <2>4, <2>5, <2>6
  <2> HIDE DEF size
  <2> QED BY <1>1, <1>2, <2>5, <2>7, <2>8, <2>9, FlowEmits
<1> QED BY <1>2, <1>8, <1>9, <1>10, <1>11

LEMMA CanceledFlow ==
  ASSUME MergeInv, Always, NEW p \in Publishers, Canceled(Client, p)
  PROVE  merge.m_canceled
<1>1. CallsTypeOK /\ agenda[Client] # <<>>
  BY DEF Canceled, On, MergeInv, TypeInv
<1> QED BY <1>1, HeadIsSound DEF Canceled, On, Sound

---------------------------------------------------------------------------
(* The handlers of MergeSubscription that change who is there.             *)
LEMMA SourceNextFlow ==
  ASSUME MergeInv, Always, Flow, SourceNext(Client), UNCHANGED <<subscriberVars, input, inner>>
  PROVE  Flow'
<1> DEFINE c == Head(agenda[Client])
<1>0. PICK p \in Publishers : p = Arg(Client)
  <2>1. c \in MergeCalls /\ c.at = Depth /\ c.sig = "onNext"
    BY HeadIsTyped DEF SourceNext, On, MergeInv, TypeInv
  <2> QED BY <2>1 DEF MergeCalls, Arg
<1> DEFINE d == Call(p, "subscribe", 0)
<1>1. TypeInv /\ CallsTypeOK /\ agenda[Client] # <<>> /\ c.at = Depth /\ c.sig = "onNext" /\ c.arg = p
      /\ Makes(Client, <<d>>) /\ merge' = [merge EXCEPT !.m_remaining = @ + 1] /\ merge \in MergeState
  BY <1>0 DEF SourceNext, On, Arg, MergeInv, TypeInv, TypeOK, MergeState
<1>2. p \in Publishers /\ merge.m_remaining \in Nat
  BY <1>1 DEF MergeState
<1>3. merge'.m_remaining = merge.m_remaining + 1 /\ Present' = Present /\ merge'.m_requested = merge.m_requested
      /\ \A q : Taken(q)' = Taken(q)
  BY <1>1 DEF MergeState, Present, Taken, subscriberVars
<1>4. d \in MergeCalls /\ d.at = p /\ d.sig = "subscribe"
  BY <1>2, NewCall, PlacesNamed, SentNamed, PlacesDiffer
<1> HIDE DEF d
<1>5. /\ Stage(c) = 0 /\ Stage(d) = 0
      /\ \A q \in Publishers : /\ Token(q, c) <=> q = p
                               /\ Token(q, d) <=> q = p
                               /\ Starts(q, d) <=> q = p
  BY <1>1, <1>2, <1>4, PlacesDiffer DEF Stage, Token, Starts
<1>6. <<d>> \in Seq(MergeCalls) /\ ToSet(<<d>>) = {d} /\ Sends(<<d>>)
  BY <1>1, <1>4, SmallSets DEF Sends
<1>7. c \in Under /\ Under = {c} \cup Rest
  BY <1>1, HeadIsUnder
<1> HIDE DEF c
<1>8. Chain("order", Queue)'
  <2>1. \A e : Apart("order", d, e)
    BY <1>5 DEF Apart
  <2> QED BY <1>1, <1>6, <2>1, SingleChain, OrderSends DEF Flow
<1>9. ASSUME NEW q \in Publishers
      PROVE  Account(q)' /\ Handout(q)' /\ (Counts(q)' => Counts(q) \/ q = p)
  <2>1. Marks(q)' = Marks(q)
    <3>1. PICK calls \in Seq(MergeCalls) : calls = <<d>>
      BY <1>6
    <3>2. Sends(calls) /\ (\A e \in ToSet(calls) : ~(Stage(e) > 0)) /\ ~(Stage(Head(agenda[Client])) > 0)
      BY <1>5, <1>6, <3>1 DEF c
    <3> QED BY <1>1, <3>2, MarksKept
  <2>2. Held(q)' <=> Held(q)
    BY <1>1, <1>5, <1>6, <1>7, HeldSends, HeldIs DEF c
  <2>3. Joining(q)' => Joining(q) \/ q = p
    BY <1>1, <1>5, <1>6, <1>7, JoiningSends, JoiningIs DEF c
  <2>4. Account(q) /\ Handout(q)
    BY DEF Flow
  <2> QED BY <1>3, <2>1, <2>2, <2>3, <2>4, AccountStays DEF Counts
<1>10. Counted' \subseteq Counted \cup {p}
  BY <1>9 DEF Counted
<1>11. Cardinality(Counted)' <= merge'.m_remaining
  <2>1. Cardinality(Counted') <= Cardinality(Counted) + 1 /\ Cardinality(Counted) \in Nat /\ Cardinality(Counted') \in Nat
    BY <1>2, <1>10, CountedChanges
  <2>2. Cardinality(Counted) <= merge.m_remaining
    BY DEF Flow
  <2> QED BY <1>2, <1>3, <2>1, <2>2
<1>12. Demand'
  BY <1>1, <1>3, <1>6, DemandStays DEF c
<1> QED BY <1>8, <1>9, <1>11, <1>12 DEF Flow

LEMMA AddsFlow ==
  ASSUME MergeInv, Always, Flow, NEW p \in Publishers, Adds(Client, p),
         UNCHANGED <<subscriberVars, input, inner>>
  PROVE  Flow'
<1> DEFINE c == Head(agenda[Client])
           d == Call(Depth, "tryRequest", 0)
<1>1. TypeInv /\ CallsTypeOK /\ agenda[Client] # <<>> /\ c.at = p /\ c.sig = "add"
      /\ Makes(Client, <<d>>) /\ merge' = [merge EXCEPT !.m_subscriptions = Append(@, p)] /\ merge \in MergeState
  BY DEF Adds, On, MergeInv, TypeInv, TypeOK, MergeState
<1>2. merge'.m_remaining = merge.m_remaining /\ Present' = Present \cup {p} /\ \A q : Taken(q)' = Taken(q)
  <2>1. merge'.m_subscriptions = Append(merge.m_subscriptions, p) /\ merge.m_subscriptions \in Seq(Publishers)
        /\ merge'.m_remaining = merge.m_remaining
    BY <1>1 DEF MergeState
  <2> QED BY <2>1, AppendSet DEF Present, Taken, subscriberVars
<1>3. d \in MergeCalls /\ d.at = Depth /\ d.sig = "tryRequest"
  BY NewCall, PlacesNamed, SentNamed, PlacesDiffer
<1> HIDE DEF d
<1>4. /\ Stage(c) = 0 /\ Stage(d) = 0
      /\ \A q \in Publishers : ~Token(q, d) /\ ~Starts(q, d) /\ (Token(q, c) <=> q = p)
      /\ Starts(p, c)
  BY <1>1, <1>3, PlacesDiffer DEF Stage, Token, Starts
<1>5. <<d>> \in Seq(MergeCalls) /\ ToSet(<<d>>) = {d} /\ Sends(<<d>>)
  BY <1>1, <1>3, SmallSets DEF Sends
<1>6. c \in Under /\ Under = {c} \cup Rest /\ Under' = {d} \cup Rest
  BY <1>1, <1>5, HeadIsUnder, QueueSends
<1>7. Joins(p)
  BY <1>1, <1>6 DEF Always, Sound, Proper
<1>8. ~Held(p)'
  <2>1. Conserves(c, <<d>>) /\ ~Has(<<d>>, p) /\ Single(p)
    <3>1. \A e \in ToSet(<<d>>), q \in Publishers : ~Token(q, e)
      BY <1>4, <1>5
    <3> QED BY <1>5, <3>1, NoneWithout DEF MergeInv, InTurn
  <2> QED BY <1>1, <1>4, <1>5, <2>1, SendsKeep
<1> HIDE DEF c
<1>9. Chain("order", Queue)'
  <2>1. \A e : Apart("order", d, e)
    BY <1>4 DEF Apart
  <2> QED BY <1>1, <1>5, <2>1, SingleChain, OrderSends DEF Flow
<1>10. ASSUME NEW q \in Publishers \ {p}
       PROVE  Account(q)' /\ Handout(q)' /\ (Counts(q)' => Counts(q))
  <2>1. PICK calls \in Seq(MergeCalls) : calls = <<d>>
    BY <1>5
  <2>2. Sends(calls) /\ \A e \in ToSet(calls) : (Stage(e) > 0 => Of(e) # q) /\ ~Token(q, e) /\ ~Starts(q, e)
    BY <1>4, <1>5, <2>1
  <2>3. (Stage(Head(agenda[Client])) > 0 => Of(Head(agenda[Client])) # q) /\ ~Token(q, Head(agenda[Client]))
    BY <1>4 DEF c
  <2>4. Taken(q)' = Taken(q) /\ inner'[q] = inner[q] /\ (q \in Present' <=> q \in Present)
    BY <1>2
  <2> QED BY <1>1, <2>2, <2>3, <2>4, OthersKeep
<1>11. Account(p)' /\ Handout(p)'
  <2>1. Marks(p)' = Marks(p)
    <3>1. PICK calls \in Seq(MergeCalls) : calls = <<d>>
      BY <1>5
    <3>2. Sends(calls) /\ (\A e \in ToSet(calls) : ~(Stage(e) > 0)) /\ ~(Stage(Head(agenda[Client])) > 0)
      BY <1>4, <1>5, <3>1 DEF c
    <3> QED BY <1>1, <3>2, MarksKept
  <2>2. Pub(p)' = Pub(p) /\ EndOf(p)' = EndOf(p) /\ (Joins(p)' <=> Joins(p)) /\ Taken(p)' = Taken(p)
    BY <1>2 DEF Pub, EndOf, Joins, Gate
  <2>3. Issued(p)' = Issued(p)
    BY <1>7, <2>2 DEF Issued
  <2>4. Account(p) /\ Handout(p)
    BY DEF Flow
  <2>5. Account(p)'
    BY <1>2, <2>1, <2>2, <2>3, <2>4 DEF Account
  <2> QED BY <1>8, <2>2, <2>4, <2>5 DEF Handout
<1>12. Counted' \subseteq Counted
  <2>1. Counts(p)
    BY <1>4, <1>6, JoiningIs DEF Counts
  <2> QED BY <1>10, <2>1 DEF Counted
<1>13. Cardinality(Counted)' <= merge'.m_remaining
  <2>1. Cardinality(Counted') <= Cardinality(Counted)
    BY <1>12, CountedChanges
  <2> QED BY <1>2, <2>1, CountedChanges DEF Flow, TypeInv, TypeOK, MergeInv
<1>14. Demand'
  BY <1>3, <1>6 DEF Demand
<1> QED BY <1>9, <1>10, <1>11, <1>13, <1>14 DEF Flow

(* What the end of a publisher, or of the source, leads to.                *)
LEMMA ConcludesMakes ==
  ASSUME NEW m \in MergeState, Concludes(Client, m)
  PROVE  LET over  == ~m.m_completed /\ m.m_remaining = 0 /\ m.sourceCompleted
             d     == Completion(Depth)
             calls == IF over /\ ~m.m_canceled THEN <<d>> ELSE <<>>
         IN  /\ Makes(Client, calls) /\ calls \in Seq(MergeCalls) /\ ToSet(calls) \subseteq {d}
             /\ d \in MergeCalls /\ d.at = Subscriber /\ d.sig = "onComplete"
             /\ Stage(d) = 0 /\ \A q \in Publishers : ~Token(q, d) /\ ~Starts(q, d)
             /\ merge'.m_subscriptions = m.m_subscriptions /\ merge'.m_remaining = m.m_remaining
             /\ merge'.m_requested = m.m_requested /\ merge'.m_canceled = m.m_canceled
             /\ merge'.sourceCompleted = m.sourceCompleted /\ merge'.scheduler = m.scheduler
             /\ merge'.m_completed = (m.m_completed \/ over)
<1> DEFINE over  == ~m.m_completed /\ m.m_remaining = 0 /\ m.sourceCompleted
           d     == Completion(Depth)
           calls == IF over /\ ~m.m_canceled THEN <<d>> ELSE <<>>
<1>1. merge' = [m EXCEPT !.m_completed = @ \/ over] /\ Makes(Client, calls)
  BY DEF Concludes
<1>2. d \in MergeCalls /\ d.at = Subscriber /\ d.sig = "onComplete"
  BY NewCall, PlacesNamed, SentNamed, PlacesDiffer DEF Completion, Subscriber
<1>3. Stage(d) = 0 /\ \A q \in Publishers : ~Token(q, d) /\ ~Starts(q, d)
  <2> HIDE DEF d
  <2> QED BY <1>2, PlacesDiffer DEF Stage, Token, Starts
<1>4. calls \in Seq(MergeCalls) /\ ToSet(calls) \subseteq {d}
  <2> HIDE DEF d
  <2>1. <<d>> \in Seq(MergeCalls) /\ <<>> \in Seq(MergeCalls) /\ ToSet(<<d>>) = {d} /\ ToSet(<<>>) = {}
    BY <1>2, SmallSets
  <2> QED BY <2>1
<1> HIDE DEF d, calls, over
<1>5. /\ merge'.m_subscriptions = m.m_subscriptions /\ merge'.m_remaining = m.m_remaining
      /\ merge'.m_requested = m.m_requested /\ merge'.m_canceled = m.m_canceled
      /\ merge'.sourceCompleted = m.sourceCompleted /\ merge'.scheduler = m.scheduler
      /\ merge'.m_completed = (m.m_completed \/ over)
  BY <1>1 DEF MergeState
<1> QED BY <1>1, <1>2, <1>3, <1>4, <1>5 DEF calls, d, over

LEMMA ConcludesQuietly ==
  ASSUME NEW m \in MergeState, Concludes(Client, m)
  PROVE  \E calls \in Seq(MergeCalls) :
           Makes(Client, calls) /\ \A d \in ToSet(calls) :
             Stage(d) = 0 /\ \A q \in Publishers : ~Token(q, d) /\ ~Starts(q, d)
<1> DEFINE d     == Completion(Depth)
           calls == IF (~m.m_completed /\ m.m_remaining = 0 /\ m.sourceCompleted) /\ ~m.m_canceled
                    THEN <<d>> ELSE <<>>
<1>1. /\ Makes(Client, calls) /\ calls \in Seq(MergeCalls) /\ ToSet(calls) \subseteq {d}
      /\ Stage(d) = 0 /\ \A q \in Publishers : ~Token(q, d) /\ ~Starts(q, d)
  BY ConcludesMakes
<1> HIDE DEF d, calls
<1> QED BY <1>1

LEMMA SourceCompleteFlow ==
  ASSUME MergeInv, Always, Flow, SourceComplete(Client), UNCHANGED <<subscriberVars, input, inner>>
  PROVE  Flow'
<1> DEFINE c == Head(agenda[Client])
           m == [merge EXCEPT !.sourceCompleted = TRUE]
<1>1. TypeInv /\ CallsTypeOK /\ agenda[Client] # <<>> /\ c.at = Depth /\ c.sig = "onComplete"
      /\ Concludes(Client, m) /\ merge \in MergeState
  BY DEF SourceComplete, On, MergeInv, TypeInv, TypeOK, MergeState
<1>2. /\ m \in MergeState /\ m.m_subscriptions = merge.m_subscriptions /\ m.m_remaining = merge.m_remaining
      /\ m.m_requested = merge.m_requested
  BY <1>1 DEF MergeState
<1> HIDE DEF m
<1>3. /\ merge'.m_subscriptions = m.m_subscriptions /\ merge'.m_remaining = m.m_remaining
      /\ merge'.m_requested = m.m_requested
  BY <1>1, <1>2, ConcludesMakes
<1>4. \E calls \in Seq(MergeCalls) :
        Makes(Client, calls) /\ \A d \in ToSet(calls) :
          Stage(d) = 0 /\ \A q \in Publishers : ~Token(q, d) /\ ~Starts(q, d)
  BY <1>1, <1>2, ConcludesQuietly
<1>5. PICK calls \in Seq(MergeCalls) :
        Makes(Client, calls) /\ \A d \in ToSet(calls) :
          Stage(d) = 0 /\ \A q \in Publishers : ~Token(q, d) /\ ~Starts(q, d)
  BY <1>4
<1>6. Stage(c) = 0 /\ \A q \in Publishers : ~Token(q, c)
  BY <1>1, PlacesDiffer DEF Stage, Token
<1>7. Present' = Present /\ Sends(calls) /\ log'.values = log.values
  BY <1>2, <1>3, <1>5 DEF Present, Sends, subscriberVars
<1>8. Demand'
  BY <1>1, <1>2, <1>3, <1>7, DemandStays
<1> QED BY <1>1, <1>2, <1>3, <1>5, <1>6, <1>7, <1>8, FlowCalls

(* A publisher completes: all its values are with the subscriber.          *)
LEMMA OnPublisherCompleteFlow ==
  ASSUME MergeInv, Always, Flow, NEW p \in Publishers, OnPublisherComplete(Client, p),
         UNCHANGED <<subscriberVars, input, inner>>
  PROVE  Flow'
<1> DEFINE c == Head(agenda[Client])
           m == Removed(p)
           size == Pub(p).size
<1>1. /\ TypeInv /\ CallsTypeOK /\ agenda[Client] # <<>> /\ c.at = p /\ c.sig = "onPublisherComplete"
      /\ Concludes(Client, m) /\ merge \in MergeState /\ size \in Nat
  <2>1. TypeInv /\ Pub(p) \in Published
    BY PublisherIsTyped DEF MergeInv, TypeInv
  <2> QED BY <2>1 DEF OnPublisherComplete, On, MergeInv, TypeInv, TypeOK, MergeState, Published
<1>2. /\ m \in MergeState /\ ToSet(m.m_subscriptions) = Present \ {p} /\ m.m_requested = merge.m_requested
      /\ m.m_remaining = IF merge.m_remaining > 0 THEN merge.m_remaining - 1 ELSE 0
  BY RemovedState
<1> HIDE DEF m
<1>3. /\ Present' = Present \ {p} /\ merge'.m_requested = merge.m_requested
      /\ merge'.m_remaining = IF merge.m_remaining > 0 THEN merge.m_remaining - 1 ELSE 0
  <2>1. /\ merge'.m_subscriptions = m.m_subscriptions /\ merge'.m_remaining = m.m_remaining
        /\ merge'.m_requested = m.m_requested
    BY <1>1, <1>2, ConcludesMakes
  <2> QED BY <1>2, <2>1 DEF Present
<1>4. \E calls \in Seq(MergeCalls) :
        Makes(Client, calls) /\ \A d \in ToSet(calls) :
          Stage(d) = 0 /\ \A q \in Publishers : ~Token(q, d) /\ ~Starts(q, d)
  BY <1>1, <1>2, ConcludesQuietly
<1>5. PICK calls \in Seq(MergeCalls) :
        Makes(Client, calls) /\ \A d \in ToSet(calls) :
          Stage(d) = 0 /\ \A q \in Publishers : ~Token(q, d) /\ ~Starts(q, d)
  BY <1>4
<1>6. /\ Stage(c) = 2 /\ Of(c) = p /\ Ordinal(c) = size + 1 /\ Outcome(c) = "onComplete"
      /\ \A q \in Publishers : ~Token(q, c) /\ ~Starts(q, c)
  BY <1>1, PlacesDiffer DEF Stage, Of, Ordinal, IsValue, Outcome, Failures, Token, Starts
<1>7. Sends(calls) /\ c \in Under /\ Under = {c} \cup Rest
  BY <1>1, <1>5, HeadIsUnder DEF Sends
<1>8. /\ Mark(c) \in Marks(p) /\ Mark(c).ordinal = size + 1 /\ Mark(c).outcome = "onComplete"
      /\ Taken(p) \in Nat /\ Account(p) /\ Handout(p)
  <2>1. Mark(c) \in Marks(p)
    BY <1>6, <1>7 DEF Marks, Signals
  <2>2. Taken(p) \in Nat
    BY <1>1, TakenIsNat DEF TypeInv, TypeOK, SubscriberTypeOK
  <2> QED BY <1>6, <2>1, <2>2 DEF Mark, Flow
<1>9. size + 1 <= Issued(p) /\ EndOf(p) = "onComplete" /\ Taken(p) <= size
  BY <1>8 DEF Account
<1>10. ~Held(p) /\ Issued(p) \in Nat
  <2>1. ~Held(p)
    BY <1>1, <1>8, HeldIsFresh
  <2>2. Issued(p) \in Nat
    BY <1>1, <2>1 DEF Issued, TypeInv, TypeOK
  <2> QED BY <2>1, <2>2
<1>11. \A e \in Rest : ~(Stage(e) > 0 /\ Of(e) = p)
  <2> SUFFICES ASSUME NEW e \in Rest, Stage(e) > 0, Of(e) = p PROVE FALSE
    OBVIOUS
  <2>1. Mark(e) \in Marks(p) /\ Mark(e).ordinal = Ordinal(e) /\ Ordinal(e) \in Nat /\ e \in Under
    <3>1. e \in Under
      BY <1>7
    <3> QED BY <1>1, <3>1, MarkIsTyped DEF Marks, Signals
  <2>2. Ordinal(e) <= size + 1
    <3>1. IF Mark(e).outcome = "value" THEN Ordinal(e) <= size ELSE Ordinal(e) = size + 1
      BY <1>8, <2>1 DEF Account
    <3> QED BY <1>1, <2>1, <3>1
  <2>3. ~Urgent(e) /\ Apart("order", c, e)
    BY <1>1, RestIsNotUrgent, HeadIsApart DEF Always, Flow
  <2>4. Stage(e) \in {1, 2}
    BY <2>3 DEF Urgent, Stage
  <2>5. size + 1 < Ordinal(e)
    BY <1>6, <2>3, <2>4 DEF Apart
  <2> HIDE DEF size
  <2> QED BY <1>1, <2>1, <2>2, <2>5
<1>12. Marks(p) = {Mark(c)} /\ Marks(p)' = {}
  <2>1. Signals(p) = {c}
    BY <1>6, <1>7, <1>11 DEF Signals
  <2>2. Marks(p)' = {Mark(d) : d \in {e \in ToSet(calls) \cup Rest : Stage(e) > 0 /\ Of(e) = p}}
    BY <1>1, <1>7, MarksSends
  <2>3. {e \in ToSet(calls) \cup Rest : Stage(e) > 0 /\ Of(e) = p} = {}
    BY <1>5, <1>11
  <2> QED BY <2>1, <2>2, <2>3 DEF Marks
<1> HIDE DEF c
<1>13. Taken(p) = size
  <2> SUFFICES ASSUME Taken(p) # size PROVE FALSE
    OBVIOUS
  <2>1. Taken(p) + 1 \in Taken(p) + 1 .. Issued(p) /\ Taken(p) + 1 <= size
    BY <1>1, <1>8, <1>9, <1>10
  <2>2. PICK k \in Marks(p) : k.ordinal = Taken(p) + 1
    BY <1>8, <2>1 DEF Account
  <2> QED BY <1>1, <1>8, <1>12, <2>1, <2>2
<1>14. /\ Pub(p)' = Pub(p) /\ EndOf(p)' = EndOf(p) /\ (Joins(p)' <=> Joins(p)) /\ (Gate(p)' <=> Gate(p))
       /\ \A q : Taken(q)' = Taken(q)
       /\ ~Held(p)' /\ inner' = inner
  <2>1. ~Held(p)'
    BY <1>1, <1>5, <1>7, <1>10, HeldSends, HeldIs
  <2> QED BY <2>1 DEF Pub, EndOf, Joins, Gate, Taken, subscriberVars
<1>15. Issued(p)' = Issued(p)
  BY <1>10, <1>14 DEF Issued
<1>16. Account(p)' /\ Handout(p)'
  <2>1. Over(p)'
    BY <1>9, <1>13, <1>14 DEF Over
  <2>2. \A o \in size + 1 .. Issued(p) : ~(o <= size)
    BY <1>1, <1>10
  <2>3. size <= Issued(p) /\ size <= size
    BY <1>1, <1>9, <1>10
  <2>4. Account(p)'
    BY <1>12, <1>13, <1>14, <1>15, <2>1, <2>2, <2>3 DEF Account
  <2>5. Handout(p)'
    BY <1>8, <1>14 DEF Handout
  <2> QED BY <2>4, <2>5
<1>17. ~Counts(p)' /\ Counts(p)
  <2>1. Joining(p)' => Joining(p)
    BY <1>1, <1>5, <1>6, <1>7, JoiningSends, JoiningIs
  <2>2. ~Joining(p)
    <3>1. \A d : Starts(p, d) => Token(p, d)
      BY DEF Starts, Token
    <3> QED BY <1>10, <3>1, HeldIs, JoiningIs
  <2>3. ~EndOut(p)' /\ ~Silent(p)' /\ EndOut(p)
    BY <1>8, <1>9, <1>12, <1>14 DEF EndOut, Silent
  <2> QED BY <1>3, <2>1, <2>2, <2>3 DEF Counts
<1>18. ASSUME NEW q \in Publishers \ {p}
       PROVE  Account(q)' /\ Handout(q)' /\ (Counts(q)' => Counts(q))
  BY <1>1, <1>3, <1>5, <1>6, <1>7, <1>14, OthersKeep DEF c
<1>19. Counted' \subseteq Counted \ {p} /\ p \in Counted
  BY <1>17, <1>18 DEF Counted
<1>20. Cardinality(Counted)' <= merge'.m_remaining
  <2>1. /\ Cardinality(Counted') <= Cardinality(Counted) - 1 /\ Cardinality(Counted) > 0
        /\ Cardinality(Counted) \in Nat /\ Cardinality(Counted') \in Nat
    BY <1>19, CountedChanges
  <2>2. Cardinality(Counted) <= merge.m_remaining /\ merge.m_remaining \in Nat
    BY <1>1 DEF Flow, MergeState
  <2>3. Cardinality(Counted)' = Cardinality(Counted')
    OBVIOUS
  <2> QED BY <1>3, <2>1, <2>2, <2>3
<1>21. Chain("order", Queue)'
  <2>1. \A d \in ToSet(calls) : \A e : Apart("order", d, e) /\ Apart("order", e, d)
    BY <1>5 DEF Apart
  <2>2. Chain("order", calls)
    <3>1. \A k \in DOMAIN calls : calls[k] \in ToSet(calls)
      BY DEF ToSet
    <3> QED BY <2>1, <3>1 DEF Chain
  <2> QED BY <1>1, <1>5, <2>1, <2>2, OrderSends DEF Flow
<1>22. Demand'
  <2>1. Present' \subseteq Present
    BY <1>3
  <2> QED BY <1>1, <1>3, <1>7, <2>1, DemandStays, PlacesDiffer DEF c
<1> QED BY <1>16, <1>18, <1>20, <1>21, <1>22 DEF Flow

---------------------------------------------------------------------------
(* ... and those that do not.                                              *)
LEMMA ReceivesFlow ==
  ASSUME MergeInv, Always, Flow, NEW p \in Publishers, Receives(Client, p),
         UNCHANGED <<subscriberVars, input, inner>>
  PROVE  Flow'
<1> DEFINE c == Head(agenda[Client])
<1>1. PICK sig \in DOMAIN Handlers :
             /\ On(Client, p, sig)
             /\ Leaves(Client, merge.scheduler, <<Call(p, Handlers[sig], Arg(Client))>>)
  BY DEF Receives
<1> DEFINE d == Call(p, Handlers[sig], Arg(Client))
<1>2. TypeInv /\ CallsTypeOK /\ agenda[Client] # <<>> /\ c.at = p /\ c.sig = sig /\ c.arg = Arg(Client)
      /\ Arg(Client) \in Nat
  BY <1>1, HeadIsTyped DEF On, MergeInv, TypeInv, Arg
<1>3. UNCHANGED <<input, inner, log, merge>> /\ Present' = Present
  BY DEF Receives, subscriberVars, Present
<1>4. /\ sig \in {"onSubscribe", "onNext", "onComplete", "onError"}
      /\ Handlers[sig] = CASE sig = "onSubscribe" -> "add" [] sig = "onNext" -> "onPublisherNextValue"
                           [] sig = "onComplete" -> "onPublisherComplete" [] sig = "onError" -> "onPublisherError"
  BY DEF Handlers
<1>5. d \in MergeCalls /\ d.at = p /\ d.sig = Handlers[sig] /\ d.arg = c.arg
  BY <1>2, <1>4, NewCall, PlacesNamed, SentNamed, PlacesDiffer
<1>6. Sends(<<d>>) /\ ((Makes(Client, <<d>>) /\ ~merge.scheduler) \/ Leaves(Client, TRUE, <<d>>))
  BY <1>1, LeavesSends DEF Leaves
<1> HIDE DEF d
<1>7. <<d>> \in Seq(MergeCalls)
  BY <1>5
<1>8. Demand'
  BY <1>2, <1>3, <1>6, <1>7, DemandStays, PlacesDiffer
<1> HIDE DEF c
<1>9. CASE sig = "onSubscribe"
  <2>1. /\ Stage(c) = 0 /\ Stage(d) = 0
        /\ \A q \in Publishers : (Token(q, d) <=> Token(q, c)) /\ (Starts(q, d) => Starts(q, c))
    BY <1>2, <1>4, <1>5, <1>9, PlacesDiffer DEF Stage, Token, Starts
  <2> QED BY <1>2, <1>3, <1>5, <1>6, <1>8, <2>1, FlowOne DEF c
<1>10. CASE sig # "onSubscribe"
  <2>1. \A q \in Publishers : ~Token(q, d) /\ ~Token(q, c) /\ ~Starts(q, d)
    BY <1>2, <1>4, <1>5, <1>10, PlacesDiffer DEF Token, Starts
  <2>2. Stage(c) = 1 /\ Stage(d) = 2 /\ Of(d) = Of(c) /\ c.at # Depth
    BY <1>2, <1>4, <1>5, <1>10, PlacesDiffer DEF Stage, Of
  <2>3. Mark(d) = Mark(c)
    BY <1>2, <1>4, <1>5, <1>10 DEF Mark, Ordinal, Outcome, IsValue, Failures
  <2>4. 1 + 1 = 2 /\ Stage(c) \in {1, 2} /\ Stage(d) = Stage(c) + 1
    BY <2>2
  <2> QED BY <1>2, <1>3, <1>5, <1>6, <2>1, <2>2, <2>3, <2>4, FlowMoves DEF c
<1> QED BY <1>9, <1>10

LEMMA OnPublisherNextValueFlow ==
  ASSUME MergeInv, Always, Flow, ~merge.m_canceled, NEW p \in Publishers,
         OnPublisherNextValue(Client, p), UNCHANGED <<subscriberVars, input, inner>>
  PROVE  Flow'
<1> DEFINE c == Head(agenda[Client])
<1>0. PICK v \in Nat : v = c.arg
  BY HeadIsTyped DEF OnPublisherNextValue, On, Arg, MergeInv, TypeInv
<1> DEFINE d == Value(Depth, v)
<1>1. /\ TypeInv /\ CallsTypeOK /\ agenda[Client] # <<>> /\ c.at = p /\ c.sig = "onPublisherNextValue"
      /\ UNCHANGED <<input, inner, log, merge>> /\ Makes(Client, <<d>>)
  BY <1>0 DEF OnPublisherNextValue, On, Arg, MergeInv, TypeInv, subscriberVars
<1>2. Sound(c) /\ c.arg \in Nat
  BY <1>1, HeadIsSound, HeadIsTyped DEF Arg
<1>3. d \in MergeCalls /\ d.at = Subscriber /\ d.sig = "onNext" /\ d.arg = c.arg
  <2>1. d = Call(Subscriber, "onNext", v)
    BY DEF Value, Subscriber
  <2>2. /\ Call(Subscriber, "onNext", v) \in MergeCalls /\ Call(Subscriber, "onNext", v).at = Subscriber
        /\ Call(Subscriber, "onNext", v).sig = "onNext" /\ Call(Subscriber, "onNext", v).arg = v
    <3>1. PICK i \in Places : i = Subscriber /\ i # Depth
      BY PlacesDiffer, PlacesNamed
    <3>2. PICK sig \in Sent : sig = "onNext"
      BY DEF Sent
    <3>3. /\ Call(i, sig, v) \in MergeCalls
          /\ Call(i, sig, v).at = i /\ Call(i, sig, v).sig = sig /\ Call(i, sig, v).arg = v
      BY <3>1, NewCall
    <3> QED BY <3>1, <3>2, <3>3
  <2> HIDE DEF d
  <2> QED BY <1>0, <2>1, <2>2
<1> HIDE DEF d, c
<1>4. Stage(c) = 2 /\ Stage(d) = 3 /\ IsValue(c) /\ IsValue(d) /\ c.at # Depth /\ Of(c) = p
  BY <1>1, <1>3, PlacesDiffer DEF Stage, IsValue, Of
<1>5. PICK q \in Publishers, k \in Nat : c.arg = Element(q, k) /\ Of(c) = q
  BY <1>2, <1>4 DEF Sound, Proper
<1>6. Of(d) = Of(c)
  BY <1>3, <1>5, OriginOfElement DEF Of
<1>7. Mark(d) = Mark(c)
  BY <1>3, <1>4 DEF Mark, Ordinal, Outcome
<1>8. \A r \in Publishers : ~Token(r, d) /\ ~Token(r, c) /\ ~Starts(r, d)
  BY <1>1, <1>3, PlacesDiffer DEF Token, Starts
<1>9. 2 + 1 = 3 /\ Stage(c) \in {1, 2} /\ Stage(d) = Stage(c) + 1
  BY <1>4
<1> QED BY <1>1, <1>3, <1>4, <1>6, <1>7, <1>8, <1>9, FlowMoves DEF c

LEMMA HandlesFlow ==
  ASSUME MergeInv, Always, Flow, ~merge.m_canceled, ~merge'.m_canceled, Handles(Client),
         UNCHANGED <<subscriberVars, input, inner>>
  PROVE  Flow'
<1> DEFINE c == Head(agenda[Client])
<1>1. TypeInv /\ CallsTypeOK /\ merge \in MergeState
  BY DEF MergeInv, TypeInv, TypeOK, MergeState
<1>2. log'.values = log.values
  BY DEF subscriberVars
<1>3. ASSUME NEW m \in MergeState, NEW more, Cancels(Client, m, more) PROVE FALSE
  BY <1>3 DEF Cancels, MergeState
<1>4. ~SourceError(Client) /\ ~MergeCancel(Client) /\ \A p \in Publishers : ~OnPublisherError(Client, p)
  BY <1>1, <1>3, RemovedState DEF SourceError, MergeCancel, OnPublisherError
<1>5. CASE Subscribed(Client)
  <2> DEFINE d == Call(0, "subscribe", 0)
             e == Subscription(Depth)
             calls == <<d, e>>
  <2>1. d \in MergeCalls /\ d.at = 0 /\ d.sig = "subscribe"
    BY NewCall, PlacesNamed, SentNamed, PlacesDiffer
  <2>2. e \in MergeCalls /\ e.at = Subscriber /\ e.sig = "onSubscribe"
    BY NewCall, PlacesNamed, SentNamed, PlacesDiffer DEF Subscription, Subscriber
  <2>3. /\ agenda[Client] # <<>> /\ c.at = Depth /\ c.sig = "subscribe" /\ merge' = merge
        /\ Present' = Present /\ Makes(Client, calls)
    BY <1>5 DEF Subscribed, On, Present
  <2> HIDE DEF d, e, c
  <2>4. calls \in Seq(MergeCalls) /\ ToSet(calls) = {d, e} /\ Sends(calls)
    BY <2>1, <2>2, <2>3, PairChain, SmallSets DEF Sends
  <2>5. /\ Stage(c) = 0 /\ Stage(d) = 0 /\ Stage(e) = 0
        /\ \A p \in Publishers : Token(p, c) /\ Token(p, d) /\ ~Token(p, e) /\ ~Starts(p, d) /\ ~Starts(p, e)
    BY <2>1, <2>2, <2>3, PlacesDiffer DEF Stage, Token, Starts
  <2> HIDE DEF calls
  <2>6. Demand'
    BY <1>1, <2>3, <2>4, DemandStays DEF c
  <2> QED BY <1>1, <1>2, <2>3, <2>4, <2>5, <2>6, FlowCalls DEF c
<1>6. CASE MergeRequest(Client)
  <2> DEFINE d == Call(Depth, "tryRequest", 0)
  <2>1. agenda[Client] # <<>> /\ Makes(Client, <<d>>) /\ c.at = Depth /\ c.sig = "request"
        /\ \E n : merge' = [merge EXCEPT !.m_requested = n]
    BY <1>6 DEF MergeRequest, On
  <2>2. merge'.m_remaining = merge.m_remaining /\ Present' = Present
    BY <1>1, <2>1 DEF MergeState, Present
  <2>3. d \in MergeCalls /\ d.at = Depth /\ d.sig = "tryRequest"
    BY NewCall, PlacesNamed, SentNamed, PlacesDiffer
  <2> HIDE DEF d
  <2>4. <<d>> \in Seq(MergeCalls) /\ ToSet(<<d>>) = {d} /\ Sends(<<d>>)
    BY <2>1, <2>3, SmallSets DEF Sends
  <2>5. /\ Stage(c) = 0 /\ Stage(d) = 0
        /\ \A p \in Publishers : ~Token(p, c) /\ ~Token(p, d) /\ ~Starts(p, d)
    BY <2>1, <2>3, PlacesDiffer DEF Stage, Token, Starts
  <2>6. Demand'
    <3>1. d \in Under'
      BY <1>1, <2>1, <2>4, QueueSends
    <3> QED BY <2>3, <3>1 DEF Demand
  <2> QED BY <1>1, <1>2, <2>1, <2>2, <2>3, <2>4, <2>5, <2>6, FlowOne
<1> QED BY <1>1, <1>4, <1>5, <1>6, SourceNextFlow, SourceCompleteFlow, ReceivesFlow, AddsFlow,
           OnPublisherNextValueFlow, OnPublisherCompleteFlow DEF Handles

LEMMA TurnsFlow ==
  ASSUME MergeInv, Always, Flow, ~merge.m_canceled, GivesTurn(Client) \/ StopsTurns(Client),
         UNCHANGED <<subscriberVars, input, inner>>
  PROVE  Flow'
<1> DEFINE c == Head(agenda[Client])
<1>1. /\ TypeInv /\ Walkable(merge) /\ CallsTypeOK /\ merge \in MergeState /\ agenda[Client] # <<>>
      /\ c.at = Depth /\ c.sig = "tryRequest" /\ log'.values = log.values
  BY DEF MergeInv, TypeInv, TypeOK, MergeState, GivesTurn, StopsTurns, On, subscriberVars
<1>2. Stage(c) = 0 /\ \A p \in Publishers : ~Token(p, c)
  BY <1>1, PlacesDiffer DEF Stage, Token
<1>3. CASE GivesTurn(Client)
  <2> DEFINE q == merge.m_subscriptions[merge.m_currentIndex + 1]
             d == Call(q, "request", 1)
             e == Call(Depth, "tryRequest", 0)
             calls == <<d, e>>
  <2>1. q \in Publishers /\ Present' = Present /\ merge'.m_remaining = merge.m_remaining
    <3>1. q \in Publishers /\ merge'.m_subscriptions = merge.m_subscriptions
      BY <1>1, <1>3, TurnsList
    <3>2. \E n, i : merge' = [merge EXCEPT !.m_requested = n, !.m_currentIndex = i]
      BY <1>3 DEF GivesTurn
    <3> QED BY <1>1, <3>1, <3>2 DEF Present, MergeState
  <2>2. Makes(Client, calls)
    BY <1>3 DEF GivesTurn
  <2> HIDE DEF q
  <2>3. d \in MergeCalls /\ d.at = q /\ d.sig = "request"
    BY <2>1, NewCall, PlacesNamed, SentNamed, PlacesDiffer
  <2>4. e \in MergeCalls /\ e.at = Depth /\ e.sig = "tryRequest"
    BY NewCall, PlacesNamed, SentNamed, PlacesDiffer
  <2> HIDE DEF d, e
  <2>5. calls \in Seq(MergeCalls) /\ ToSet(calls) = {d, e} /\ Sends(calls)
    BY <2>2, <2>3, <2>4, PairChain, SmallSets DEF Sends
  <2>6. /\ Stage(d) = 0 /\ Stage(e) = 0
        /\ \A p \in Publishers : ~Token(p, d) /\ ~Token(p, e) /\ ~Starts(p, d) /\ ~Starts(p, e)
    BY <2>1, <2>3, <2>4, PlacesDiffer DEF Stage, Token, Starts
  <2> HIDE DEF calls
  <2>7. Demand'
    <3>1. e \in Under'
      BY <1>1, <2>5, QueueSends
    <3> QED BY <2>4, <3>1 DEF Demand
  <2> QED BY <1>1, <1>2, <2>1, <2>5, <2>6, <2>7, FlowCalls
<1>4. CASE StopsTurns(Client)
  <2>1. merge' = merge /\ Present' = Present /\ Makes(Client, <<>>) /\ Stuck
    BY <1>4 DEF StopsTurns, Present
  <2>2. Sends(<<>>)
    BY <2>1 DEF Sends
  <2>3. merge.m_remaining = 0 => Present = {}
    <3> SUFFICES ASSUME merge.m_remaining = 0, NEW p \in Present PROVE FALSE
      OBVIOUS
    <3>1. IsFiniteSet(Counted) /\ Cardinality(Counted) \in Nat
      <4>1. Counted \subseteq Publishers
        BY DEF Counted
      <4> QED BY <4>1, PublishersFinite
    <3>2. Cardinality(Counted) = 0
      BY <3>1 DEF Flow
    <3>3. Counted = {}
      BY <3>1, <3>2, FS_EmptySet
    <3>4. p \in Publishers
      <4>1. merge.m_subscriptions \in Seq(Publishers)
        BY <1>1 DEF MergeState
      <4> QED BY <4>1, ElementOfSeq, LenProperties DEF Present, ToSet
    <3> QED BY <3>3, <3>4 DEF Counted, Counts
  <2>4. merge.m_subscriptions = <<>> => Present = {}
    BY SmallSets DEF Present
  <2>5. Demand'
    BY <1>1, <2>1, <2>3, <2>4 DEF Demand, Stuck, MergeState
  <2> QED BY <1>1, <1>2, <2>1, <2>2, <2>5, FlowNone
<1> QED BY <1>3, <1>4

---------------------------------------------------------------------------
(* The subscriber, and the steps that are no handler's.                    *)
LEMMA UserCallsAreQuiet ==
  ASSUME NEW calls \in Seq(UserSent)
  PROVE  /\ calls \in Seq(MergeCalls)
         /\ \A d \in ToSet(calls) : d \in UserSent
         /\ \A d \in UserSent : Stage(d) = 0 /\ \A q \in Publishers : ~Token(q, d) /\ ~Starts(q, d)
<1>1. UserSent \subseteq MergeCalls
  BY UserSentIsPlain DEF Plain
<1>2. calls \in Seq(MergeCalls) /\ \A d \in ToSet(calls) : d \in UserSent
  BY <1>1, ElementOfSeq, LenProperties DEF ToSet
<1>3. ASSUME NEW d \in UserSent
      PROVE  Stage(d) = 0 /\ \A q \in Publishers : ~Token(q, d) /\ ~Starts(q, d)
  <2>1. Stage(d) = 0
    BY UserSentIsSound
  <2>2. \A q \in Publishers : ~Token(q, d)
    BY UserSentIsPlain, PlainIsNoToken
  <2>3. \A q : Starts(q, d) => Token(q, d)
    BY DEF Starts, Token
  <2> QED BY <2>1, <2>2, <2>3
<1> QED BY <1>2, <1>3

LEMMA UserMakesNoChain ==
  ASSUME NEW calls \in Seq(UserSent)
  PROVE  Chain("order", calls) /\ \A d \in ToSet(calls) : \A e : Apart("order", d, e) /\ Apart("order", e, d)
<1>1. \A d \in ToSet(calls) : \A e : Apart("order", d, e) /\ Apart("order", e, d)
  BY UserCallsAreQuiet DEF Apart
<1>2. \A k \in DOMAIN calls : calls[k] \in ToSet(calls)
  BY DEF ToSet
<1> QED BY <1>1, <1>2 DEF Chain

LEMMA UnderIsTyped ==
  ASSUME CallsTypeOK, NEW c \in Under
  PROVE  c \in MergeCalls /\ c.at \in Places
<1>1. agenda[Client] \in Seq(MergeCalls) /\ Waiting \in Seq(MergeCalls)
  BY WaitingIsTyped DEF CallsTypeOK
<1>2. c \in MergeCalls
  BY <1>1, ElementOfSeq, LenProperties DEF Under, ToSet
<1>3. c.at \in 0 .. Subscriber
  BY <1>2 DEF MergeCalls, Calls
<1> QED BY <1>2, <1>3, DepthIsNat DEF Places, Subscriber, Publishers

(* A merge that has completed has given all there is, and nothing is left  *)
(* to run that matters.                                                    *)
LEMMA CompletedIsTame ==
  ASSUME TypeInv, Always, Flow, ~merge.m_canceled, merge.m_completed
  PROVE  /\ Present = {} /\ input.end = "onComplete"
         /\ \A p \in Publishers : Over(p)
         /\ \A c \in Under : Tame(c)
<1>1. merge.sourceCompleted /\ merge.m_remaining = 0 /\ input.end = "onComplete"
  BY DEF Always
<1>2. \A c \in Under : Sound(c) /\ ~SourceCall(c) /\ ~(c.at = Depth /\ c.sig = "onNext")
  BY <1>1 DEF Always, Sound
<1>3. \A p \in Publishers : ~Counts(p)
  <2>1. IsFiniteSet(Counted) /\ Cardinality(Counted) \in Nat
    BY PublishersFinite DEF Counted
  <2>2. Cardinality(Counted) = 0
    BY <1>1, <2>1 DEF Flow
  <2>3. Counted = {}
    BY <2>1, <2>2, FS_EmptySet
  <2> QED BY <2>3 DEF Counted
<1>4. Present = {}
  <2>1. \A p \in Present : p \in Publishers
    <3>1. merge.m_subscriptions \in Seq(Publishers)
      BY DEF TypeInv, TypeOK
    <3> QED BY <3>1, ElementOfSeq, LenProperties DEF Present, ToSet
  <2> QED BY <1>3, <2>1 DEF Counts
<1>5. ASSUME NEW p \in Publishers
      PROVE  Over(p)
  <2>1. Account(p)
    BY DEF Flow
  <2>2. ~Held(p)
    <3> SUFFICES ASSUME NEW c \in Under, Token(p, c) PROVE FALSE
      BY HeldIs
    <3>1. Starts(p, c)
      BY <1>2 DEF Token, SourceCall, Starts
    <3>2. Joining(p)
      BY <3>1, JoiningIs
    <3> QED BY <1>3, <3>2 DEF Counts
  <2> QED BY <1>3, <1>4, <2>1, <2>2 DEF Account, Counts
<1>6. ASSUME NEW c \in Under
      PROVE  Tame(c)
  <2>1. c.at \in Places
    BY UnderIsTyped DEF TypeInv
  <2>2. Known(c) /\ Sound(c)
    BY <1>2 DEF Sound, Proper
  <2>3. c.at # 0 /\ (c.at = Depth => Tame(c))
    BY <1>2, <2>2 DEF SourceCall, Known, Tame
  <2>4. Stage(c) = 0
    <3> SUFFICES ASSUME Stage(c) > 0 PROVE FALSE
      BY DEF Stage
    <3>1. PICK p \in Publishers : p = Of(c)
      BY MarkIsTyped
    <3>2. Ordinal(c) \in Nat /\ Mark(c).ordinal = Ordinal(c) /\ Mark(c) \in Marks(p)
      BY <3>1, MarkIsTyped DEF Marks, Signals
    <3>3. Mark(c).outcome = "value"
      BY <1>3, <3>1, <3>2 DEF Counts, EndOut
    <3>4. PICK size \in Nat : size = Pub(p).size
      BY PublisherIsTyped DEF Published, TypeInv
    <3>5. Taken(p) < Ordinal(c) /\ Ordinal(c) <= size
      BY <3>2, <3>3, <3>4 DEF Flow, Account
    <3>6. Taken(p) = size
      BY <1>5, <3>4 DEF Over
    <3> QED BY <3>2, <3>5, <3>6
  <2>5. CASE c.at = Subscriber
    <3>1. c.sig # "onError" /\ c.sig # "onNext"
      BY <2>2, <2>4, <2>5, PlacesDiffer DEF Sound, Stage
    <3> QED BY <2>2, <2>5, <3>1, PlacesDiffer DEF Known, Tame
  <2>6. CASE c.at \in Publishers
    <3>1. c.sig \notin {"subscribe", "onSubscribe", "add"}
      <4>1. Starts(c.at, c) => Counts(c.at)
        BY JoiningIs DEF Counts
      <4> QED BY <1>3, <2>6, <4>1 DEF Starts
    <3>2. c.sig \notin {"cancel", "request"}
      BY <1>4, <2>2, <2>6 DEF Sound
    <3> QED BY <2>2, <2>4, <2>6, <3>1, <3>2 DEF Known, Stage
  <2> QED BY <2>1, <2>3, <2>5, <2>6 DEF Places
<1> QED BY <1>1, <1>4, <1>5, <1>6

(* The value the subscriber is about to have is the next of its publisher, *)
(* and what else of that publisher is under way comes later.               *)
LEMMA NextInOrder ==
  ASSUME TypeInv, Always, Flow, ~merge.m_canceled, On(Client, Subscriber, "onNext")
  PROVE  LET c == Head(agenda[Client])
         IN  /\ ~Ended
             /\ \E p \in Publishers, k \in Nat :
                  /\ Of(c) = p /\ Origin(c.arg) = <<p, k>> /\ Ordinal(c) = k
                  /\ k = Taken(p) + 1 /\ k <= Issued(p) /\ k <= Pub(p).size
                  /\ \A e \in Rest : Stage(e) > 0 /\ Of(e) = p =>
                       k < Ordinal(e) /\ Mark(e).ordinal = Ordinal(e) /\ Ordinal(e) \in Nat
<1> DEFINE c == Head(agenda[Client])
<1>1. /\ CallsTypeOK /\ agenda[Client] # <<>> /\ c.at = Subscriber /\ c.sig = "onNext"
      /\ log.values \in Seq(Nat)
  BY DEF On, TypeInv, TypeOK, SubscriberTypeOK
<1>2. c \in Under /\ Under = {c} \cup Rest
  BY <1>1, HeadIsUnder
<1>3. ~Ended
  <2>1. log.end # "onError"
    BY DEF Always
  <2>2. ~Tame(c)
    BY <1>1, PlacesDiffer DEF Tame
  <2>3. log.end # "onComplete"
    BY <1>1, <1>2, <2>2, CompletedIsTame DEF Always
  <2>4. log.end \in Ends \cup {"none"}
    BY <1>1 DEF TypeInv, TypeOK, SubscriberTypeOK
  <2> QED BY <2>1, <2>3, <2>4 DEF Ended, Ends
<1>4. Stage(c) = 3 /\ IsValue(c) /\ Outcome(c) = "value"
  BY <1>1, PlacesDiffer DEF Stage, IsValue, Outcome
<1>5. PICK p \in Publishers, k \in Nat : Of(c) = p /\ c.arg = Element(p, k)
  <2>1. Sound(c)
    BY <1>1, HeadIsSound
  <2> QED BY <1>4, <2>1 DEF Sound, Proper
<1>6. Origin(c.arg) = <<p, k>> /\ Ordinal(c) = k
  <2>1. Origin(Element(p, k)) = <<p, k>>
    BY OriginOfElement
  <2>2. Origin(c.arg) = <<p, k>>
    BY <1>5, <2>1
  <2> QED BY <1>4, <2>2 DEF Ordinal
<1>7. Mark(c) \in Marks(p) /\ Mark(c).ordinal = k /\ Mark(c).outcome = "value"
  <2>1. Mark(c) \in Marks(p)
    BY <1>2, <1>4, <1>5 DEF Marks, Signals
  <2> QED BY <1>4, <1>6, <2>1 DEF Mark
<1>8. PICK size \in Nat : size = Pub(p).size
  BY <1>1, PublisherIsTyped DEF Published, TypeInv
<1>9. Issued(p) \in Nat
  <2>1. inner[p].m_current \in Nat
    BY <1>1, PublisherIsTyped DEF TypeInv
  <2>2. inner[p].m_current + 1 \in Nat /\ inner[p].m_current + 0 \in Nat /\ size + 1 \in Nat /\ size + 0 \in Nat
    BY <2>1
  <2> QED BY <1>8, <2>2 DEF Issued
<1>10. Account(p) /\ Taken(p) \in Nat /\ Taken(p) < k /\ k <= Issued(p) /\ k <= size
  <2>1. Account(p) /\ Taken(p) \in Nat
    BY <1>1, <1>5, TakenIsNat DEF Flow
  <2> QED BY <1>7, <1>8, <2>1 DEF Account
<1>11. \A e \in Rest : Stage(e) > 0 /\ Of(e) = p =>
          k < Ordinal(e) /\ Mark(e).ordinal = Ordinal(e) /\ Ordinal(e) \in Nat
  <2> SUFFICES ASSUME NEW e \in Rest, Stage(e) > 0, Of(e) = p
               PROVE  k < Ordinal(e) /\ Mark(e).ordinal = Ordinal(e) /\ Ordinal(e) \in Nat
    OBVIOUS
  <2>1. Apart("order", c, e) /\ Stage(c) >= Stage(e)
    <3>1. Stage(e) \in {0, 1, 2, 3}
      BY DEF Stage
    <3> QED BY <1>1, <1>4, <3>1, HeadIsApart DEF Flow
  <2>2. k < Ordinal(e)
    BY <1>4, <1>5, <1>6, <2>1 DEF Apart
  <2> QED BY <1>1, <1>2, <2>2, MarkIsTyped
<1> HIDE DEF c
<1>12. Taken(p) + 1 = k
  <2> SUFFICES ASSUME Taken(p) + 1 # k PROVE FALSE
    OBVIOUS
  <2>1. Taken(p) + 1 < k /\ Taken(p) + 1 <= size /\ Taken(p) + 1 <= Issued(p)
    BY <1>9, <1>10
  <2>2. Taken(p) + 1 \in Taken(p) + 1 .. Issued(p)
    BY <1>9, <1>10, <2>1
  <2>3. PICK m \in Marks(p) : m.ordinal = Taken(p) + 1
    BY <1>8, <1>10, <2>1, <2>2 DEF Account
  <2>4. PICK e \in Under : Stage(e) > 0 /\ Of(e) = p /\ m = Mark(e)
    BY <2>3 DEF Marks, Signals
  <2>5. e # c
    BY <1>7, <1>10, <2>1, <2>3, <2>4
  <2>6. e \in Rest /\ k < m.ordinal
    BY <1>2, <1>11, <2>4, <2>5
  <2> QED BY <1>5, <1>10, <2>1, <2>3, <2>6
<1> USE DEF c
<1>13. Of(c) = p /\ k <= Pub(p).size
  BY <1>5, <1>8, <1>10
<1> QED BY <1>3, <1>6, <1>10, <1>11, <1>12, <1>13

(* The subscriber has the value that comes next.                           *)
LEMMA OnNextFlow ==
  ASSUME MergeInv, Always, Flow, ~merge.m_canceled, OnNext(Client), UNCHANGED mergeVars
  PROVE  Flow'
<1> DEFINE c == Head(agenda[Client])
<1>1. /\ TypeInv /\ CallsTypeOK /\ agenda[Client] # <<>> /\ c.at = Subscriber /\ c.sig = "onNext"
      /\ input' = input /\ inner' = inner /\ merge' = merge /\ Present' = Present
      /\ log.values \in Seq(Nat) /\ c.arg \in Nat
  <2>1. TypeInv /\ agenda[Client] # <<>>
    BY DEF OnNext, On, MergeInv, TypeInv
  <2> QED BY <2>1, HeadIsTyped
       DEF OnNext, On, TypeInv, TypeOK, SubscriberTypeOK, mergeVars, Present, Arg
<1>2. PICK calls \in Seq(UserSent) : Makes(Client, calls)
  BY SubscriberCalls DEF SubscriberStep
<1>3. /\ calls \in Seq(MergeCalls) /\ Sends(calls)
      /\ \A d \in ToSet(calls) : Stage(d) = 0 /\ \A q \in Publishers : ~Token(q, d) /\ ~Starts(q, d)
  BY <1>2, UserCallsAreQuiet DEF Sends
<1>4. c \in Under /\ Under = {c} \cup Rest
  BY <1>1, HeadIsUnder
<1>5. /\ Stage(c) = 3 /\ IsValue(c) /\ Outcome(c) = "value"
      /\ \A q \in Publishers : ~Token(q, c) /\ ~Starts(q, c)
  BY <1>1, PlacesDiffer DEF Stage, IsValue, Outcome, Token, Starts
<1>6. ~Ended
  BY <1>1, NextInOrder DEF OnNext
<1>7. PICK p \in Publishers, k \in Nat :
             /\ Of(c) = p /\ Origin(c.arg) = <<p, k>> /\ Ordinal(c) = k
             /\ k = Taken(p) + 1 /\ k <= Issued(p) /\ k <= Pub(p).size
             /\ \A e \in Rest : Stage(e) > 0 /\ Of(e) = p =>
                  k < Ordinal(e) /\ Mark(e).ordinal = Ordinal(e) /\ Ordinal(e) \in Nat
  BY <1>1, NextInOrder DEF OnNext
<1>8. log'.values = Append(log.values, c.arg)
  <2>1. log' = Logged(c) /\ c.sig \notin Ends
    BY <1>1 DEF OnNext, Ends
  <2> QED BY <1>1, <1>6, <2>1 DEF Logged, TypeInv, TypeOK, SubscriberTypeOK
<1>9. Mark(c) \in Marks(p) /\ Mark(c).ordinal = k /\ Mark(c).outcome = "value"
  <2>1. Mark(c) \in Marks(p)
    BY <1>4, <1>5, <1>7 DEF Marks, Signals
  <2> QED BY <1>5, <1>7, <2>1 DEF Mark
<1>10. PICK size \in Nat : size = Pub(p).size
  BY <1>1, PublisherIsTyped DEF Published, TypeInv
<1>11. Issued(p) \in Nat
  <2>1. inner[p].m_current \in Nat
    BY <1>1, PublisherIsTyped DEF TypeInv
  <2>2. inner[p].m_current + 1 \in Nat /\ inner[p].m_current + 0 \in Nat /\ size + 1 \in Nat /\ size + 0 \in Nat
    BY <2>1
  <2> QED BY <1>10, <2>2 DEF Issued
<1>12. /\ Account(p) /\ Handout(p) /\ Taken(p) \in Nat
       /\ Taken(p) < k /\ k <= Issued(p) /\ k <= size
  <2>1. Account(p) /\ Handout(p) /\ Taken(p) \in Nat
    BY <1>1, TakenIsNat DEF Flow
  <2> QED BY <1>7, <1>10, <2>1
<1> DEFINE M == {Mark(e) : e \in {d \in Rest : Stage(d) > 0 /\ Of(d) = p}}
<1>13. Marks(p) = {Mark(c)} \cup M
  BY <1>4, <1>5, <1>7 DEF Marks, Signals
<1>14. Marks(p)' = M
  <2>1. Marks(p)' = {Mark(d) : d \in {e \in ToSet(calls) \cup Rest : Stage(e) > 0 /\ Of(e) = p}}
    BY <1>1, <1>3, MarksSends
  <2>2. {e \in ToSet(calls) \cup Rest : Stage(e) > 0 /\ Of(e) = p} = {d \in Rest : Stage(d) > 0 /\ Of(d) = p}
    BY <1>3
  <2> QED BY <2>1, <2>2
<1>15. \A m \in M : k < m.ordinal
  BY <1>7
<1> HIDE DEF M, c
<1>16. \A q : Taken(q)' = IF q = p THEN k ELSE Taken(q)
  BY <1>1, <1>8, <1>7, TakenOfOne
<1>17. ASSUME NEW q \in Publishers \ {p}
       PROVE  Account(q)' /\ Handout(q)' /\ (Counts(q)' => Counts(q))
  <2>1. Of(Head(agenda[Client])) # q /\ ~Token(q, Head(agenda[Client]))
    BY <1>5, <1>7, <1>17 DEF c
  <2>2. Taken(q)' = Taken(q) /\ inner'[q] = inner[q] /\ (q \in Present' <=> q \in Present)
    BY <1>1, <1>16, <1>17
  <2>3. \A d \in ToSet(calls) : (Stage(d) > 0 => Of(d) # q) /\ ~Token(q, d) /\ ~Starts(q, d)
    BY <1>3
  <2> QED BY <1>1, <1>3, <2>1, <2>2, <2>3, OthersKeep
<1>18. /\ Pub(p)' = Pub(p) /\ EndOf(p)' = EndOf(p) /\ (Joins(p)' <=> Joins(p)) /\ (Gate(p)' <=> Gate(p))
       /\ (Held(p)' <=> Held(p)) /\ (Joining(p)' => Joining(p))
  <2>1. Held(p)' <=> Held(p)
    <3>1. Held(p)' <=> \E d \in ToSet(calls) \cup Rest : Token(p, d)
      BY <1>1, <1>3, HeldSends
    <3> QED BY <1>3, <1>4, <1>5, <1>7, <3>1, HeldIs
  <2>2. Joining(p)' => Joining(p)
    <3>1. Joining(p)' <=> \E d \in ToSet(calls) \cup Rest : Starts(p, d)
      BY <1>1, <1>3, JoiningSends
    <3> QED BY <1>3, <1>4, <1>7, <3>1, JoiningIs
  <2>3. Pub(p)' = Pub(p)
    BY <1>1 DEF Pub
  <2>4. (Gate(p)' <=> Gate(p)) /\ (Joins(p)' <=> Joins(p))
    BY <2>3 DEF Gate, Joins
  <2>5. EndOf(p)' = EndOf(p)
    BY <2>3, <2>4 DEF EndOf
  <2> QED BY <2>1, <2>2, <2>3, <2>4, <2>5
<1>19. Issued(p)' = Issued(p) /\ (Silent(p)' <=> Silent(p)) /\ (EndOut(p)' <=> EndOut(p))
  <2>1. EndOut(p)' <=> EndOut(p)
    BY <1>13, <1>14, <1>9 DEF EndOut
  <2>2. Issued(p)' = Issued(p)
    BY <1>1, <1>18 DEF Issued
  <2>3. Silent(p)' <=> Silent(p)
    BY <1>18 DEF Silent
  <2> QED BY <2>1, <2>2, <2>3
<1>20. Account(p)'
  <2>1. \A m \in M : /\ k < m.ordinal /\ m.ordinal <= Issued(p)
                     /\ IF m.outcome = "value" THEN m.ordinal <= size
                        ELSE m.ordinal = size + 1 /\ m.outcome = EndOf(p)
    BY <1>10, <1>12, <1>13, <1>15 DEF Account
  <2>2. ASSUME NEW o \in k + 1 .. Issued(p), o <= size PROVE \E m \in M : m.ordinal = o
    <3>2. o \in Taken(p) + 1 .. Issued(p) /\ o # k
      BY <1>7, <1>11, <1>12
    <3>3. PICK m \in Marks(p) : m.ordinal = o
      BY <1>10, <1>12, <2>2, <3>2 DEF Account
    <3> QED BY <1>13, <1>9, <3>2, <3>3
  <2>3. Held(p) \/ p \in Present \/ EndOut(p) \/ Silent(p)
    <3>1. ~Over(p)
      BY <1>10, <1>7, <1>12 DEF Over
    <3> QED BY <1>12, <3>1 DEF Account
  <2>4. Taken(p)' = k /\ Pub(p)'.size = size
    BY <1>10, <1>16, <1>18
  <2>5. \A m \in Marks(p)' :
          /\ Taken(p)' < m.ordinal /\ m.ordinal <= Issued(p)'
          /\ IF m.outcome = "value" THEN m.ordinal <= Pub(p)'.size
             ELSE m.ordinal = Pub(p)'.size + 1 /\ m.outcome = EndOf(p)'
    BY <1>14, <1>18, <1>19, <2>1, <2>4
  <2>6. Taken(p)' <= Issued(p)' /\ Taken(p)' <= Pub(p)'.size
    BY <1>12, <1>19, <2>4
  <2>7. \A o \in Taken(p)' + 1 .. Issued(p)' :
          o <= Pub(p)'.size => \E m \in Marks(p)' : m.ordinal = o
    BY <1>14, <1>19, <2>2, <2>4
  <2>8. Held(p)' \/ p \in Present' \/ EndOut(p)' \/ Silent(p)' \/ Over(p)'
    BY <1>1, <1>18, <1>19, <2>3
  <2> QED BY <2>5, <2>6, <2>7, <2>8 DEF Account
<1>21. Handout(p)'
  BY <1>1, <1>12, <1>18 DEF Handout
<1>22. Counts(p)' => Counts(p)
  BY <1>1, <1>18, <1>19 DEF Counts
<1>23. Counted' \subseteq Counted
  <2>1. \A q \in Publishers : Counts(q)' => Counts(q)
    BY <1>17, <1>22
  <2> QED BY <2>1 DEF Counted
<1>24. Cardinality(Counted)' <= merge'.m_remaining
  BY <1>1, <1>23, CountedNoMore
<1>25. Chain("order", Queue)'
  BY <1>1, <1>2, <1>3, UserMakesNoChain, OrderSends DEF Flow
<1>26. Demand'
  BY <1>1, <1>3, DemandStays, PlacesDiffer DEF c
<1>27. \A q \in Publishers : Account(q)' /\ Handout(q)'
  BY <1>17, <1>20, <1>21
<1> QED BY <1>24, <1>25, <1>26, <1>27 DEF Flow

LEMMA SubscriberFlow ==
  ASSUME MergeInv, Always, Flow, ~merge.m_canceled, SubscriberStep(Client), UNCHANGED mergeVars
  PROVE  Flow'
<1> DEFINE c == Head(agenda[Client])
<1>1. CASE OnNext(Client)
  BY <1>1, OnNextFlow
<1>2. CASE ~OnNext(Client)
  <2>1. /\ TypeInv /\ CallsTypeOK /\ agenda[Client] # <<>> /\ c.at = Subscriber /\ c.sig # "onNext"
        /\ input' = input /\ inner' = inner /\ merge' = merge /\ Present' = Present
    BY <1>2 DEF SubscriberStep, OnSubscribed, Received, OnEnd, On, MergeInv, TypeInv, mergeVars, Present
  <2>2. log'.values = log.values
    BY <1>2, <2>1 DEF SubscriberStep, OnSubscribed, Received, OnEnd, On, Logged, Ends, TypeInv, TypeOK, SubscriberTypeOK
  <2>3. PICK calls \in Seq(UserSent) : Makes(Client, calls)
    BY SubscriberCalls
  <2>4. /\ calls \in Seq(MergeCalls) /\ Sends(calls)
        /\ \A d \in ToSet(calls) : Stage(d) = 0 /\ \A q \in Publishers : ~Token(q, d) /\ ~Starts(q, d)
    BY <2>3, UserCallsAreQuiet DEF Sends
  <2>5. Stage(c) = 0 /\ \A q \in Publishers : ~Token(q, c)
    BY <2>1, PlacesDiffer DEF Stage, Token
  <2>6. Demand'
    BY <2>1, <2>4, DemandStays, PlacesDiffer
  <2> QED BY <2>1, <2>2, <2>4, <2>5, <2>6, FlowCalls
<1> QED BY <1>1, <1>2

LEMMA MarksOfUnder ==
  ASSUME input' = input, NEW p, \A c : c \in Under /\ Stage(c) > 0 <=> c \in Under' /\ Stage(c) > 0
  PROVE  Marks(p)' = Marks(p)
<1>1. Signals(p)' = Signals(p)
  BY DEF Signals, Stage, Of
<1>2. Marks(p)' = {Mark(c)' : c \in Signals(p)'}
  BY DEF Marks
<1> QED BY <1>1, <1>2, MarkStays DEF Marks

LEMMA FlowStays ==
  ASSUME TypeInv, Flow, UNCHANGED mergeVars, log'.values = log.values, Chain("order", Queue)',
         \/ Under' = Under
         \/ \E d \in UserSent : Under' = {d} \cup Under
  PROVE  Flow'
<1>1. UNCHANGED <<input, inner, merge>> /\ Present' = Present
  BY DEF mergeVars, Present
<1>2. PICK D \in SUBSET UserSent : Under' = D \cup Under
  <2>1. CASE Under' = Under
    <3>1. {} \in SUBSET UserSent /\ Under' = {} \cup Under
      BY <2>1
    <3> QED BY <3>1
  <2>2. ASSUME NEW d \in UserSent, Under' = {d} \cup Under
        PROVE  \E D \in SUBSET UserSent : Under' = D \cup Under
    <3>1. {d} \in SUBSET UserSent
      OBVIOUS
    <3> QED BY <2>2, <3>1
  <2> QED BY <2>1, <2>2
<1>3. \A d \in D : Stage(d) = 0 /\ \A q \in Publishers : ~Token(q, d) /\ ~Starts(q, d)
  <2>1. <<>> \in Seq(UserSent)
    OBVIOUS
  <2> QED BY <2>1, UserCallsAreQuiet
<1>4. ASSUME NEW p \in Publishers
      PROVE  Marks(p)' = Marks(p) /\ (Held(p)' <=> Held(p)) /\ (Joining(p)' => Counts(p))
  <2>1. Marks(p)' = Marks(p)
    BY <1>1, <1>2, <1>3, MarksOfUnder
  <2>2. Held(p)' <=> Held(p)
    <3>1. Held(p)' <=> \E c \in Under' : Token(p, c)
      BY HasIs DEF Held, Under
    <3> QED BY <1>2, <1>3, <3>1, HeldIs
  <2>3. Joining(p)' => Joining(p)
    <3>1. Joining(p)' <=> \E d \in Under' : Starts(p, d)
      BY DEF Joining, Starts
    <3> QED BY <1>2, <1>3, <3>1, JoiningIs
  <2> QED BY <2>1, <2>2, <2>3 DEF Counts
<1>5. Demand'
  BY <1>1, <1>2 DEF Demand, Flow
<1>6. merge.m_remaining \in Nat
  BY DEF TypeInv, TypeOK
<1> QED BY <1>1, <1>4, <1>5, <1>6, FlowKeeps

LEMMA FlowStep ==
  ASSUME MergeInv, Always, Flow, ~merge.m_canceled, ~merge'.m_canceled, [Next]_vars
  PROVE  Flow'
<1>1. TypeInv /\ CallsTypeOK
  BY DEF MergeInv, TypeInv
<1>2. CASE UNCHANGED vars
  <2>1. UNCHANGED mergeVars /\ log' = log /\ agenda' = agenda /\ pending' = pending
    BY <1>2 DEF vars, callVars, subscriberVars, mergeVars
  <2>2. agenda'[Client] \o Waiting' = Queue /\ Under' = Under
    BY <2>1 DEF Queue, Under, Waiting
  <2>3. Chain("order", Queue)'
    BY <2>1, <2>2, OrderStays DEF Flow, mergeVars
  <2> QED BY <1>1, <2>1, <2>2, <2>3, FlowStays
<1>3. CASE (Source(Client) \/ Inner(Client)) /\ UNCHANGED subscriberVars
  BY <1>1, <1>3, SourceFlow, SubscribesFlow, RequestedFlow, CanceledFlow DEF Inner
<1>4. CASE Merges(Client) /\ UNCHANGED <<subscriberVars, input, inner>>
  BY <1>4, HandlesFlow, TurnsFlow DEF Merges
<1>5. CASE Dispatch(Client) /\ UNCHANGED <<subscriberVars, mergeVars>>
  <2>1. agenda'[Client] \o Waiting' = Queue /\ Under' = Under
    BY <1>1, <1>5, QueueTakes
  <2>2. Chain("order", Queue)'
    BY <1>5, <2>1, OrderStays DEF Flow, mergeVars
  <2> QED BY <1>1, <1>5, <2>1, <2>2, FlowStays DEF subscriberVars
<1>6. CASE UserCalls /\ UNCHANGED mergeVars
  <2>1. PICK d \in UserSent :
             /\ Under' = {d} \cup Under
             /\ agenda'[Client] \o Waiting' = <<d>> \o Queue /\ Queue \in Seq(MergeCalls)
    BY <1>1, <1>6, QueueUser
  <2>2. <<d>> \in Seq(UserSent) /\ <<d>> \in Seq(MergeCalls)
    BY UserSentIsPlain DEF Plain
  <2>3. Chain("order", <<d>> \o Queue)
    BY <2>1, <2>2, UserMakesNoChain, ChainConcat DEF Flow
  <2>4. Chain("order", Queue)'
    <3>1. Chain("order", agenda'[Client] \o Waiting')
      BY <2>1, <2>3
    <3> QED BY <1>6, <3>1, OrderStays DEF mergeVars
  <2> QED BY <1>1, <1>6, <2>1, <2>4, FlowStays DEF UserCalls
<1> QED BY <1>2, <1>3, <1>4, <1>5, <1>6, SubscriberFlow, MergeStep DEF subscriberVars

---------------------------------------------------------------------------
(* The invariant: what is true of the calls under way, and the accounts    *)
(* of the publishers until something is canceled.                          *)
LEMMA InitFlow ==
  ASSUME Init
  PROVE  Flow
<1> DEFINE c == Call(Depth, "subscribe", 0)
<1>1. /\ agenda[Client] = <<c>> /\ Waiting = <<>> /\ Present = {}
      /\ log.values = <<>> /\ merge.m_remaining = 0 /\ merge.m_requested = 0
      /\ \A p \in Publishers : inner[p].m_current = 0 /\ ~inner[p].m_completed
  <2>1. agenda[Client] = <<c>> /\ pending = <<>>
    BY DEF Init, SignalsInit, Threads
  <2>2. Waiting = <<>>
    <3>1. DOMAIN <<>> = {}
      OBVIOUS
    <3> QED BY <2>1, <3>1 DEF Waiting
  <2>3. merge.m_subscriptions = <<>> /\ merge.m_remaining = 0 /\ merge.m_requested = 0
    BY DEF Init
  <2>4. log.values = <<>>
    BY DEF Init, SubscriberInit
  <2>5. \A p \in Publishers : inner[p].m_current = 0 /\ ~inner[p].m_completed
    BY DEF Init
  <2> QED BY <2>1, <2>2, <2>3, <2>4, <2>5, SmallSets DEF Present
<1>2. c.at = Depth /\ c.sig = "subscribe"
  BY DEF Call
<1>3. Queue = <<c>> /\ Under = {c}
  BY <1>1, SmallSets DEF Queue, Under
<1> HIDE DEF c
<1>4. Chain("order", Queue)
  BY <1>3, SingleChain
<1>5. ASSUME NEW p \in Publishers
      PROVE  Account(p) /\ Handout(p) /\ ~Counts(p)
  <2>1. Held(p)
    BY <1>2, <1>3, HeldIs DEF Token
  <2>2. Stage(c) = 0 /\ c.at # p
    BY <1>2, PlacesDiffer DEF Stage
  <2>3. Marks(p) = {} /\ ~EndOut(p) /\ ~Joining(p)
    BY <1>3, <2>2 DEF Marks, Signals, EndOut, Joining
  <2>4. Taken(p) = 0
    <3> DEFINE T == {k \in DOMAIN log.values : Origin(log.values[k])[1] = p}
    <3>1. DOMAIN <<>> = {}
      OBVIOUS
    <3>2. T = {}
      BY <1>1, <3>1
    <3> HIDE DEF T
    <3> QED BY <3>2, FS_EmptySet DEF Taken, T
  <2>5. Issued(p) = 0
    BY <1>1, <2>1 DEF Issued
  <2>6. PICK size \in Nat : size = Pub(p).size
    BY InitTyped, PublisherIsTyped DEF Published, TypeInv
  <2>7. \A o \in 0 + 1 .. 0 : FALSE
    OBVIOUS
  <2>8. Account(p)
    BY <2>1, <2>3, <2>4, <2>5, <2>6, <2>7 DEF Account
  <2>9. Handout(p)
    <3>1. Pub(p).kind = "error" \/ ~Joins(p) \/ Joins(p)
      OBVIOUS
    <3> QED BY <1>1, <2>6 DEF Handout
  <2> QED BY <1>1, <2>1, <2>3, <2>8, <2>9 DEF Counts, Silent
<1>6. Cardinality(Counted) <= merge.m_remaining
  <2>1. Counted = {}
    BY <1>5 DEF Counted
  <2> QED BY <1>1, <2>1, FS_EmptySet
<1> QED BY <1>1, <1>4, <1>5, <1>6 DEF Flow, Demand

LEMMA CancelStays ==
  ASSUME MergeInv, [Next]_vars, merge.m_canceled
  PROVE  merge'.m_canceled
<1>1. merge \in MergeState
  BY DEF MergeInv, TypeInv, TypeOK, MergeState
<1>2. ASSUME NEW m, Cancels(Client, m, <<>>) \/ Cancels(Client, m, <<Failure(Depth)>>),
             m \in MergeState
      PROVE  merge'.m_canceled
  BY <1>2 DEF Cancels, MergeState
<1>3. ASSUME NEW m \in MergeState, m.m_canceled, Concludes(Client, m)
      PROVE  merge'.m_canceled
  BY <1>3 DEF Concludes, MergeState
<1>4. ASSUME NEW p \in Publishers
      PROVE  Removed(p) \in MergeState /\ Removed(p).m_canceled
  BY RemovedState
<1>5. [merge EXCEPT !.sourceCompleted = TRUE] \in MergeState
      /\ [merge EXCEPT !.sourceCompleted = TRUE].m_canceled
  BY <1>1 DEF MergeState
<1>6. CASE Merges(Client)
  <2>1. CASE SourceError(Client) \/ MergeCancel(Client)
    BY <1>1, <1>2, <2>1 DEF SourceError, MergeCancel
  <2>2. CASE SourceComplete(Client)
    BY <1>3, <1>5, <2>2 DEF SourceComplete
  <2>3. ASSUME NEW p \in Publishers, OnPublisherError(Client, p)
        PROVE  merge'.m_canceled
    BY <1>2, <1>4, <2>3 DEF OnPublisherError
  <2>4. ASSUME NEW p \in Publishers, OnPublisherComplete(Client, p)
        PROVE  merge'.m_canceled
    BY <1>3, <1>4, <2>4 DEF OnPublisherComplete
  <2>5. CASE Subscribed(Client) \/ SourceNext(Client) \/ MergeRequest(Client)
             \/ GivesTurn(Client) \/ StopsTurns(Client)
    BY <1>1, <2>5 DEF Subscribed, SourceNext, MergeRequest, GivesTurn, StopsTurns, MergeState
  <2>6. ASSUME NEW p \in Publishers,
               Receives(Client, p) \/ Adds(Client, p) \/ OnPublisherNextValue(Client, p)
        PROVE  merge'.m_canceled
    BY <1>1, <2>6 DEF Receives, Adds, OnPublisherNextValue, MergeState
  <2> QED BY <1>6, <2>1, <2>2, <2>3, <2>4, <2>5, <2>6 DEF Merges, Handles
<1> QED BY <1>6, MergeStep DEF vars, mergeVars

LEMMA MergeDelivers == Spec => [](MergeInv /\ Delivers)
<1>1. Init => Delivers
  BY InitAlways, InitFlow DEF Delivers
<1>2. MergeInv /\ Delivers /\ [Next]_vars => Delivers'
  <2> SUFFICES ASSUME MergeInv, Delivers, [Next]_vars PROVE Delivers'
    OBVIOUS
  <2>1. Always'
    BY AlwaysStep DEF Delivers
  <2>2. ~merge'.m_canceled => Flow'
    BY CancelStays, FlowStep DEF Delivers
  <2> QED BY <2>1, <2>2 DEF Delivers
<1> QED BY <1>1, <1>2, MergeInvariant, PTL DEF Spec

(* tryRequest() stops while demand is left over only if nobody is there    *)
(* to ask, or the merge is canceled: however the requests, the publishers  *)
(* that come and those that go are interleaved, none of it is forgotten.   *)
THEOREM MergePassesDemand == Spec => []PassesDemand
<1>1. MergeInv /\ Delivers => PassesDemand
  <2> SUFFICES ASSUME MergeInv, Delivers, Quiet, ~merge.m_canceled
               PROVE  merge.m_requested = 0 \/ Present = {}
    BY DEF PassesDemand
  <2>1. Under = {}
    <3>1. agenda[Client] = <<>> /\ pending = <<>>
      BY DepthIsNat DEF Quiet, Idle
    <3>2. DOMAIN <<>> = {}
      OBVIOUS
    <3>3. Waiting = <<>>
      BY <3>1, <3>2 DEF Waiting
    <3> QED BY <3>1, <3>3, SmallSets DEF Under
  <2>2. merge.m_requested \in Nat
    BY SizeAssumption DEF MergeInv, TypeInv, TypeOK, Size
  <2> QED BY <2>1, <2>2 DEF Delivers, Flow, Demand
<1> QED BY <1>1, MergeDelivers, PTL

---------------------------------------------------------------------------
(* The refinement of Interleave.                                           *)
LEMMA GivenIs == Given.values = log.values /\ Given.end = log.end
BY DEF Given, Stream

LEMMA SameCardinality == \A S : Promise!Cardinality(S) = Cardinality(S)
BY DEF Promise!Cardinality, Cardinality

LEMMA TakenIsPromised == \A p : Promise!Taken(p) = Taken(p)
<1> SUFFICES ASSUME NEW p PROVE Promise!Taken(p) = Taken(p)
  OBVIOUS
<1> DEFINE s   == log.values
           out == [j \in DOMAIN Given.values |-> Origin(Given.values[j])]
<1>1. out = [j \in DOMAIN s |-> Origin(s[j])]
  BY GivenIs
<1>2. {j \in DOMAIN out : out[j][1] = p} = {j \in DOMAIN s : Origin(s[j])[1] = p}
  BY <1>1
<1> HIDE DEF out
<1> QED BY <1>2, SameCardinality DEF Promise!Taken, Taken, out

LEMMA InitPromises ==
  ASSUME Init
  PROVE  Promise!Init
<1>1. \A p \in Publishers : Pub(p).size \in Nat
  BY InitTyped, PublisherIsTyped DEF Published, TypeInv
<1>2. ASSUME NEW p \in Publishers
      PROVE  EndOf(p) \in {"onComplete", "onError", "none"}
  <2>1. Pub(p) \in Published
    BY InitTyped, PublisherIsTyped DEF TypeInv
  <2>2. Pub(p).end \in {"onComplete", "onError", "none"}
    BY <2>1 DEF Published
  <2> QED BY <2>2 DEF EndOf
<1>3. log.values = <<>> /\ log.end = "none"
  BY DEF Init, SubscriberInit
<1>4. [k \in DOMAIN Given.values |-> Origin(Given.values[k])] = <<>>
  <2>1. DOMAIN <<>> = {}
    OBVIOUS
  <2> QED BY <1>3, <2>1, GivenIs
<1> QED BY <1>1, <1>2, <1>3, <1>4, GivenIs DEF Promise!Init

LEMMA PromiseStutters ==
  ASSUME input' = input, log'.values = log.values, log'.end = log.end
  PROVE  UNCHANGED Promise!promiseVars
<1>1. Given'.values = Given.values /\ Given'.end = Given.end
  BY DEF Given, Stream
<1>2. \A p : Pub(p)' = Pub(p) /\ EndOf(p)' = EndOf(p)
  BY DEF Pub, EndOf, Gate
<1>3. [p \in Publishers |-> Pub(p).size]' = [p \in Publishers |-> Pub(p).size]
  BY DEF Pub
<1>4. [p \in Publishers |-> EndOf(p)]' = [p \in Publishers |-> EndOf(p)]
  BY DEF Pub, EndOf, Gate
<1>5. [k \in DOMAIN Given.values |-> Origin(Given.values[k])]' = [k \in DOMAIN Given.values |-> Origin(Given.values[k])]
  BY <1>1 DEF Origin
<1> QED BY <1>1, <1>3, <1>4, <1>5 DEF Promise!promiseVars

(* The publishers stay as they are.                                        *)
LEMMA PromiseKeeps ==
  ASSUME input' = input
  PROVE  UNCHANGED <<[p \in Publishers |-> Pub(p).size], [p \in Publishers |-> EndOf(p)],
                     input.end = "onError">>
BY DEF Pub, EndOf, Gate

LEMMA NextGives ==
  ASSUME MergeInv, Delivers, OnNext(Client), UNCHANGED mergeVars
  PROVE  Promise!Next
<1> DEFINE c == Head(agenda[Client])
<1>1. /\ TypeInv /\ Always /\ agenda[Client] # <<>> /\ On(Client, Subscriber, "onNext")
      /\ c.at = Subscriber /\ c.sig = "onNext" /\ input' = input
  BY DEF OnNext, On, MergeInv, Delivers, mergeVars
<1>2. ~merge.m_canceled /\ Flow
  <2>1. Sound(c)
    BY <1>1, HeadIsSound DEF TypeInv
  <2> QED BY <1>1, <2>1 DEF Sound, Delivers
<1>3. ~Ended
  BY <1>1, <1>2, NextInOrder
<1>4. PICK p \in Publishers, k \in Nat :
             Origin(c.arg) = <<p, k>> /\ k = Taken(p) + 1 /\ k <= Pub(p).size
  BY <1>1, <1>2, NextInOrder
<1>5. log.values \in Seq(Nat) /\ c.arg \in Nat /\ Taken(p) \in Nat /\ Pub(p).size \in Nat
  <2>1. log.values \in Seq(Nat)
    BY <1>1 DEF TypeInv, TypeOK, SubscriberTypeOK
  <2> QED BY <1>1, <2>1, HeadIsTyped, TakenIsNat, PublisherIsTyped DEF TypeInv, Arg, Published
<1>6. log'.values = Append(log.values, c.arg) /\ log'.end = log.end
  <2>1. log' = Logged(c) /\ c.sig \notin Ends
    BY <1>1 DEF OnNext, Ends
  <2> QED BY <1>1, <1>3, <2>1 DEF Logged, TypeInv, TypeOK, SubscriberTypeOK
<1> DEFINE s   == log.values
           out == [j \in DOMAIN Given.values |-> Origin(Given.values[j])]
<1>7. out' = Append(out, <<p, k>>)
  <2> DEFINE r == Append(s, c.arg)
             n == Len(s)
  <2>1. /\ n \in Nat /\ DOMAIN s = 1 .. n /\ DOMAIN r = 1 .. n + 1 /\ r[n + 1] = c.arg
        /\ \A j \in 1 .. n : r[j] = s[j]
    BY <1>5, AppendProperties, LenProperties
  <2>2. out = [j \in 1 .. n |-> Origin(s[j])] /\ out' = [j \in 1 .. n + 1 |-> Origin(r[j])]
    <3>1. Given'.values = log'.values
      BY DEF Given, Stream
    <3>2. out' = [j \in DOMAIN log'.values |-> Origin(log'.values[j])]
      BY <3>1 DEF Origin
    <3> QED BY <1>6, <2>1, <3>2, GivenIs
  <2> HIDE DEF out, r, n, s
  <2>3. Len(out) = n /\ out \in Seq({Origin(s[j]) : j \in 1 .. n})
    BY <2>1, <2>2, IsASeq, LenProperties
  <2>4. Append(out, <<p, k>>) = [j \in 1 .. n + 1 |-> IF j = n + 1 THEN <<p, k>> ELSE out[j]]
    BY <2>1, <2>3 DEF Append
  <2>5. \A j \in 1 .. n + 1 : Origin(r[j]) = IF j = n + 1 THEN <<p, k>> ELSE out[j]
    BY <1>4, <2>1, <2>2
  <2> QED BY <2>2, <2>4, <2>5
<1>8. Promise!Taken(p) = Taken(p)
  BY TakenIsPromised
<1>9. Given.end = "none" /\ Given'.end = Given.end
  <2>1. Given'.end = log'.end
    BY DEF Given, Stream
  <2> QED BY <1>3, <1>6, <2>1, GivenIs DEF Ended
<1> HIDE DEF s
<1>10. Promise!Give(p)
  <2>1. Promise!Taken(p) < [q \in Publishers |-> Pub(q).size][p]
    BY <1>4, <1>5, <1>8
  <2> QED BY <1>4, <1>7, <1>8, <1>9, <2>1 DEF Promise!Give
<1> QED BY <1>1, <1>9, <1>10, PromiseKeeps DEF Promise!Next

LEMMA EndKeepsPromise ==
  ASSUME MergeInv, Delivers, OnEnd(Client), UNCHANGED mergeVars
  PROVE  Promise!Next \/ UNCHANGED Promise!promiseVars
<1> DEFINE c == Head(agenda[Client])
<1>1. /\ TypeInv /\ Always /\ agenda[Client] # <<>> /\ c.at = Subscriber /\ c.sig \in Ends
      /\ input' = input /\ log' = Logged(c) /\ Sound(c)
  <2>1. TypeInv /\ Always /\ agenda[Client] # <<>> /\ c.at = Subscriber /\ c.sig \in Ends
        /\ input' = input /\ log' = Logged(c)
    BY DEF OnEnd, On, MergeInv, Delivers, mergeVars, Ends
  <2> QED BY <2>1, HeadIsSound DEF TypeInv
<1>2. CASE Ended
  <2>1. log'.values = log.values /\ log'.end = log.end
    BY <1>1, <1>2 DEF Logged, TypeInv, TypeOK, SubscriberTypeOK
  <2> QED BY <1>1, <2>1, PromiseStutters
<1>3. CASE ~Ended
  <2>1. log'.values = log.values /\ log'.end = c.sig /\ log.end = "none"
    BY <1>1, <1>3 DEF Logged, TypeInv, TypeOK, SubscriberTypeOK, Ended
  <2>2. Given.end = "none" /\ Given'.end = c.sig /\ Given'.values = Given.values
    BY <2>1 DEF Given, Stream
  <2>3. UNCHANGED [k \in DOMAIN Given.values |-> Origin(Given.values[k])]
    BY <2>2 DEF Origin
  <2>4. CASE c.sig = "onError"
    <3>1. input.end = "onError" \/ Failing # {}
      BY <1>1, <2>4 DEF Sound, Proper
    <3>2. input.end = "onError" \/ \E p \in Publishers : [q \in Publishers |-> EndOf(q)][p] = "onError"
      BY <3>1 DEF Failing
    <3>3. Promise!Fail
      BY <2>2, <2>3, <2>4, <3>2 DEF Promise!Fail
    <3> QED BY <1>1, <2>2, <3>3, PromiseKeeps DEF Promise!Next
  <2>5. CASE c.sig = "onComplete"
    <3>1. merge.m_completed /\ ~merge.m_canceled /\ Flow
      BY <1>1, <2>5 DEF Sound, Delivers
    <3>2. input.end = "onComplete" /\ \A p \in Publishers : Over(p)
      BY <1>1, <3>1, CompletedIsTame
    <3>3. ASSUME NEW p \in Publishers
          PROVE  /\ [q \in Publishers |-> EndOf(q)][p] = "onComplete"
                 /\ Promise!Taken(p) = [q \in Publishers |-> Pub(q).size][p]
      <4>1. Promise!Taken(p) = Taken(p)
        BY TakenIsPromised
      <4> QED BY <3>2, <4>1 DEF Over
    <3>4. Promise!Complete
      BY <2>2, <2>3, <2>5, <3>2, <3>3 DEF Promise!Complete
    <3> QED BY <1>1, <2>2, <3>4, PromiseKeeps DEF Promise!Next
  <2> QED BY <1>1, <2>4, <2>5 DEF Ends
<1> QED BY <1>2, <1>3

(* The merge implements Interleave: for any number of publishers, however  *)
(* many values they have, with a scheduler or without, no value is lost,   *)
(* repeated or overtaken by a later one of its publisher, it completes     *)
(* when all is given, and fails only if something failed.                  *)
THEOREM MergeInterleaves == Spec => Interleaves
<1>1. Init => Promise!Init
  BY InitPromises
<1>2. MergeInv /\ Delivers /\ [Next]_vars => [Promise!Next]_(Promise!promiseVars)
  <2> SUFFICES ASSUME MergeInv, Delivers, [Next]_vars
               PROVE  Promise!Next \/ UNCHANGED Promise!promiseVars
    OBVIOUS
  <2>1. ASSUME UNCHANGED <<input, log>> PROVE UNCHANGED Promise!promiseVars
    BY <2>1, PromiseStutters
  <2>2. CASE SubscriberStep(Client) /\ UNCHANGED mergeVars
    BY <2>1, <2>2, NextGives, EndKeepsPromise DEF SubscriberStep, OnSubscribed, Received, mergeVars
  <2>3. CASE UserCalls /\ UNCHANGED mergeVars
    BY <2>1, <2>3 DEF UserCalls, mergeVars
  <2> QED BY <2>1, <2>2, <2>3, MergeStep DEF vars, subscriberVars, mergeVars
<1> QED BY <1>1, <1>2, MergeDelivers, PTL DEF Spec, Interleaves, Promise!Spec

---------------------------------------------------------------------------
(* One error at most, and nothing after the end.                           *)
Once == Cardinality(Failing) + (IF input.end = "onError" THEN 1 ELSE 0) <= 1

FailsOnce ==
  Once => /\ Chain("failure", Queue)
          /\ log.end # "none" => \A c \in Under : ~Fatal(c)
          /\ log.late = <<>>

LEMMA OnceMeans ==
  ASSUME Once
  PROVE  /\ input.end = "onError" => Failing = {}
         /\ \A p, q \in Failing : p = q
<1>1. IsFiniteSet(Failing) /\ Cardinality(Failing) \in Nat
  BY PublishersFinite DEF Failing
<1>2. input.end = "onError" => Failing = {}
  <2>1. input.end = "onError" => Cardinality(Failing) = 0
    BY <1>1 DEF Once
  <2> QED BY <1>1, <2>1, FS_EmptySet
<1>3. ASSUME NEW p \in Failing, NEW q \in Failing, p # q
      PROVE  FALSE
  <2> DEFINE T == Failing \ {p}
  <2>1. IsFiniteSet(T) /\ Cardinality(T) = Cardinality(Failing) - 1 /\ q \in T
    BY <1>1, <1>3, FS_RemoveElement
  <2>2. Cardinality(T) = 0
    <3>1. Cardinality(T) \in Nat /\ Cardinality(Failing) <= 1
      BY <1>1, <2>1, FS_CardinalityType DEF Once
    <3> QED BY <1>1, <2>1, <3>1
  <2> HIDE DEF T
  <2> QED BY <2>1, <2>2, FS_EmptySet
<1> QED BY <1>2, <1>3

LEMMA FatalStays ==
  ASSUME input' = input, NEW c
  PROVE  /\ Failing' = Failing /\ (Once' <=> Once)
         /\ Fatal(c)' <=> Fatal(c)
BY DEF Failing, EndOf, Gate, Pub, Once, Fatal, Erring, SourceCall, Token

LEMMA FailureChainStays ==
  ASSUME input' = input
  PROVE  Chain("failure", Queue)' <=> Chain("failure", agenda'[Client] \o Waiting')
<1>1. ASSUME NEW c, NEW d PROVE Apart("failure", c, d)' <=> Apart("failure", c, d)
  BY FatalStays DEF Apart
<1> QED BY <1>1 DEF Chain, Queue

(* The calls a handler makes are given by what it leaves.                  *)
LEMMA SendsOnce ==
  ASSUME CallsTypeOK, agenda[Client] # <<>>,
         NEW a \in Seq(MergeCalls), NEW b \in Seq(MergeCalls), Sends(a), Sends(b)
  PROVE  a = b
<1> DEFINE t == Tail(agenda[Client])
<1>1. t \in Seq(MergeCalls) /\ Waiting \in Seq(MergeCalls)
  BY WaitingIsTyped, HeadTailSet DEF CallsTypeOK
<1>2. ASSUME NEW calls \in Seq(MergeCalls), Sends(calls)
      PROVE  \/ agenda'[Client] = calls \o t /\ Waiting' = Waiting
             \/ agenda'[Client] = t /\ Waiting' = Waiting \o calls
  BY <1>2, DepthIsNat, AppendsTasks DEF CallsTypeOK, Sends, Makes, Leaves, Waiting
<1> HIDE DEF t
<1>3. /\ Len(t) \in Nat /\ Len(Waiting) \in Nat /\ Len(a) \in Nat /\ Len(b) \in Nat
      /\ Len(a \o t) = Len(a) + Len(t) /\ Len(b \o t) = Len(b) + Len(t)
      /\ Len(Waiting \o a) = Len(Waiting) + Len(a) /\ Len(Waiting \o b) = Len(Waiting) + Len(b)
      /\ \A k \in 1 .. Len(a) : (a \o t)[k] = a[k] /\ (Waiting \o a)[Len(Waiting) + k] = a[k]
      /\ \A k \in 1 .. Len(b) : (b \o t)[k] = b[k] /\ (Waiting \o b)[Len(Waiting) + k] = b[k]
  BY <1>1, LenProperties, ConcatProperties
<1>4. CASE a \o t = b \o t \/ Waiting \o a = Waiting \o b
  <2>1. Len(a) = Len(b)
    BY <1>3, <1>4
  <2>2. \A k \in 1 .. Len(a) : a[k] = b[k]
    BY <1>3, <1>4, <2>1
  <2> QED BY <2>1, <2>2, SeqEqual
<1>5. CASE (a \o t = t /\ Waiting \o b = Waiting) \/ (b \o t = t /\ Waiting \o a = Waiting)
  <2>1. Len(a) = 0 /\ Len(b) = 0
    BY <1>3, <1>5
  <2> QED BY <2>1, EmptySeq
<1> QED BY <1>2, <1>4, <1>5

(* What the chain is like of the calls a handler makes.                    *)
LEMMA ChainOfSent ==
  ASSUME CallsTypeOK, agenda[Client] # <<>>, NEW calls \in Seq(MergeCalls), Sends(calls),
         NEW what, Chain(what, agenda'[Client] \o Waiting')
  PROVE  Chain(what, calls)
<1> DEFINE t == Tail(agenda[Client])
<1>1. t \in Seq(MergeCalls) /\ Waiting \in Seq(MergeCalls)
  BY WaitingIsTyped, HeadTailSet DEF CallsTypeOK
<1>2. \/ agenda'[Client] = calls \o t /\ Waiting' = Waiting
      \/ agenda'[Client] = t /\ Waiting' = Waiting \o calls
  BY DepthIsNat, AppendsTasks DEF CallsTypeOK, Sends, Makes, Leaves, Waiting
<1> HIDE DEF t
<1>3. calls \o t \in Seq(MergeCalls) /\ Waiting \o calls \in Seq(MergeCalls)
  BY <1>1, ConcatSet
<1>4. CASE agenda'[Client] = calls \o t /\ Waiting' = Waiting
  <2>1. Chain(what, calls \o t)
    BY <1>1, <1>3, <1>4, ChainConcat
  <2> QED BY <1>1, <2>1, ChainConcat
<1>5. CASE agenda'[Client] = t /\ Waiting' = Waiting \o calls
  <2>1. Chain(what, Waiting \o calls)
    BY <1>1, <1>3, <1>5, ChainConcat
  <2> QED BY <1>1, <2>1, ChainConcat
<1> QED BY <1>2, <1>4, <1>5

(* A handler makes no error of its own, and calls the source only if it is *)
(* the source's; or it makes one error, of one it was about, and no other. *)
Passes(calls) ==
  \A d \in ToSet(calls) : ~Erring(d) /\ (SourceCall(d) => SourceCall(Head(agenda[Client])))

Fails(calls) ==
  /\ Fatal(Head(agenda[Client]))
  /\ \E quiet \in Seq(MergeCalls), d \in MergeCalls :
       calls = quiet \o <<d>> /\ \A e \in ToSet(quiet) : ~Fatal(e)

Errors == \E calls \in Seq(MergeCalls) : Sends(calls) /\ (Passes(calls) \/ Fails(calls))

LEMMA PassesSends ==
  ASSUME CallsTypeOK, agenda[Client] # <<>>, Once, NEW calls \in Seq(MergeCalls), Passes(calls),
         Conserves(Head(agenda[Client]), calls), Chain("source", calls)
  PROVE  /\ Chain("failure", calls)
         /\ \A d \in ToSet(calls) : Fatal(d) => Fatal(Head(agenda[Client]))
<1> DEFINE c == Head(agenda[Client])
<1>1. \A k \in DOMAIN calls : calls[k] \in ToSet(calls)
  BY DEF ToSet
<1>2. \A p \in Failing : p \in Publishers
  BY DEF Failing
<1>3. ASSUME NEW k \in DOMAIN calls, Fatal(calls[k])
      PROVE  Fatal(c)
  <2>1. CASE input.end = "onError" /\ SourceCall(calls[k])
    BY <1>1, <2>1 DEF Passes, Fatal
  <2>2. ASSUME NEW p \in Failing, Token(p, calls[k]) PROVE Fatal(c)
    BY <1>2, <2>2 DEF Conserves, Has, Fatal
  <2> QED BY <1>1, <1>3, <2>1, <2>2 DEF Passes, Fatal
<1>4. ASSUME NEW j \in DOMAIN calls, NEW k \in DOMAIN calls, j < k, Fatal(calls[j]), Fatal(calls[k])
      PROVE  FALSE
  <2>1. ~(SourceCall(calls[j]) /\ SourceCall(calls[k]))
    BY <1>4 DEF Chain, Apart
  <2>2. ASSUME NEW p \in Failing, Token(p, calls[j]), Token(p, calls[k]) PROVE FALSE
    <3>1. j = k
      BY <1>2, <2>2 DEF Conserves, One
    <3>2. DOMAIN calls \subseteq Nat
      BY LenProperties
    <3> QED BY <1>4, <3>1, <3>2
  <2> QED BY <1>1, <1>4, <2>1, <2>2, OnceMeans DEF Passes, Fatal
<1>5. \A d \in ToSet(calls) : \E k \in DOMAIN calls : d = calls[k]
  BY DEF ToSet
<1> HIDE DEF c
<1> QED BY <1>3, <1>4, <1>5 DEF Chain, Apart, c

LEMMA FailsSends ==
  ASSUME NEW calls \in Seq(MergeCalls), Fails(calls)
  PROVE  /\ Chain("failure", calls)
         /\ \A d \in ToSet(calls) : Fatal(d) => Fatal(Head(agenda[Client]))
<1>1. PICK quiet \in Seq(MergeCalls), d \in MergeCalls :
             calls = quiet \o <<d>> /\ \A e \in ToSet(quiet) : ~Fatal(e)
  BY DEF Fails
<1>2. <<d>> \in Seq(MergeCalls)
  BY <1>1
<1>3. Chain("failure", <<d>>)
  BY SingleChain
<1>4. Chain("failure", quiet)
  <2>1. \A k \in DOMAIN quiet : quiet[k] \in ToSet(quiet)
    BY DEF ToSet
  <2> QED BY <1>1, <2>1 DEF Chain, Apart
<1>5. \A e \in ToSet(quiet), f \in ToSet(<<d>>) : Apart("failure", e, f)
  BY <1>1 DEF Apart
<1> QED BY <1>1, <1>2, <1>3, <1>4, <1>5, ChainConcat DEF Fails

LEMMA ErrorsKeep ==
  ASSUME MergeInv, Always, Always', Once, Chain("failure", Queue), agenda[Client] # <<>>, input' = input,
         Errors, \E calls : Conserves(Head(agenda[Client]), calls) /\ Sends(calls)
  PROVE  /\ Chain("failure", Queue)'
         /\ (\A c \in Under : ~Fatal(c)) => \A c \in Under' : ~Fatal(c)'
<1>1. CallsTypeOK
  BY DEF MergeInv, TypeInv
<1>2. PICK calls \in Seq(MergeCalls) : Sends(calls) /\ (Passes(calls) \/ Fails(calls))
  BY DEF Errors
<1>3. Conserves(Head(agenda[Client]), calls)
  BY <1>1, <1>2, SendsOnce DEF Conserves
<1>4. Chain("source", calls)
  <2>1. Chain("source", agenda'[Client] \o Waiting')
    BY DEF Always, Chain, Apart, SourceCall, Queue
  <2> QED BY <1>1, <1>2, <2>1, ChainOfSent
<1>5. /\ Chain("failure", calls)
      /\ \A d \in ToSet(calls) : Fatal(d) => Fatal(Head(agenda[Client]))
  BY <1>1, <1>2, <1>3, <1>4, PassesSends, FailsSends
<1>6. \A d \in ToSet(calls), e \in Rest : Apart("failure", d, e) /\ Apart("failure", e, d)
  <2>1. \A e \in Rest : ~(Fatal(Head(agenda[Client])) /\ Fatal(e))
    BY <1>1, HeadIsApart DEF Apart
  <2> QED BY <1>5, <2>1 DEF Apart
<1>7. Chain("failure", agenda'[Client] \o Waiting')
  BY <1>1, <1>2, <1>5, <1>6, ChainSends DEF Sends
<1>8. Under = {Head(agenda[Client])} \cup Rest /\ Under' = ToSet(calls) \cup Rest
  BY <1>1, <1>2, QueueSends
<1> QED BY <1>5, <1>7, <1>8, FailureChainStays, FatalStays

(* The errors of each handler.                                             *)
Passed(d) == ~Erring(d) /\ (SourceCall(d) => SourceCall(Head(agenda[Client])))

LEMMA ErrorsPass ==
  /\ Sends(<<>>) => Errors
  /\ \A d \in MergeCalls : Sends(<<d>>) /\ Passed(d) => Errors
  /\ \A d \in MergeCalls, e \in MergeCalls : Sends(<<d, e>>) /\ Passed(d) /\ Passed(e) => Errors
  /\ \A d \in MergeCalls : Sends(<<d>>) /\ Fatal(d) /\ Fatal(Head(agenda[Client])) => Errors
<1>1. <<>> \in Seq(MergeCalls) /\ Passes(<<>>)
  BY SmallSets DEF Passes
<1>2. ASSUME NEW d \in MergeCalls, Passed(d)
      PROVE  <<d>> \in Seq(MergeCalls) /\ Passes(<<d>>)
  BY <1>2, SmallSets DEF Passes, Passed
<1>3. ASSUME NEW d \in MergeCalls, NEW e \in MergeCalls, Passed(d), Passed(e)
      PROVE  <<d, e>> \in Seq(MergeCalls) /\ Passes(<<d, e>>)
  BY <1>3, SmallSets DEF Passes, Passed
<1>4. ASSUME NEW d \in MergeCalls, Fatal(Head(agenda[Client]))
      PROVE  <<d>> \in Seq(MergeCalls) /\ Fails(<<d>>)
  <2>1. <<d>> = <<>> \o <<d>>
    BY TupleConcat
  <2>2. <<d>> \in Seq(MergeCalls)
    OBVIOUS
  <2> QED BY <1>1, <1>4, <2>1, <2>2, SmallSets DEF Fails
<1> QED BY <1>1, <1>2, <1>3, <1>4 DEF Errors

LEMMA SourceErrors ==
  ASSUME TypeInv, Source(Client)
  PROVE  Errors
<1> DEFINE c == Head(agenda[Client])
<1>0. PICK q \in Nat : q = Arg(Client)
  BY HeadIsTyped DEF Source, On, TypeInv, Arg
<1>1. SourceCall(c)
  BY DEF Source, On, SourceCall
<1>2. ASSUME NEW d, d.at \in {0, Depth} PROVE Passed(d)
  BY <1>1, <1>2, PlacesDiffer DEF Passed, Erring
<1>3. ASSUME NEW n \in Nat, Leaves(Client, input.later, <<Call(0, "emit", n)>>)
      PROVE  Errors
  <2> DEFINE d == Call(0, "emit", n)
  <2>1. d \in MergeCalls /\ d.at = 0
    BY NewCall, PlacesNamed, SentNamed, PlacesDiffer
  <2>2. Sends(<<d>>)
    BY <1>3, LeavesSends
  <2> HIDE DEF d
  <2> QED BY <1>2, <2>1, <2>2, ErrorsPass
<1>4. CASE Makes(Client, <<Call(Depth, input.end, 0)>>)
  <2> DEFINE d == Call(Depth, input.end, 0)
  <2>1. input.end \in Ends
    BY MergeAssumption DEF TypeInv, TypeOK, Ends
  <2>2. d \in MergeCalls /\ d.at = Depth
    BY <2>1, NewCall, PlacesNamed, SentNamed, PlacesDiffer DEF Ends
  <2>3. Sends(<<d>>)
    BY <1>4 DEF Sends
  <2> HIDE DEF d
  <2> QED BY <1>2, <2>2, <2>3, ErrorsPass
<1>5. CASE q \in Publishers /\ Makes(Client, <<Call(Depth, "onNext", q), Call(0, "emitted", q)>>)
  <2> DEFINE d == Call(Depth, "onNext", q)
             e == Call(0, "emitted", q)
  <2>1. d \in MergeCalls /\ d.at = Depth /\ e \in MergeCalls /\ e.at = 0
    BY <1>5, NewCall, PlacesNamed, SentNamed, PlacesDiffer
  <2>2. Sends(<<d, e>>)
    BY <1>5 DEF Sends
  <2> HIDE DEF d, e
  <2> QED BY <1>2, <2>1, <2>2, ErrorsPass
<1>6. q + 1 \in Nat /\ 1 \in Nat
  OBVIOUS
<1>7. \/ Leaves(Client, input.later, <<Call(0, "emit", 1)>>)
      \/ Leaves(Client, input.later, <<Call(0, "emit", q + 1)>>)
      \/ Makes(Client, <<Call(Depth, input.end, 0)>>)
      \/ q \in Publishers /\ Makes(Client, <<Call(Depth, "onNext", q), Call(0, "emitted", q)>>)
  BY <1>0 DEF Source
<1> QED BY <1>3, <1>4, <1>5, <1>6, <1>7

(* A publisher that fails is asked once, and sends one error.              *)
LEMMA PublisherPasses ==
  ASSUME NEW p \in Publishers, NEW d, d.at = p, d.sig \notin Failures
  PROVE  Passed(d) /\ ((\A q \in Publishers : ~Token(q, d)) => ~Fatal(d))
BY PlacesDiffer DEF Passed, Erring, SourceCall, Fatal, Failing

LEMMA SubscribesErrors ==
  ASSUME TypeInv, NEW p \in Publishers, Subscribes(Client, p)
  PROVE  Errors
<1> DEFINE c == Head(agenda[Client])
<1>1. CallsTypeOK /\ agenda[Client] # <<>> /\ c.at = p /\ c.sig = "subscribe" /\ Pub(p) \in Published
  BY PublisherIsTyped DEF Subscribes, On, TypeInv
<1>2. EndOf(p) = "onError" => Fatal(c)
  BY <1>1 DEF Fatal, Failing, Token
<1>3. CASE Gate(p)
  <2> DEFINE values == [k \in 1 .. Pub(p).size |-> Call(p, "onNext", Element(p, k))]
             end    == IF Pub(p).end = "none" THEN <<>> ELSE <<Call(p, Pub(p).end, 0)>>
             Mild(d) == d \in MergeCalls /\ Passed(d) /\ ~Fatal(d)
  <2>1. Pub(p).size \in Nat /\ Pub(p).end \in {"onComplete", "onError", "none"}
    BY <1>1 DEF Published
  <2>2. ASSUME NEW k \in 1 .. Pub(p).size PROVE Mild(Call(p, "onNext", Element(p, k)))
    <3> DEFINE d == Call(p, "onNext", Element(p, k))
    <3>1. Element(p, k) \in Nat
      BY <2>1, OriginOfElement
    <3>2. d \in MergeCalls /\ d.at = p /\ d.sig = "onNext"
      BY <3>1, ValueIsTyped
    <3> HIDE DEF d
    <3>3. \A q \in Publishers : ~Token(q, d)
      BY <3>2, PlacesDiffer DEF Token
    <3> QED BY <3>2, <3>3, PublisherPasses DEF Failures, d
  <2>3. values \in Seq(MergeCalls) /\ \A d \in ToSet(values) : Mild(d)
    <3>1. values \in Seq(MergeCalls)
      BY <2>1, <2>2, IsASeq
    <3> QED BY <2>2, <3>1 DEF ToSet
  <2>4. Sends(values \o end)
    BY <1>3, LeavesSends DEF Subscribes
  <2> HIDE DEF values, end, Mild
  <2>5. CASE Pub(p).end = "none"
    <3>1. end = <<>> /\ end \in Seq(MergeCalls) /\ ToSet(end) = {}
      BY <2>5, SmallSets DEF end
    <3>2. values \o end \in Seq(MergeCalls) /\ ToSet(values \o end) = ToSet(values) \cup ToSet(end)
      BY <2>3, <3>1, ConcatSet
    <3> QED BY <2>3, <2>4, <3>1, <3>2 DEF Errors, Passes, Passed, Mild
  <2>6. CASE Pub(p).end # "none"
    <3>0. PICK sig \in {"onComplete", "onError"} : sig = Pub(p).end
      BY <2>1, <2>6
    <3> DEFINE d == Call(p, sig, 0)
    <3>1. d \in MergeCalls /\ d.at = p /\ d.sig = sig
      BY NewCall, PlacesNamed, SentNamed, PlacesDiffer
    <3>2. end = <<d>>
      BY <2>6, <3>0 DEF end
    <3> HIDE DEF d
    <3>3. end \in Seq(MergeCalls) /\ ToSet(end) = {d}
      BY <3>1, <3>2, SmallSets
    <3>4. values \o end \in Seq(MergeCalls) /\ ToSet(values \o end) = ToSet(values) \cup ToSet(end)
      BY <2>3, <3>3, ConcatSet
    <3>5. CASE sig = "onComplete"
      <4>1. Passed(d)
        BY <3>1, <3>5, PublisherPasses DEF Failures
      <4> QED BY <2>3, <2>4, <3>3, <3>4, <4>1 DEF Errors, Passes, Passed, Mild
    <3>6. CASE sig = "onError"
      <4>1. EndOf(p) = "onError"
        <5>1. EndOf(p) = Pub(p).end
          BY <1>3 DEF EndOf, Gate, Pub
        <5> QED BY <3>0, <3>6, <5>1
      <4> QED BY <1>2, <2>3, <2>4, <3>1, <3>2, <3>4, <4>1 DEF Errors, Fails, Mild
    <3> QED BY <3>5, <3>6
  <2> QED BY <2>5, <2>6
<1>4. CASE ~Gate(p) /\ Pub(p).kind = "error"
  <2> DEFINE d == Call(p, "onError", 0)
  <2>1. d \in MergeCalls /\ d.at = p /\ d.sig = "onError"
    BY NewCall, PlacesNamed, SentNamed, PlacesDiffer
  <2>2. EndOf(p) = "onError"
    BY <1>4 DEF EndOf
  <2>3. Sends(<<d>>)
    BY <1>4, LeavesSends DEF Subscribes
  <2> HIDE DEF d
  <2>4. Fatal(d)
    BY <2>1 DEF Fatal, Erring, Failures
  <2> QED BY <1>2, <2>1, <2>2, <2>3, <2>4, ErrorsPass
<1>5. CASE ~Gate(p) /\ Pub(p).kind # "error"
  <2> DEFINE d == Call(p, "onSubscribe", 0)
  <2>1. d \in MergeCalls /\ d.at = p /\ d.sig = "onSubscribe"
    BY NewCall, PlacesNamed, SentNamed, PlacesDiffer
  <2>2. Sends(<<d>>)
    BY <1>5 DEF Subscribes, Sends
  <2> HIDE DEF d
  <2> QED BY <2>1, <2>2, PublisherPasses, ErrorsPass DEF Failures
<1> QED BY <1>3, <1>4, <1>5

LEMMA InnerErrors ==
  ASSUME TypeInv, Inner(Client)
  PROVE  Errors
<1>1. ASSUME NEW p \in Publishers, Requested(Client, p)
      PROVE  Errors
  <2>1. PICK v \in MergeCalls, e \in MergeCalls :
               /\ v.at = p /\ v.sig = "onNext" /\ e.at = p /\ e.sig = "onComplete"
               /\ \/ Leaves(Client, Pub(p).later, <<>>) \/ Leaves(Client, Pub(p).later, <<e>>)
                  \/ Leaves(Client, Pub(p).later, <<v>>) \/ Leaves(Client, Pub(p).later, <<v, e>>)
    <3>1. PICK n \in Nat, v, e \in MergeCalls :
          /\ n = inner[p].m_current
          /\ \A q \in Publishers \ {p} : inner'[q] = inner[q]
          /\ inner[p].m_completed \in BOOLEAN
          /\ v.at = p /\ v.sig = "onNext" /\ v.arg = Element(p, n + 1)
          /\ e.at = p /\ e.sig = "onComplete"
          /\ \/ /\ inner' = inner /\ Leaves(Client, Pub(p).later, <<>>)
                /\ inner[p].m_completed \/ inner[p].m_canceled \/ Pub(p).kind = "never"
             \/ n = Pub(p).size /\ Emits(p, n, 1, <<e>>)
             \/ n # Pub(p).size /\ Pub(p).kind # "just" /\ Emits(p, n + 1, 0, <<v>>)
             \/ n # Pub(p).size /\ Pub(p).kind = "just" /\ Emits(p, n + 1, 1, <<v, e>>)
      BY <1>1, RequestedEmits
    <3> QED BY <3>1 DEF Emits
  <2>2. Sends(<<>>) \/ Sends(<<e>>) \/ Sends(<<v>>) \/ Sends(<<v, e>>)
    BY <2>1, LeavesSends
  <2>3. Passed(v) /\ Passed(e)
    BY <2>1, PublisherPasses DEF Failures
  <2> QED BY <2>2, <2>3, ErrorsPass
<1>2. ASSUME NEW p \in Publishers, Canceled(Client, p)
      PROVE  Errors
  <2> DEFINE e == Call(p, "onComplete", 0)
  <2>1. e \in MergeCalls /\ e.at = p /\ e.sig = "onComplete"
    BY NewCall, PlacesNamed, SentNamed, PlacesDiffer
  <2>2. Sends(<<e>>)
    BY <1>2, LeavesSends DEF Canceled
  <2> HIDE DEF e
  <2> QED BY <2>1, <2>2, PublisherPasses, ErrorsPass DEF Failures
<1> QED BY <1>1, <1>2, SubscribesErrors DEF Inner

(* MergeSubscription makes an error only of one it is given.               *)
LEMMA CancelsErrors ==
  ASSUME NEW m \in MergeState, NEW more \in Seq(MergeCalls), Cancels(Client, m, more),
         more = <<>> \/ (more = <<Failure(Depth)>> /\ Fatal(Head(agenda[Client])))
  PROVE  Errors
<1>1. PICK calls \in Seq(MergeCalls) :
           /\ Makes(Client, calls \o more)
           /\ \A d \in ToSet(calls) : d.at \in Publishers /\ d.sig = "cancel"
  BY CancelsMakes
<1>2. \A d \in ToSet(calls) : Passed(d) /\ ~Fatal(d)
  <2> SUFFICES ASSUME NEW d \in ToSet(calls) PROVE Passed(d) /\ ~Fatal(d)
    OBVIOUS
  <2>1. \A q \in Publishers : ~Token(q, d)
    BY <1>1, PlacesDiffer DEF Token
  <2> QED BY <1>1, <2>1, PublisherPasses DEF Failures
<1>3. Sends(calls \o more) /\ calls \o more \in Seq(MergeCalls)
  BY <1>1, ConcatSet DEF Sends
<1>4. CASE more = <<>>
  <2>1. ToSet(calls \o more) = ToSet(calls)
    BY <1>4, ConcatSet, SmallSets
  <2> QED BY <1>2, <1>3, <2>1 DEF Errors, Passes, Passed
<1>5. CASE more = <<Failure(Depth)>> /\ Fatal(Head(agenda[Client]))
  <2> DEFINE d == Failure(Depth)
  <2>1. d \in MergeCalls
    <3>1. d = Call(Subscriber, "onError", 0)
      BY DEF Failure, Subscriber
    <3> HIDE DEF d
    <3> QED BY <3>1, NewCall, PlacesNamed, SentNamed, PlacesDiffer
  <2> HIDE DEF d
  <2> QED BY <1>2, <1>3, <1>5, <2>1 DEF Errors, Fails, d
<1> QED BY <1>4, <1>5

LEMMA ConcludesErrors ==
  ASSUME NEW m \in MergeState, Concludes(Client, m)
  PROVE  Errors
<1> DEFINE d == Completion(Depth)
           over == ~m.m_completed /\ m.m_remaining = 0 /\ m.sourceCompleted
<1>1. /\ Makes(Client, IF over /\ ~m.m_canceled THEN <<d>> ELSE <<>>)
      /\ d \in MergeCalls /\ d.at = Subscriber /\ d.sig = "onComplete"
  BY ConcludesMakes
<1> HIDE DEF d, over
<1>2. Passed(d)
  BY <1>1, PlacesDiffer DEF Passed, Erring, SourceCall
<1>3. Sends(<<>>) \/ Sends(<<d>>)
  BY <1>1 DEF Sends
<1> QED BY <1>1, <1>2, <1>3, ErrorsPass

LEMMA HandlesErrors ==
  ASSUME MergeInv, Always, Handles(Client)
  PROVE  Errors
<1> DEFINE c == Head(agenda[Client])
<1>0. TypeInv /\ CallsTypeOK /\ merge \in MergeState
  BY DEF MergeInv, TypeInv, TypeOK, MergeState
<1>1. ASSUME agenda[Client] # <<>>
      PROVE  Sound(c) /\ c \in MergeCalls /\ c.arg = Arg(Client) /\ Arg(Client) \in Nat
  BY <1>0, <1>1, HeadIsSound, HeadIsTyped DEF Arg
<1>2. CASE Subscribed(Client)
  <2> DEFINE d == Call(0, "subscribe", 0)
             e == Subscription(Depth)
  <2>1. d \in MergeCalls /\ d.at = 0
    BY NewCall, PlacesNamed, SentNamed, PlacesDiffer
  <2>2. e \in MergeCalls /\ e.at = Subscriber /\ e.sig = "onSubscribe"
    BY NewCall, PlacesNamed, SentNamed, PlacesDiffer DEF Subscription, Subscriber
  <2>3. SourceCall(c) /\ Sends(<<d, e>>)
    BY <1>2 DEF Subscribed, On, SourceCall, Sends
  <2> HIDE DEF d, e
  <2>4. Passed(d) /\ Passed(e)
    BY <2>1, <2>2, <2>3, PlacesDiffer DEF Passed, Erring, SourceCall
  <2> QED BY <2>1, <2>2, <2>3, <2>4, ErrorsPass
<1>3. CASE SourceNext(Client)
  <2>1. agenda[Client] # <<>> /\ c.at = Depth /\ c.sig = "onNext"
    BY <1>3 DEF SourceNext, On
  <2>2. PICK p \in Publishers : p = Arg(Client)
    BY <1>1, <2>1 DEF MergeCalls
  <2> DEFINE d == Call(p, "subscribe", 0)
  <2>3. Sends(<<d>>)
    BY <1>3, <2>2 DEF SourceNext, Sends
  <2>4. d \in MergeCalls /\ d.at = p /\ d.sig = "subscribe"
    BY <2>2, NewCall, PlacesNamed, SentNamed, PlacesDiffer
  <2> HIDE DEF d
  <2> QED BY <2>3, <2>4, PublisherPasses, ErrorsPass DEF Failures
<1>4. CASE SourceError(Client)
  <2>1. agenda[Client] # <<>> /\ c.at = Depth /\ c.sig = "onError"
    BY <1>4 DEF SourceError, On
  <2>2. Fatal(c)
    BY <1>1, <2>1 DEF Sound, Proper, Ends, Fatal, SourceCall
  <2> QED BY <1>0, <1>4, <2>2, FailureIsTyped, CancelsErrors DEF SourceError
<1>5. CASE SourceComplete(Client)
  <2>1. [merge EXCEPT !.sourceCompleted = TRUE] \in MergeState
    BY <1>0 DEF MergeState
  <2> QED BY <1>5, <2>1, ConcludesErrors DEF SourceComplete
<1>6. CASE MergeRequest(Client) \/ \E p \in Publishers : Adds(Client, p)
  <2> DEFINE d == Call(Depth, "tryRequest", 0)
  <2>1. Sends(<<d>>)
    BY <1>6 DEF MergeRequest, Adds, Sends
  <2>2. d \in MergeCalls /\ d.at = Depth /\ d.sig = "tryRequest"
    BY NewCall, PlacesNamed, SentNamed, PlacesDiffer
  <2> HIDE DEF d
  <2>3. Passed(d)
    BY <2>2, PlacesDiffer DEF Passed, Erring, SourceCall
  <2> QED BY <2>1, <2>2, <2>3, ErrorsPass
<1>7. CASE MergeCancel(Client)
  BY <1>0, <1>7, FailureIsTyped, CancelsErrors DEF MergeCancel
<1>8. ASSUME NEW p \in Publishers, Receives(Client, p)
      PROVE  Errors
  <2>1. PICK sig \in DOMAIN Handlers :
               /\ On(Client, p, sig)
               /\ Leaves(Client, merge.scheduler, <<Call(p, Handlers[sig], Arg(Client))>>)
    BY <1>8 DEF Receives
  <2>2. agenda[Client] # <<>> /\ c.at = p /\ c.sig = sig
    BY <2>1 DEF On
  <2>3. PICK n \in Nat : n = Arg(Client)
    BY <1>1, <2>2
  <2> DEFINE d == Call(p, Handlers[sig], n)
  <2>4. /\ sig \in {"onSubscribe", "onNext", "onComplete", "onError"}
        /\ Handlers[sig] = CASE sig = "onSubscribe" -> "add" [] sig = "onNext" -> "onPublisherNextValue"
                             [] sig = "onComplete" -> "onPublisherComplete" [] sig = "onError" -> "onPublisherError"
    BY DEF Handlers
  <2>5. d \in MergeCalls /\ d.at = p /\ d.sig = Handlers[sig]
    BY <2>4, NewCall, PlacesNamed, SentNamed, PlacesDiffer
  <2>6. Sends(<<d>>)
    BY <2>1, <2>3, LeavesSends
  <2> HIDE DEF d
  <2>7. CASE sig = "onError"
    <3>1. Fatal(c) /\ Fatal(d)
      BY <2>2, <2>4, <2>5, <2>7 DEF Fatal, Erring, Failures
    <3> QED BY <2>5, <2>6, <3>1, ErrorsPass
  <2>8. CASE sig # "onError"
    <3>1. d.sig \notin Failures
      BY <2>4, <2>5, <2>8 DEF Failures
    <3> QED BY <2>5, <2>6, <3>1, PublisherPasses, ErrorsPass
  <2> QED BY <2>7, <2>8
<1>9. ASSUME NEW p \in Publishers, OnPublisherNextValue(Client, p)
      PROVE  Errors
  <2>0. PICK n \in Nat : n = Arg(Client)
    BY <1>1, <1>9 DEF OnPublisherNextValue, On
  <2> DEFINE d == Value(Depth, n)
  <2>1. Sends(<<>>) \/ Sends(<<d>>)
    BY <1>9, <2>0 DEF OnPublisherNextValue, Sends
  <2>2. d \in MergeCalls /\ d.at = Subscriber /\ d.sig = "onNext"
    <3>1. d = Call(Subscriber, "onNext", n)
      BY DEF Value, Subscriber
    <3> HIDE DEF d
    <3> QED BY <3>1, NewCall, PlacesNamed, SentNamed, PlacesDiffer
  <2> HIDE DEF d
  <2>3. Passed(d)
    BY <2>2, PlacesDiffer DEF Passed, Erring, SourceCall
  <2> QED BY <2>1, <2>2, <2>3, ErrorsPass
<1>10. ASSUME NEW p \in Publishers, OnPublisherError(Client, p)
       PROVE  Errors
  <2>1. Fatal(c)
    BY <1>10 DEF OnPublisherError, On, Fatal, Erring, Failures
  <2>2. Removed(p) \in MergeState
    BY RemovedState
  <2> QED BY <1>10, <2>1, <2>2, FailureIsTyped, CancelsErrors DEF OnPublisherError
<1>11. ASSUME NEW p \in Publishers, OnPublisherComplete(Client, p)
       PROVE  Errors
  BY <1>11, RemovedState, ConcludesErrors DEF OnPublisherComplete
<1> QED BY <1>2, <1>3, <1>4, <1>5, <1>6, <1>7, <1>8, <1>9, <1>10, <1>11 DEF Handles

LEMMA MergesErrors ==
  ASSUME MergeInv, Always, Merges(Client)
  PROVE  Errors
<1>1. CASE StopsTurns(Client)
  BY <1>1, ErrorsPass DEF StopsTurns, Sends
<1>2. CASE GivesTurn(Client)
  <2> DEFINE q == merge.m_subscriptions[merge.m_currentIndex + 1]
             d == Call(q, "request", 1)
             e == Call(Depth, "tryRequest", 0)
  <2>1. q \in Publishers
    BY <1>2, TurnsList DEF MergeInv, TypeInv, TypeOK, MergeState
  <2>2. Sends(<<d, e>>)
    BY <1>2 DEF GivesTurn, Sends
  <2> HIDE DEF q
  <2>3. d \in MergeCalls /\ d.at = q /\ d.sig = "request"
    BY <2>1, NewCall, PlacesNamed, SentNamed, PlacesDiffer
  <2>4. e \in MergeCalls /\ e.at = Depth /\ e.sig = "tryRequest"
    BY NewCall, PlacesNamed, SentNamed, PlacesDiffer
  <2> HIDE DEF d, e
  <2>5. Passed(d) /\ Passed(e)
    BY <2>1, <2>3, <2>4, PublisherPasses, PlacesDiffer DEF Passed, Erring, SourceCall, Failures
  <2> QED BY <2>2, <2>3, <2>4, <2>5, ErrorsPass
<1> QED BY <1>1, <1>2, HandlesErrors DEF Merges

(* The user's calls are no errors, and lead to none.                       *)
LEMMA UserSentIsMild ==
  ASSUME NEW d \in UserSent
  PROVE  Passed(d) /\ ~Fatal(d)
<1>1. ~SourceCall(d) /\ \A q \in Publishers : ~Token(q, d)
  BY UserSentIsSound, UserSentIsPlain, PlainIsNoToken
<1>2. d.sig \notin {"onError", "onPublisherError"}
  <2>1. ASSUME NEW n, d = Call(Depth, "request", n) PROVE d.sig = "request"
    BY <2>1 DEF Call
  <2>2. d = Call(Depth, "cancel", 0) => d.sig = "cancel"
    BY DEF Call
  <2>3. d = Call(Subscriber, "received", 0) => d.sig = "received"
    BY DEF Call
  <2> QED BY <2>1, <2>2, <2>3 DEF UserSent, Request, Cancel
<1> QED BY <1>1, <1>2 DEF Passed, Erring, Fatal, Failures, Failing

LEMMA SubscriberErrors ==
  ASSUME SubscriberStep(Client)
  PROVE  Errors
<1>1. PICK calls \in Seq(UserSent) : Makes(Client, calls)
  BY SubscriberCalls
<1>2. calls \in Seq(MergeCalls) /\ \A d \in ToSet(calls) : d \in UserSent
  BY UserCallsAreQuiet
<1> QED BY <1>1, <1>2, UserSentIsMild DEF Errors, Sends, Passes, Passed

---------------------------------------------------------------------------
(* The subscriber's history.                                               *)
LEMMA LogStays ==
  ASSUME Once, FailsOnce, input' = input, log' = log, Chain("failure", Queue)',
         (\A c \in Under : ~Fatal(c)) => \A c \in Under' : ~Fatal(c)'
  PROVE  FailsOnce'
BY DEF FailsOnce

(* What follows the subscriber's end is not given to it.                   *)
LEMMA EndIsLast ==
  ASSUME MergeInv, Delivers, FailsOnce, Once, OnNext(Client) \/ OnEnd(Client), UNCHANGED mergeVars
  PROVE  log'.late = <<>> /\ (log'.end # "none" => \A d \in Rest : ~Fatal(d))
<1> DEFINE c == Head(agenda[Client])
<1>1. /\ TypeInv /\ Always /\ agenda[Client] # <<>> /\ c.at = Subscriber /\ log' = Logged(c)
      /\ Chain("failure", Queue) /\ log.late = <<>>
      /\ log.end # "none" => \A d \in Under : ~Fatal(d)
  BY DEF OnNext, OnEnd, On, MergeInv, Delivers, FailsOnce
<1>2. /\ CallsTypeOK /\ Sound(c)
      /\ c \in Under /\ Under = {c} \cup Rest
  BY <1>1, HeadIsSound, HeadIsUnder DEF TypeInv
<1>3. CASE c.sig = "onNext"
  <2>1. ~merge.m_canceled /\ Flow
    BY <1>1, <1>2, <1>3 DEF Sound, Delivers
  <2>2. ~Ended
    BY <1>1, <1>3, <2>1, NextInOrder DEF On
  <2> QED BY <1>1, <1>3, <2>2 DEF Logged, Ended, Ends, TypeInv, TypeOK, SubscriberTypeOK
<1>4. CASE c.sig = "onError"
  <2>1. Fatal(c)
    BY <1>1, <1>4 DEF Fatal, Erring
  <2>2. ~Ended
    BY <1>1, <1>2, <2>1 DEF Ended
  <2>3. \A d \in Rest : ~Fatal(d)
    BY <1>1, <1>2, <2>1, HeadIsApart DEF Apart
  <2>4. log'.late = log.late
    BY <1>1, <1>4, <2>2 DEF Logged, Ends, TypeInv, TypeOK, SubscriberTypeOK
  <2> QED BY <1>1, <2>3, <2>4
<1>5. CASE c.sig = "onComplete"
  <2>1. merge.m_completed /\ ~merge.m_canceled /\ log.end = "none" /\ Flow
    BY <1>1, <1>2, <1>5 DEF Sound, Delivers
  <2>2. input.end = "onComplete" /\ \A d \in Under : Tame(d)
    BY <1>1, <2>1, CompletedIsTame
  <2>3. \A d : Tame(d) => ~Fatal(d)
    BY <2>2, PlacesDiffer DEF Tame, Fatal, Erring, Failures, Failing, Token
  <2>4. log'.late = log.late
    BY <1>1, <1>5, <2>1 DEF Logged, Ended, Ends, TypeInv, TypeOK, SubscriberTypeOK
  <2> QED BY <1>1, <1>2, <2>2, <2>3, <2>4
<1>6. c.sig \in {"onNext", "onError", "onComplete"}
  BY DEF OnNext, OnEnd, On
<1> QED BY <1>3, <1>4, <1>5, <1>6

LEMMA SubscriberFails ==
  ASSUME MergeInv, Delivers, FailsOnce, Once, SubscriberStep(Client), UNCHANGED mergeVars,
         Chain("failure", Queue)',
         (\A c \in Under : ~Fatal(c)) => \A c \in Under' : ~Fatal(c)'
  PROVE  FailsOnce'
<1>1. input' = input
  BY DEF mergeVars
<1>2. CASE OnSubscribed(Client) \/ Received(Client)
  BY <1>1, <1>2, LogStays DEF OnSubscribed, Received
<1>3. CASE OnNext(Client) \/ OnEnd(Client)
  <2>1. log'.late = <<>> /\ (log'.end # "none" => \A d \in Rest : ~Fatal(d))
    BY <1>3, EndIsLast
  <2>2. PICK calls \in Seq(UserSent) : Makes(Client, calls)
    BY SubscriberCalls
  <2>3. calls \in Seq(MergeCalls) /\ \A d \in ToSet(calls) : d \in UserSent
    BY <2>2, UserCallsAreQuiet
  <2>4. Under' = ToSet(calls) \cup Rest
    BY <1>3, <2>2, <2>3, QueueSends DEF MergeInv, TypeInv, Sends, OnNext, OnEnd, On
  <2> QED BY <1>1, <2>1, <2>3, <2>4, UserSentIsMild, FatalStays DEF FailsOnce
<1> QED BY <1>2, <1>3 DEF SubscriberStep

LEMMA FailsStep ==
  ASSUME MergeInv, Delivers, FailsOnce, [Next]_vars
  PROVE  FailsOnce'
<1>1. TypeInv /\ CallsTypeOK /\ Walkable(merge) /\ Always /\ input' = input
  BY MergeStep DEF MergeInv, TypeInv, Delivers, vars, mergeVars
<1>2. Always'
  BY <1>1, AlwaysStep
<1>3. SUFFICES ASSUME Once PROVE FailsOnce'
  BY <1>1, FatalStays DEF FailsOnce
<1>4. Chain("failure", Queue)
  BY <1>3 DEF FailsOnce
<1>5. CASE UNCHANGED vars
  <2>1. agenda'[Client] \o Waiting' = Queue /\ Under' = Under /\ log' = log
    BY <1>5 DEF vars, callVars, subscriberVars, Queue, Under, Waiting
  <2> QED BY <1>1, <1>3, <1>4, <2>1, FailureChainStays, FatalStays, LogStays
<1>6. CASE Dispatch(Client) /\ UNCHANGED <<subscriberVars, mergeVars>>
  <2>1. agenda'[Client] \o Waiting' = Queue /\ Under' = Under /\ log' = log
    BY <1>1, <1>6, QueueTakes DEF subscriberVars
  <2> QED BY <1>1, <1>3, <1>4, <2>1, FailureChainStays, FatalStays, LogStays
<1>7. CASE UserCalls /\ UNCHANGED mergeVars
  <2>1. PICK d \in UserSent :
             /\ Under' = {d} \cup Under
             /\ agenda'[Client] \o Waiting' = <<d>> \o Queue /\ Queue \in Seq(MergeCalls)
    BY <1>1, <1>7, QueueUser
  <2>2. ~Fatal(d) /\ <<d>> \in Seq(MergeCalls) /\ log' = log
    <3>1. <<d>> \in Seq(MergeCalls)
      BY UserSentIsPlain DEF Plain
    <3> QED BY <1>7, <3>1, UserSentIsMild DEF UserCalls
  <2>3. Chain("failure", <<d>> \o Queue)
    <3>1. Chain("failure", <<d>>)
      BY SingleChain
    <3>2. \A e \in ToSet(<<d>>), f \in ToSet(Queue) : Apart("failure", e, f)
      BY <2>2, SmallSets DEF Apart
    <3> QED BY <1>4, <2>1, <2>2, <3>1, <3>2, ChainConcat
  <2> QED BY <1>1, <1>3, <2>1, <2>2, <2>3, FailureChainStays, FatalStays, LogStays
<1>8. ASSUME Source(Client) \/ Inner(Client) \/ Merges(Client) \/ SubscriberStep(Client)
      PROVE  /\ Chain("failure", Queue)'
             /\ (\A c \in Under : ~Fatal(c)) => \A c \in Under' : ~Fatal(c)'
  <2>1. /\ agenda[Client] # <<>>
        /\ \E calls : Conserves(Head(agenda[Client]), calls) /\ Sends(calls)
    BY <1>1, <1>8, WorksConserve
  <2>2. Errors
    BY <1>1, <1>8, SourceErrors, InnerErrors, MergesErrors, SubscriberErrors
  <2> QED BY <1>1, <1>2, <1>3, <1>4, <2>1, <2>2, ErrorsKeep
<1>9. CASE /\ Source(Client) \/ Inner(Client) \/ Merges(Client)
           /\ UNCHANGED subscriberVars
  BY <1>1, <1>3, <1>8, <1>9, LogStays DEF subscriberVars
<1>10. CASE SubscriberStep(Client) /\ UNCHANGED mergeVars
  BY <1>3, <1>8, <1>10, SubscriberFails
<1> QED BY <1>5, <1>6, <1>7, <1>9, <1>10, MergeStep DEF subscriberVars

LEMMA InitFails ==
  ASSUME Init
  PROVE  FailsOnce
<1>1. agenda[Client] = <<Call(Depth, "subscribe", 0)>> /\ Waiting = <<>>
      /\ log.end = "none" /\ log.late = <<>>
  <2>1. DOMAIN <<>> = {}
    OBVIOUS
  <2> QED BY <2>1, DepthIsNat DEF Init, SignalsInit, SubscriberInit, Waiting
<1>2. Queue = <<Call(Depth, "subscribe", 0)>>
  BY <1>1, TupleConcat DEF Queue
<1>3. Chain("failure", Queue)
  BY <1>2, SingleChain
<1> QED BY <1>1, <1>3 DEF FailsOnce

(* The subscriber is called no more after its end, if one error can come   *)
(* at most: the values that were on their way, the completions of the      *)
(* publishers that cancel() asks for and the requests of a subscriber that *)
(* has not heard of it come to nothing.                                    *)
THEOREM MergeEndsOnce == Spec => []EndsOnce
<1>1. Init => FailsOnce
  BY InitFails
<1>2. MergeInv /\ Delivers /\ FailsOnce /\ [Next]_vars => FailsOnce'
  BY FailsStep
<1>3. FailsOnce => EndsOnce
  BY DEF FailsOnce, Once, EndsOnce
<1> QED BY <1>1, <1>2, <1>3, MergeDelivers, PTL DEF Spec

---------------------------------------------------------------------------
(* The values a call may yet lead to, if no publisher sends any unasked.   *)
Owed(c) ==
  IF c.at = Depth /\ c.sig = "request" THEN c.arg
  ELSE IF (c.at \in Publishers /\ c.sig = "request") \/ (Stage(c) > 0 /\ IsValue(c)) THEN 1 ELSE 0

Shares(s) == UNION {{k} \X (1 .. Owed(s[k])) : k \in DOMAIN s}
Load(s)   == Cardinality(Shares(s))

(* What the subscriber has and what may yet come is what was asked for.    *)
Asked ==
  (\A p \in Publishers : ~Gate(p)) =>
    Len(log.values) + Load(Queue) + merge.m_requested <= user.asked

LEMMA OwedIsNat ==
  ASSUME NEW s \in Seq(MergeCalls)
  PROVE  /\ \A k \in DOMAIN s : Owed(s[k]) \in Nat
         /\ \A w : w \in Shares(s) <=> \E k \in DOMAIN s : \E i \in 1 .. Owed(s[k]) : w = <<k, i>>
<1>1. \A c \in MergeCalls : Owed(c) \in Nat
  BY DEF Owed, MergeCalls, Calls
<1>2. \A k \in DOMAIN s : s[k] \in MergeCalls
  BY ElementOfSeq, LenProperties
<1>3. \A k, i, w : w \in {k} \X (1 .. Owed(s[k])) <=> \E j \in 1 .. Owed(s[k]) : w = <<k, j>>
  OBVIOUS
<1> QED BY <1>1, <1>2, <1>3 DEF Shares

LEMMA LoadIsNat ==
  ASSUME NEW s \in Seq(MergeCalls)
  PROVE  IsFiniteSet(Shares(s)) /\ Load(s) \in Nat
<1> DEFINE f == [k \in DOMAIN s |-> {k} \X (1 .. Owed(s[k]))]
           T == {{k} \X (1 .. Owed(s[k])) : k \in DOMAIN s}
<1>1. IsFiniteSet(DOMAIN s)
  <2>1. DOMAIN s = 1 .. Len(s) /\ Len(s) \in Int /\ 1 \in Int
    BY LenProperties
  <2> QED BY <2>1, FS_Interval
<1>2. f \in Surjection(DOMAIN s, T)
  BY DEF Surjection
<1>3. IsFiniteSet(T)
  <2> HIDE DEF f, T
  <2> QED BY <1>1, <1>2, FS_Surjection
<1>4. ASSUME NEW k \in DOMAIN s PROVE IsFiniteSet({k} \X (1 .. Owed(s[k])))
  <2>1. IsFiniteSet({k}) /\ IsFiniteSet(1 .. Owed(s[k]))
    <3>1. Owed(s[k]) \in Int /\ 1 \in Int
      BY OwedIsNat
    <3> QED BY <3>1, FS_Interval, FS_Singleton
  <2> QED BY <2>1, FS_Product
<1>5. IsFiniteSet(Shares(s))
  <2>1. \A U \in T : IsFiniteSet(U)
    BY <1>4
  <2> QED BY <1>3, <2>1, FS_UNION DEF Shares
<1> QED BY <1>5, FS_CardinalityType DEF Load

LEMMA LoadConcat ==
  ASSUME NEW s \in Seq(MergeCalls), NEW r \in Seq(MergeCalls)
  PROVE  Load(s \o r) = Load(s) + Load(r)
<1> DEFINE n == Len(s)
           m == Len(r)
           shift == [w \in Shares(r) |-> <<n + w[1], w[2]>>]
           T == {<<n + w[1], w[2]>> : w \in Shares(r)}
<1>1. /\ n \in Nat /\ m \in Nat /\ DOMAIN s = 1 .. n /\ DOMAIN r = 1 .. m /\ s \o r \in Seq(MergeCalls)
      /\ DOMAIN (s \o r) = 1 .. n + m
      /\ \A k \in 1 .. n : (s \o r)[k] = s[k]
      /\ \A k \in 1 .. m : (s \o r)[n + k] = r[k]
  BY LenProperties, ConcatProperties
<1> HIDE DEF n, m
<1>2. ASSUME NEW w, w \in Shares(r)
      PROVE  \E k \in 1 .. m : \E i \in 1 .. Owed(r[k]) : w = <<k, i>> /\ w[1] = k /\ w[2] = i
  <2>1. PICK k \in 1 .. m : \E i \in 1 .. Owed(r[k]) : w = <<k, i>>
    BY <1>1, <1>2, OwedIsNat
  <2>2. PICK i \in 1 .. Owed(r[k]) : w = <<k, i>>
    BY <2>1
  <2>3. w[1] = k /\ w[2] = i
    BY <2>2
  <2> QED BY <2>2, <2>3
<1>3. shift \in Bijection(Shares(r), T)
  <2>1. ASSUME NEW v \in Shares(r), NEW w \in Shares(r), shift[v] = shift[w]
        PROVE  v = w
    <3>1. PICK k \in 1 .. m, i \in Int : v = <<k, i>> /\ v[1] = k /\ v[2] = i
      BY <1>2
    <3>2. PICK j \in 1 .. m, l \in Int : w = <<j, l>> /\ w[1] = j /\ w[2] = l
      BY <1>2
    <3>3. n + k = n + j /\ i = l
      BY <2>1, <3>1, <3>2
    <3> QED BY <1>1, <3>1, <3>2, <3>3
  <2> QED BY <2>1 DEF Bijection, Injection, Surjection, IsInjective
<1>4. IsFiniteSet(T) /\ Cardinality(T) = Load(r)
  <2>1. ExistsBijection(Shares(r), T)
    BY <1>3 DEF ExistsBijection
  <2> HIDE DEF T
  <2> QED BY <2>1, LoadIsNat, FS_Bijection DEF Load
<1>5. Shares(s \o r) \subseteq Shares(s) \cup T
  <2> SUFFICES ASSUME NEW w \in Shares(s \o r)
               PROVE  w \in Shares(s) \cup T
    OBVIOUS
  <2>3. PICK k \in 1 .. n + m : \E i \in 1 .. Owed((s \o r)[k]) : w = <<k, i>>
    <3> DEFINE both == s \o r
    <3>1. both \in Seq(MergeCalls) /\ DOMAIN both = 1 .. n + m /\ w \in Shares(both)
      BY <1>1
    <3> HIDE DEF both
    <3>2. \A v : v \in Shares(both) <=> \E k \in DOMAIN both : \E i \in 1 .. Owed(both[k]) : v = <<k, i>>
      BY <3>1, OwedIsNat
    <3>3. \E k \in DOMAIN both : \E i \in 1 .. Owed(both[k]) : w = <<k, i>>
      BY <3>1, <3>2
    <3> QED BY <3>1, <3>3 DEF both
  <2>4. PICK i \in 1 .. Owed((s \o r)[k]) : w = <<k, i>>
    BY <2>3
  <2>1. CASE k \in 1 .. n
    <3>1. i \in 1 .. Owed(s[k])
      BY <1>1, <2>1
    <3> QED BY <1>1, <2>1, <2>4, <3>1, OwedIsNat
  <2>2. CASE ~(k \in 1 .. n)
    <3>1. k - n \in 1 .. m /\ n + (k - n) = k
      BY <1>1, <2>2
    <3>2. <<k - n, i>> \in Shares(r)
      <4>1. (s \o r)[k] = r[k - n]
        BY <1>1, <3>1
      <4>2. i \in 1 .. Owed(r[k - n])
        BY <4>1
      <4> QED BY <1>1, <3>1, <4>2, OwedIsNat
    <3>3. <<k, i>> = <<n + <<k - n, i>>[1], <<k - n, i>>[2]>>
      BY <3>1
    <3> QED BY <2>4, <3>2, <3>3
  <2> QED BY <2>1, <2>2
<1>6. Shares(s) \subseteq Shares(s \o r)
  <2> SUFFICES ASSUME NEW w \in Shares(s) PROVE w \in Shares(s \o r)
    OBVIOUS
  <2>1. PICK k \in 1 .. n : \E i \in 1 .. Owed(s[k]) : w = <<k, i>>
    BY <1>1, OwedIsNat
  <2>2. k \in 1 .. n + m /\ (s \o r)[k] = s[k]
    BY <1>1
  <2>3. \E i \in 1 .. Owed((s \o r)[k]) : w = <<k, i>>
    BY <2>1, <2>2
  <2> QED BY <1>1, <2>2, <2>3, OwedIsNat
<1>7. T \subseteq Shares(s \o r)
  <2> SUFFICES ASSUME NEW w \in Shares(r) PROVE <<n + w[1], w[2]>> \in Shares(s \o r)
    OBVIOUS
  <2>1. PICK k \in 1 .. m : \E i \in 1 .. Owed(r[k]) : w[1] = k /\ w[2] = i
    BY <1>2
  <2>2. n + k \in 1 .. n + m /\ (s \o r)[n + k] = r[k]
    BY <1>1
  <2>3. \E i \in 1 .. Owed((s \o r)[n + k]) : <<n + w[1], w[2]>> = <<n + k, i>>
    BY <2>1, <2>2
  <2> QED BY <1>1, <2>2, <2>3, OwedIsNat
<1>8. Shares(s) \cap T = {}
  <2> SUFFICES ASSUME NEW v \in Shares(s), NEW w \in Shares(r), v = <<n + w[1], w[2]>>
               PROVE  FALSE
    OBVIOUS
  <2>1. PICK k \in 1 .. n : \E i \in 1 .. Owed(s[k]) : v = <<k, i>>
    BY <1>1, OwedIsNat
  <2>2. PICK j \in 1 .. m : w[1] = j
    BY <1>2
  <2>3. v[1] = k /\ v[1] = n + j
    BY <2>1, <2>2
  <2> QED BY <1>1, <2>3
<1>9. Shares(s \o r) = Shares(s) \cup T
  BY <1>5, <1>6, <1>7
<1>10. Load(s) \in Nat /\ IsFiniteSet(Shares(s)) /\ Load(r) \in Nat
  BY LoadIsNat
<1> HIDE DEF T
<1> QED BY <1>4, <1>8, <1>9, <1>10, FS_Union, FS_EmptySet DEF Load

LEMMA LoadOfFew ==
  /\ Load(<<>>) = 0
  /\ \A d \in MergeCalls : Load(<<d>>) = Owed(d) /\ <<d>> \in Seq(MergeCalls)
  /\ \A d \in MergeCalls, e \in MergeCalls : Load(<<d, e>>) = Owed(d) + Owed(e)
<1>1. Load(<<>>) = 0
  <2>1. DOMAIN <<>> = {} /\ UNION {} = {}
    OBVIOUS
  <2>2. Shares(<<>>) = {}
    BY <2>1 DEF Shares
  <2> QED BY <2>2, FS_EmptySet DEF Load
<1>2. ASSUME NEW d \in MergeCalls
      PROVE  Load(<<d>>) = Owed(d) /\ <<d>> \in Seq(MergeCalls)
  <2>1. DOMAIN <<d>> = {1} /\ <<d>>[1] = d /\ <<d>> \in Seq(MergeCalls)
    OBVIOUS
  <2>2. Shares(<<d>>) = {1} \X (1 .. Owed(d))
    BY <2>1 DEF Shares
  <2>3. Owed(d) \in Nat
    BY <2>1, OwedIsNat
  <2>4. /\ IsFiniteSet({1}) /\ Cardinality({1}) = 1
        /\ IsFiniteSet(1 .. Owed(d)) /\ Cardinality(1 .. Owed(d)) = Owed(d)
    <3> DEFINE n == Owed(d)
    <3>1. n \in Nat /\ 1 \in Int /\ n \in Int
      BY <2>3
    <3> HIDE DEF n
    <3>2. IsFiniteSet(1 .. n) /\ Cardinality(1 .. n) = IF 1 > n THEN 0 ELSE n - 1 + 1
      BY <3>1, FS_Interval
    <3>3. Cardinality(1 .. n) = n
      BY <3>1, <3>2
    <3>4. IsFiniteSet({1}) /\ Cardinality({1}) = 1
      BY FS_Singleton
    <3> QED BY <3>2, <3>3, <3>4 DEF n
  <2>5. Cardinality({1} \X (1 .. Owed(d))) = 1 * Owed(d)
    <3> DEFINE U == 1 .. Owed(d)
    <3>1. IsFiniteSet({1}) /\ IsFiniteSet(U) /\ Cardinality(U) = Owed(d) /\ Cardinality({1}) = 1
      BY <2>4
    <3> HIDE DEF U
    <3>2. Cardinality({1} \X U) = Cardinality({1}) * Cardinality(U)
      BY <3>1, FS_Product
    <3> QED BY <3>1, <3>2 DEF U
  <2> QED BY <2>1, <2>2, <2>3, <2>5 DEF Load
<1>3. ASSUME NEW d \in MergeCalls, NEW e \in MergeCalls
      PROVE  Load(<<d, e>>) = Owed(d) + Owed(e)
  <2>1. <<d, e>> = <<d>> \o <<e>>
    BY TupleConcat
  <2> QED BY <1>2, <2>1, LoadConcat
<1> QED BY <1>1, <1>2, <1>3

LEMMA NoLoad ==
  ASSUME NEW s \in Seq(MergeCalls), \A d \in ToSet(s) : Owed(d) = 0
  PROVE  Load(s) = 0
<1>1. \A k \in DOMAIN s : Owed(s[k]) = 0
  BY DEF ToSet
<1>2. Shares(s) = {}
  <2>1. \A k \in DOMAIN s : ~\E i \in 1 .. Owed(s[k]) : TRUE
    BY <1>1
  <2> QED BY <2>1, OwedIsNat
<1> QED BY <1>2, FS_EmptySet DEF Load

LEMMA LoadSends ==
  ASSUME CallsTypeOK, agenda[Client] # <<>>, NEW calls \in Seq(MergeCalls), Sends(calls)
  PROVE  /\ Load(Queue)' + Owed(Head(agenda[Client])) = Load(Queue) + Load(calls)
         /\ Load(Queue)' \in Nat /\ Load(Queue) \in Nat /\ Load(calls) \in Nat
         /\ Owed(Head(agenda[Client])) \in Nat
<1> DEFINE s == agenda[Client]
           c == Head(s)
           t == Tail(s)
<1>1. s \in Seq(MergeCalls) /\ Waiting \in Seq(MergeCalls)
  BY WaitingIsTyped DEF CallsTypeOK
<1>2. /\ t \in Seq(MergeCalls) /\ c \in MergeCalls /\ <<c>> \in Seq(MergeCalls) /\ s = <<c>> \o t
  <2>1. t \in Seq(MergeCalls) /\ c \in MergeCalls
    BY <1>1, HeadTailSet
  <2>2. <<c>> \in Seq(MergeCalls)
    BY <2>1
  <2>3. s = <<c>> \o t
    BY <1>1, ConcatProperties, HeadTailProperties
  <2> QED BY <2>1, <2>2, <2>3
<1>3. \/ agenda'[Client] = calls \o t /\ Waiting' = Waiting
      \/ agenda'[Client] = t /\ Waiting' = Waiting \o calls
  BY DepthIsNat, AppendsTasks DEF CallsTypeOK, Sends, Makes, Leaves, Waiting
<1>4. Load(Queue)' = Load(agenda'[Client] \o Waiting')
  BY DEF Load, Shares, Owed, Queue, Stage
<1> HIDE DEF c, t
<1>5. Load(s) = Owed(c) + Load(t) /\ Load(Queue) = Load(s) + Load(Waiting)
  BY <1>1, <1>2, LoadConcat, LoadOfFew DEF Queue
<1>6. Load(t) \in Nat /\ Load(Waiting) \in Nat /\ Load(calls) \in Nat /\ Load(s) \in Nat
      /\ Load(<<c>>) \in Nat /\ Load(<<c>>) = Owed(c)
  BY <1>1, <1>2, LoadIsNat, LoadOfFew
<1>7. Load(Queue)' = Load(t) + Load(Waiting) + Load(calls)
  <2>1. calls \o t \in Seq(MergeCalls) /\ Waiting \o calls \in Seq(MergeCalls)
    BY <1>1, <1>2, ConcatSet
  <2>2. CASE agenda'[Client] = calls \o t /\ Waiting' = Waiting
    <3>1. Load(Queue)' = Load(calls \o t) + Load(Waiting)
      BY <1>1, <1>4, <2>1, <2>2, LoadConcat
    <3>2. Load(calls \o t) = Load(calls) + Load(t)
      BY <1>2, LoadConcat
    <3> QED BY <1>6, <3>1, <3>2
  <2>3. CASE agenda'[Client] = t /\ Waiting' = Waiting \o calls
    <3>1. Load(Queue)' = Load(t) + Load(Waiting \o calls)
      BY <1>2, <1>4, <2>1, <2>3, LoadConcat
    <3>2. Load(Waiting \o calls) = Load(Waiting) + Load(calls)
      BY <1>1, LoadConcat
    <3> QED BY <1>6, <3>1, <3>2
  <2> QED BY <1>3, <2>2, <2>3
<1> QED BY <1>5, <1>6, <1>7 DEF c

(* A handler that leads to no more values than the call it was.            *)
Light ==
  \E calls \in Seq(MergeCalls) : Sends(calls) /\ Load(calls) <= Owed(Head(agenda[Client]))

LEMMA FreeCalls ==
  ASSUME NEW d,
         \/ d.at \in {0, Depth} /\ d.sig # "request"
         \/ d.at \in Publishers /\ d.sig \notin {"request", "onNext", "onPublisherNextValue"}
         \/ d.at = Subscriber /\ d.sig # "onNext"
  PROVE  Owed(d) = 0
BY PlacesDiffer DEF Owed, Stage, IsValue

LEMMA ValueIsOwed ==
  ASSUME NEW d,
         \/ d.at \in Publishers /\ d.sig \in {"request", "onNext", "onPublisherNextValue"}
         \/ d.at = Subscriber /\ d.sig = "onNext"
  PROVE  Owed(d) = 1
BY PlacesDiffer DEF Owed, Stage, IsValue

LEMMA LightCalls ==
  ASSUME CallsTypeOK, agenda[Client] # <<>>
  PROVE  LET n == Owed(Head(agenda[Client]))
         IN  /\ n \in Nat
             /\ Sends(<<>>) => Light
             /\ \A d \in MergeCalls : Sends(<<d>>) /\ Owed(d) <= n => Light
             /\ \A d, e \in MergeCalls : Sends(<<d, e>>) /\ Owed(d) + Owed(e) <= n => Light
             /\ \A calls \in Seq(MergeCalls) :
                  Sends(calls) /\ (\A d \in ToSet(calls) : Owed(d) = 0) => Light
<1> DEFINE n == Owed(Head(agenda[Client]))
<1>1. n \in Nat
  <2>1. Head(agenda[Client]) \in MergeCalls
    BY HeadTailSet DEF CallsTypeOK
  <2> QED BY <2>1 DEF Owed, MergeCalls, Calls
<1>2. <<>> \in Seq(MergeCalls) /\ Load(<<>>) = 0
  BY LoadOfFew
<1>3. \A d \in MergeCalls : <<d>> \in Seq(MergeCalls) /\ Load(<<d>>) = Owed(d)
  BY LoadOfFew
<1>4. \A d, e \in MergeCalls : <<d, e>> \in Seq(MergeCalls) /\ Load(<<d, e>>) = Owed(d) + Owed(e)
  BY LoadOfFew, PairChain
<1>5. \A calls \in Seq(MergeCalls) : (\A d \in ToSet(calls) : Owed(d) = 0) => Load(calls) = 0
  BY NoLoad
<1>6. 0 <= n
  BY <1>1
<1> HIDE DEF n
<1> QED BY <1>1, <1>2, <1>3, <1>4, <1>5, <1>6 DEF Light, n

LEMMA SourceIsLight ==
  ASSUME TypeInv, Source(Client)
  PROVE  Light
<1>0. PICK q \in Nat : q = Arg(Client)
  BY HeadIsTyped DEF Source, On, TypeInv, Arg
<1>1. CallsTypeOK /\ agenda[Client] # <<>> /\ Owed(Head(agenda[Client])) \in Nat
  BY LightCalls DEF Source, On, TypeInv
<1>2. ASSUME NEW d, d.at \in {0, Depth}, d.sig # "request" PROVE Owed(d) = 0
  BY <1>2, FreeCalls
<1>3. ASSUME NEW n \in Nat, Leaves(Client, input.later, <<Call(0, "emit", n)>>)
      PROVE  Light
  <2> DEFINE d == Call(0, "emit", n)
  <2>1. d \in MergeCalls /\ d.at = 0 /\ d.sig = "emit"
    BY NewCall, PlacesNamed, SentNamed, PlacesDiffer
  <2>2. Sends(<<d>>)
    BY <1>3, LeavesSends
  <2> HIDE DEF d
  <2>3. Owed(d) = 0
    BY <1>2, <2>1
  <2>4. Owed(d) <= Owed(Head(agenda[Client]))
    BY <1>1, <2>3
  <2> QED BY <1>1, <2>1, <2>2, <2>4, LightCalls
<1>4. CASE Makes(Client, <<Call(Depth, input.end, 0)>>)
  <2> DEFINE d == Call(Depth, input.end, 0)
  <2>1. input.end \in Ends
    BY MergeAssumption DEF TypeInv, TypeOK, Ends
  <2>2. d \in MergeCalls /\ d.at = Depth /\ d.sig = input.end /\ d.sig # "request"
    BY <2>1, NewCall, PlacesNamed, SentNamed, PlacesDiffer DEF Ends
  <2>3. Sends(<<d>>)
    BY <1>4 DEF Sends
  <2> HIDE DEF d
  <2>4. Owed(d) = 0
    BY <1>2, <2>2
  <2>5. Owed(d) <= Owed(Head(agenda[Client]))
    BY <1>1, <2>4
  <2> QED BY <1>1, <2>2, <2>3, <2>5, LightCalls
<1>5. CASE q \in Publishers /\ Makes(Client, <<Call(Depth, "onNext", q), Call(0, "emitted", q)>>)
  <2> DEFINE d == Call(Depth, "onNext", q)
             e == Call(0, "emitted", q)
  <2>1. /\ d \in MergeCalls /\ d.at = Depth /\ d.sig = "onNext"
        /\ e \in MergeCalls /\ e.at = 0 /\ e.sig = "emitted"
    BY <1>5, NewCall, PlacesNamed, SentNamed, PlacesDiffer
  <2>2. Sends(<<d, e>>)
    BY <1>5 DEF Sends
  <2> HIDE DEF d, e
  <2>3. Owed(d) = 0 /\ Owed(e) = 0
    BY <1>2, <2>1
  <2>4. Owed(d) + Owed(e) <= Owed(Head(agenda[Client]))
    BY <1>1, <2>3
  <2> QED BY <1>1, <2>1, <2>2, <2>4, LightCalls
<1>6. q + 1 \in Nat /\ 1 \in Nat
  OBVIOUS
<1>7. \/ Leaves(Client, input.later, <<Call(0, "emit", 1)>>)
      \/ Leaves(Client, input.later, <<Call(0, "emit", q + 1)>>)
      \/ Makes(Client, <<Call(Depth, input.end, 0)>>)
      \/ q \in Publishers /\ Makes(Client, <<Call(Depth, "onNext", q), Call(0, "emitted", q)>>)
  BY <1>0 DEF Source
<1> QED BY <1>3, <1>4, <1>5, <1>6, <1>7

(* A call for a call.                                                      *)
LEMMA LightOne ==
  ASSUME CallsTypeOK, agenda[Client] # <<>>, NEW d \in MergeCalls, Sends(<<d>>),
         \/ Owed(d) = 0
         \/ Owed(d) = 1 /\ Owed(Head(agenda[Client])) = 1
  PROVE  Light
<1>1. Owed(Head(agenda[Client])) \in Nat
  BY LightCalls
<1>2. Owed(d) <= Owed(Head(agenda[Client]))
  BY <1>1
<1> QED BY <1>2, LightCalls

LEMMA InnerIsLight ==
  ASSUME TypeInv, Inner(Client), \A p \in Publishers : ~Gate(p)
  PROVE  Light
<1> DEFINE c == Head(agenda[Client])
<1>1. CallsTypeOK /\ agenda[Client] # <<>>
  BY DEF Inner, Subscribes, Requested, Canceled, On, TypeInv
<1>2. ASSUME NEW p \in Publishers, NEW sig \in {"onError", "onSubscribe", "onComplete"},
             Sends(<<Call(p, sig, 0)>>)
      PROVE  Light
  <2> DEFINE d == Call(p, sig, 0)
  <2>1. d \in MergeCalls /\ d.at = p /\ d.sig = sig
    BY NewCall, PlacesNamed, SentNamed, PlacesDiffer
  <2>2. Sends(<<d>>)
    BY <1>2
  <2> HIDE DEF d
  <2>3. Owed(d) = 0
    BY <2>1, FreeCalls
  <2> QED BY <1>1, <2>1, <2>2, <2>3, LightOne
<1>3. ASSUME NEW p \in Publishers, Subscribes(Client, p)
      PROVE  Light
  <2>1. Sends(<<Call(p, "onError", 0)>>) \/ Sends(<<Call(p, "onSubscribe", 0)>>)
    <3>1. CASE Pub(p).kind = "error"
      BY <1>3, <3>1, LeavesSends DEF Subscribes
    <3>2. CASE Pub(p).kind # "error"
      BY <1>3, <3>2 DEF Subscribes, Sends
    <3> QED BY <3>1, <3>2
  <2> QED BY <1>2, <2>1
<1>4. ASSUME NEW p \in Publishers, Canceled(Client, p)
      PROVE  Light
  BY <1>2, <1>4, LeavesSends DEF Canceled
<1>5. ASSUME NEW p \in Publishers, Requested(Client, p)
      PROVE  Light
  <2>1. PICK v \in MergeCalls, e \in MergeCalls :
               /\ v.at = p /\ v.sig = "onNext" /\ e.at = p /\ e.sig = "onComplete"
               /\ \/ Leaves(Client, Pub(p).later, <<>>) \/ Leaves(Client, Pub(p).later, <<e>>)
                  \/ Leaves(Client, Pub(p).later, <<v>>) \/ Leaves(Client, Pub(p).later, <<v, e>>)
    <3>1. PICK n \in Nat, v, e \in MergeCalls :
          /\ n = inner[p].m_current
          /\ \A q \in Publishers \ {p} : inner'[q] = inner[q]
          /\ inner[p].m_completed \in BOOLEAN
          /\ v.at = p /\ v.sig = "onNext" /\ v.arg = Element(p, n + 1)
          /\ e.at = p /\ e.sig = "onComplete"
          /\ \/ /\ inner' = inner /\ Leaves(Client, Pub(p).later, <<>>)
                /\ inner[p].m_completed \/ inner[p].m_canceled \/ Pub(p).kind = "never"
             \/ n = Pub(p).size /\ Emits(p, n, 1, <<e>>)
             \/ n # Pub(p).size /\ Pub(p).kind # "just" /\ Emits(p, n + 1, 0, <<v>>)
             \/ n # Pub(p).size /\ Pub(p).kind = "just" /\ Emits(p, n + 1, 1, <<v, e>>)
      BY <1>5, RequestedEmits
    <3> QED BY <3>1 DEF Emits
  <2>2. Sends(<<>>) \/ Sends(<<e>>) \/ Sends(<<v>>) \/ Sends(<<v, e>>)
    BY <2>1, LeavesSends
  <2>3. Owed(v) = 1 /\ Owed(e) = 0
    BY <2>1, ValueIsOwed, FreeCalls
  <2>4. Owed(c) = 1
    BY <1>5, ValueIsOwed DEF Requested, On
  <2>5. Owed(e) <= Owed(c) /\ Owed(v) <= Owed(c) /\ Owed(v) + Owed(e) <= Owed(c)
    BY <2>3, <2>4
  <2> QED BY <1>1, <2>2, <2>5, LightCalls
<1> QED BY <1>3, <1>4, <1>5 DEF Inner

LEMMA CancelsLight ==
  ASSUME CallsTypeOK, agenda[Client] # <<>>,
         NEW m \in MergeState, NEW more \in Seq(MergeCalls), Cancels(Client, m, more),
         more = <<>> \/ more = <<Failure(Depth)>>
  PROVE  Light
<1>1. PICK calls \in Seq(MergeCalls) :
           /\ Makes(Client, calls \o more)
           /\ \A d \in ToSet(calls) : d.at \in Publishers /\ d.sig = "cancel"
  BY CancelsMakes
<1>2. \A d \in ToSet(more) : d.at = Subscriber /\ d.sig = "onError"
  BY FailureIsTyped, SmallSets
<1>3. \A d \in ToSet(calls \o more) : Owed(d) = 0
  <2> SUFFICES ASSUME NEW d \in ToSet(calls \o more) PROVE Owed(d) = 0
    OBVIOUS
  <2>1. d \in ToSet(calls) \/ d \in ToSet(more)
    BY ConcatSet
  <2> QED BY <1>1, <1>2, <2>1, FreeCalls
<1>4. Sends(calls \o more) /\ calls \o more \in Seq(MergeCalls)
  BY <1>1, ConcatSet DEF Sends
<1> QED BY <1>3, <1>4, LightCalls

LEMMA ConcludesLight ==
  ASSUME CallsTypeOK, agenda[Client] # <<>>, NEW m \in MergeState, Concludes(Client, m)
  PROVE  Light
<1> DEFINE d == Completion(Depth)
           over == ~m.m_completed /\ m.m_remaining = 0 /\ m.sourceCompleted
<1>1. /\ Makes(Client, IF over /\ ~m.m_canceled THEN <<d>> ELSE <<>>)
      /\ d \in MergeCalls /\ d.at = Subscriber /\ d.sig = "onComplete"
  BY ConcludesMakes
<1> HIDE DEF d, over
<1>2. Owed(d) = 0
  BY <1>1, FreeCalls
<1>3. Sends(<<>>) \/ Sends(<<d>>)
  BY <1>1 DEF Sends
<1> QED BY <1>1, <1>2, <1>3, LightOne, LightCalls

(* ... and the demand is as it was.                                        *)
LEMMA HandlesLight ==
  ASSUME MergeInv, Handles(Client), ~MergeRequest(Client)
  PROVE  Light /\ merge'.m_requested = merge.m_requested
<1> DEFINE c == Head(agenda[Client])
<1>0. TypeInv /\ CallsTypeOK /\ merge \in MergeState
  BY DEF MergeInv, TypeInv, TypeOK, MergeState
<1>a. ASSUME NEW m \in MergeState, m.m_requested = merge.m_requested,
             Cancels(Client, m, <<>>) \/ Cancels(Client, m, <<Failure(Depth)>>) \/ Concludes(Client, m)
      PROVE  merge'.m_requested = merge.m_requested
  BY <1>a DEF Cancels, Concludes, MergeState
<1>1. ASSUME agenda[Client] # <<>>
      PROVE  c \in MergeCalls /\ c.arg = Arg(Client) /\ Arg(Client) \in Nat
  BY <1>0, <1>1, HeadIsTyped DEF Arg
<1>2. CASE Subscribed(Client)
  <2> DEFINE d == Call(0, "subscribe", 0)
             e == Subscription(Depth)
             n == Owed(Head(agenda[Client]))
  <2>1. d \in MergeCalls /\ d.at = 0 /\ d.sig = "subscribe"
    BY NewCall, PlacesNamed, SentNamed, PlacesDiffer
  <2>2. e \in MergeCalls /\ e.at = Subscriber /\ e.sig = "onSubscribe"
    BY NewCall, PlacesNamed, SentNamed, PlacesDiffer DEF Subscription, Subscriber
  <2>3. agenda[Client] # <<>> /\ Sends(<<d, e>>) /\ merge' = merge
    BY <1>2 DEF Subscribed, On, Sends
  <2> HIDE DEF d, e
  <2>4. Owed(d) = 0 /\ Owed(e) = 0 /\ n \in Nat
    BY <1>0, <2>1, <2>2, <2>3, FreeCalls, LightCalls
  <2>5. Owed(d) + Owed(e) <= n
    BY <2>4
  <2> QED BY <1>0, <2>1, <2>2, <2>3, <2>5, LightCalls
<1>3. CASE SourceNext(Client)
  <2>1. agenda[Client] # <<>> /\ c.at = Depth /\ c.sig = "onNext"
        /\ merge'.m_requested = merge.m_requested
    BY <1>0, <1>3 DEF SourceNext, On, MergeState
  <2>2. PICK p \in Publishers : p = Arg(Client)
    BY <1>1, <2>1 DEF MergeCalls
  <2> DEFINE d == Call(p, "subscribe", 0)
  <2>3. Sends(<<d>>)
    BY <1>3, <2>2 DEF SourceNext, Sends
  <2>4. d \in MergeCalls /\ d.at = p /\ d.sig = "subscribe"
    BY <2>2, NewCall, PlacesNamed, SentNamed, PlacesDiffer
  <2> HIDE DEF d
  <2>5. Owed(d) = 0
    BY <2>4, FreeCalls
  <2> QED BY <1>0, <2>1, <2>3, <2>4, <2>5, LightOne
<1>4. CASE SourceError(Client) \/ MergeCancel(Client)
  <2>1. agenda[Client] # <<>>
    BY <1>4 DEF SourceError, MergeCancel, On
  <2> QED BY <1>0, <1>a, <1>4, <2>1, FailureIsTyped, CancelsLight DEF SourceError, MergeCancel
<1>5. CASE SourceComplete(Client)
  <2> DEFINE m == [merge EXCEPT !.sourceCompleted = TRUE]
  <2>1. m \in MergeState /\ m.m_requested = merge.m_requested
    BY <1>0 DEF MergeState
  <2>2. agenda[Client] # <<>> /\ Concludes(Client, m)
    BY <1>5 DEF SourceComplete, On
  <2> HIDE DEF m
  <2> QED BY <1>0, <1>a, <2>1, <2>2, ConcludesLight
<1>6. ASSUME NEW p \in Publishers, Adds(Client, p)
      PROVE  Light /\ merge'.m_requested = merge.m_requested
  <2> DEFINE d == Call(Depth, "tryRequest", 0)
  <2>1. agenda[Client] # <<>> /\ Sends(<<d>>)
    BY <1>6 DEF Adds, On, Sends
  <2>2. d \in MergeCalls /\ d.at = Depth /\ d.sig = "tryRequest"
    BY NewCall, PlacesNamed, SentNamed, PlacesDiffer
  <2>3. merge'.m_requested = merge.m_requested
    BY <1>0, <1>6 DEF Adds, MergeState
  <2> HIDE DEF d
  <2>4. Owed(d) = 0
    BY <2>2, FreeCalls
  <2> QED BY <1>0, <2>1, <2>2, <2>3, <2>4, LightOne
<1>7. ASSUME NEW p \in Publishers, Receives(Client, p)
      PROVE  Light /\ merge'.m_requested = merge.m_requested
  <2>0. merge' = merge
    BY <1>7 DEF Receives
  <2>1. PICK sig \in DOMAIN Handlers :
               /\ On(Client, p, sig)
               /\ Leaves(Client, merge.scheduler, <<Call(p, Handlers[sig], Arg(Client))>>)
    BY <1>7 DEF Receives
  <2>2. agenda[Client] # <<>> /\ c.at = p /\ c.sig = sig
    BY <2>1 DEF On
  <2>3. PICK n \in Nat : n = Arg(Client)
    BY <1>1, <2>2
  <2> DEFINE d == Call(p, Handlers[sig], n)
  <2>4. /\ sig \in {"onSubscribe", "onNext", "onComplete", "onError"}
        /\ Handlers[sig] = CASE sig = "onSubscribe" -> "add" [] sig = "onNext" -> "onPublisherNextValue"
                             [] sig = "onComplete" -> "onPublisherComplete" [] sig = "onError" -> "onPublisherError"
    BY DEF Handlers
  <2>5. d \in MergeCalls /\ d.at = p /\ d.sig = Handlers[sig]
    BY <2>4, NewCall, PlacesNamed, SentNamed, PlacesDiffer
  <2>6. Sends(<<d>>)
    BY <2>1, <2>3, LeavesSends
  <2> HIDE DEF d
  <2>7. CASE sig = "onNext"
    <3>1. Owed(c) = 1 /\ Owed(d) = 1
      BY <2>2, <2>4, <2>5, <2>7, ValueIsOwed
    <3> QED BY <1>0, <2>0, <2>2, <2>5, <2>6, <3>1, LightOne
  <2>8. CASE sig # "onNext"
    <3>1. d.sig \in {"add", "onPublisherComplete", "onPublisherError"}
      BY <2>4, <2>5, <2>8
    <3>2. Owed(d) = 0
      BY <2>5, <3>1, FreeCalls
    <3> QED BY <1>0, <2>0, <2>2, <2>5, <2>6, <3>2, LightOne
  <2> QED BY <2>7, <2>8
<1>8. ASSUME NEW p \in Publishers, OnPublisherNextValue(Client, p)
      PROVE  Light /\ merge'.m_requested = merge.m_requested
  <2>0. agenda[Client] # <<>> /\ c.at = p /\ c.sig = "onPublisherNextValue" /\ merge' = merge
    BY <1>8 DEF OnPublisherNextValue, On
  <2>1. PICK n \in Nat : n = Arg(Client)
    BY <1>1, <2>0
  <2> DEFINE d == Value(Depth, n)
  <2>2. Sends(<<>>) \/ Sends(<<d>>)
    BY <1>8, <2>1 DEF OnPublisherNextValue, Sends
  <2>3. d \in MergeCalls /\ d.at = Subscriber /\ d.sig = "onNext"
    <3>1. d = Call(Subscriber, "onNext", n)
      BY DEF Value, Subscriber
    <3> HIDE DEF d
    <3> QED BY <3>1, NewCall, PlacesNamed, SentNamed, PlacesDiffer
  <2> HIDE DEF d
  <2>4. Owed(c) = 1 /\ Owed(d) = 1
    BY <2>0, <2>3, ValueIsOwed
  <2> QED BY <1>0, <2>0, <2>2, <2>3, <2>4, LightOne, LightCalls
<1>9. ASSUME NEW p \in Publishers, OnPublisherError(Client, p) \/ OnPublisherComplete(Client, p)
      PROVE  Light /\ merge'.m_requested = merge.m_requested
  <2>1. agenda[Client] # <<>> /\ Removed(p) \in MergeState
        /\ Removed(p).m_requested = merge.m_requested
    BY <1>9, RemovedState DEF OnPublisherError, OnPublisherComplete, On
  <2>2. Cancels(Client, Removed(p), <<Failure(Depth)>>) \/ Concludes(Client, Removed(p))
    BY <1>9 DEF OnPublisherError, OnPublisherComplete
  <2> QED BY <1>0, <1>a, <2>1, <2>2, FailureIsTyped, CancelsLight, ConcludesLight
<1> QED BY <1>2, <1>3, <1>4, <1>5, <1>6, <1>7, <1>8, <1>9 DEF Handles

(* The subscriber has asked for what it requests.                          *)
Asks ==
  \E calls \in Seq(MergeCalls) : Makes(Client, calls) /\ Load(calls) + user.asked <= user'.asked

LEMMA RequestIsOwed ==
  /\ \A n \in Nat : Request(Depth, n) \in MergeCalls /\ Owed(Request(Depth, n)) = n
  /\ Cancel(Depth) \in MergeCalls /\ Owed(Cancel(Depth)) = 0
  /\ Call(Subscriber, "received", 0) \in MergeCalls /\ Owed(Call(Subscriber, "received", 0)) = 0
<1>1. ASSUME NEW n \in Nat
      PROVE  Request(Depth, n) \in MergeCalls /\ Owed(Request(Depth, n)) = n
  <2> DEFINE d == Call(Depth, "request", n)
  <2>1. d \in MergeCalls /\ d.at = Depth /\ d.sig = "request" /\ d.arg = n
    BY NewCall, PlacesNamed, SentNamed, PlacesDiffer
  <2>2. Owed(d) = n
    <3> HIDE DEF d
    <3> QED BY <2>1 DEF Owed
  <2> QED BY <2>1, <2>2 DEF Request
<1>2. Cancel(Depth) \in MergeCalls /\ Owed(Cancel(Depth)) = 0
  <2> DEFINE d == Call(Depth, "cancel", 0)
  <2>1. d \in MergeCalls /\ d.at = Depth /\ d.sig = "cancel"
    BY NewCall, PlacesNamed, SentNamed, PlacesDiffer
  <2>2. Owed(d) = 0
    <3> HIDE DEF d
    <3> QED BY <2>1, FreeCalls
  <2> QED BY <2>1, <2>2 DEF Cancel
<1>3. Call(Subscriber, "received", 0) \in MergeCalls /\ Owed(Call(Subscriber, "received", 0)) = 0
  <2> DEFINE d == Call(Subscriber, "received", 0)
  <2>1. d \in MergeCalls /\ d.at = Subscriber /\ d.sig = "received"
    BY NewCall, PlacesNamed, SentNamed, PlacesDiffer
  <2> HIDE DEF d
  <2>2. Owed(d) = 0
    BY <2>1, FreeCalls
  <2> QED BY <2>1, <2>2 DEF d
<1> QED BY <1>1, <1>2, <1>3

LEMMA ReactsAsks ==
  ASSUME TypeInv, NEW more \in Seq(MergeCalls), Load(more) = 0, Reacts(Client, more)
  PROVE  Asks
<1>1. user.asked \in Nat /\ Demands \subseteq Nat /\ DOMAIN user = {"calls", "asked", "canceled"}
  BY UserAssumption, SizeAssumption DEF TypeInv, TypeOK, SubscriberTypeOK, Size
<1>2. CASE Makes(Client, more) /\ UNCHANGED user
  BY <1>1, <1>2 DEF Asks
<1>3. ASSUME NEW d \in MergeCalls, Makes(Client, <<d>> \o more), user'.asked = user.asked + Owed(d), Owed(d) \in Nat
      PROVE  Asks
  <2>1. Load(<<d>> \o more) = Owed(d) + 0 /\ <<d>> \o more \in Seq(MergeCalls)
    BY LoadOfFew, LoadConcat, ConcatSet
  <2>2. Load(<<d>> \o more) + user.asked <= user'.asked
    BY <1>1, <1>3, <2>1
  <2> QED BY <1>3, <2>1, <2>2 DEF Asks
<1>4. CASE UserRequest(Client, more)
  <2>1. PICK n \in Nat : /\ Makes(Client, <<Request(Depth, n)>> \o more)
                         /\ user' = [user EXCEPT !.calls = @ + 1, !.asked = @ + n]
    BY <1>1, <1>4 DEF UserRequest
  <2>2. user'.asked = user.asked + n
    BY <1>1, <2>1
  <2> QED BY <1>3, <2>1, <2>2, RequestIsOwed
<1>5. CASE UserCancel(Client, more)
  <2>1. Makes(Client, <<Cancel(Depth)>> \o more) /\ user'.asked = user.asked + 0
    BY <1>1, <1>5 DEF UserCancel
  <2> QED BY <1>3, <2>1, RequestIsOwed
<1> QED BY <1>2, <1>4, <1>5 DEF Reacts

LEMMA RequestsAllAsks ==
  ASSUME TypeInv, RequestsAll(Client)
  PROVE  Asks
<1> DEFINE d == Request(Depth, SizeMax)
<1>1. user.asked \in Nat /\ SizeMax \in Nat /\ user'.asked = user.asked + SizeMax
  BY SizeAssumption DEF TypeInv, TypeOK, SubscriberTypeOK, RequestsAll
<1>2. Makes(Client, <<d>>) \/ Makes(Client, <<>>)
  BY DEF RequestsAll
<1> HIDE DEF d
<1>3. d \in MergeCalls /\ Owed(d) = SizeMax
  BY <1>1, RequestIsOwed DEF d
<1>4. Load(<<d>>) = SizeMax /\ <<d>> \in Seq(MergeCalls) /\ Load(<<>>) = 0 /\ <<>> \in Seq(MergeCalls)
  BY <1>3, LoadOfFew
<1>5. Load(<<d>>) + user.asked <= user'.asked /\ Load(<<>>) + user.asked <= user'.asked
  BY <1>1, <1>4
<1> QED BY <1>2, <1>4, <1>5 DEF Asks

LEMMA SubscriberAsks ==
  ASSUME TypeInv, SubscriberStep(Client)
  PROVE  Asks
<1>1. /\ <<>> \in Seq(MergeCalls) /\ Load(<<>>) = 0
      /\ LET d == Call(Subscriber, "received", 0) IN <<d>> \in Seq(MergeCalls) /\ Load(<<d>>) = 0
  <2> DEFINE d == Call(Subscriber, "received", 0)
  <2>1. d \in MergeCalls /\ Owed(d) = 0
    BY RequestIsOwed
  <2> HIDE DEF d
  <2>2. <<d>> \in Seq(MergeCalls) /\ Load(<<d>>) = 0
    BY <2>1, LoadOfFew
  <2>3. <<>> \in Seq(MergeCalls) /\ Load(<<>>) = 0
    BY LoadOfFew
  <2> QED BY <2>2, <2>3 DEF d
<1>2. ASSUME Makes(Client, <<>>), user' = user
      PROVE  Asks
  <2>1. user.asked \in Nat /\ user'.asked = user.asked
    BY <1>2 DEF TypeInv, TypeOK, SubscriberTypeOK
  <2>2. Load(<<>>) + user.asked <= user'.asked
    BY <1>1, <2>1
  <2> QED BY <1>1, <1>2, <2>2 DEF Asks
<1>3. CASE OnSubscribed(Client)
  BY <1>1, <1>3, ReactsAsks, RequestsAllAsks DEF OnSubscribed
<1>4. CASE OnNext(Client)
  <2>1. Reacts(Client, <<Call(Subscriber, "received", 0)>>) \/ Reacts(Client, <<>>)
    BY <1>4 DEF OnNext
  <2> QED BY <1>1, <2>1, ReactsAsks
<1>5. CASE Received(Client) \/ OnEnd(Client)
  BY <1>2, <1>5, RequestsAllAsks DEF Received, OnEnd
<1> QED BY <1>3, <1>4, <1>5 DEF SubscriberStep

---------------------------------------------------------------------------
LEMMA AskedSends ==
  ASSUME TypeInv, TypeInv', Asked, agenda[Client] # <<>>, input' = input,
         NEW calls \in Seq(MergeCalls), Sends(calls),
         Load(calls) + Len(log'.values) + merge'.m_requested + user.asked
           <= Owed(Head(agenda[Client])) + Len(log.values) + merge.m_requested + user'.asked
  PROVE  Asked'
<1> SUFFICES ASSUME \A p \in Publishers : ~Gate(p)'
             PROVE  Len(log'.values) + Load(Queue)' + merge'.m_requested <= user'.asked
  BY DEF Asked
<1>1. Len(log.values) + Load(Queue) + merge.m_requested <= user.asked
  BY DEF Asked, Gate, Pub
<1>2. /\ merge.m_requested \in Nat /\ user.asked \in Nat /\ Len(log.values) \in Nat
      /\ merge'.m_requested \in Nat /\ user'.asked \in Nat /\ Len(log'.values) \in Nat
  <2>1. log.values \in Seq(Nat) /\ log'.values \in Seq(Nat)
    BY DEF TypeInv, TypeOK, SubscriberTypeOK
  <2> QED BY <2>1, SizeAssumption, LenProperties DEF TypeInv, TypeOK, SubscriberTypeOK, Size
<1>3. /\ Load(Queue)' + Owed(Head(agenda[Client])) = Load(Queue) + Load(calls)
      /\ Load(Queue)' \in Nat /\ Load(Queue) \in Nat /\ Load(calls) \in Nat
      /\ Owed(Head(agenda[Client])) \in Nat
  BY LoadSends DEF TypeInv
<1>4. Load(calls) + Len(log'.values) + merge'.m_requested + user.asked
        <= Owed(Head(agenda[Client])) + Len(log.values) + merge.m_requested + user'.asked
  OBVIOUS
<1>5. PICK a \in Nat, b \in Nat, c \in Nat, d \in Nat :
             a = Load(Queue)' /\ b = Load(Queue) /\ c = Load(calls) /\ d = Owed(Head(agenda[Client]))
  BY <1>3
<1>6. PICK e \in Nat, f \in Nat, g \in Nat, h \in Nat, j \in Nat, k \in Nat :
             /\ e = merge.m_requested /\ f = user.asked /\ g = Len(log.values)
             /\ h = merge'.m_requested /\ j = user'.asked /\ k = Len(log'.values)
  BY <1>2
<1>7. g + b + e <= f /\ a + d = b + c /\ c + k + h + f <= d + g + e + j
  BY <1>1, <1>3, <1>4, <1>5, <1>6
<1>8. k + a + h <= j
  BY <1>7
<1> QED BY <1>5, <1>6, <1>8

LEMMA SubscriberAsked ==
  ASSUME TypeInv, TypeInv', Asked, SubscriberStep(Client), UNCHANGED mergeVars
  PROVE  Asked'
<1> DEFINE c == Head(agenda[Client])
<1>1. CallsTypeOK /\ agenda[Client] # <<>> /\ merge' = merge /\ input' = input
  BY DEF SubscriberStep, OnSubscribed, OnNext, Received, OnEnd, On, TypeInv, mergeVars
<1>2. PICK calls \in Seq(MergeCalls) : Makes(Client, calls) /\ Load(calls) + user.asked <= user'.asked
  BY SubscriberAsks DEF Asks
<1>3. Owed(c) \in Nat /\ Load(calls) \in Nat
  BY <1>1, LightCalls, LoadIsNat
<1>4. /\ merge.m_requested \in Nat /\ user.asked \in Nat /\ user'.asked \in Nat
      /\ log.values \in Seq(Nat) /\ Len(log.values) \in Nat /\ Len(log'.values) \in Nat
  <2>1. log.values \in Seq(Nat) /\ log'.values \in Seq(Nat)
    BY DEF TypeInv, TypeOK, SubscriberTypeOK
  <2> QED BY <2>1, SizeAssumption, LenProperties DEF TypeInv, TypeOK, SubscriberTypeOK, Size
<1>5. Len(log'.values) <= Owed(c) + Len(log.values)
  <2>1. CASE OnNext(Client)
    <3>1. Owed(c) = 1 /\ log' = Logged(c)
      BY <2>1, ValueIsOwed DEF OnNext, On
    <3>2. log'.values = log.values \/ log'.values = Append(log.values, c.arg)
      BY <3>1 DEF Logged, TypeInv, TypeOK, SubscriberTypeOK
    <3>3. Len(Append(log.values, c.arg)) = Len(log.values) + 1
      <4>1. c.arg \in Nat
        BY <1>1, HeadTailSet DEF CallsTypeOK, MergeCalls, Calls
      <4> QED BY <1>4, <4>1, AppendProperties
    <3> QED BY <1>4, <3>1, <3>2, <3>3
  <2>2. CASE ~OnNext(Client)
    <3>1. log'.values = log.values
      BY <2>2 DEF SubscriberStep, OnSubscribed, Received, OnEnd, On, Logged, Ends, TypeInv, TypeOK, SubscriberTypeOK
    <3> QED BY <1>3, <1>4, <3>1
  <2> QED BY <2>1, <2>2
<1> HIDE DEF c
<1>6. Load(calls) + Len(log'.values) + merge'.m_requested + user.asked
        <= Owed(c) + Len(log.values) + merge.m_requested + user'.asked
  <2>1. PICK a \in Nat, b \in Nat, e \in Nat, f \in Nat, g \in Nat, j \in Nat, k \in Nat :
               /\ a = Load(calls) /\ b = Owed(c) /\ e = merge.m_requested /\ f = user.asked
               /\ g = Len(log.values) /\ j = user'.asked /\ k = Len(log'.values)
    BY <1>3, <1>4
  <2>2. a + f <= j /\ k <= b + g /\ merge'.m_requested = e
    BY <1>1, <1>2, <1>5, <2>1
  <2>3. a + k + e + f <= b + g + e + j
    BY <2>2
  <2> QED BY <2>1, <2>2, <2>3
<1>7. Sends(calls)
  BY <1>2 DEF Sends
<1> QED BY <1>1, <1>6, <1>7, AskedSends DEF c

(* MergeSubscription moves demand from one place to another.               *)
LEMMA WorksAsked ==
  ASSUME MergeInv, TypeInv', Asked, Source(Client) \/ Inner(Client) \/ Merges(Client),
         UNCHANGED <<subscriberVars, input>>, Source(Client) \/ Inner(Client) => merge' = merge
  PROVE  Asked'
<1> DEFINE c == Head(agenda[Client])
<1>0. TypeInv /\ CallsTypeOK /\ Walkable(merge) /\ merge \in MergeState /\ agenda[Client] # <<>>
  BY WorksConserve DEF MergeInv, TypeInv, TypeOK, MergeState
<1>1. SUFFICES ASSUME \A p \in Publishers : ~Gate(p) PROVE Asked'
  BY DEF Asked, Gate, Pub
<1>2. /\ merge.m_requested \in Nat /\ user.asked \in Nat /\ Owed(c) \in Nat
      /\ Len(log.values) \in Nat /\ SizeMax \in Nat
  <2>1. log.values \in Seq(Nat)
    BY <1>0 DEF TypeInv, TypeOK, SubscriberTypeOK
  <2>2. Owed(c) \in Nat
    BY <1>0, LightCalls
  <2> QED BY <1>0, <2>1, <2>2, SizeAssumption, LenProperties DEF TypeInv, TypeOK, SubscriberTypeOK, Size
<1>3. user' = user /\ log' = log /\ input' = input
  BY DEF subscriberVars
<1>4. ASSUME NEW calls \in Seq(MergeCalls), Sends(calls), Load(calls) \in Nat,
             merge'.m_requested \in Nat,
             Load(calls) + merge'.m_requested <= Owed(c) + merge.m_requested
      PROVE  Asked'
  <2> HIDE DEF c
  <2>1. Load(calls) + Len(log'.values) + merge'.m_requested + user.asked
          <= Owed(c) + Len(log.values) + merge.m_requested + user'.asked
    <3>1. PICK a \in Nat, b \in Nat, e \in Nat, f \in Nat, g \in Nat, h \in Nat :
                 /\ a = Load(calls) /\ b = Owed(c) /\ e = merge.m_requested /\ f = user.asked
                 /\ g = Len(log.values) /\ h = merge'.m_requested
      BY <1>2, <1>4
    <3>2. a + h <= b + e /\ Len(log'.values) = g /\ user'.asked = f
      BY <1>3, <1>4, <3>1
    <3>3. a + g + h + f <= b + g + e + f
      BY <3>2
    <3> QED BY <3>1, <3>2, <3>3
  <2> QED BY <1>0, <1>3, <1>4, <2>1, AskedSends DEF c
<1>5. ASSUME Light, merge'.m_requested = merge.m_requested PROVE Asked'
  <2>1. PICK calls \in Seq(MergeCalls) : Sends(calls) /\ Load(calls) <= Owed(c)
    BY <1>5 DEF Light
  <2>2. Load(calls) \in Nat
    BY LoadIsNat
  <2> HIDE DEF c
  <2>3. Load(calls) + merge'.m_requested <= Owed(c) + merge.m_requested
    BY <1>2, <1>5, <2>1, <2>2
  <2> QED BY <1>2, <1>4, <1>5, <2>1, <2>2, <2>3
<1>6. CASE Source(Client) \/ Inner(Client)
  BY <1>0, <1>1, <1>5, <1>6, SourceIsLight, InnerIsLight
<1>7. CASE Handles(Client) /\ ~MergeRequest(Client)
  BY <1>5, <1>7, HandlesLight
<1>8. CASE StopsTurns(Client)
  BY <1>0, <1>5, <1>8, LightCalls DEF StopsTurns, Sends
<1>9. CASE MergeRequest(Client)
  <2> DEFINE d == Call(Depth, "tryRequest", 0)
  <2>1. d \in MergeCalls /\ d.at = Depth /\ d.sig = "tryRequest"
    BY NewCall, PlacesNamed, SentNamed, PlacesDiffer
  <2>2. Sends(<<d>>) /\ c.at = Depth /\ c.sig = "request"
    BY <1>9 DEF MergeRequest, On, Sends
  <2> HIDE DEF d
  <2>3. Load(<<d>>) = 0 /\ <<d>> \in Seq(MergeCalls)
    BY <2>1, FreeCalls, LoadOfFew
  <2>4. Owed(c) = Arg(Client)
    BY <2>2 DEF Owed, Arg
  <2>5. merge'.m_requested = Plus(merge.m_requested, Arg(Client))
    BY <1>0, <1>9 DEF MergeRequest, MergeState
  <2> HIDE DEF c
  <2>6. PICK n \in Nat : n = Owed(c)
    BY <1>2
  <2>7. merge'.m_requested = (merge.m_requested + n) % (SizeMax + 1)
    BY <2>4, <2>5, <2>6 DEF Plus
  <2>8. merge'.m_requested \in Nat /\ merge'.m_requested <= merge.m_requested + n
    <3>1. \A a \in Nat, b \in Nat : b > 0 => a % b \in Nat /\ a % b <= a
      OBVIOUS
    <3>2. merge.m_requested + n \in Nat /\ SizeMax + 1 \in Nat /\ SizeMax + 1 > 0
      BY <1>2
    <3> QED BY <2>7, <3>1, <3>2
  <2>9. Load(<<d>>) \in Nat /\ Load(<<d>>) + merge'.m_requested <= Owed(c) + merge.m_requested
    BY <1>2, <2>3, <2>6, <2>8
  <2> QED BY <1>4, <2>2, <2>3, <2>8, <2>9
<1>10. CASE GivesTurn(Client)
  <2> DEFINE q == merge.m_subscriptions[merge.m_currentIndex + 1]
             d == Call(q, "request", 1)
             e == Call(Depth, "tryRequest", 0)
  <2>1. q \in Publishers
    BY <1>0, <1>10, TurnsList DEF MergeInv
  <2>2. Sends(<<d, e>>) /\ merge.m_requested # 0
    BY <1>10 DEF GivesTurn, Sends, Stuck
  <2>3. merge'.m_requested = merge.m_requested - 1
    BY <1>0, <1>10 DEF GivesTurn, MergeState
  <2> HIDE DEF q
  <2>4. d \in MergeCalls /\ d.at = q /\ d.sig = "request"
    BY <2>1, NewCall, PlacesNamed, SentNamed, PlacesDiffer
  <2>5. e \in MergeCalls /\ e.at = Depth /\ e.sig = "tryRequest"
    BY NewCall, PlacesNamed, SentNamed, PlacesDiffer
  <2> HIDE DEF d, e
  <2>6. Owed(d) = 1 /\ Owed(e) = 0
    BY <2>1, <2>4, <2>5, ValueIsOwed, FreeCalls
  <2>7. Load(<<d, e>>) = 1 /\ <<d, e>> \in Seq(MergeCalls)
    BY <2>4, <2>5, <2>6, LoadOfFew, PairChain
  <2> HIDE DEF c
  <2>8. /\ Load(<<d, e>>) \in Nat /\ merge'.m_requested \in Nat
        /\ Load(<<d, e>>) + merge'.m_requested <= Owed(c) + merge.m_requested
    BY <1>2, <2>2, <2>3, <2>7
  <2> QED BY <1>4, <2>2, <2>7, <2>8
<1> QED BY <1>6, <1>7, <1>8, <1>9, <1>10 DEF Merges

LEMMA AskedStep ==
  ASSUME MergeInv, Asked, [Next]_vars
  PROVE  Asked'
<1>1. TypeInv /\ CallsTypeOK /\ TypeInv'
  BY MergeInductive DEF MergeInv, TypeInv
<1>2. ASSUME agenda'[Client] \o Waiting' = Queue, UNCHANGED <<subscriberVars, mergeVars>>
      PROVE  Asked'
  <2>1. Load(Queue)' = Load(agenda'[Client] \o Waiting')
    BY DEF Load, Shares, Owed, Queue, Stage
  <2> QED BY <1>2, <2>1 DEF Asked, Gate, Pub, subscriberVars, mergeVars
<1>3. CASE UNCHANGED vars
  BY <1>2, <1>3 DEF vars, callVars, Queue, Waiting
<1>4. CASE Dispatch(Client) /\ UNCHANGED <<subscriberVars, mergeVars>>
  BY <1>1, <1>2, <1>4, QueueTakes
<1>5. CASE UserCalls /\ UNCHANGED mergeVars
  <2>1. user.asked \in Nat /\ Demands \subseteq Nat /\ merge.m_requested \in Nat /\ Len(log.values) \in Nat
    <3>1. log.values \in Seq(Nat)
      BY <1>1 DEF TypeInv, TypeOK, SubscriberTypeOK
    <3> QED BY <1>1, <3>1, UserAssumption, SizeAssumption, LenProperties
        DEF TypeInv, TypeOK, SubscriberTypeOK, Size
  <2>2. agenda[Client] = <<>> /\ Waiting' = Waiting /\ Waiting \in Seq(MergeCalls) /\ log' = log
        /\ merge' = merge /\ input' = input
    BY <1>1, <1>5, DepthIsNat, WaitingIsTyped DEF UserCalls, Idle, Waiting, mergeVars
  <2>3. PICK d \in MergeCalls : agenda'[Client] = <<d>> /\ user'.asked = user.asked + Owed(d)
    <3>1. ASSUME NEW n \in Demands, agenda' = [agenda EXCEPT ![Client] = <<Request(Depth, n)>>],
                 user' = [user EXCEPT !.calls = @ + 1, !.asked = @ + n]
          PROVE  agenda'[Client] = <<Request(Depth, n)>> /\ user'.asked = user.asked + n
      BY <1>1, <3>1, DepthIsNat DEF CallsTypeOK, TypeInv, TypeOK, SubscriberTypeOK
    <3>2. ASSUME agenda' = [agenda EXCEPT ![Client] = <<Cancel(Depth)>>],
                 user' = [user EXCEPT !.calls = @ + 1, !.canceled = TRUE]
          PROVE  agenda'[Client] = <<Cancel(Depth)>> /\ user'.asked = user.asked + 0
      BY <1>1, <2>1, <3>2, DepthIsNat DEF CallsTypeOK, TypeInv, TypeOK, SubscriberTypeOK
    <3>3. CASE \E n \in Demands : /\ agenda' = [agenda EXCEPT ![Client] = <<Request(Depth, n)>>]
                                  /\ user' = [user EXCEPT !.calls = @ + 1, !.asked = @ + n]
      <4>1. PICK n \in Demands : /\ agenda'[Client] = <<Request(Depth, n)>>
                                 /\ user'.asked = user.asked + n
        BY <3>1, <3>3
      <4>2. n \in Nat
        BY <2>1
      <4>3. Request(Depth, n) \in MergeCalls /\ Owed(Request(Depth, n)) = n
        BY <4>2, RequestIsOwed
      <4> QED BY <4>1, <4>3
    <3>4. CASE /\ agenda' = [agenda EXCEPT ![Client] = <<Cancel(Depth)>>]
               /\ user' = [user EXCEPT !.calls = @ + 1, !.canceled = TRUE]
      <4>1. agenda'[Client] = <<Cancel(Depth)>> /\ user'.asked = user.asked + 0
        BY <3>2, <3>4
      <4> QED BY <4>1, RequestIsOwed
    <3> QED BY <1>5, <3>3, <3>4 DEF UserCalls
  <2>4. Load(Queue) = Load(Waiting)
    <3>1. <<>> \o Waiting = Waiting
      BY <2>2
    <3> QED BY <2>2, <3>1 DEF Queue
  <2>5. Load(Queue)' = Load(<<d>> \o Waiting)
    BY <2>2, <2>3 DEF Load, Shares, Owed, Queue, Stage
  <2>6. Load(<<d>> \o Waiting) = Owed(d) + Load(Waiting) /\ Owed(d) \in Nat /\ Load(Waiting) \in Nat
    <3>1. <<d>> \in Seq(MergeCalls) /\ Load(<<d>>) = Owed(d)
      BY LoadOfFew
    <3> QED BY <2>2, <3>1, LoadConcat, LoadIsNat
  <2>7. ASSUME Len(log.values) + Load(Queue) + merge.m_requested <= user.asked
        PROVE  Len(log'.values) + Load(Queue)' + merge'.m_requested <= user'.asked
    BY <2>1, <2>2, <2>3, <2>4, <2>5, <2>6, <2>7
  <2> QED BY <2>2, <2>7 DEF Asked, Gate, Pub
<1>6. CASE /\ Source(Client) \/ Inner(Client) \/ Merges(Client)
           /\ UNCHANGED <<subscriberVars, input>> /\ (Source(Client) \/ Inner(Client) => merge' = merge)
  BY <1>1, <1>6, WorksAsked
<1>7. CASE SubscriberStep(Client) /\ UNCHANGED mergeVars
  BY <1>1, <1>7, SubscriberAsked
<1>8. Source(Client) \/ Inner(Client) => merge' = merge
  BY DEF Source, Inner, Subscribes, Requested, Canceled, mergeVars
<1> QED BY <1>3, <1>4, <1>5, <1>6, <1>7, <1>8, MergeStep

LEMMA InitAsked ==
  ASSUME Init
  PROVE  Asked
<1> DEFINE d == Call(Depth, "subscribe", 0)
<1>1. /\ agenda[Client] = <<d>> /\ Waiting = <<>> /\ merge.m_requested = 0
      /\ log.values = <<>> /\ user.asked = 0
  <2>1. DOMAIN <<>> = {}
    OBVIOUS
  <2> QED BY <2>1, DepthIsNat DEF Init, SignalsInit, SubscriberInit, Waiting
<1>2. d \in MergeCalls /\ d.at = Depth /\ d.sig = "subscribe"
  BY NewCall, PlacesNamed, SentNamed, PlacesDiffer
<1> HIDE DEF d
<1>3. Owed(d) = 0
  BY <1>2, FreeCalls
<1>4. Queue = <<d>>
  BY <1>1, TupleConcat DEF Queue
<1>5. Load(Queue) = 0
  BY <1>2, <1>3, <1>4, LoadOfFew
<1>6. Len(log.values) = 0
  BY <1>1
<1> QED BY <1>1, <1>5, <1>6 DEF Asked

(* The subscriber has no value it has not asked for, if no publisher sends *)
(* any unasked: however the demand is spread over the publishers, and      *)
(* whatever of it comes back, it is never counted twice.                   *)
THEOREM MergeWithinDemand == Spec => []WithinDemand
<1>1. Init => Asked
  BY InitAsked
<1>2. MergeInv /\ Asked /\ [Next]_vars => Asked'
  BY AskedStep
<1>3. MergeInv /\ Asked => WithinDemand
  <2> SUFFICES ASSUME MergeInv, Asked, \A p \in Publishers : ~Gate(p)
               PROVE  Len(log.values) <= user.asked
    BY GivenIs DEF WithinDemand
  <2>1. TypeInv /\ Queue \in Seq(MergeCalls)
    <3>1. agenda[Client] \in Seq(MergeCalls) /\ Waiting \in Seq(MergeCalls)
      BY WaitingIsTyped DEF MergeInv, TypeInv, CallsTypeOK
    <3> QED BY <3>1, ConcatSet DEF MergeInv, Queue
  <2>2. Load(Queue) \in Nat /\ merge.m_requested \in Nat /\ user.asked \in Nat /\ Len(log.values) \in Nat
    <3>1. log.values \in Seq(Nat)
      BY <2>1 DEF TypeInv, TypeOK, SubscriberTypeOK
    <3>2. Load(Queue) \in Nat
      BY <2>1, LoadIsNat
    <3> QED BY <2>1, <3>1, <3>2, SizeAssumption, LenProperties DEF TypeInv, TypeOK, SubscriberTypeOK, Size
  <2>3. Len(log.values) + Load(Queue) + merge.m_requested <= user.asked
    BY DEF Asked
  <2> QED BY <2>2, <2>3
<1> QED BY <1>1, <1>2, <1>3, MergeInvariant, PTL DEF Spec

=============================================================================
