----------------------- MODULE EffectMessagingProofs -----------------------
(***************************************************************************)
(* Proofs about EffectMessaging for any threads, effects and bounds.       *)
(***************************************************************************)
EXTENDS EffectMessaging, SequenceTheorems, TLAPS

----------------------------------------------------------------------------
(* Facts about the links.                                                  *)

WireType == [Link -> Seq(Message)]

\* The links a step names exist, and a message never moves to the link it
\* comes from.
LEMMA LinkFacts ==
  /\ Held \in Link /\ ToHost \in Link /\ ToPlugin \in Link
  /\ Held # ToHost /\ Held # ToPlugin /\ ToHost # ToPlugin
  /\ \A e \in Effects : Down(e) \in Link /\ Down(e) \notin {Held, ToHost, ToPlugin}
  /\ \A e \in Effects : Peer(e) \in Link /\ Peer(e) \notin {Held, ToHost, ToPlugin}
  /\ \A e, f \in Effects : Down(e) # Peer(f)
  /\ \A e, f \in Effects : Down(e) = Down(f) => e = f
  /\ \A e, f \in Effects : Peer(e) = Peer(f) => e = f
  /\ \A e \in Effects, s \in Serial : Up(e, s) \in Link
       /\ Up(e, s) \notin {Held, ToHost, ToPlugin}
       /\ \A f \in Effects : Up(e, s) # Down(f) /\ Up(e, s) # Peer(f)
  BY DEF Link, Up, Down, Peer, Held, ToHost, ToPlugin, Serial

\* Elements of a sequence of messages are messages.
LEMMA Elements ==
  ASSUME NEW w \in WireType, NEW l \in Link
  PROVE  /\ w[l] \in Seq(Message)
         /\ Len(w[l]) \in Nat
         /\ \A i \in 1 .. Len(w[l]) : w[l][i] \in Message
         /\ w[l] # <<>> => Len(w[l]) > 0 /\ Head(w[l]) = w[l][1] /\ Head(w[l]) \in Message
  BY DEF WireType

\* v is w with x appended to link l.
Appended(w, v, l, x) ==
  /\ \A k \in Link \ {l} : v[k] = w[k]
  /\ Len(v[l]) = Len(w[l]) + 1
  /\ v[l][Len(w[l]) + 1] = x
  /\ \A i \in 1 .. Len(w[l]) : v[l][i] = w[l][i]

\* v is w with the first message of link a removed.
Dropped(w, v, a) ==
  /\ \A k \in Link \ {a} : v[k] = w[k]
  /\ Len(v[a]) = Len(w[a]) - 1
  /\ \A i \in 1 .. Len(v[a]) : v[a][i] = w[a][i + 1]

\* v is w with the first message of link a moved to the end of link b, as x.
Moved(w, v, a, b, x) ==
  /\ \A k \in Link \ {a, b} : v[k] = w[k]
  /\ Len(v[a]) = Len(w[a]) - 1
  /\ \A i \in 1 .. Len(v[a]) : v[a][i] = w[a][i + 1]
  /\ Len(v[b]) = Len(w[b]) + 1
  /\ v[b][Len(w[b]) + 1] = x
  /\ \A i \in 1 .. Len(w[b]) : v[b][i] = w[b][i]

LEMMA PutFacts ==
  ASSUME NEW w \in WireType, NEW l \in Link, NEW x \in Message,
         NEW v, v = [w EXCEPT ![l] = Append(@, x)]
  PROVE  v \in WireType /\ Appended(w, v, l, x)
  BY DEF WireType, Appended

LEMMA MoveFacts ==
  ASSUME NEW w \in WireType, NEW a \in Link, NEW b \in Link, a # b,
         w[a] # <<>>, NEW x \in Message,
         NEW v, v = [w EXCEPT ![a] = Tail(@), ![b] = Append(@, x)]
  PROVE  v \in WireType /\ Moved(w, v, a, b, x)
<1>1. v[a] = Tail(w[a]) /\ v[b] = Append(w[b], x) /\ \A k \in Link \ {a, b} : v[k] = w[k]
  BY DEF WireType
<1>2. w[a] \in Seq(Message) /\ w[b] \in Seq(Message)
  BY DEF WireType
<1>3. /\ Tail(w[a]) \in Seq(Message)
      /\ Len(Tail(w[a])) = Len(w[a]) - 1
      /\ \A i \in 1 .. Len(Tail(w[a])) : Tail(w[a])[i] = w[a][i + 1]
  BY <1>2, HeadTailProperties
<1>4. /\ Append(w[b], x) \in Seq(Message)
      /\ Len(Append(w[b], x)) = Len(w[b]) + 1
      /\ Append(w[b], x)[Len(w[b]) + 1] = x
      /\ \A i \in 1 .. Len(w[b]) : Append(w[b], x)[i] = w[b][i]
  BY <1>2, AppendProperties
<1>5. v \in WireType
  BY <1>3, <1>4, <1>2 DEF WireType
<1>6. /\ Len(v[b]) = Len(w[b]) + 1
      /\ v[b][Len(w[b]) + 1] = x
      /\ \A i \in 1 .. Len(w[b]) : v[b][i] = w[b][i]
  BY <1>1, <1>4
<1>7. QED
  BY <1>1, <1>3, <1>5, <1>6 DEF Moved

LEMMA DropFacts ==
  ASSUME NEW w \in WireType, NEW a \in Link, w[a] # <<>>,
         NEW v, v = [w EXCEPT ![a] = Tail(@)]
  PROVE  v \in WireType /\ Dropped(w, v, a)
<1>1. v[a] = Tail(w[a]) /\ \A k \in Link \ {a} : v[k] = w[k]
  BY DEF WireType
<1>2. w[a] \in Seq(Message)
  BY DEF WireType
<1>3. /\ Tail(w[a]) \in Seq(Message)
      /\ Len(Tail(w[a])) = Len(w[a]) - 1
      /\ \A i \in 1 .. Len(Tail(w[a])) : Tail(w[a])[i] = w[a][i + 1]
  BY <1>2, HeadTailProperties
<1>4. v \in WireType
  BY <1>3 DEF WireType
<1>5. QED
  BY <1>1, <1>3, <1>4 DEF Dropped

----------------------------------------------------------------------------
(* Every message after a step that sends no request was already on its way *)
(* before it.                                                              *)

Place == Link \X (Nat \ {0})

OnWire(w, p) == p[2] \in 1 .. Len(w[p[1]])

At(w, p) == w[p[1]][p[2]]

\* src tells where each message of v was in w, a different place for each.
Origin(w, v, src) ==
  /\ src \in [Place -> Place]
  /\ \A p \in Place : OnWire(v, p) =>
       /\ OnWire(w, src[p])
       /\ At(v, p).eff = At(w, src[p]).eff
       /\ At(v, p).act = At(w, src[p]).act
       /\ At(v, p).n = At(w, src[p]).n
  /\ \A p, q \in Place : OnWire(v, p) /\ OnWire(v, q) /\ src[p] = src[q] => p = q

Carries(w, v) == \E src : Origin(w, v, src)

LEMMA CarriesSame ==
  ASSUME NEW w \in WireType
  PROVE  Carries(w, w)
<1>. DEFINE src == [p \in Place |-> p]
<1>1. Origin(w, w, src)
  BY DEF Origin
<1>. QED
  BY <1>1 DEF Carries

\* Links shortened at their end, or cleared.
LEMMA CarriesPrefix ==
  ASSUME NEW w \in WireType, NEW v \in WireType,
         \A l \in Link : /\ Len(v[l]) <= Len(w[l])
                         /\ \A i \in 1 .. Len(v[l]) : v[l][i] = w[l][i]
  PROVE  Carries(w, v)
<1>. DEFINE src == [p \in Place |-> p]
<1>1. ASSUME NEW p \in Place, OnWire(v, p)
      PROVE  OnWire(w, p) /\ At(v, p) = At(w, p)
  <2>1. p[1] \in Link /\ p[2] \in Nat
    BY DEF Place
  <2>2. Len(v[p[1]]) \in Nat /\ Len(w[p[1]]) \in Nat
    BY <2>1, Elements
  <2>. QED
    BY <1>1, <2>1, <2>2 DEF OnWire, At
<1>2. Origin(w, v, src)
  BY <1>1 DEF Origin
<1>. QED
  BY <1>2 DEF Carries

LEMMA CarriesDrop ==
  ASSUME NEW w \in WireType, NEW a \in Link, w[a] # <<>>,
         NEW v, Dropped(w, v, a)
  PROVE  Carries(w, v)
<1>. DEFINE src == [p \in Place |-> IF p[1] = a THEN <<a, p[2] + 1>> ELSE p]
<1>1. /\ \A k \in Link \ {a} : v[k] = w[k]
      /\ Len(v[a]) = Len(w[a]) - 1
      /\ \A i \in 1 .. Len(v[a]) : v[a][i] = w[a][i + 1]
      /\ Len(w[a]) \in Nat
  BY Elements DEF Dropped
<1>2. src \in [Place -> Place]
  BY DEF Place
<1>3. ASSUME NEW p \in Place, OnWire(v, p)
      PROVE  OnWire(w, src[p]) /\ At(v, p) = At(w, src[p])
  <2>1. p[1] \in Link /\ p[2] \in Nat \ {0}
    BY DEF Place
  <2>2. CASE p[1] = a
    BY <1>1, <1>3, <2>1, <2>2 DEF OnWire, At
  <2>3. CASE p[1] # a
    BY <1>1, <1>3, <2>1, <2>3 DEF OnWire, At
  <2>. QED
    BY <2>2, <2>3
<1>4. \A p, q \in Place : src[p] = src[q] => p = q
  BY DEF Place
<1>5. Origin(w, v, src)
  BY <1>2, <1>3, <1>4 DEF Origin
<1>. QED
  BY <1>5 DEF Carries

LEMMA CarriesMove ==
  ASSUME NEW w \in WireType, NEW a \in Link, NEW b \in Link, a # b,
         w[a] # <<>>, NEW x \in Message,
         x.eff = Head(w[a]).eff, x.act = Head(w[a]).act, x.n = Head(w[a]).n,
         NEW v, Moved(w, v, a, b, x)
  PROVE  Carries(w, v)
<1>. DEFINE src == [p \in Place |->
                      IF p = <<b, Len(w[b]) + 1>> THEN <<a, 1>>
                      ELSE IF p[1] = a THEN <<a, p[2] + 1>>
                      ELSE p]
<1>1. /\ \A k \in Link \ {a, b} : v[k] = w[k]
      /\ Len(v[a]) = Len(w[a]) - 1
      /\ \A i \in 1 .. Len(v[a]) : v[a][i] = w[a][i + 1]
      /\ Len(v[b]) = Len(w[b]) + 1
      /\ v[b][Len(w[b]) + 1] = x
      /\ \A i \in 1 .. Len(w[b]) : v[b][i] = w[b][i]
  BY DEF Moved
<1>2. /\ Len(w[a]) \in Nat /\ Len(w[b]) \in Nat
      /\ Len(w[a]) > 0 /\ Head(w[a]) = w[a][1]
  BY Elements
<1>3. src \in [Place -> Place]
  BY <1>2 DEF Place
<1>4. ASSUME NEW p \in Place, OnWire(v, p)
      PROVE  /\ OnWire(w, src[p])
             /\ At(v, p).eff = At(w, src[p]).eff
             /\ At(v, p).act = At(w, src[p]).act
             /\ At(v, p).n = At(w, src[p]).n
  <2>1. p[1] \in Link /\ p[2] \in Nat \ {0} /\ p = <<p[1], p[2]>>
    BY DEF Place
  <2>2. CASE p = <<b, Len(w[b]) + 1>>
    <3>1. src[p] = <<a, 1>>
      BY <2>2
    <3>2. At(v, p) = x /\ At(w, src[p]) = Head(w[a]) /\ OnWire(w, src[p])
      BY <1>1, <1>2, <2>2, <3>1 DEF At, OnWire
    <3>. QED
      BY <3>2
  <2>3. CASE p[1] = a
    <3>1. src[p] = <<a, p[2] + 1>>
      BY <2>3
    <3>2. p[2] \in 1 .. Len(v[a])
      BY <1>4, <2>3 DEF OnWire
    <3>3. At(v, p) = v[a][p[2]] /\ At(w, src[p]) = w[a][p[2] + 1]
      BY <2>3, <3>1 DEF At
    <3>4. OnWire(w, src[p])
      BY <1>1, <1>2, <3>1, <3>2 DEF OnWire
    <3>. QED
      BY <1>1, <3>2, <3>3, <3>4
  <2>4. CASE p[1] = b /\ p[2] # Len(w[b]) + 1
    <3>1. src[p] = p
      BY <2>4
    <3>2. p[2] \in 1 .. Len(w[b])
      BY <1>1, <1>2, <1>4, <2>1, <2>4 DEF OnWire
    <3>3. At(v, p) = At(w, p) /\ OnWire(w, p)
      BY <1>1, <2>4, <3>2 DEF At, OnWire
    <3>. QED
      BY <3>1, <3>3
  <2>5. CASE p[1] \notin {a, b}
    <3>1. src[p] = p
      BY <2>5
    <3>. QED
      BY <1>1, <1>4, <2>1, <2>5, <3>1 DEF At, OnWire
  <2>. QED
    BY <2>1, <2>2, <2>3, <2>4, <2>5
<1>5. ASSUME NEW p \in Place, NEW q \in Place, src[p] = src[q], OnWire(v, p), OnWire(v, q)
      PROVE  p = q
  <2>1. /\ p[1] \in Link /\ p[2] \in Nat \ {0} /\ p = <<p[1], p[2]>>
        /\ q[1] \in Link /\ q[2] \in Nat \ {0} /\ q = <<q[1], q[2]>>
    BY DEF Place
  <2>. QED
    BY <1>2, <1>5, <2>1
<1>6. Origin(w, v, src)
  BY <1>3, <1>4, <1>5 DEF Origin
<1>. QED
  BY <1>6 DEF Carries

\* Uniqueness read as a fact about two places.
LEMMA OnePerEffectAt ==
  ASSUME NEW w, OnePerEffect(w), NEW p \in Place, NEW q \in Place,
         OnWire(w, p), OnWire(w, q), At(w, p).eff = At(w, q).eff
  PROVE  p = q
<1>1. p[1] = q[1] /\ p[2] = q[2]
  BY SMT DEF OnePerEffect, Place, OnWire, At
<1>. QED
  BY <1>1 DEF Place

LEMMA OnePerSerialAt ==
  ASSUME NEW w, OnePerSerial(w), NEW p \in Place, NEW q \in Place,
         OnWire(w, p), OnWire(w, q), At(w, p).n = At(w, q).n
  PROVE  p = q
<1>1. p[1] = q[1] /\ p[2] = q[2]
  BY SMT DEF OnePerSerial, Place, OnWire, At
<1>. QED
  BY <1>1 DEF Place

\* What is unique stays unique when messages are only carried on.
LEMMA CarriesUnique ==
  ASSUME NEW w \in WireType, NEW v \in WireType, Carries(w, v)
  PROVE  /\ OnePerEffect(w) => OnePerEffect(v)
         /\ OnePerSerial(w) => OnePerSerial(v)
<1>1. PICK src : Origin(w, v, src)
  BY DEF Carries
<1>2. ASSUME NEW k \in Link, NEW i \in 1 .. Len(v[k])
      PROVE  /\ src[<<k, i>>] \in Place /\ OnWire(w, src[<<k, i>>])
             /\ v[k][i].eff = At(w, src[<<k, i>>]).eff
             /\ v[k][i].n = At(w, src[<<k, i>>]).n
  <2>1. <<k, i>> \in Place /\ OnWire(v, <<k, i>>) /\ At(v, <<k, i>>) = v[k][i]
    BY Elements DEF Place, OnWire, At
  <2>. QED
    BY <1>1, <2>1 DEF Origin
<1>3. ASSUME OnePerEffect(w)
      PROVE  OnePerEffect(v)
  <2>1. SUFFICES ASSUME NEW k \in Link, NEW l \in Link, NEW i \in 1 .. Len(v[k]),
                        NEW j \in 1 .. Len(v[l]), v[k][i].eff = v[l][j].eff
                 PROVE  k = l /\ i = j
    BY DEF OnePerEffect
  <2>2. PICK p \in Place : p = src[<<k, i>>] /\ OnWire(w, p) /\ v[k][i].eff = At(w, p).eff
    BY <1>2
  <2>3. PICK q \in Place : q = src[<<l, j>>] /\ OnWire(w, q) /\ v[l][j].eff = At(w, q).eff
    BY <1>2
  <2>4. p = q
    BY <1>3, <2>1, <2>2, <2>3, OnePerEffectAt
  <2>5. <<k, i>> = <<l, j>>
    <3>1. /\ <<k, i>> \in Place /\ OnWire(v, <<k, i>>)
          /\ <<l, j>> \in Place /\ OnWire(v, <<l, j>>)
      BY Elements DEF Place, OnWire
    <3>. QED
      BY <1>1, <2>2, <2>3, <2>4, <3>1 DEF Origin
  <2>. QED
    BY <2>5
<1>4. ASSUME OnePerSerial(w)
      PROVE  OnePerSerial(v)
  <2>1. SUFFICES ASSUME NEW k \in Link, NEW l \in Link, NEW i \in 1 .. Len(v[k]),
                        NEW j \in 1 .. Len(v[l]), v[k][i].n = v[l][j].n
                 PROVE  k = l /\ i = j
    BY DEF OnePerSerial
  <2>2. PICK p \in Place : p = src[<<k, i>>] /\ OnWire(w, p) /\ v[k][i].n = At(w, p).n
    BY <1>2
  <2>3. PICK q \in Place : q = src[<<l, j>>] /\ OnWire(w, q) /\ v[l][j].n = At(w, q).n
    BY <1>2
  <2>4. p = q
    BY <1>4, <2>1, <2>2, <2>3, OnePerSerialAt
  <2>5. <<k, i>> = <<l, j>>
    <3>1. /\ <<k, i>> \in Place /\ OnWire(v, <<k, i>>)
          /\ <<l, j>> \in Place /\ OnWire(v, <<l, j>>)
      BY Elements DEF Place, OnWire
    <3>. QED
      BY <1>1, <2>2, <2>3, <2>4, <3>1 DEF Origin
  <2>. QED
    BY <2>5
<1>. QED
  BY <1>3, <1>4

----------------------------------------------------------------------------
(* What each step does to the links.                                       *)

TypeInv == TypeOK /\ RequestInv

WireKept == wire' \in WireType /\ Carries(wire, wire')

\* A thread inside MainEntry has a call.
LEMMA InsideHasCall ==
  ASSUME TypeOK, NEW t \in Threads, pc[t] # "idle"
  PROVE  /\ call[t] \in Call
         /\ call[t].eff \in Effects /\ call[t].n \in Serial
         /\ call[t].act \in Requests \cup LocalOnly
  BY DEF TypeOK, Call

LEMMA ForwardKept ==
  ASSUME TypeOK, NEW a \in Link, NEW b \in Link, a # b, wire[a] # <<>>,
         wire' = Forward(a, b)
  PROVE  WireKept
<1>1. wire \in WireType /\ Head(wire[a]) \in Message
  BY Elements DEF TypeOK, WireType
<1>2. wire' = [wire EXCEPT ![a] = Tail(@), ![b] = Append(@, Head(wire[a]))]
  BY DEF Forward
<1>3. wire' \in WireType /\ Moved(wire, wire', a, b, Head(wire[a]))
  BY <1>1, <1>2, MoveFacts
<1>. QED
  BY <1>1, <1>3, CarriesMove DEF WireKept

LEMMA DropKept ==
  ASSUME TypeOK, NEW a \in Link, wire[a] # <<>>, wire' = Drop(a)
  PROVE  WireKept
<1>1. wire \in WireType
  BY DEF TypeOK, WireType
<1>2. wire' \in WireType /\ Dropped(wire, wire', a)
  BY <1>1, DropFacts DEF Drop
<1>. QED
  BY <1>1, <1>2, CarriesDrop DEF WireKept

LEMMA ClearKept ==
  ASSUME TypeOK, NEW a \in Link, wire' = Clear(a)
  PROVE  WireKept
<1>1. wire \in WireType /\ wire' \in WireType
  BY EmptySeq DEF TypeOK, WireType, Clear
<1>2. \A l \in Link : /\ Len(wire'[l]) <= Len(wire[l])
                      /\ \A i \in 1 .. Len(wire'[l]) : wire'[l][i] = wire[l][i]
  <2>1. TAKE l \in Link
  <2>2. Len(wire[l]) \in Nat
    BY <1>1, Elements
  <2>3. CASE l = a
    <3>1. wire'[l] = <<>> /\ Len(wire'[l]) = 0
      BY <2>3, EmptySeq DEF TypeOK, Clear
    <3>. QED
      BY <2>2, <3>1
  <2>4. CASE l # a
    BY <2>2, <2>4 DEF TypeOK, Clear
  <2>. QED
    BY <2>3, <2>4
<1>. QED
  BY <1>1, <1>2, CarriesPrefix DEF WireKept

LEMMA SameKept ==
  ASSUME TypeOK, wire' = wire
  PROVE  WireKept
  BY CarriesSame DEF TypeOK, WireType, WireKept

\* A reply from the PAIR link goes to its own effect, or is discarded where
\* that effect is not subscribed.
LEMMA BrokerFromPairRoutes ==
  ASSUME TypeOK, BrokerFromPair
  PROVE  LET m == Head(wire[ToPlugin])
         IN  /\ m \in Message
             /\ IF "down" \in joined[m.eff] THEN wire' = Forward(ToPlugin, Down(m.eff))
                                            ELSE wire' = Drop(ToPlugin)
<1>. DEFINE m == Head(wire[ToPlugin])
<1>1. wire \in WireType /\ ToPlugin \in Link /\ wire[ToPlugin] # <<>>
  BY LinkFacts DEF TypeOK, WireType, BrokerFromPair
<1>2. m \in Message /\ m.eff \in Effects
  BY <1>1, Elements DEF Message
<1>3. /\ wire' = [l \in Link |->
                    IF l = ToPlugin THEN Tail(wire[l])
                    ELSE IF \E e \in Subscribers(m) : l = Down(e)
                    THEN Append(wire[l], m)
                    ELSE wire[l]]
      /\ Down(m.eff) \in Link /\ Down(m.eff) # ToPlugin
  BY <1>2, LinkFacts DEF BrokerFromPair
<1>4. CASE "down" \in joined[m.eff]
  <2>1. \A l : (\E e \in Subscribers(m) : l = Down(e)) <=> l = Down(m.eff)
    BY <1>2, <1>4 DEF Subscribers
  <2>2. wire' = [l \in Link |->
                   IF l = ToPlugin THEN Tail(wire[l])
                   ELSE IF l = Down(m.eff) THEN Append(wire[l], m)
                   ELSE wire[l]]
    BY <1>3, <2>1
  <2>3. wire' = Forward(ToPlugin, Down(m.eff))
    BY <1>1, <1>3, <2>2 DEF Forward, WireType
  <2>. QED
    BY <1>2, <1>4, <2>3
<1>5. CASE "down" \notin joined[m.eff]
  <2>1. \A l : ~ \E e \in Subscribers(m) : l = Down(e)
    BY <1>5 DEF Subscribers
  <2>2. wire' = [l \in Link |-> IF l = ToPlugin THEN Tail(wire[l]) ELSE wire[l]]
    BY <1>3, <2>1
  <2>3. wire' = Drop(ToPlugin)
    BY <1>1, <2>2 DEF Drop, WireType
  <2>. QED
    BY <1>2, <1>5, <2>3
<1>. QED
  BY <1>4, <1>5

LEMMA BrokerFromPairDelivers ==
  ASSUME TypeOK, BrokerFromPair
  PROVE  LET m == Head(wire[ToPlugin])
         IN  /\ m \in Message
             /\ \/ wire' = Forward(ToPlugin, Down(m.eff))
                \/ wire' = Drop(ToPlugin)
  BY BrokerFromPairRoutes

LEMMA PeerReplyKept ==
  ASSUME TypeOK, NEW e \in Effects, NEW s \in Statuses, PeerReply(e, s)
  PROVE  WireKept
<1>. DEFINE m == Head(wire[Peer(e)])
            x == [m EXCEPT !.status = s]
<1>1. /\ wire \in WireType /\ Peer(e) \in Link /\ ToPlugin \in Link
      /\ Peer(e) # ToPlugin /\ wire[Peer(e)] # <<>>
  BY LinkFacts DEF TypeOK, WireType, PeerReply
<1>2. m \in Message
  BY <1>1, Elements
<1>3. x \in Message /\ x.eff = m.eff /\ x.act = m.act /\ x.n = m.n
  BY <1>2 DEF Message
<1>4. wire' = [wire EXCEPT ![Peer(e)] = Tail(@), ![ToPlugin] = Append(@, x)]
  BY DEF PeerReply
<1>. HIDE DEF x, m
<1>5. wire' \in WireType /\ Moved(wire, wire', Peer(e), ToPlugin, x)
  BY <1>1, <1>3, <1>4, MoveFacts
<1>6. x.eff = Head(wire[Peer(e)]).eff /\ x.act = Head(wire[Peer(e)]).act
      /\ x.n = Head(wire[Peer(e)]).n
  BY <1>3 DEF m
<1>. QED
  BY <1>1, <1>3, <1>5, <1>6, CarriesMove DEF WireKept

LEMMA PeerCrashKept ==
  ASSUME TypeOK, PeerCrash
  PROVE  WireKept
<1>1. wire \in WireType
  BY DEF TypeOK, WireType
<1>2. PICK k \in 0 .. Len(wire[ToPlugin]) :
        wire' = [l \in Link |->
                   IF l = ToHost \/ l \in {Peer(e) : e \in Effects} THEN <<>>
                   ELSE IF l = ToPlugin THEN SubSeq(wire[l], 1, k)
                   ELSE wire[l]]
  BY DEF PeerCrash
<1>3. ASSUME NEW l \in Link
      PROVE  /\ wire'[l] \in Seq(Message)
             /\ Len(wire'[l]) <= Len(wire[l])
             /\ \A i \in 1 .. Len(wire'[l]) : wire'[l][i] = wire[l][i]
  <2>1. wire[l] \in Seq(Message) /\ Len(wire[l]) \in Nat
        /\ \A i \in 1 .. Len(wire[l]) : wire[l][i] \in Message
    BY <1>1, Elements
  <2>2. CASE wire'[l] = <<>>
    BY <2>1, <2>2, EmptySeq
  <2>3. CASE l = ToPlugin /\ wire'[l] = SubSeq(wire[l], 1, k)
    <3>1. k \in Nat /\ k <= Len(wire[l])
      BY <2>1, <2>3
    <3>2. /\ SubSeq(wire[l], 1, k) \in Seq(Message)
          /\ Len(SubSeq(wire[l], 1, k)) = IF 1 <= k THEN k - 1 + 1 ELSE 0
          /\ \A i \in 1 .. k - 1 + 1 : SubSeq(wire[l], 1, k)[i] = wire[l][1 + i - 1]
      BY <2>1, <3>1, SubSeqProperties
    <3>3. Len(SubSeq(wire[l], 1, k)) = k
      BY <3>1, <3>2
    <3>. QED
      BY <2>3, <3>1, <3>2, <3>3
  <2>4. CASE wire'[l] = wire[l]
    BY <2>1, <2>4
  <2>. QED
    BY <1>2, <2>2, <2>3, <2>4
<1>4. wire' \in WireType
  BY <1>2, <1>3 DEF WireType
<1>. QED
  BY <1>1, <1>3, <1>4, CarriesPrefix DEF WireKept

\* The one step that puts a new message on the links.
Sent(t, m) ==
  /\ SendMessage(t)
  /\ m = [eff |-> call[t].eff, act |-> call[t].act, n |-> call[t].n, status |-> "none"]
  /\ \E l \in Link : wire' = Put(l, m) /\ \A e \in Effects : l # Down(e)

LEMMA SendSends ==
  ASSUME TypeInv, NEW t \in Threads, SendMessage(t)
  PROVE  WireKept \/ \E m \in Message : Sent(t, m)
<1>. DEFINE m == [eff |-> call[t].eff, act |-> call[t].act, n |-> call[t].n,
                  status |-> "none"]
            l == Up(call[t].eff, sock[call[t].eff])
<1>1. pc[t] = "send" /\ call[t].eff \in Effects /\ call[t].n \in Serial
  BY InsideHasCall DEF TypeInv, SendMessage
<1>2. call[t].act \in Requests
  BY <1>1 DEF TypeInv, RequestInv
<1>3. m \in Message
  BY <1>1, <1>2 DEF Message
<1>4. CASE wire' = wire
  BY <1>4, SameKept DEF TypeInv
<1>5. CASE wire' = Put(l, m)
  <2>1. sock[call[t].eff] \in Serial
    BY <1>1, ConstantsAssumption DEF SendMessage, TypeInv, TypeOK, Serial
  <2>2. l \in Link /\ \A e \in Effects : l # Down(e)
    BY <1>1, <2>1, LinkFacts
  <2>. QED
    BY <1>3, <1>5, <2>2 DEF Sent
<1>. QED
  BY <1>4, <1>5 DEF SendMessage

\* Every step carries the messages on, or sends one request.
LEMMA NextWire ==
  ASSUME TypeInv, [Next]_vars
  PROVE  WireKept \/ \E t \in Threads, m \in Message : Sent(t, m)
<1>. USE DEF TypeInv
<1>1. CASE UNCHANGED vars
  BY <1>1, SameKept DEF vars
<1>2. ASSUME NEW t \in Threads, NEW e \in Effects, NEW a \in Requests \cup LocalOnly,
             MainEntry(t, e, a)
      PROVE  WireKept
  BY <1>2, SameKept DEF MainEntry
<1>3. ASSUME NEW t \in Threads,
             Acquire(t) \/ RunLocally(t) \/ SendFails(t) \/ ReceiveFails(t) \/ Release(t)
      PROVE  WireKept
  BY <1>3, SameKept DEF Acquire, RunLocally, SendFails, ReceiveFails, Release
<1>4. ASSUME NEW t \in Threads, Connect(t)
      PROVE  WireKept
  <2>1. pc[t] # "idle"
    BY <1>4 DEF Connect
  <2>2. Down(call[t].eff) \in Link
    BY <2>1, InsideHasCall, LinkFacts
  <2>. QED
    BY <1>4, <2>2, ClearKept DEF Connect
<1>5. ASSUME NEW t \in Threads, SendMessage(t)
      PROVE  WireKept \/ \E m \in Message : Sent(t, m)
  BY <1>5, SendSends
<1>6. ASSUME NEW t \in Threads, ReceiveMessage(t)
      PROVE  WireKept
  <2>1. pc[t] # "idle"
    BY <1>6 DEF ReceiveMessage
  <2>2. Down(call[t].eff) \in Link
    BY <2>1, InsideHasCall, LinkFacts
  <2>3. /\ wire[Down(call[t].eff)] # <<>>
        /\ wire' = Clear(Down(call[t].eff)) \/ wire' = Drop(Down(call[t].eff))
    BY <1>6 DEF ReceiveMessage
  <2>. QED
    BY <2>2, <2>3, ClearKept, DropKept
<1>7. ASSUME NEW e \in Effects, NEW d \in {"up", "down"}, Join(e, d)
      PROVE  WireKept
  BY <1>7, SameKept DEF Join
<1>8. ASSUME NEW e \in Effects, NEW s \in Serial, BrokerFromSub(e, s)
      PROVE  WireKept
  <2>1. Up(e, s) \in Link /\ Held \in Link /\ Up(e, s) # Held
    BY LinkFacts
  <2>. QED
    BY <1>8, <2>1, ForwardKept DEF BrokerFromSub
<1>9. ASSUME BrokerToPair
      PROVE  WireKept
  BY <1>9, LinkFacts, ForwardKept DEF BrokerToPair, BrokerIdle
<1>10. ASSUME BrokerFromPair
       PROVE  WireKept
  <2>1. PICK m \in Message : wire' = Forward(ToPlugin, Down(m.eff)) \/ wire' = Drop(ToPlugin)
    BY <1>10, BrokerFromPairDelivers
  <2>2. /\ Down(m.eff) \in Link /\ ToPlugin \in Link /\ Down(m.eff) # ToPlugin
        /\ wire[ToPlugin] # <<>>
    BY <1>10, LinkFacts DEF Message, BrokerFromPair
  <2>. QED
    BY <2>1, <2>2, ForwardKept, DropKept
<1>11. ASSUME PeerReceive
       PROVE  WireKept
  <2>1. ToHost \in Link /\ wire[ToHost] # <<>>
    BY <1>11, LinkFacts DEF PeerReceive
  <2>2. Head(wire[ToHost]).eff \in Effects
    BY <2>1, Elements DEF TypeOK, WireType, Message
  <2>3. /\ Peer(Head(wire[ToHost]).eff) \in Link
        /\ Peer(Head(wire[ToHost]).eff) # ToHost
    BY <2>2, LinkFacts
  <2>4. wire' = Forward(ToHost, Peer(Head(wire[ToHost]).eff)) \/ wire' = Drop(ToHost)
    BY <1>11 DEF PeerReceive
  <2>. QED
    BY <2>1, <2>3, <2>4, ForwardKept, DropKept
<1>12. ASSUME NEW e \in Effects, NEW s \in Statuses, PeerReply(e, s)
       PROVE  WireKept
  BY <1>12, PeerReplyKept
<1>13. ASSUME PeerCrash
       PROVE  WireKept
  BY <1>13, PeerCrashKept
<1>14. ASSUME AllReturned
       PROVE  WireKept
  BY <1>14, SameKept DEF AllReturned, vars
<1>. QED
  BY <1>1, <1>2, <1>3, <1>4, <1>5, <1>6, <1>7, <1>8, <1>9, <1>10, <1>11,
     <1>12, <1>13, <1>14 DEF Next, ThreadStep, BrokerStep, PeerStep

----------------------------------------------------------------------------
(* Type correctness.                                                       *)

LEMMA WireTyped ==
  ASSUME TypeInv, [Next]_vars
  PROVE  wire' \in WireType
<1>1. CASE WireKept
  BY <1>1 DEF WireKept
<1>2. ASSUME NEW t \in Threads, NEW m \in Message, Sent(t, m)
      PROVE  wire' \in WireType
  <2>1. PICK l \in Link : wire' = [wire EXCEPT ![l] = Append(@, m)]
    BY <1>2 DEF Sent, Put
  <2>. QED
    BY <2>1, PutFacts DEF TypeInv, TypeOK, WireType
<1>. QED
  BY <1>1, <1>2, NextWire

LEMMA TypeInit == Init => TypeInv
<1>. SUFFICES ASSUME Init PROVE TypeInv
  OBVIOUS
<1>1. wire \in WireType
  BY EmptySeq DEF Init, WireType
<1>. QED
  BY <1>1, ConstantsAssumption DEF Init, TypeInv, TypeOK, RequestInv, WireType, Call

\* Leaving the body of MainEntry keeps the types of pc and call.
LEMMA FinishTyped ==
  ASSUME TypeInv, NEW t \in Threads, pc[t] # "idle",
         NEW g \in 0 .. MaxCalls, NEW o \in Statuses \cup {"none", "Exception"},
         Finish(t, g, o)
  PROVE  /\ pc' \in [Threads -> {"idle", "lock", "local", "connect", "send", "recv", "release"}]
         /\ call' \in [Threads -> Call \cup {None}]
         /\ \A u \in Threads : pc'[u] = "idle" <=> call'[u] = None
         /\ RequestInv'
<1>1. call[t] \in Call /\ call[t] # None
  BY InsideHasCall DEF TypeInv, TypeOK
<1>2. [call[t] EXCEPT !.got = g, !.outcome = o] \in Call
  BY <1>1 DEF Call
<1>3. None \notin Call
  BY ConstantsAssumption
<1>. QED
  BY <1>1, <1>2, <1>3 DEF TypeInv, TypeOK, RequestInv, Finish

LEMMA TypeStep ==
  ASSUME TypeInv, [Next]_vars
  PROVE  TypeInv'
<1>. USE DEF TypeInv
<1>1. wire' \in [Link -> Seq(Message)]
  BY WireTyped DEF WireType
<1>2. None \notin Call /\ None \notin Threads
  BY ConstantsAssumption
<1>3. CASE UNCHANGED vars
  BY <1>3 DEF vars, TypeOK, RequestInv
<1>4. ASSUME NEW t \in Threads, NEW e \in Effects, NEW a \in Requests \cup LocalOnly,
             MainEntry(t, e, a)
      PROVE  TypeInv'
  <2>. DEFINE c == [eff |-> e, act |-> a, n |-> calls + 1, got |-> 0, outcome |-> "none"]
  <2>1. calls + 1 \in Serial /\ 0 \in 0 .. MaxCalls
    BY <1>4, ConstantsAssumption DEF TypeOK, Serial, MainEntry
  <2>2. c \in Call
    BY <2>1 DEF Call
  <2>3. /\ call' = [call EXCEPT ![t] = c] /\ pc' = [pc EXCEPT ![t] = "lock"]
        /\ calls' = calls + 1
    BY <1>4 DEF MainEntry
  <2>. HIDE DEF c
  <2>. QED
    BY <1>1, <1>2, <1>4, <2>1, <2>2, <2>3, ConstantsAssumption DEF MainEntry, TypeOK, RequestInv, Serial
<1>5. ASSUME NEW t \in Threads, Acquire(t)
      PROVE  TypeInv'
  <2>1. call[t] \in Call /\ call[t].act \in Requests \cup LocalOnly
    BY <1>5, InsideHasCall DEF Acquire
  <2>2. /\ FirstStep(call[t].act) \in {"connect", "local", "send"}
        /\ FirstStep(call[t].act) \in {"connect", "send"} => call[t].act \in Requests
    BY <2>1 DEF FirstStep, Requests
  <2>. QED
    BY <1>1, <1>2, <1>5, <2>1, <2>2 DEF Acquire, TypeOK, RequestInv
<1>6. ASSUME NEW t \in Threads, RunLocally(t)
      PROVE  TypeInv'
  <2>1. pc[t] # "idle" /\ \E o \in Statuses : Finish(t, 0, o)
    BY <1>6 DEF RunLocally
  <2>2. 0 \in 0 .. MaxCalls
    BY ConstantsAssumption
  <2>. QED
    BY <1>1, <1>6, <2>1, <2>2, FinishTyped DEF RunLocally, TypeOK
<1>7. ASSUME NEW t \in Threads, Connect(t)
      PROVE  TypeInv'
  <2>1. call[t] \in Call /\ call[t].n \in 0 .. MaxCalls /\ call[t].act \in Requests
    BY <1>7, InsideHasCall DEF Connect, Serial, RequestInv
  <2>. QED
    BY <1>1, <1>2, <1>7, <2>1 DEF Connect, TypeOK, RequestInv
<1>8. ASSUME NEW t \in Threads, SendMessage(t)
      PROVE  TypeInv'
  BY <1>1, <1>2, <1>8 DEF SendMessage, TypeOK, RequestInv
<1>9. ASSUME NEW t \in Threads, SendFails(t) \/ ReceiveFails(t)
      PROVE  TypeInv'
  <2>1. pc[t] # "idle" /\ Finish(t, 0, "Failed")
    BY <1>9 DEF SendFails, ReceiveFails
  <2>2. 0 \in 0 .. MaxCalls /\ "Failed" \in Statuses
    BY ConstantsAssumption DEF Statuses
  <2>. QED
    BY <1>1, <1>9, <2>1, <2>2, FinishTyped DEF SendFails, ReceiveFails, TypeOK
<1>10. ASSUME NEW t \in Threads, ReceiveMessage(t)
       PROVE  TypeInv'
  <2>. DEFINE m == Head(wire[Down(call[t].eff)])
  <2>1. /\ pc[t] # "idle" /\ call[t] \in Call /\ call[t].eff \in Effects
        /\ \E o \in Results(call[t], m) : Finish(t, m.n, o)
    BY <1>10, InsideHasCall DEF ReceiveMessage
  <2>2. m \in Message
    BY <1>10, <2>1, LinkFacts, Elements DEF ReceiveMessage, TypeOK, WireType
  <2>3. m.n \in 0 .. MaxCalls /\ m.status \in Statuses \cup {"none"}
    BY <2>2 DEF Message, Serial
  <2>4. Results(call[t], m) \subseteq Statuses \cup {"none", "Exception"}
    BY <2>3 DEF Results, Statuses
  <2>5. sock' \in [Effects -> 0 .. MaxCalls] /\ joined' \in [Effects -> SUBSET {"up", "down"}]
    <3>1. \/ UNCHANGED <<sock, joined>>
          \/ /\ sock' = [sock EXCEPT ![call[t].eff] = 0]
             /\ joined' = [joined EXCEPT ![call[t].eff] = {}]
      BY <1>10 DEF ReceiveMessage
    <3>2. sock \in [Effects -> 0 .. MaxCalls] /\ joined \in [Effects -> SUBSET {"up", "down"}]
          /\ 0 \in 0 .. MaxCalls
      BY ConstantsAssumption DEF TypeOK
    <3>. QED
      BY <3>1, <3>2
  <2>. HIDE DEF m
  <2>. QED
    BY <1>1, <1>10, <2>1, <2>3, <2>4, <2>5, FinishTyped DEF ReceiveMessage, TypeOK
<1>11. ASSUME NEW t \in Threads, Release(t)
       PROVE  TypeInv'
  BY <1>1, <1>2, <1>11 DEF Release, TypeOK, RequestInv
<1>12. ASSUME BrokerStep
       PROVE  TypeInv'
  <2>1. ASSUME NEW e \in Effects, NEW d \in {"up", "down"}, Join(e, d)
        PROVE  TypeInv'
    BY <1>1, <2>1 DEF Join, TypeOK, RequestInv
  <2>2. ASSUME NEW e \in Effects, NEW s \in Serial, BrokerFromSub(e, s)
        PROVE  TypeInv'
    BY <1>1, <2>2 DEF BrokerFromSub, TypeOK, RequestInv
  <2>3. CASE BrokerToPair
    BY <1>1, <2>3 DEF BrokerToPair, TypeOK, RequestInv
  <2>4. CASE BrokerFromPair
    BY <1>1, <2>4 DEF BrokerFromPair, TypeOK, RequestInv
  <2>. QED
    BY <1>12, <2>1, <2>2, <2>3, <2>4 DEF BrokerStep
<1>13. ASSUME PeerReceive \/ PeerCrash
       PROVE  TypeInv'
  BY <1>1, <1>13 DEF PeerReceive, PeerCrash, TypeOK, RequestInv
<1>14. ASSUME NEW e \in Effects, NEW s \in Statuses, PeerReply(e, s)
       PROVE  TypeInv'
  <2>1. Peer(e) \in Link /\ wire[Peer(e)] # <<>>
    BY <1>14, LinkFacts DEF PeerReply
  <2>2. Head(wire[Peer(e)]) \in Message
    BY <2>1, Elements DEF TypeOK, WireType
  <2>3. Head(wire[Peer(e)]).n \in 0 .. MaxCalls
    BY <2>2 DEF Message, Serial
  <2>. QED
    BY <1>1, <1>14, <2>3 DEF PeerReply, TypeOK, RequestInv
<1>15. ASSUME AllReturned
       PROVE  TypeInv'
  BY <1>15, <1>3 DEF AllReturned
<1>. QED
  BY <1>3, <1>4, <1>5, <1>6, <1>7, <1>8, <1>9, <1>10, <1>11, <1>12, <1>13,
     <1>14, <1>15 DEF Next, ThreadStep, PeerStep

\* For any threads, effects and behaviour of the environment the variables
\* keep their types, and a call never gets to the sending steps of MainEntry
\* with an action that has no message.
THEOREM TypeCorrect == Spec => []TypeOK
<1>1. TypeInv /\ [Next]_vars => TypeInv'
  BY TypeStep
<1>2. TypeInv => TypeOK
  BY DEF TypeInv
<1>. QED
  BY TypeInit, <1>1, <1>2, PTL DEF Spec

----------------------------------------------------------------------------
(* The lock.                                                               *)

\* Steps of the brokers and of the remote side leave the threads alone.
LEMMA OthersLeaveThreads ==
  ASSUME BrokerStep \/ PeerStep \/ PeerCrash \/ AllReturned \/ UNCHANGED vars
  PROVE  UNCHANGED <<pc, call, m_effect_lock>>
  BY DEF BrokerStep, PeerStep, PeerCrash, AllReturned, vars, Join, BrokerFromSub,
         BrokerToPair, BrokerFromPair, PeerReceive, PeerReply

\* A step that moves a thread along inside the guarded block.
LEMMA LockKept ==
  ASSUME TypeInv, LockInv, NEW t \in Threads, pc[t] \in Busy,
         pc' \in [Threads -> {"idle", "lock", "local", "connect", "send", "recv", "release"}],
         pc'[t] \in Busy, call'[t].eff = call[t].eff,
         \A u \in Threads \ {t} : pc'[u] = pc[u] /\ call'[u] = call[u],
         UNCHANGED m_effect_lock
  PROVE  LockInv'
<1>1. ASSUME NEW u \in Threads, pc'[u] \in Busy
      PROVE  m_effect_lock'[call'[u].eff] = u
  <2>1. pc[u] \in Busy /\ call'[u].eff = call[u].eff
    BY <1>1
  <2>. QED
    BY <2>1 DEF LockInv
<1>2. ASSUME NEW f \in Effects, m_effect_lock'[f] # None
      PROVE  pc'[m_effect_lock'[f]] \in Busy /\ call'[m_effect_lock'[f]].eff = f
  <2>1. /\ m_effect_lock[f] \in Threads
        /\ pc[m_effect_lock[f]] \in Busy /\ call[m_effect_lock[f]].eff = f
    BY <1>2 DEF LockInv, TypeInv, TypeOK
  <2>. QED
    BY <2>1
<1>. QED
  BY <1>1, <1>2 DEF LockInv

LEMMA LockStep ==
  ASSUME TypeInv, LockInv, [Next]_vars
  PROVE  LockInv'
<1>. USE DEF TypeInv
<1>1. TypeInv'
  BY TypeStep
<1>2. None \notin Threads /\ None \notin Effects
  BY ConstantsAssumption
<1>3. ASSUME NEW t \in Threads, NEW e \in Effects, NEW a \in Requests \cup LocalOnly,
             MainEntry(t, e, a)
      PROVE  LockInv'
  <2>1. /\ \A u \in Threads \ {t} : pc'[u] = pc[u] /\ call'[u] = call[u]
        /\ pc'[t] = "lock" /\ pc[t] = "idle" /\ UNCHANGED m_effect_lock
    BY <1>3 DEF MainEntry, TypeOK
  <2>2. \A f \in Effects : m_effect_lock[f] # t
    BY <1>2, <2>1 DEF LockInv, Busy
  <2>3. \A f \in Effects : m_effect_lock[f] # None => m_effect_lock[f] \in Threads \ {t}
    BY <2>2 DEF TypeOK
  <2>. QED
    BY <2>1, <2>3 DEF LockInv, Busy
<1>4. ASSUME NEW t \in Threads, Acquire(t)
      PROVE  LockInv'
  <2>1. /\ call[t].eff \in Effects /\ pc[t] = "lock"
        /\ m_effect_lock[call[t].eff] = None
        /\ m_effect_lock' = [m_effect_lock EXCEPT ![call[t].eff] = t]
        /\ pc' = [pc EXCEPT ![t] = FirstStep(call[t].act)]
        /\ call' = call
    BY <1>4, InsideHasCall DEF Acquire, LockFree
  <2>2. FirstStep(call[t].act) \in Busy
    BY DEF FirstStep, Busy
  <2>3. ASSUME NEW u \in Threads, pc'[u] \in Busy
        PROVE  m_effect_lock'[call'[u].eff] = u
    <3>1. CASE u = t
      BY <2>1, <3>1 DEF TypeOK
    <3>2. CASE u # t
      <4>1. pc[u] \in Busy
        BY <2>1, <2>3, <3>2 DEF TypeOK
      <4>2. m_effect_lock[call[u].eff] = u /\ call[u].eff \in Effects
        BY <4>1, InsideHasCall DEF LockInv, Busy
      <4>3. call[u].eff # call[t].eff
        BY <1>2, <2>1, <4>2
      <4>. QED
        BY <2>1, <4>2, <4>3 DEF TypeOK
    <3>. QED
      BY <3>1, <3>2
  <2>4. ASSUME NEW f \in Effects, m_effect_lock'[f] # None
        PROVE  pc'[m_effect_lock'[f]] \in Busy /\ call'[m_effect_lock'[f]].eff = f
    <3>1. CASE f = call[t].eff
      BY <2>1, <2>2, <3>1 DEF TypeOK
    <3>2. CASE f # call[t].eff
      <4>1. m_effect_lock'[f] = m_effect_lock[f]
        BY <2>1, <3>2 DEF TypeOK
      <4>2. pc[m_effect_lock[f]] \in Busy /\ call[m_effect_lock[f]].eff = f
        BY <2>4, <4>1 DEF LockInv
      <4>3. m_effect_lock[f] # t
        BY <2>1, <4>2 DEF Busy
      <4>. QED
        BY <2>1, <2>4, <4>1, <4>2, <4>3 DEF TypeOK
    <3>. QED
      BY <3>1, <3>2
  <2>. QED
    BY <2>3, <2>4 DEF LockInv
<1>5. ASSUME NEW t \in Threads, RunLocally(t) \/ SendFails(t) \/ ReceiveMessage(t) \/ ReceiveFails(t)
      PROVE  LockInv'
  <2>1. /\ pc[t] \in {"local", "send", "recv"} /\ UNCHANGED m_effect_lock
        /\ \E g, o : Finish(t, g, o)
    BY <1>5 DEF RunLocally, SendFails, ReceiveMessage, ReceiveFails
  <2>2. call[t] \in Call
    BY <2>1, InsideHasCall
  <2>3. PICK g, o : Finish(t, g, o)
    BY <2>1
  <2>4. pc'[t] = "release" /\ call'[t].eff = call[t].eff
        /\ \A u \in Threads \ {t} : pc'[u] = pc[u] /\ call'[u] = call[u]
    BY <2>2, <2>3 DEF Finish, TypeOK, Call
  <2>. QED
    BY <1>1, <2>1, <2>4, LockKept DEF Busy, TypeOK
<1>6. ASSUME NEW t \in Threads, Connect(t) \/ SendMessage(t)
      PROVE  LockInv'
  <2>1. /\ pc[t] \in Busy /\ pc'[t] \in Busy /\ UNCHANGED <<call, m_effect_lock>>
        /\ \A u \in Threads \ {t} : pc'[u] = pc[u]
    BY <1>6 DEF Connect, SendMessage, TypeOK, Busy
  <2>. QED
    BY <1>1, <2>1, LockKept DEF TypeOK
<1>7. ASSUME NEW t \in Threads, Release(t)
      PROVE  LockInv'
  <2>1. /\ call[t].eff \in Effects /\ pc[t] = "release"
        /\ m_effect_lock' = [m_effect_lock EXCEPT ![call[t].eff] = None]
        /\ pc'[t] = "idle"
        /\ \A u \in Threads \ {t} : pc'[u] = pc[u] /\ call'[u] = call[u]
    BY <1>7, InsideHasCall DEF Release, TypeOK
  <2>2. m_effect_lock[call[t].eff] = t
    BY <2>1 DEF LockInv, Busy
  <2>3. ASSUME NEW u \in Threads, pc'[u] \in Busy
        PROVE  m_effect_lock'[call'[u].eff] = u
    <3>1. u # t /\ pc[u] \in Busy /\ call'[u] = call[u]
      BY <2>1, <2>3 DEF Busy
    <3>2. m_effect_lock[call[u].eff] = u /\ call[u].eff \in Effects
      BY <3>1, InsideHasCall DEF LockInv, Busy
    <3>. QED
      BY <2>1, <2>2, <3>1, <3>2 DEF TypeOK
  <2>4. ASSUME NEW f \in Effects, m_effect_lock'[f] # None
        PROVE  pc'[m_effect_lock'[f]] \in Busy /\ call'[m_effect_lock'[f]].eff = f
    <3>1. f # call[t].eff /\ m_effect_lock'[f] = m_effect_lock[f]
      BY <2>1, <2>4 DEF TypeOK
    <3>2. /\ m_effect_lock[f] \in Threads
          /\ pc[m_effect_lock[f]] \in Busy /\ call[m_effect_lock[f]].eff = f
      BY <2>4, <3>1 DEF LockInv, TypeOK
    <3>3. m_effect_lock[f] # t
      BY <3>1, <3>2
    <3>. QED
      BY <2>1, <3>1, <3>2, <3>3
  <2>. QED
    BY <2>3, <2>4 DEF LockInv
<1>8. CASE BrokerStep \/ PeerStep \/ PeerCrash \/ AllReturned \/ UNCHANGED vars
  BY <1>8, OthersLeaveThreads DEF LockInv
<1>. QED
  BY <1>3, <1>4, <1>5, <1>6, <1>7, <1>8 DEF Next, ThreadStep

----------------------------------------------------------------------------
(* One action in flight per effect, when receive_message never fails.      *)

\* While a thread is about to send, nothing of its effect is on the links.
LEMMA NothingBefore ==
  ASSUME MessagingInv, NEW t \in Threads, pc[t] = "send",
         NEW l \in Link, NEW i \in 1 .. Len(wire[l])
  PROVE  wire[l][i].eff # call[t].eff
<1>1. PICK u \in Threads : Awaits(u, wire[l][i])
  BY DEF MessagingInv, AwaitedInv
<1>2. SUFFICES ASSUME call[u].eff = call[t].eff PROVE FALSE
  BY <1>1 DEF Awaits
<1>3. m_effect_lock[call[t].eff] = t /\ m_effect_lock[call[u].eff] = u
  BY <1>1 DEF MessagingInv, LockInv, Busy, Awaits
<1>. QED
  BY <1>1, <1>2, <1>3 DEF Awaits

\* The message a thread takes is the answer to its own request.
LEMMA HeadIsOwn ==
  ASSUME MessagingInv, NEW t \in Threads, ReceiveMessage(t)
  PROVE  LET m == Head(wire[Down(call[t].eff)])
         IN  m \in Message /\ m.eff = call[t].eff /\ m.act = call[t].act /\ m.n = call[t].n
<1>. DEFINE e == call[t].eff
            m == Head(wire[Down(e)])
<1>1. pc[t] = "recv" /\ wire[Down(e)] # <<>> /\ e \in Effects
  BY InsideHasCall DEF ReceiveMessage, MessagingInv
<1>2. /\ Down(e) \in Link /\ 1 \in 1 .. Len(wire[Down(e)])
      /\ m = wire[Down(e)][1] /\ m \in Message
  BY <1>1, LinkFacts, Elements DEF MessagingInv, TypeOK, WireType
<1>3. m.eff = e
  BY <1>1, <1>2 DEF MessagingInv, RoutedInv
<1>4. PICK u \in Threads : Awaits(u, m)
  BY <1>2 DEF MessagingInv, AwaitedInv
<1>5. m_effect_lock[e] = t /\ m_effect_lock[e] = u
  BY <1>1, <1>3, <1>4 DEF MessagingInv, LockInv, Busy, Awaits
<1>. QED
  BY <1>2, <1>4, <1>5 DEF Awaits

LEMMA OnePerEffectStep ==
  ASSUME MessagingInv, [Next]_vars
  PROVE  OnePerEffect(wire')
<1>1. wire \in WireType /\ TypeInv /\ OnePerEffect(wire)
  BY DEF MessagingInv, TypeInv, TypeOK, WireType
<1>2. CASE WireKept
  BY <1>1, <1>2, CarriesUnique DEF WireKept
<1>3. ASSUME NEW t \in Threads, NEW m \in Message, Sent(t, m)
      PROVE  OnePerEffect(wire')
  <2>1. PICK a \in Link : wire' = [wire EXCEPT ![a] = Append(@, m)]
    BY <1>3 DEF Sent, Put
  <2>2. Appended(wire, wire', a, m)
    BY <1>1, <2>1, PutFacts
  <2>3. m.eff = call[t].eff /\ pc[t] = "send"
    BY <1>3 DEF Sent, SendMessage
  <2>4. \A l \in Link : \A i \in 1 .. Len(wire[l]) : wire[l][i].eff # m.eff
    BY <2>3, NothingBefore
  <2>5. \A l \in Link : \A i \in 1 .. Len(wire'[l]) :
          \/ i \in 1 .. Len(wire[l]) /\ wire'[l][i] = wire[l][i]
          \/ l = a /\ i = Len(wire[a]) + 1 /\ wire'[l][i] = m
    BY <1>1, <2>2, Elements DEF Appended
  <2>6. SUFFICES ASSUME NEW k \in Link, NEW l \in Link,
                        NEW i \in 1 .. Len(wire'[k]), NEW j \in 1 .. Len(wire'[l]),
                        wire'[k][i].eff = wire'[l][j].eff
                 PROVE  k = l /\ i = j
    BY DEF OnePerEffect
  <2>7. CASE i \in 1 .. Len(wire[k]) /\ wire'[k][i] = wire[k][i]
    <3>1. j \in 1 .. Len(wire[l]) /\ wire'[l][j] = wire[l][j]
      BY <2>4, <2>5, <2>6, <2>7
    <3>. QED
      BY <1>1, <2>6, <2>7, <3>1 DEF OnePerEffect
  <2>8. CASE k = a /\ i = Len(wire[a]) + 1 /\ wire'[k][i] = m
    <3>1. l = a /\ j = Len(wire[a]) + 1
      BY <2>4, <2>5, <2>6, <2>8
    <3>. QED
      BY <2>8, <3>1
  <2>. QED
    BY <2>5, <2>7, <2>8
<1>. QED
  BY <1>1, <1>2, <1>3, NextWire

\* Messages carried on keep their waiting threads.
LEMMA AwaitedKept ==
  ASSUME TypeOK, AwaitedInv, WireKept,
         \A u \in Threads : pc[u] = "recv" => pc'[u] = "recv" /\ call'[u] = call[u]
  PROVE  AwaitedInv'
<1>1. PICK src : Origin(wire, wire', src)
  BY DEF WireKept, Carries
<1>2. SUFFICES ASSUME NEW l \in Link, NEW i \in 1 .. Len(wire'[l])
               PROVE  \E u \in Threads : Awaits(u, wire[l][i])'
  BY DEF AwaitedInv
<1>3. <<l, i>> \in Place /\ OnWire(wire', <<l, i>>) /\ At(wire', <<l, i>>) = wire'[l][i]
  BY Elements DEF WireKept, Place, OnWire, At
<1>4. PICK p \in Place : /\ OnWire(wire, p)
                         /\ wire'[l][i].eff = At(wire, p).eff
                         /\ wire'[l][i].act = At(wire, p).act
                         /\ wire'[l][i].n = At(wire, p).n
  BY <1>1, <1>3 DEF Origin
<1>5. PICK u \in Threads : Awaits(u, At(wire, p))
  BY <1>4 DEF AwaitedInv, Place, OnWire, At
<1>6. Awaits(u, wire[l][i])'
  BY <1>4, <1>5 DEF Awaits
<1>. QED
  BY <1>6

LEMMA AwaitedStep ==
  ASSUME RecvMayFail = FALSE, MessagingInv, [Next]_vars
  PROVE  AwaitedInv'
<1>1. TypeInv /\ TypeOK /\ AwaitedInv /\ wire \in WireType
  BY DEF MessagingInv, TypeInv, TypeOK, WireType
<1>2. ASSUME NEW t \in Threads, ReceiveMessage(t)
      PROVE  AwaitedInv'
  <2>. DEFINE e == call[t].eff
  <2>1. /\ pc[t] = "recv" /\ e \in Effects /\ Down(e) \in Link /\ wire[Down(e)] # <<>>
        /\ \A u \in Threads \ {t} : pc'[u] = pc[u] /\ call'[u] = call[u]
    BY <1>1, <1>2, InsideHasCall, LinkFacts DEF ReceiveMessage, Finish, TypeOK
  <2>2. SUFFICES ASSUME NEW l \in Link, NEW i \in 1 .. Len(wire'[l])
                 PROVE  \E u \in Threads : Awaits(u, wire[l][i])'
    BY DEF AwaitedInv
  <2>3. PICK j \in 1 .. Len(wire[l]) : wire'[l][i] = wire[l][j] /\ ~(l = Down(e) /\ j = 1)
    <3>1. CASE wire' = Clear(Down(e))
      <4>1. l # Down(e)
        BY <1>1, <2>1, <3>1, EmptySeq DEF Clear, WireType
      <4>. QED
        BY <1>1, <3>1, <4>1 DEF Clear, WireType
    <3>2. CASE wire' = Drop(Down(e))
      <4>1. Dropped(wire, wire', Down(e))
        BY <1>1, <2>1, <3>2, DropFacts DEF Drop
      <4>2. CASE l # Down(e)
        BY <4>1, <4>2 DEF Dropped
      <4>3. CASE l = Down(e)
        <5>1. i + 1 \in 1 .. Len(wire[l]) /\ i + 1 # 1
          BY <1>1, <2>1, <4>1, <4>3, Elements DEF Dropped
        <5>. QED
          BY <4>1, <4>3, <5>1 DEF Dropped
      <4>. QED
        BY <4>2, <4>3
    <3>. QED
      BY <1>2, <3>1, <3>2 DEF ReceiveMessage
  <2>4. PICK u \in Threads : Awaits(u, wire[l][j])
    BY <1>1 DEF AwaitedInv
  <2>5. u # t
    <3>1. SUFFICES ASSUME wire[l][j].eff = e PROVE FALSE
      BY <2>4 DEF Awaits
    <3>2. 1 \in 1 .. Len(wire[Down(e)]) /\ wire[Down(e)][1].eff = e
      BY <1>1, <2>1, Elements DEF MessagingInv, RoutedInv
    <3>3. l = Down(e) /\ j = 1
      BY <2>1, <3>1, <3>2 DEF MessagingInv, OnePerEffect
    <3>. QED
      BY <2>3, <3>3
  <2>6. Awaits(u, wire[l][i])'
    BY <2>1, <2>3, <2>4, <2>5 DEF Awaits
  <2>. QED
    BY <2>6
<1>3. ASSUME NEW t \in Threads, NEW m \in Message, Sent(t, m)
      PROVE  AwaitedInv'
  <2>1. PICK a \in Link : wire' = [wire EXCEPT ![a] = Append(@, m)]
    BY <1>3 DEF Sent, Put
  <2>2. Appended(wire, wire', a, m)
    BY <1>1, <2>1, PutFacts
  <2>3. /\ m.eff = call[t].eff /\ m.act = call[t].act /\ m.n = call[t].n
        /\ pc[t] = "send" /\ pc'[t] = "recv" /\ call' = call
        /\ \A u \in Threads \ {t} : pc'[u] = pc[u]
    BY <1>1, <1>3 DEF Sent, SendMessage, TypeOK
  <2>4. SUFFICES ASSUME NEW l \in Link, NEW i \in 1 .. Len(wire'[l])
                 PROVE  \E u \in Threads : Awaits(u, wire[l][i])'
    BY DEF AwaitedInv
  <2>5. CASE i \in 1 .. Len(wire[l]) /\ wire'[l][i] = wire[l][i]
    <3>1. PICK u \in Threads : Awaits(u, wire[l][i])
      BY <1>1, <2>5 DEF AwaitedInv
    <3>2. Awaits(u, wire[l][i])'
      BY <2>3, <2>5, <3>1 DEF Awaits
    <3>. QED
      BY <3>2
  <2>6. CASE wire'[l][i] = m
    BY <2>3, <2>6 DEF Awaits
  <2>. QED
    BY <1>1, <2>2, <2>5, <2>6, Elements DEF Appended
<1>4. CASE /\ ~ \E t \in Threads : ReceiveMessage(t)
           /\ ~ \E t \in Threads, m \in Message : Sent(t, m)
  <2>1. WireKept
    BY <1>1, <1>4, NextWire
  <2>2. \A u \in Threads : pc[u] = "recv" => pc'[u] = "recv" /\ call'[u] = call[u]
    <3>1. CASE BrokerStep \/ PeerStep \/ PeerCrash \/ AllReturned \/ UNCHANGED vars
      BY <3>1, OthersLeaveThreads
    <3>2. ASSUME NEW t \in Threads, NEW e \in Effects, NEW a \in Requests \cup LocalOnly,
                 MainEntry(t, e, a)
          PROVE  \A u \in Threads : pc[u] = "recv" => pc'[u] = "recv" /\ call'[u] = call[u]
      BY <1>1, <3>2 DEF MainEntry, TypeOK
    <3>3. ASSUME NEW t \in Threads, Acquire(t) \/ Connect(t) \/ SendMessage(t)
          PROVE  \A u \in Threads : pc[u] = "recv" => pc'[u] = "recv" /\ call'[u] = call[u]
      BY <1>1, <3>3 DEF Acquire, Connect, SendMessage, TypeOK
    <3>4. ASSUME NEW t \in Threads, RunLocally(t) \/ SendFails(t) \/ Release(t)
          PROVE  \A u \in Threads : pc[u] = "recv" => pc'[u] = "recv" /\ call'[u] = call[u]
      BY <1>1, <3>4 DEF RunLocally, SendFails, Release, Finish, TypeOK
    <3>5. ASSUME NEW t \in Threads, ReceiveFails(t)
          PROVE  FALSE
      BY <3>5 DEF ReceiveFails
    <3>. QED
      BY <1>4, <3>1, <3>2, <3>3, <3>4, <3>5 DEF Next, ThreadStep
  <2>. QED
    BY <1>1, <2>1, <2>2, AwaitedKept
<1>. QED
  BY <1>2, <1>3, <1>4

\* A SUB socket whose messages stay or go keeps only its own effect's.
LEMMA RoutedKept ==
  ASSUME TypeOK, RoutedInv,
         \A e \in Effects : \A i \in 1 .. Len(wire'[Down(e)]) :
           \/ \E j \in 1 .. Len(wire[Down(e)]) : wire'[Down(e)][i] = wire[Down(e)][j]
           \/ wire'[Down(e)][i].eff = e
  PROVE  RoutedInv'
  BY DEF RoutedInv

\* Moving a message touches no SUB socket but the one it moves to.
LEMMA RoutedForward ==
  ASSUME TypeOK, RoutedInv, NEW a \in Link, NEW b \in Link, a # b, wire[a] # <<>>,
         wire' = Forward(a, b), \A e \in Effects : a # Down(e),
         \A e \in Effects : b = Down(e) => Head(wire[a]).eff = e
  PROVE  RoutedInv'
<1>1. wire \in WireType /\ Head(wire[a]) \in Message
  BY Elements DEF TypeOK, WireType
<1>2. Moved(wire, wire', a, b, Head(wire[a]))
  BY <1>1, MoveFacts DEF Forward
<1>3. ASSUME NEW e \in Effects, NEW i \in 1 .. Len(wire'[Down(e)])
      PROVE  \/ \E j \in 1 .. Len(wire[Down(e)]) : wire'[Down(e)][i] = wire[Down(e)][j]
             \/ wire'[Down(e)][i].eff = e
  <2>1. Down(e) \in Link /\ Down(e) # a
    BY LinkFacts
  <2>2. CASE Down(e) # b
    BY <1>2, <2>1, <2>2 DEF Moved
  <2>3. CASE Down(e) = b
    <3>1. CASE i \in 1 .. Len(wire[b])
      BY <1>2, <2>3, <3>1 DEF Moved
    <3>2. CASE i = Len(wire[b]) + 1
      BY <1>2, <2>3, <3>2 DEF Moved
    <3>. QED
      BY <1>1, <1>2, <2>3, <3>1, <3>2, Elements DEF Moved
  <2>. QED
    BY <2>2, <2>3
<1>. QED
  BY <1>3, RoutedKept

LEMMA RoutedDrop ==
  ASSUME TypeOK, RoutedInv, NEW a \in Link, wire[a] # <<>>, wire' = Drop(a)
  PROVE  RoutedInv'
<1>1. wire \in WireType
  BY DEF TypeOK, WireType
<1>2. Dropped(wire, wire', a)
  BY <1>1, DropFacts DEF Drop
<1>3. ASSUME NEW e \in Effects, NEW i \in 1 .. Len(wire'[Down(e)])
      PROVE  \E j \in 1 .. Len(wire[Down(e)]) : wire'[Down(e)][i] = wire[Down(e)][j]
  <2>1. Down(e) \in Link
    BY LinkFacts
  <2>2. CASE Down(e) # a
    BY <1>2, <2>1, <2>2 DEF Dropped
  <2>3. CASE Down(e) = a
    <3>1. i + 1 \in 1 .. Len(wire[Down(e)])
      BY <1>1, <1>2, <2>1, <2>3, Elements DEF Dropped
    <3>. QED
      BY <1>2, <2>3, <3>1 DEF Dropped
  <2>. QED
    BY <2>2, <2>3
<1>. QED
  BY <1>3, RoutedKept

\* Links other than the SUB sockets' do not matter, nor does emptying one.
LEMMA RoutedOther ==
  ASSUME TypeOK, RoutedInv,
         \A e \in Effects : wire'[Down(e)] = wire[Down(e)] \/ wire'[Down(e)] = <<>>
  PROVE  RoutedInv'
<1>1. ASSUME NEW e \in Effects, NEW i \in 1 .. Len(wire'[Down(e)])
      PROVE  \E j \in 1 .. Len(wire[Down(e)]) : wire'[Down(e)][i] = wire[Down(e)][j]
  <2>1. CASE wire'[Down(e)] = wire[Down(e)]
    BY <2>1
  <2>2. CASE wire'[Down(e)] = <<>>
    <3>1. Len(wire'[Down(e)]) = 0
      BY <2>2, EmptySeq
    <3>. QED
      BY <3>1
  <2>. QED
    BY <1>1, <2>1, <2>2
<1>. QED
  BY <1>1, RoutedKept

LEMMA RoutedStep ==
  ASSUME TypeInv, RoutedInv, [Next]_vars
  PROVE  RoutedInv'
<1>1. TypeOK /\ wire \in WireType
  BY DEF TypeInv, TypeOK, WireType
<1>2. CASE UNCHANGED wire
  BY <1>1, <1>2, RoutedOther
<1>3. ASSUME NEW t \in Threads, Connect(t) \/ ReceiveMessage(t)
      PROVE  RoutedInv'
  <2>. DEFINE e == call[t].eff
  <2>1. e \in Effects /\ Down(e) \in Link
    BY <1>1, <1>3, InsideHasCall, LinkFacts DEF Connect, ReceiveMessage
  <2>2. \/ wire' = Clear(Down(e))
        \/ wire[Down(e)] # <<>> /\ wire' = Drop(Down(e))
    BY <1>3 DEF Connect, ReceiveMessage
  <2>3. CASE wire' = Clear(Down(e))
    <3>1. \A f \in Effects : wire'[Down(f)] = wire[Down(f)] \/ wire'[Down(f)] = <<>>
      BY <1>1, <2>3, LinkFacts DEF Clear, WireType
    <3>. QED
      BY <1>1, <3>1, RoutedOther
  <2>. QED
    BY <1>1, <2>1, <2>2, <2>3, RoutedDrop
<1>4. ASSUME NEW t \in Threads, NEW m \in Message, Sent(t, m)
      PROVE  RoutedInv'
  <2>1. PICK l \in Link : wire' = [wire EXCEPT ![l] = Append(@, m)] /\ \A e \in Effects : l # Down(e)
    BY <1>4 DEF Sent, Put
  <2>2. \A e \in Effects : wire'[Down(e)] = wire[Down(e)]
    BY <1>1, <2>1, LinkFacts DEF WireType
  <2>. QED
    BY <1>1, <2>2, RoutedOther
<1>5. ASSUME NEW e \in Effects, NEW s \in Serial, BrokerFromSub(e, s)
      PROVE  RoutedInv'
  BY <1>1, <1>5, LinkFacts, RoutedForward DEF BrokerFromSub
<1>6. ASSUME BrokerToPair
      PROVE  RoutedInv'
  BY <1>1, <1>6, LinkFacts, RoutedForward DEF BrokerToPair, BrokerIdle
<1>7. ASSUME BrokerFromPair
      PROVE  RoutedInv'
  <2>. DEFINE m == Head(wire[ToPlugin])
  <2>1. /\ m.eff \in Effects /\ wire[ToPlugin] # <<>>
        /\ wire' = Forward(ToPlugin, Down(m.eff)) \/ wire' = Drop(ToPlugin)
    BY <1>1, <1>7, BrokerFromPairDelivers DEF BrokerFromPair, Message
  <2>2. /\ ToPlugin \in Link /\ Down(m.eff) \in Link /\ Down(m.eff) # ToPlugin
        /\ \A e \in Effects : ToPlugin # Down(e) /\ (Down(m.eff) = Down(e) => m.eff = e)
    BY <2>1, LinkFacts
  <2>. QED
    BY <1>1, <2>1, <2>2, RoutedForward, RoutedDrop
<1>8. ASSUME PeerReceive
      PROVE  RoutedInv'
  <2>. DEFINE m == Head(wire[ToHost])
  <2>1. ToHost \in Link /\ wire[ToHost] # <<>>
    BY <1>8, LinkFacts DEF PeerReceive
  <2>2. m.eff \in Effects
    BY <1>1, <2>1, Elements DEF Message
  <2>3. /\ Peer(m.eff) \in Link /\ Peer(m.eff) # ToHost
        /\ \A e \in Effects : ToHost # Down(e) /\ Peer(m.eff) # Down(e)
    BY <2>2, LinkFacts
  <2>4. wire' = Forward(ToHost, Peer(m.eff)) \/ wire' = Drop(ToHost)
    BY <1>8 DEF PeerReceive
  <2>. QED
    BY <1>1, <2>1, <2>3, <2>4, RoutedForward, RoutedDrop
<1>9. ASSUME NEW e \in Effects, NEW s \in Statuses, PeerReply(e, s)
      PROVE  RoutedInv'
  <2>1. \A f \in Effects : wire'[Down(f)] = wire[Down(f)]
    BY <1>1, <1>9, LinkFacts DEF PeerReply, WireType
  <2>. QED
    BY <1>1, <2>1, RoutedOther
<1>10. ASSUME PeerCrash
       PROVE  RoutedInv'
  <2>1. \A f \in Effects : wire'[Down(f)] = wire[Down(f)]
    BY <1>1, <1>10, LinkFacts DEF PeerCrash, WireType
  <2>. QED
    BY <1>1, <2>1, RoutedOther
<1>11. ASSUME NEW t \in Threads, SendMessage(t)
       PROVE  RoutedInv'
  <2>1. CASE UNCHANGED wire
    BY <1>2, <2>1
  <2>2. CASE wire' # wire
    <3>1. pc[t] = "send" /\ call[t].eff \in Effects
      BY <1>1, <1>11, InsideHasCall DEF SendMessage
    <3>2. sock[call[t].eff] \in Serial
      BY <1>1, <1>11, <3>1, ConstantsAssumption DEF SendMessage, TypeOK, Serial
    <3>3. \A f \in Effects : wire'[Down(f)] = wire[Down(f)]
      BY <1>1, <1>11, <2>2, <3>1, <3>2, LinkFacts DEF SendMessage, Put, WireType
    <3>. QED
      BY <1>1, <3>3, RoutedOther
  <2>. QED
    BY <2>1, <2>2
<1>12. ASSUME \/ \E t \in Threads : \/ Acquire(t) \/ RunLocally(t) \/ SendFails(t)
                                   \/ ReceiveFails(t) \/ Release(t)
              \/ \E t \in Threads, e \in Effects, a \in Requests \cup LocalOnly : MainEntry(t, e, a)
              \/ \E e \in Effects, d \in {"up", "down"} : Join(e, d)
              \/ AllReturned \/ UNCHANGED vars
       PROVE  UNCHANGED wire
  BY <1>12 DEF Acquire, RunLocally, SendFails, ReceiveFails, Release, MainEntry, Join,
               AllReturned, vars
<1>. QED
  BY <1>2, <1>3, <1>5, <1>6, <1>7, <1>8, <1>9, <1>10, <1>11, <1>12
     DEF Next, ThreadStep, BrokerStep, PeerStep

LEMMA RepliesStep ==
  ASSUME MessagingInv, [Next]_vars
  PROVE  RepliesMatch'
<1>1. TypeOK /\ RepliesMatch
  BY DEF MessagingInv
<1>2. ASSUME NEW t \in Threads, NEW g, NEW o, pc[t] # "idle", Finish(t, g, o),
             g \in {0, call[t].n}, o # "Exception"
      PROVE  RepliesMatch'
  <2>1. call[t] \in Call
    BY <1>1, <1>2, InsideHasCall
  <2>2. /\ call'[t].n = call[t].n /\ call'[t].got = g /\ call'[t].outcome = o
        /\ \A u \in Threads \ {t} : call'[u] = call[u]
    BY <1>1, <1>2, <2>1 DEF Finish, TypeOK, Call
  <2>. QED
    BY <1>1, <1>2, <2>2 DEF RepliesMatch
<1>3. ASSUME NEW t \in Threads, RunLocally(t) \/ SendFails(t) \/ ReceiveFails(t)
      PROVE  RepliesMatch'
  <2>1. PICK o \in Statuses : pc[t] # "idle" /\ Finish(t, 0, o)
    BY <1>3 DEF RunLocally, SendFails, ReceiveFails, Statuses
  <2>2. o # "Exception"
    BY DEF Statuses
  <2>. QED
    BY <1>2, <2>1, <2>2
<1>4. ASSUME NEW t \in Threads, ReceiveMessage(t)
      PROVE  RepliesMatch'
  <2>. DEFINE m == Head(wire[Down(call[t].eff)])
  <2>1. PICK o \in Results(call[t], m) : pc[t] # "idle" /\ Finish(t, m.n, o)
    BY <1>4 DEF ReceiveMessage
  <2>2. m \in Message /\ m.act = call[t].act /\ m.n = call[t].n
    BY <1>4, HeadIsOwn
  <2>3. o # "Exception"
    BY <2>2 DEF Results, Message, Statuses
  <2>. QED
    BY <1>2, <2>1, <2>2, <2>3
<1>5. ASSUME NEW t \in Threads, NEW e \in Effects, NEW a \in Requests \cup LocalOnly,
             MainEntry(t, e, a)
      PROVE  RepliesMatch'
  BY <1>1, <1>5 DEF MainEntry, RepliesMatch, TypeOK
<1>6. ASSUME NEW t \in Threads, Acquire(t) \/ Connect(t) \/ SendMessage(t)
      PROVE  RepliesMatch'
  BY <1>1, <1>6 DEF Acquire, Connect, SendMessage, RepliesMatch
<1>7. ASSUME NEW t \in Threads, Release(t)
      PROVE  RepliesMatch'
  BY <1>1, <1>7 DEF Release, RepliesMatch, TypeOK
<1>8. CASE BrokerStep \/ PeerStep \/ PeerCrash \/ AllReturned \/ UNCHANGED vars
  BY <1>1, <1>8, OthersLeaveThreads DEF RepliesMatch
<1>. QED
  BY <1>3, <1>4, <1>5, <1>6, <1>7, <1>8 DEF Next, ThreadStep

LEMMA MessagingInit == Init => MessagingInv
<1>. SUFFICES ASSUME Init PROVE MessagingInv
  OBVIOUS
<1>1. TypeOK /\ RequestInv
  BY TypeInit DEF TypeInv
<1>2. \A l \in Link : Len(wire[l]) = 0
  BY EmptySeq DEF Init
<1>3. AwaitedInv /\ OnePerEffect(wire)
  BY <1>2 DEF AwaitedInv, OnePerEffect
<1>4. RoutedInv
  BY <1>2, LinkFacts DEF RoutedInv
<1>5. LockInv /\ RepliesMatch
  BY DEF Init, LockInv, RepliesMatch, Busy
<1>. QED
  BY <1>1, <1>3, <1>4, <1>5 DEF MessagingInv

LEMMA MessagingStep ==
  ASSUME RecvMayFail = FALSE, MessagingInv, [Next]_vars
  PROVE  MessagingInv'
<1>1. TypeInv /\ LockInv /\ RoutedInv
  BY DEF MessagingInv, TypeInv
<1>2. TypeOK' /\ RequestInv'
  BY <1>1, TypeStep DEF TypeInv
<1>3. LockInv' /\ RoutedInv'
  BY <1>1, LockStep, RoutedStep
<1>4. AwaitedInv' /\ OnePerEffect(wire') /\ RepliesMatch'
  BY AwaitedStep, OnePerEffectStep, RepliesStep
<1>. QED
  BY <1>2, <1>3, <1>4 DEF MessagingInv, OnePerEffect

LEMMA MessagingInvariant ==
  ASSUME RecvMayFail = FALSE
  PROVE  Spec => []MessagingInv
<1>1. MessagingInv /\ [Next]_vars => MessagingInv'
  BY MessagingStep
<1>. QED
  BY MessagingInit, <1>1, PTL DEF Spec

\* "There can be only one action in flight at any given time", per effect, as
\* long as receive_message does not fail: whatever the remote side drops,
\* whenever it dies, and however late the subscriptions arrive.
THEOREM OneActionInFlightHolds ==
  ASSUME RecvMayFail = FALSE
  PROVE  Spec => []OneActionInFlight
<1>1. MessagingInv => OneActionInFlight
  <2>. SUFFICES ASSUME MessagingInv, NEW e \in Effects,
                       NEW p \in InFlight(e), NEW q \in InFlight(e)
                PROVE  p = q
    BY DEF OneActionInFlight
  <2>1. \A r \in InFlight(e) : r \in Place /\ OnWire(wire, r) /\ At(wire, r).eff = e
    BY DEF InFlight, Place, OnWire, At
  <2>. QED
    BY <2>1, OnePerEffectAt DEF MessagingInv
<1>. QED
  BY <1>1, MessagingInvariant, PTL

\* Under the same assumption the reply a call takes is the reply to its own
\* request, although nothing in a message is compared with the request, and
\* message_as never throws out of MainEntry.
THEOREM RepliesMatchHolds ==
  ASSUME RecvMayFail = FALSE
  PROVE  Spec => []RepliesMatch
<1>1. MessagingInv => RepliesMatch
  BY DEF MessagingInv
<1>. QED
  BY <1>1, MessagingInvariant, PTL

----------------------------------------------------------------------------
(* No message twice, even where receive_message fails.                     *)

\* Some message on the links w bears serial n.
Bears(w, n) == \E l \in Link : \E i \in 1 .. Len(w[l]) : w[l][i].n = n

Unsent == {"lock", "local", "connect", "send"}

\* The part of SerialInv about the threads, with the links' serials as a
\* predicate.
SerialsIn ==
  /\ \A n : Bears(wire, n) => n \in Serial /\ n <= calls
  /\ \A u \in Threads : pc[u] \in Unsent => ~ Bears(wire, call[u].n)
  /\ \A t \in Threads : call[t] # None => ~ Bears(wire, call[t].got)

CallSerials ==
  /\ \A t \in Threads : call[t] # None => call[t].n <= calls /\ call[t].got <= calls
  /\ \A t, u \in Threads : t # u /\ call[t] # None /\ call[u] # None => call[t].n # call[u].n
  /\ \A t, u \in Threads : call[t] # None /\ pc[u] \in Unsent => call[t].got # call[u].n

LEMMA SerialInvParts ==
  SerialInv <=> TypeInv /\ OnePerSerial(wire) /\ CallSerials /\ SerialsIn
<1>1. ASSUME SerialInv
      PROVE  TypeInv /\ OnePerSerial(wire) /\ CallSerials /\ SerialsIn
  <2>1. TypeInv /\ OnePerSerial(wire) /\ CallSerials /\ wire \in WireType
    BY <1>1 DEF SerialInv, CallSerials, TypeInv, TypeOK, WireType, Unsent
  <2>2. ASSUME NEW n, Bears(wire, n)
        PROVE  n \in Serial /\ n <= calls
    <3>1. PICK l \in Link : \E i \in 1 .. Len(wire[l]) : wire[l][i].n = n
      BY <2>2 DEF Bears
    <3>. PICK i \in 1 .. Len(wire[l]) : wire[l][i].n = n
      BY <3>1
    <3>2. wire[l][i] \in Message
      BY <2>1, Elements
    <3>. QED
      BY <1>1, <3>1, <3>2 DEF SerialInv, Message
  <2>3. \A u \in Threads : pc[u] \in Unsent => ~ Bears(wire, call[u].n)
    BY <1>1 DEF SerialInv, Bears, Unsent
  <2>4. \A t \in Threads : call[t] # None => ~ Bears(wire, call[t].got)
    BY <1>1 DEF SerialInv, Bears
  <2>. QED
    BY <2>1, <2>2, <2>3, <2>4 DEF SerialsIn
<1>2. ASSUME TypeInv, OnePerSerial(wire), CallSerials, SerialsIn
      PROVE  SerialInv
  <2>1. \A l \in Link : \A i \in 1 .. Len(wire[l]) : Bears(wire, wire[l][i].n)
    BY DEF Bears
  <2>. QED
    BY <1>2, <2>1 DEF SerialInv, CallSerials, SerialsIn, Unsent, TypeInv
<1>. QED
  BY <1>1, <1>2

\* Carried messages bear serials that were there; a request adds its own.
LEMMA BearsKept ==
  ASSUME TypeOK, WireKept, NEW n, Bears(wire', n)
  PROVE  Bears(wire, n)
<1>1. PICK src : Origin(wire, wire', src)
  BY DEF WireKept, Carries
<1>2. PICK l \in Link : \E i \in 1 .. Len(wire'[l]) : wire'[l][i].n = n
  BY DEF Bears
<1>. PICK i \in 1 .. Len(wire'[l]) : wire'[l][i].n = n
  BY <1>2
<1>3. <<l, i>> \in Place /\ OnWire(wire', <<l, i>>) /\ At(wire', <<l, i>>) = wire'[l][i]
  BY Elements DEF WireKept, Place, OnWire, At
<1>4. PICK p \in Place : OnWire(wire, p) /\ At(wire, p).n = n
  BY <1>1, <1>2, <1>3 DEF Origin
<1>. QED
  BY <1>4 DEF Bears, OnWire, At, Place

LEMMA BearsSent ==
  ASSUME TypeOK, NEW t \in Threads, NEW m \in Message, Sent(t, m), NEW n, Bears(wire', n)
  PROVE  Bears(wire, n) \/ n = call[t].n
<1>1. PICK a \in Link : wire' = [wire EXCEPT ![a] = Append(@, m)]
  BY DEF Sent, Put
<1>2. wire \in WireType
  BY DEF TypeOK, WireType
<1>3. Appended(wire, wire', a, m)
  BY <1>1, <1>2, PutFacts
<1>4. PICK l \in Link : \E i \in 1 .. Len(wire'[l]) : wire'[l][i].n = n
  BY DEF Bears
<1>. PICK i \in 1 .. Len(wire'[l]) : wire'[l][i].n = n
  BY <1>4
<1>5. \A k \in Link : \A j \in 1 .. Len(wire'[k]) :
        \/ j \in 1 .. Len(wire[k]) /\ wire'[k][j] = wire[k][j]
        \/ k = a /\ j = Len(wire[a]) + 1 /\ wire'[k][j] = m
  BY <1>2, <1>3, Elements DEF Appended
<1>6. m.n = call[t].n
  BY DEF Sent
<1>. QED
  BY <1>4, <1>5, <1>6 DEF Bears

\* The serial of the message a thread takes is gone with it.
LEMMA BearsTaken ==
  ASSUME TypeOK, OnePerSerial(wire), NEW t \in Threads, ReceiveMessage(t)
  PROVE  LET m == Head(wire[Down(call[t].eff)])
         IN  m \in Message /\ Bears(wire, m.n) /\ ~ Bears(wire', m.n)
<1>. DEFINE a == Down(call[t].eff)
            m == Head(wire[a])
<1>1. pc[t] = "recv" /\ wire[a] # <<>> /\ a \in Link /\ wire \in WireType
  BY InsideHasCall, LinkFacts DEF ReceiveMessage, TypeOK, WireType
<1>2. m \in Message /\ m = wire[a][1] /\ 1 \in 1 .. Len(wire[a])
  BY <1>1, Elements
<1>3. Bears(wire, m.n)
  BY <1>1, <1>2 DEF Bears
<1>4. wire' = Clear(a) \/ wire' = Drop(a)
  BY DEF ReceiveMessage
<1>5. ASSUME NEW l \in Link, NEW i \in 1 .. Len(wire'[l]), wire'[l][i].n = m.n
      PROVE  FALSE
  <2>1. CASE wire' = Clear(a)
    <3>1. wire'[l] = IF l = a THEN <<>> ELSE wire[l]
      BY <1>1, <2>1 DEF Clear, WireType
    <3>2. l # a /\ wire'[l] = wire[l]
      BY <1>5, <3>1, EmptySeq
    <3>. QED
      BY <1>1, <1>2, <1>5, <3>2 DEF OnePerSerial
  <2>2. CASE wire' = Drop(a)
    <3>1. Dropped(wire, wire', a)
      BY <1>1, <2>2, DropFacts DEF Drop
    <3>2. CASE l # a
      <4>1. wire'[l] = wire[l]
        BY <3>1, <3>2 DEF Dropped
      <4>. QED
        BY <1>1, <1>2, <1>5, <3>2, <4>1 DEF OnePerSerial
    <3>3. CASE l = a
      <4>1. i + 1 \in 1 .. Len(wire[a]) /\ wire'[a][i] = wire[a][i + 1] /\ i + 1 # 1
        BY <1>1, <3>1, <3>3, Elements DEF Dropped
      <4>. QED
        BY <1>1, <1>2, <1>5, <3>3, <4>1 DEF OnePerSerial
    <3>. QED
      BY <3>2, <3>3
  <2>. QED
    BY <1>4, <2>1, <2>2
<1>. QED
  BY <1>2, <1>3, <1>5 DEF Bears

LEMMA OnePerSerialStep ==
  ASSUME SerialInv, [Next]_vars
  PROVE  OnePerSerial(wire')
<1>1. TypeInv /\ wire \in WireType /\ OnePerSerial(wire) /\ SerialsIn
  BY SerialInvParts DEF TypeInv, TypeOK, WireType
<1>2. CASE WireKept
  BY <1>1, <1>2, CarriesUnique DEF WireKept
<1>3. ASSUME NEW t \in Threads, NEW m \in Message, Sent(t, m)
      PROVE  OnePerSerial(wire')
  <2>1. PICK a \in Link : wire' = [wire EXCEPT ![a] = Append(@, m)]
    BY <1>3 DEF Sent, Put
  <2>2. Appended(wire, wire', a, m)
    BY <1>1, <2>1, PutFacts
  <2>3. ~ Bears(wire, m.n)
    BY <1>1, <1>3 DEF Sent, SendMessage, SerialsIn, Unsent
  <2>4. \A l \in Link : \A i \in 1 .. Len(wire[l]) : wire[l][i].n # m.n
    BY <2>3 DEF Bears
  <2>5. \A l \in Link : \A i \in 1 .. Len(wire'[l]) :
          \/ i \in 1 .. Len(wire[l]) /\ wire'[l][i] = wire[l][i]
          \/ l = a /\ i = Len(wire[a]) + 1 /\ wire'[l][i] = m
    BY <1>1, <2>2, Elements DEF Appended
  <2>6. SUFFICES ASSUME NEW k \in Link, NEW l \in Link,
                        NEW i \in 1 .. Len(wire'[k]), NEW j \in 1 .. Len(wire'[l]),
                        wire'[k][i].n = wire'[l][j].n
                 PROVE  k = l /\ i = j
    BY DEF OnePerSerial
  <2>7. CASE i \in 1 .. Len(wire[k]) /\ wire'[k][i] = wire[k][i]
    <3>1. j \in 1 .. Len(wire[l]) /\ wire'[l][j] = wire[l][j]
      BY <2>4, <2>5, <2>6, <2>7
    <3>. QED
      BY <1>1, <2>6, <2>7, <3>1 DEF OnePerSerial
  <2>8. CASE k = a /\ i = Len(wire[a]) + 1 /\ wire'[k][i] = m
    <3>1. l = a /\ j = Len(wire[a]) + 1
      BY <2>4, <2>5, <2>6, <2>8
    <3>. QED
      BY <2>8, <3>1
  <2>. QED
    BY <2>5, <2>7, <2>8
<1>. QED
  BY <1>1, <1>2, <1>3, NextWire

\* A thread leaves the body of MainEntry with the serial g of a reply it took,
\* or with 0.
LEMMA SerialFinish ==
  ASSUME SerialInv, WireKept, UNCHANGED calls, NEW t \in Threads, pc[t] # "idle",
         NEW g, NEW o, Finish(t, g, o),
         g # 0 => g \in Serial /\ Bears(wire, g) /\ ~ Bears(wire', g)
  PROVE  CallSerials' /\ SerialsIn'
<1>1. TypeOK /\ TypeInv /\ CallSerials /\ SerialsIn
  BY SerialInvParts DEF TypeInv
<1>2. call[t] \in Call /\ call[t] # None /\ None \notin Call
  BY <1>1, InsideHasCall, ConstantsAssumption
<1>3. /\ pc'[t] = "release" /\ call'[t].n = call[t].n /\ call'[t].got = g
      /\ \A u \in Threads \ {t} : pc'[u] = pc[u] /\ call'[u] = call[u]
  BY <1>1, <1>2 DEF Finish, TypeOK, Call
<1>4. /\ g <= calls /\ (g = 0 \/ g \in Serial)
      /\ \A u \in Threads : pc[u] \in Unsent => g # call[u].n
  <2>1. CASE g = 0
    <3>1. \A u \in Threads : pc[u] \in Unsent => call[u].n \in Serial
      BY <1>1, InsideHasCall DEF Unsent
    <3>. QED
      BY <1>1, <2>1, <3>1 DEF Serial, TypeOK
  <2>2. CASE Bears(wire, g)
    BY <1>1, <2>2 DEF SerialsIn
  <2>. QED
    BY <2>1, <2>2
<1>5. CallSerials'
  BY <1>1, <1>2, <1>3, <1>4 DEF CallSerials, Unsent
<1>6. \A n : Bears(wire', n) => Bears(wire, n)
  BY <1>1, BearsKept
<1>7. ~ Bears(wire', g)
  BY <1>1, <1>6 DEF SerialsIn, Serial
<1>. QED
  BY <1>1, <1>2, <1>3, <1>5, <1>6, <1>7 DEF SerialsIn, Unsent

LEMMA SerialStep ==
  ASSUME SerialInv, [Next]_vars
  PROVE  SerialInv'
<1>1. TypeOK /\ TypeInv /\ CallSerials /\ SerialsIn /\ OnePerSerial(wire)
  BY SerialInvParts DEF TypeInv
<1>2. TypeInv' /\ OnePerSerial(wire')
  BY <1>1, TypeStep, OnePerSerialStep
<1>3. \A n : WireKept /\ Bears(wire', n) => Bears(wire, n)
  BY <1>1, BearsKept
<1>4. ASSUME NEW t \in Threads, NEW e \in Effects, NEW a \in Requests \cup LocalOnly,
             MainEntry(t, e, a)
      PROVE  CallSerials' /\ SerialsIn'
  <2>. DEFINE n == calls + 1
  <2>1. /\ pc'[t] = "lock" /\ call'[t].n = n /\ call'[t].got = 0 /\ call'[t] # None
        /\ \A u \in Threads \ {t} : pc'[u] = pc[u] /\ call'[u] = call[u]
        /\ calls' = n /\ wire' = wire /\ call[t] = None
    BY <1>1, <1>2, <1>4 DEF MainEntry, TypeInv, TypeOK
  <2>2. calls \in Nat /\ n \in Serial /\ 0 \notin Serial
    BY <1>1, <1>4, ConstantsAssumption DEF MainEntry, TypeOK, Serial
  <2>3. \A u \in Threads : call[u] # None => call[u].n \in Serial /\ call[u].got \in Nat
    BY <1>1 DEF TypeOK, Call, Serial
  <2>4. ~ Bears(wire, n) /\ ~ Bears(wire, 0)
    BY <1>1, <2>2 DEF SerialsIn
  <2>5. CallSerials'
    <3>1. \A u \in Threads : call'[u] # None => call'[u].n <= calls' /\ call'[u].got <= calls'
      BY <1>1, <2>1, <2>2, <2>3 DEF CallSerials, Serial
    <3>2. \A u \in Threads \ {t} : call[u] # None => call[u].n # n /\ call[u].got # n
      BY <1>1, <2>2, <2>3 DEF CallSerials, Serial
    <3>3. \A u, v \in Threads : u # v /\ call'[u] # None /\ call'[v] # None => call'[u].n # call'[v].n
      BY <1>1, <2>1, <3>2 DEF CallSerials
    <3>4. \A u \in Threads \ {t} : pc[u] \in Unsent => call[u] # None
      BY <1>1 DEF TypeOK, Unsent
    <3>5. \A u, v \in Threads : call'[u] # None /\ pc'[v] \in Unsent => call'[u].got # call'[v].n
      BY <1>1, <2>1, <2>2, <2>3, <3>2, <3>4 DEF CallSerials
    <3>. QED
      BY <3>1, <3>3, <3>5 DEF CallSerials
  <2>6. SerialsIn'
    BY <1>1, <2>1, <2>2, <2>4 DEF SerialsIn, Serial
  <2>. QED
    BY <2>5, <2>6
<1>5. ASSUME NEW t \in Threads, Acquire(t) \/ Connect(t)
      PROVE  CallSerials' /\ SerialsIn'
  <2>1. WireKept
    BY <1>1, <1>5, InsideHasCall, LinkFacts, ClearKept, SameKept DEF Acquire, Connect
  <2>2. /\ pc[t] \in Unsent /\ pc'[t] \in Unsent /\ UNCHANGED <<call, calls>>
        /\ \A u \in Threads \ {t} : pc'[u] = pc[u]
    BY <1>1, <1>5 DEF Acquire, Connect, FirstStep, TypeOK, Unsent
  <2>. QED
    BY <1>1, <1>3, <2>1, <2>2 DEF CallSerials, SerialsIn
<1>6. ASSUME NEW t \in Threads, RunLocally(t) \/ SendFails(t) \/ ReceiveFails(t)
      PROVE  CallSerials' /\ SerialsIn'
  <2>. DEFINE g == 0
  <2>1. /\ pc[t] # "idle" /\ UNCHANGED calls /\ wire' = wire
        /\ \E o : Finish(t, g, o)
    BY <1>6 DEF RunLocally, SendFails, ReceiveFails
  <2>2. PICK o : Finish(t, g, o)
    BY <2>1
  <2>3. WireKept
    BY <1>1, <2>1, SameKept
  <2>4. g = 0
    OBVIOUS
  <2>. HIDE DEF g
  <2>. QED
    BY <2>1, <2>2, <2>3, <2>4, SerialFinish
<1>7. ASSUME NEW t \in Threads, ReceiveMessage(t)
      PROVE  CallSerials' /\ SerialsIn'
  <2>. DEFINE m == Head(wire[Down(call[t].eff)])
  <2>1. m \in Message /\ Bears(wire, m.n) /\ ~ Bears(wire', m.n)
    BY <1>1, <1>7, BearsTaken
  <2>2. /\ pc[t] # "idle" /\ (\E o : Finish(t, m.n, o)) /\ UNCHANGED calls
    BY <1>7 DEF ReceiveMessage
  <2>3. Down(call[t].eff) \in Link
    BY <1>1, <2>2, InsideHasCall, LinkFacts
  <2>4. WireKept
    BY <1>1, <1>7, <2>3, ClearKept, DropKept DEF ReceiveMessage
  <2>5. m.n \in Serial
    BY <2>1 DEF Message
  <2>. HIDE DEF m
  <2>. QED
    BY <2>1, <2>2, <2>4, <2>5, SerialFinish
<1>8. ASSUME NEW t \in Threads, SendMessage(t)
      PROVE  CallSerials' /\ SerialsIn'
  <2>1. /\ pc[t] = "send" /\ pc'[t] = "recv" /\ UNCHANGED <<call, calls>>
        /\ \A u \in Threads \ {t} : pc'[u] = pc[u]
    BY <1>1, <1>8 DEF SendMessage, TypeOK
  <2>2. call[t] # None /\ call[t].n \in Serial /\ call[t].n <= calls
    BY <1>1, <2>1, InsideHasCall DEF TypeOK, CallSerials
  <2>3. \A n : Bears(wire', n) => Bears(wire, n) \/ n = call[t].n
    BY <1>1, <1>3, <1>8, SendSends, BearsSent
  <2>4. CallSerials'
    BY <1>1, <2>1 DEF CallSerials, Unsent
  <2>5. \A u \in Threads : call[u] # None => call[u].got # call[t].n
    BY <1>1, <2>1 DEF CallSerials, Unsent
  <2>6. \A u \in Threads \ {t} : pc[u] \in Unsent => call[u].n # call[t].n
    BY <1>1, <2>2 DEF CallSerials, Unsent, TypeOK
  <2>7. ASSUME NEW u \in Threads, pc'[u] \in Unsent
        PROVE  ~ Bears(wire', call'[u].n)
    BY <1>1, <2>1, <2>3, <2>6, <2>7 DEF SerialsIn, Unsent
  <2>. QED
    BY <1>1, <2>1, <2>2, <2>3, <2>4, <2>5, <2>7 DEF SerialsIn
<1>9. ASSUME NEW t \in Threads, Release(t)
      PROVE  CallSerials' /\ SerialsIn'
  <2>1. /\ pc'[t] = "idle" /\ call'[t] = None /\ UNCHANGED <<calls, wire>>
        /\ \A u \in Threads \ {t} : pc'[u] = pc[u] /\ call'[u] = call[u]
    BY <1>1, <1>9 DEF Release, TypeOK
  <2>. QED
    BY <1>1, <2>1 DEF CallSerials, SerialsIn, Unsent
<1>10. ASSUME BrokerStep \/ PeerStep \/ PeerCrash \/ AllReturned \/ UNCHANGED vars
       PROVE  CallSerials' /\ SerialsIn'
  <2>1. UNCHANGED <<pc, call, calls>>
    BY <1>10 DEF BrokerStep, PeerStep, PeerCrash, AllReturned, vars, Join, BrokerFromSub,
                 BrokerToPair, BrokerFromPair, PeerReceive, PeerReply
  <2>2. ~ \E t \in Threads, m \in Message : Sent(t, m)
    BY <1>1, <2>1 DEF Sent, SendMessage, TypeOK
  <2>3. \A n : Bears(wire', n) => Bears(wire, n)
    BY <1>1, <1>3, <2>2, NextWire
  <2>4. CallSerials'
    BY <1>1, <2>1 DEF CallSerials
  <2>5. SerialsIn'
    BY <1>1, <2>1, <2>3 DEF SerialsIn
  <2>. QED
    BY <2>4, <2>5
<1>11. CallSerials' /\ SerialsIn'
  BY <1>4, <1>5, <1>6, <1>7, <1>8, <1>9, <1>10 DEF Next, ThreadStep
<1>12. (TypeInv /\ OnePerSerial(wire) /\ CallSerials /\ SerialsIn)'
  BY <1>2, <1>11 DEF OnePerSerial, SerialsIn
<1>. QED
  BY <1>12, SerialInvParts, PTL

LEMMA SerialInit == Init => SerialInv
<1>. SUFFICES ASSUME Init PROVE SerialInv
  OBVIOUS
<1>1. TypeInv
  BY TypeInit
<1>2. \A l \in Link : Len(wire[l]) = 0
  BY EmptySeq DEF Init
<1>3. OnePerSerial(wire) /\ \A n : ~ Bears(wire, n)
  BY <1>2 DEF OnePerSerial, Bears
<1>4. CallSerials /\ SerialsIn
  BY <1>3 DEF Init, CallSerials, SerialsIn, Unsent
<1>. QED
  BY <1>1, <1>3, <1>4, SerialInvParts

LEMMA SerialInvariant == Spec => []SerialInv
<1>1. SerialInv /\ [Next]_vars => SerialInv'
  BY SerialStep
<1>. QED
  BY SerialInit, <1>1, PTL DEF Spec

\* The brokers neither duplicate a message nor deliver again one that some call
\* has taken, whatever fails: receive_message may throw and leave its reply to
\* a later call, sockets may be replaced with replies unread, and the remote
\* process may die.
THEOREM NothingDuplicatedHolds == Spec => []NothingDuplicated
<1>1. SerialInv => NothingDuplicated
  BY DEF SerialInv, NothingDuplicated, OnePerSerial
<1>. QED
  BY <1>1, SerialInvariant, PTL

----------------------------------------------------------------------------
(* No message lost, when the remote process lives and Load sleeps enough.  *)

\* Only Load opens sockets.
ConnectInv == \A t \in Threads : pc[t] = "connect" => call[t].act = "Load"

\* The sockets of an effect are subscribed both ways unless Load still sleeps.
JoinInv ==
  \A e \in Effects : sock[e] # 0 =>
    \/ joined[e] = {"up", "down"}
    \/ \E t \in Threads : pc[t] = "send" /\ call[t].act = "Load" /\ call[t].eff = e

\* A thread waits in receive_message only on sockets subscribed both ways.
RecvJoined == \A t \in Threads : pc[t] = "recv" => joined[call[t].eff] = {"up", "down"}

\* The serial of a call is borne by messages of its effect only.
OwnInv ==
  \A t \in Threads, l \in Link : call[t] # None =>
    \A i \in 1 .. Len(wire[l]) : wire[l][i].n = call[t].n => wire[l][i].eff = call[t].eff

DeliveryInv ==
  /\ LockInv /\ RoutedInv /\ SerialInv
  /\ linkUp /\ ConnectInv /\ JoinInv /\ RecvJoined /\ OwnInv /\ NoMessageLost

SocketsInv == TypeInv /\ LockInv /\ linkUp /\ ConnectInv /\ JoinInv /\ RecvJoined

\* A thread leaves the body of MainEntry and leaves the sockets as they are.
LEMMA SocketsFinish ==
  ASSUME SocketsInv, NEW t \in Threads, pc[t] # "idle", NEW g, NEW o, Finish(t, g, o),
         UNCHANGED <<sock, joined>>,
         pc[t] = "send" /\ call[t].act = "Load" => sock[call[t].eff] = 0
  PROVE  ConnectInv' /\ JoinInv' /\ RecvJoined'
<1>1. /\ pc'[t] = "release"
      /\ \A u \in Threads \ {t} : pc'[u] = pc[u] /\ call'[u] = call[u]
  BY DEF SocketsInv, TypeInv, TypeOK, Finish
<1>2. ConnectInv' /\ RecvJoined'
  BY <1>1 DEF SocketsInv, ConnectInv, RecvJoined
<1>3. ASSUME NEW e \in Effects, sock'[e] # 0, joined'[e] # {"up", "down"}
      PROVE  \E u \in Threads : pc'[u] = "send" /\ call'[u].act = "Load" /\ call'[u].eff = e
  <2>1. PICK u \in Threads : pc[u] = "send" /\ call[u].act = "Load" /\ call[u].eff = e
    BY <1>3 DEF SocketsInv, JoinInv
  <2>2. u # t
    BY <1>3, <2>1
  <2>. QED
    BY <1>1, <2>1, <2>2
<1>. QED
  BY <1>2, <1>3 DEF JoinInv

LEMMA SocketsStep ==
  ASSUME PeerMayCrash = FALSE, SleepSuffices = TRUE, SocketsInv, [Next]_vars
  PROVE  SocketsInv'
<1>1. TypeOK /\ TypeInv /\ LockInv /\ linkUp /\ ConnectInv /\ JoinInv /\ RecvJoined
  BY DEF SocketsInv, TypeInv
<1>2. TypeInv' /\ LockInv'
  BY <1>1, TypeStep, LockStep
<1>3. linkUp'
  BY <1>1 DEF Next, MainEntry, ThreadStep, Acquire, RunLocally, Connect, SendMessage, SendFails,
              ReceiveMessage, ReceiveFails, Release, BrokerStep, Join, BrokerFromSub, BrokerToPair,
              BrokerFromPair, PeerStep, PeerReceive, PeerReply, PeerCrash, AllReturned, vars
<1>4. ASSUME NEW t \in Threads, NEW e \in Effects, NEW a \in Requests \cup LocalOnly,
             MainEntry(t, e, a)
      PROVE  ConnectInv' /\ JoinInv' /\ RecvJoined'
  <2>1. /\ pc[t] = "idle" /\ pc'[t] = "lock" /\ UNCHANGED <<sock, joined>>
        /\ \A u \in Threads \ {t} : pc'[u] = pc[u] /\ call'[u] = call[u]
    BY <1>1, <1>4 DEF MainEntry, TypeOK
  <2>2. JoinInv'
    BY <1>1, <2>1 DEF JoinInv
  <2>. QED
    BY <1>1, <2>1, <2>2 DEF ConnectInv, RecvJoined
<1>5. ASSUME NEW t \in Threads, Acquire(t)
      PROVE  ConnectInv' /\ JoinInv' /\ RecvJoined'
  <2>1. /\ pc[t] = "lock" /\ pc'[t] = FirstStep(call[t].act) /\ UNCHANGED <<call, sock, joined>>
        /\ \A u \in Threads \ {t} : pc'[u] = pc[u]
    BY <1>1, <1>5 DEF Acquire, TypeOK
  <2>2. JoinInv'
    BY <1>1, <2>1 DEF JoinInv
  <2>. QED
    BY <1>1, <2>1, <2>2 DEF ConnectInv, RecvJoined, FirstStep
<1>6. ASSUME NEW t \in Threads, RunLocally(t) \/ SendFails(t) \/ ReceiveFails(t)
      PROVE  ConnectInv' /\ JoinInv' /\ RecvJoined'
  <2>1. /\ pc[t] # "idle" /\ UNCHANGED <<sock, joined>> /\ \E g, o : Finish(t, g, o)
        /\ pc[t] = "send" => sock[call[t].eff] = 0
    BY <1>6 DEF RunLocally, SendFails, ReceiveFails
  <2>. QED
    BY <2>1, SocketsFinish
<1>7. ASSUME NEW t \in Threads, Connect(t)
      PROVE  ConnectInv' /\ JoinInv' /\ RecvJoined'
  <2>. DEFINE e == call[t].eff
  <2>1. /\ pc[t] = "connect" /\ e \in Effects /\ call' = call /\ call[t].act = "Load"
        /\ pc'[t] = "send" /\ \A u \in Threads \ {t} : pc'[u] = pc[u]
        /\ \A f \in Effects \ {e} : sock'[f] = sock[f] /\ joined'[f] = joined[f]
    BY <1>1, <1>7, InsideHasCall DEF Connect, TypeOK, ConnectInv
  <2>2. m_effect_lock[e] = t
    BY <1>1, <2>1 DEF LockInv, Busy
  <2>3. JoinInv'
    <3>1. ASSUME NEW f \in Effects, sock'[f] # 0, joined'[f] # {"up", "down"}
          PROVE  \E u \in Threads : pc'[u] = "send" /\ call'[u].act = "Load" /\ call'[u].eff = f
      <4>1. CASE f = e
        BY <2>1, <4>1
      <4>2. CASE f # e
        <5>1. PICK u \in Threads : pc[u] = "send" /\ call[u].act = "Load" /\ call[u].eff = f
          BY <1>1, <2>1, <3>1, <4>2 DEF JoinInv
        <5>. QED
          BY <2>1, <5>1
      <4>. QED
        BY <4>1, <4>2
    <3>. QED
      BY <3>1 DEF JoinInv
  <2>4. ASSUME NEW u \in Threads, pc'[u] = "recv"
        PROVE  joined'[call'[u].eff] = {"up", "down"}
    <3>1. pc[u] = "recv" /\ u # t
      BY <2>1, <2>4
    <3>2. call[u].eff \in Effects /\ m_effect_lock[call[u].eff] = u
      BY <1>1, <3>1, InsideHasCall DEF LockInv, Busy
    <3>. QED
      BY <1>1, <2>1, <2>2, <3>1, <3>2 DEF RecvJoined
  <2>5. ConnectInv'
    BY <1>1, <2>1 DEF ConnectInv
  <2>. QED
    BY <2>3, <2>4, <2>5 DEF RecvJoined
<1>8. ASSUME NEW t \in Threads, SendMessage(t)
      PROVE  ConnectInv' /\ JoinInv' /\ RecvJoined'
  <2>. DEFINE e == call[t].eff
  <2>1. /\ pc[t] = "send" /\ e \in Effects /\ UNCHANGED <<call, sock, joined>> /\ sock[e] # 0
        /\ pc'[t] = "recv" /\ \A u \in Threads \ {t} : pc'[u] = pc[u]
    BY <1>1, <1>8, InsideHasCall DEF SendMessage, TypeOK
  <2>2. joined[e] = {"up", "down"}
    <3>1. CASE call[t].act = "Load"
      BY <1>1, <1>8, <3>1 DEF SendMessage, SleptLongEnough
    <3>2. CASE call[t].act # "Load"
      <4>1. SUFFICES ASSUME NEW u \in Threads, pc[u] = "send", call[u].act = "Load", call[u].eff = e
                     PROVE  FALSE
        BY <1>1, <2>1 DEF JoinInv
      <4>2. m_effect_lock[e] = t /\ m_effect_lock[e] = u
        BY <1>1, <2>1, <4>1 DEF LockInv, Busy
      <4>. QED
        BY <3>2, <4>1, <4>2
    <3>. QED
      BY <3>1, <3>2
  <2>3. JoinInv'
    BY <1>1, <2>1, <2>2 DEF JoinInv
  <2>. QED
    BY <1>1, <2>1, <2>2, <2>3 DEF ConnectInv, RecvJoined
<1>9. ASSUME NEW t \in Threads, ReceiveMessage(t)
      PROVE  ConnectInv' /\ JoinInv' /\ RecvJoined'
  <2>. DEFINE e == call[t].eff
  <2>1. pc[t] = "recv" /\ e \in Effects /\ \E g, o : Finish(t, g, o)
    BY <1>1, <1>9, InsideHasCall DEF ReceiveMessage
  <2>2. CASE UNCHANGED <<sock, joined>>
    BY <2>1, <2>2, SocketsFinish
  <2>3. CASE /\ sock' = [sock EXCEPT ![e] = 0]
             /\ joined' = [joined EXCEPT ![e] = {}]
    <3>1. /\ pc'[t] = "release"
          /\ \A u \in Threads \ {t} : pc'[u] = pc[u] /\ call'[u] = call[u]
          /\ \A f \in Effects \ {e} : sock'[f] = sock[f] /\ joined'[f] = joined[f]
          /\ sock'[e] = 0
      BY <1>1, <2>1, <2>3 DEF Finish, TypeOK
    <3>2. m_effect_lock[e] = t
      BY <1>1, <2>1 DEF LockInv, Busy
    <3>3. ASSUME NEW u \in Threads, pc'[u] = "recv"
          PROVE  joined'[call'[u].eff] = {"up", "down"}
      <4>1. pc[u] = "recv" /\ u # t /\ call'[u] = call[u]
        BY <3>1, <3>3
      <4>2. call[u].eff \in Effects /\ m_effect_lock[call[u].eff] = u
        BY <1>1, <4>1, InsideHasCall DEF LockInv, Busy
      <4>. QED
        BY <1>1, <3>1, <3>2, <4>1, <4>2 DEF RecvJoined
    <3>4. ASSUME NEW f \in Effects, sock'[f] # 0, joined'[f] # {"up", "down"}
          PROVE  \E u \in Threads : pc'[u] = "send" /\ call'[u].act = "Load" /\ call'[u].eff = f
      <4>1. f # e
        BY <3>1, <3>4
      <4>2. PICK u \in Threads : pc[u] = "send" /\ call[u].act = "Load" /\ call[u].eff = f
        BY <1>1, <3>1, <3>4, <4>1 DEF JoinInv
      <4>. QED
        BY <2>1, <3>1, <4>2
    <3>5. ConnectInv'
      BY <1>1, <3>1 DEF ConnectInv
    <3>. QED
      BY <3>3, <3>4, <3>5 DEF JoinInv, RecvJoined
  <2>. QED
    BY <1>9, <2>2, <2>3 DEF ReceiveMessage
<1>10. ASSUME NEW t \in Threads, Release(t)
       PROVE  ConnectInv' /\ JoinInv' /\ RecvJoined'
  <2>1. /\ pc[t] = "release" /\ pc'[t] = "idle" /\ UNCHANGED <<sock, joined>>
        /\ \A u \in Threads \ {t} : pc'[u] = pc[u] /\ call'[u] = call[u]
    BY <1>1, <1>10 DEF Release, TypeOK
  <2>2. JoinInv'
    BY <1>1, <2>1 DEF JoinInv
  <2>. QED
    BY <1>1, <2>1, <2>2 DEF ConnectInv, RecvJoined
<1>11. ASSUME NEW e \in Effects, NEW d \in {"up", "down"}, Join(e, d)
       PROVE  ConnectInv' /\ JoinInv' /\ RecvJoined'
  <2>1. /\ UNCHANGED <<pc, call, sock>>
        /\ \A f \in Effects : joined[f] = {"up", "down"} => joined'[f] = {"up", "down"}
    BY <1>1, <1>11 DEF Join, TypeOK
  <2>2. \A u \in Threads : pc[u] = "recv" => call[u].eff \in Effects
    BY <1>1, InsideHasCall
  <2>3. JoinInv'
    BY <1>1, <2>1 DEF JoinInv
  <2>. QED
    BY <1>1, <2>1, <2>2, <2>3 DEF ConnectInv, RecvJoined
<1>12. ASSUME \/ BrokerStep /\ ~ \E e \in Effects, d \in {"up", "down"} : Join(e, d)
              \/ PeerStep \/ PeerCrash \/ AllReturned \/ UNCHANGED vars
       PROVE  ConnectInv' /\ JoinInv' /\ RecvJoined'
  <2>1. UNCHANGED <<pc, call, sock, joined>>
    BY <1>12 DEF BrokerStep, PeerStep, PeerCrash, AllReturned, vars, BrokerFromSub,
                 BrokerToPair, BrokerFromPair, PeerReceive, PeerReply
  <2>. QED
    BY <1>1, <2>1 DEF ConnectInv, JoinInv, RecvJoined
<1>13. ConnectInv' /\ JoinInv' /\ RecvJoined'
  BY <1>4, <1>5, <1>6, <1>7, <1>8, <1>9, <1>10, <1>11, <1>12 DEF Next, ThreadStep, BrokerStep
<1>. QED
  BY <1>2, <1>3, <1>13 DEF SocketsInv

LEMMA OwnStep ==
  ASSUME SerialInv, OwnInv, [Next]_vars
  PROVE  OwnInv'
<1>1. TypeOK /\ TypeInv /\ CallSerials /\ SerialsIn /\ OnePerSerial(wire) /\ wire \in WireType
  BY SerialInvParts DEF TypeInv, TypeOK, WireType
<1>2. \A t \in Threads, l \in Link : call[t] # None =>
        \A i \in 1 .. Len(wire[l]) : wire[l][i].n = call[t].n => wire[l][i].eff = call[t].eff
  BY DEF OwnInv
\* A call is as it was, or too new for any message.
<1>3. ASSUME NEW u \in Threads, call'[u] # None
      PROVE  \/ call[u] # None /\ call'[u].n = call[u].n /\ call'[u].eff = call[u].eff
             \/ wire' = wire /\ ~ Bears(wire, call'[u].n)
  <2>1. CASE call'[u] = call[u]
    BY <1>3, <2>1
  <2>2. ASSUME NEW t \in Threads, NEW e \in Effects, NEW a \in Requests \cup LocalOnly,
               MainEntry(t, e, a)
        PROVE  call'[u] = call[u] \/ (wire' = wire /\ ~ Bears(wire, call'[u].n))
    <3>. DEFINE n == calls + 1
    <3>1. /\ wire' = wire
          /\ u = t => call'[u].n = n
          /\ u # t => call'[u] = call[u]
      BY <1>1, <2>2 DEF MainEntry, TypeOK
    <3>2. ~ (n <= calls)
      BY <1>1, ConstantsAssumption DEF TypeOK
    <3>. HIDE DEF n
    <3>3. ~ Bears(wire, n)
      BY <1>1, <3>2 DEF SerialsIn
    <3>. QED
      BY <3>1, <3>3
  <2>3. ASSUME NEW t \in Threads, pc[t] # "idle", \E g, o : Finish(t, g, o)
        PROVE  \/ call'[u] = call[u]
               \/ call[u] # None /\ call'[u].n = call[u].n /\ call'[u].eff = call[u].eff
    <3>1. call[t] \in Call /\ call[t] # None
      BY <1>1, <2>3, InsideHasCall, ConstantsAssumption
    <3>. QED
      BY <1>1, <2>3, <3>1 DEF Finish, TypeOK, Call
  <2>4. ASSUME NEW t \in Threads, Release(t)
        PROVE  call'[u] = call[u]
    BY <1>1, <1>3, <2>4 DEF Release, TypeOK
  <2>5. ASSUME NEW t \in Threads,
               RunLocally(t) \/ SendFails(t) \/ ReceiveFails(t) \/ ReceiveMessage(t)
        PROVE  pc[t] # "idle" /\ \E g, o : Finish(t, g, o)
    BY <2>5 DEF RunLocally, SendFails, ReceiveFails, ReceiveMessage
  <2>6. ASSUME NEW t \in Threads, Acquire(t) \/ Connect(t) \/ SendMessage(t)
        PROVE  call'[u] = call[u]
    BY <2>6 DEF Acquire, Connect, SendMessage
  <2>7. ASSUME BrokerStep \/ PeerStep \/ PeerCrash \/ AllReturned \/ UNCHANGED vars
        PROVE  call'[u] = call[u]
    BY <2>7, OthersLeaveThreads
  <2>. QED
    BY <2>1, <2>2, <2>3, <2>4, <2>5, <2>6, <2>7 DEF Next, ThreadStep
<1>4. CASE WireKept
  <2>1. PICK src : Origin(wire, wire', src)
    BY <1>4 DEF WireKept, Carries
  <2>2. SUFFICES ASSUME NEW u \in Threads, NEW l \in Link, call'[u] # None,
                        NEW i \in 1 .. Len(wire'[l]), wire'[l][i].n = call'[u].n
                 PROVE  wire'[l][i].eff = call'[u].eff
    BY DEF OwnInv
  <2>3. <<l, i>> \in Place /\ OnWire(wire', <<l, i>>) /\ At(wire', <<l, i>>) = wire'[l][i]
    BY <1>4, Elements DEF WireKept, Place, OnWire, At
  <2>4. PICK p \in Place : /\ OnWire(wire, p) /\ At(wire, p).n = wire'[l][i].n
                           /\ At(wire, p).eff = wire'[l][i].eff
    BY <2>1, <2>3 DEF Origin
  <2>5. Bears(wire, call'[u].n)
    BY <2>2, <2>4 DEF Bears, OnWire, At, Place
  <2>6. call[u] # None /\ call'[u].n = call[u].n /\ call'[u].eff = call[u].eff
    BY <1>3, <2>2, <2>5
  <2>. QED
    BY <1>2, <2>2, <2>4, <2>6 DEF OnWire, At, Place
<1>5. ASSUME NEW t \in Threads, NEW m \in Message, Sent(t, m)
      PROVE  OwnInv'
  <2>1. PICK a \in Link : wire' = [wire EXCEPT ![a] = Append(@, m)]
    BY <1>5 DEF Sent, Put
  <2>2. Appended(wire, wire', a, m)
    BY <1>1, <2>1, PutFacts
  <2>3. /\ m.n = call[t].n /\ m.eff = call[t].eff /\ call' = call /\ call[t] # None
    BY <1>1, <1>5 DEF Sent, SendMessage, TypeOK
  <2>4. \A l \in Link : \A i \in 1 .. Len(wire'[l]) :
          \/ i \in 1 .. Len(wire[l]) /\ wire'[l][i] = wire[l][i]
          \/ l = a /\ i = Len(wire[a]) + 1 /\ wire'[l][i] = m
    BY <1>1, <2>2, Elements DEF Appended
  <2>5. \A u \in Threads : call[u] # None /\ call[u].n = m.n => call[u].eff = m.eff
    BY <1>1, <2>3 DEF CallSerials
  <2>. QED
    BY <1>2, <2>3, <2>4, <2>5 DEF OwnInv
<1>. QED
  BY <1>1, <1>4, <1>5, NextWire

\* A message stays on the links when another is taken off, and when it is moved.
LEMMA BearsMoved ==
  ASSUME NEW w \in WireType, NEW a \in Link, NEW b \in Link, a # b, w[a] # <<>>,
         NEW x, x.n = Head(w[a]).n, NEW v, Moved(w, v, a, b, x), NEW n, Bears(w, n)
  PROVE  Bears(v, n)
<1>1. PICK l \in Link : \E i \in 1 .. Len(w[l]) : w[l][i].n = n
  BY DEF Bears
<1>. PICK i \in 1 .. Len(w[l]) : w[l][i].n = n
  BY <1>1
<1>2. /\ Len(w[a]) \in Nat /\ Len(w[b]) \in Nat /\ Len(w[a]) > 0 /\ Head(w[a]) = w[a][1]
  BY Elements
<1>3. CASE l \notin {a, b}
  BY <1>3 DEF Moved, Bears
<1>4. CASE l = b
  <2>1. i \in 1 .. Len(v[b]) /\ v[b][i].n = n
    BY <1>2, <1>4 DEF Moved
  <2>. QED
    BY <2>1 DEF Bears
<1>5. CASE l = a /\ i = 1
  <2>1. Len(w[b]) + 1 \in 1 .. Len(v[b]) /\ v[b][Len(w[b]) + 1].n = n
    BY <1>2, <1>5 DEF Moved
  <2>. QED
    BY <2>1 DEF Bears
<1>6. CASE l = a /\ i # 1
  <2>1. i - 1 \in 1 .. Len(v[a]) /\ v[a][i - 1] = w[a][i - 1 + 1]
    BY <1>2, <1>6 DEF Moved
  <2>2. v[a][i - 1].n = n
    BY <1>2, <1>6, <2>1
  <2>. QED
    BY <2>1, <2>2 DEF Bears
<1>. QED
  BY <1>3, <1>4, <1>5, <1>6

LEMMA BearsForward ==
  ASSUME TypeOK, NEW a \in Link, NEW b \in Link, a # b, wire[a] # <<>>,
         wire' = Forward(a, b), NEW n, Bears(wire, n)
  PROVE  Bears(wire', n)
<1>1. wire \in WireType /\ Head(wire[a]) \in Message
  BY Elements DEF TypeOK, WireType
<1>2. Moved(wire, wire', a, b, Head(wire[a]))
  BY <1>1, MoveFacts DEF Forward
<1>. QED
  BY <1>1, <1>2, BearsMoved

LEMMA BearsDrop ==
  ASSUME TypeOK, NEW a \in Link, wire[a] # <<>>, wire' = Drop(a),
         NEW n, Bears(wire, n), Head(wire[a]).n # n
  PROVE  Bears(wire', n)
<1>1. wire \in WireType
  BY DEF TypeOK, WireType
<1>2. Dropped(wire, wire', a)
  BY <1>1, DropFacts DEF Drop
<1>3. PICK l \in Link : \E i \in 1 .. Len(wire[l]) : wire[l][i].n = n
  BY DEF Bears
<1>. PICK i \in 1 .. Len(wire[l]) : wire[l][i].n = n
  BY <1>3
<1>4. Len(wire[a]) \in Nat /\ Head(wire[a]) = wire[a][1]
  BY <1>1, Elements
<1>5. CASE l # a
  BY <1>2, <1>5 DEF Dropped, Bears
<1>6. CASE l = a
  <2>1. i # 1
    BY <1>4, <1>6
  <2>2. i - 1 \in 1 .. Len(wire'[a]) /\ wire'[a][i - 1] = wire[a][i - 1 + 1]
    BY <1>2, <1>4, <1>6, <2>1 DEF Dropped
  <2>3. wire'[a][i - 1].n = n
    BY <1>4, <1>6, <2>1, <2>2
  <2>. QED
    BY <2>2, <2>3 DEF Bears
<1>. QED
  BY <1>5, <1>6

\* What another effect's thread waits for is not on the SUB socket of e.
LEMMA BearsElsewhere ==
  ASSUME DeliveryInv, NEW e \in Effects, NEW u \in Threads, pc[u] = "recv", call[u].eff # e
  PROVE  \E l \in Link \ {Down(e)} : \E i \in 1 .. Len(wire[l]) : wire[l][i].n = call[u].n
<1>1. PICK l \in Link : \E i \in 1 .. Len(wire[l]) : wire[l][i].n = call[u].n
  BY DEF DeliveryInv, NoMessageLost
<1>. PICK i \in 1 .. Len(wire[l]) : wire[l][i].n = call[u].n
  BY <1>1
<1>2. TypeOK /\ call[u] # None
  BY DEF DeliveryInv, SerialInv, TypeOK
<1>3. wire[l][i].eff = call[u].eff
  BY <1>2 DEF DeliveryInv, OwnInv
<1>4. l # Down(e)
  BY <1>3 DEF DeliveryInv, RoutedInv
<1>. QED
  BY <1>4

LEMMA NoLossStep ==
  ASSUME PeerMayCrash = FALSE, SleepSuffices = TRUE, DeliveryInv, [Next]_vars
  PROVE  NoMessageLost'
<1>1. /\ TypeOK /\ TypeInv /\ LockInv /\ RoutedInv /\ JoinInv /\ RecvJoined /\ OwnInv
      /\ SocketsInv /\ wire \in WireType
  BY SerialInvParts DEF DeliveryInv, SocketsInv, TypeInv, TypeOK, WireType
<1>2. \A u \in Threads : pc[u] = "recv" =>
        /\ Bears(wire, call[u].n) /\ call[u] # None
        /\ call[u].eff \in Effects /\ m_effect_lock[call[u].eff] = u
  BY <1>1, InsideHasCall DEF DeliveryInv, NoMessageLost, Bears, LockInv, Busy, TypeOK
<1>3. SUFFICES ASSUME NEW u \in Threads, pc'[u] = "recv"
               PROVE  Bears(wire', call'[u].n)
  BY DEF NoMessageLost, Bears
<1>4. ASSUME NEW t \in Threads, SendMessage(t)
      PROVE  Bears(wire', call'[u].n)
  <2>. DEFINE e == call[t].eff
              l == Up(e, sock[e])
              m == [eff |-> e, act |-> call[t].act, n |-> call[t].n, status |-> "none"]
  <2>1. /\ pc[t] = "send" /\ pc'[t] = "recv" /\ UNCHANGED <<call, joined>> /\ sock[e] # 0
        /\ \A v \in Threads \ {t} : pc'[v] = pc[v]
        /\ call[t] \in Call /\ e \in Effects /\ call[t].n \in Serial /\ call[t].act \in Requests
    BY <1>1, <1>4, InsideHasCall DEF SendMessage, TypeOK, TypeInv, RequestInv
  <2>2. joined[e] = {"up", "down"}
    BY <1>1, <2>1, SocketsStep DEF SocketsInv, RecvJoined
  <2>3. wire' = Put(l, m)
    BY <1>4, <2>2 DEF SendMessage
  <2>4. l \in Link /\ m \in Message /\ m.n = call[t].n
    BY <1>1, <2>1, LinkFacts, ConstantsAssumption DEF TypeOK, Serial, Message
  <2>. HIDE DEF l, m
  <2>5. Appended(wire, wire', l, m) /\ Len(wire[l]) \in Nat
    BY <1>1, <2>3, <2>4, PutFacts, Elements DEF Put
  <2>6. CASE u = t
    BY <2>1, <2>4, <2>5, <2>6 DEF Appended, Bears
  <2>7. CASE u # t
    <3>1. PICK k \in Link : \E i \in 1 .. Len(wire[k]) : wire[k][i].n = call[u].n
      BY <1>2, <1>3, <2>1, <2>7 DEF Bears
    <3>2. \A i \in 1 .. Len(wire[k]) : i \in 1 .. Len(wire'[k]) /\ wire'[k][i] = wire[k][i]
      BY <2>4, <2>5 DEF Appended
    <3>. QED
      BY <2>1, <3>1, <3>2 DEF Bears
  <2>. QED
    BY <2>6, <2>7
<1>5. ASSUME NEW t \in Threads, Connect(t) \/ ReceiveMessage(t)
      PROVE  Bears(wire', call'[u].n)
  <2>. DEFINE e == call[t].eff
  <2>1. /\ pc[t] \in {"connect", "recv"} /\ pc'[t] # "recv" /\ e \in Effects
        /\ \A v \in Threads \ {t} : pc'[v] = pc[v] /\ call'[v] = call[v]
    BY <1>1, <1>5, InsideHasCall DEF Connect, ReceiveMessage, Finish, TypeOK
  <2>2. pc[u] = "recv" /\ call'[u] = call[u] /\ call[u].eff # e
    BY <1>1, <1>2, <1>3, <2>1 DEF LockInv, Busy
  <2>3. PICK l \in Link \ {Down(e)} : \E i \in 1 .. Len(wire[l]) : wire[l][i].n = call[u].n
    BY <2>1, <2>2, BearsElsewhere
  <2>4. wire' = Clear(Down(e)) \/ wire' = Drop(Down(e))
    BY <1>5 DEF Connect, ReceiveMessage
  <2>5. wire'[l] = wire[l]
    BY <1>1, <2>4 DEF Clear, Drop, WireType
  <2>. QED
    BY <2>2, <2>3, <2>5 DEF Bears
<1>6. ASSUME \/ \E t \in Threads : \/ Acquire(t) \/ RunLocally(t) \/ SendFails(t)
                                   \/ ReceiveFails(t) \/ Release(t)
             \/ \E t \in Threads, e \in Effects, a \in Requests \cup LocalOnly : MainEntry(t, e, a)
      PROVE  Bears(wire', call'[u].n)
  <2>1. wire' = wire
    BY <1>6 DEF Acquire, RunLocally, SendFails, ReceiveFails, Release, MainEntry
  <2>2. pc[u] = "recv" /\ call'[u] = call[u]
    BY <1>1, <1>3, <1>6 DEF Acquire, RunLocally, SendFails, ReceiveFails, Release, MainEntry,
                            Finish, FirstStep, TypeOK
  <2>. QED
    BY <1>2, <2>1, <2>2
<1>7. ASSUME BrokerStep \/ PeerStep \/ PeerCrash \/ AllReturned \/ UNCHANGED vars
      PROVE  Bears(wire', call'[u].n)
  <2>1. pc[u] = "recv" /\ call'[u] = call[u]
    BY <1>3, <1>7, OthersLeaveThreads
  <2>. DEFINE n == call[u].n
  <2>2. Bears(wire, n)
    BY <1>2, <2>1
  <2>. HIDE DEF n
  <2>3. CASE \/ \E e \in Effects, d \in {"up", "down"} : Join(e, d)
             \/ AllReturned \/ UNCHANGED vars
    <3>1. wire' = wire
      BY <2>3 DEF Join, AllReturned, vars
    <3>. QED
      BY <2>1, <2>2, <3>1 DEF n
  <2>4. ASSUME NEW e \in Effects, NEW s \in Serial, BrokerFromSub(e, s)
        PROVE  Bears(wire', n)
    BY <1>1, <2>2, <2>4, LinkFacts, BearsForward DEF BrokerFromSub
  <2>5. ASSUME BrokerToPair
        PROVE  Bears(wire', n)
    BY <1>1, <2>2, <2>5, LinkFacts, BearsForward DEF BrokerToPair, BrokerIdle
  <2>6. ASSUME BrokerFromPair
        PROVE  Bears(wire', n)
    <3>. DEFINE m == Head(wire[ToPlugin])
    <3>1. /\ m \in Message /\ wire[ToPlugin] # <<>>
          /\ IF "down" \in joined[m.eff] THEN wire' = Forward(ToPlugin, Down(m.eff))
                                         ELSE wire' = Drop(ToPlugin)
      BY <1>1, <2>6, BrokerFromPairRoutes DEF BrokerFromPair
    <3>2. /\ ToPlugin \in Link /\ Down(m.eff) \in Link /\ Down(m.eff) # ToPlugin
          /\ m = wire[ToPlugin][1] /\ 1 \in 1 .. Len(wire[ToPlugin])
      BY <1>1, <3>1, LinkFacts, Elements DEF Message
    <3>3. CASE "down" \in joined[m.eff]
      BY <1>1, <2>2, <3>1, <3>2, <3>3, BearsForward
    <3>4. CASE "down" \notin joined[m.eff]
      <4>1. m.n # n
        <5>1. SUFFICES ASSUME m.n = n PROVE FALSE
          OBVIOUS
        <5>2. m.eff = call[u].eff
          BY <1>1, <1>2, <2>1, <3>2, <5>1 DEF OwnInv, n
        <5>. QED
          BY <1>1, <2>1, <3>4, <5>2 DEF RecvJoined
      <4>. QED
        BY <1>1, <2>2, <3>1, <3>2, <3>4, <4>1, BearsDrop
    <3>. QED
      BY <3>3, <3>4
  <2>7. ASSUME PeerReceive
        PROVE  Bears(wire', n)
    <3>1. ToHost \in Link /\ wire[ToHost] # <<>>
      BY <2>7, LinkFacts DEF PeerReceive
    <3>2. Head(wire[ToHost]).eff \in Effects
      BY <1>1, <3>1, Elements DEF Message
    <3>3. /\ Peer(Head(wire[ToHost]).eff) \in Link
          /\ Peer(Head(wire[ToHost]).eff) # ToHost
          /\ wire' = Forward(ToHost, Peer(Head(wire[ToHost]).eff))
      BY <2>7, <3>2, LinkFacts DEF PeerReceive
    <3>. QED
      BY <1>1, <2>2, <3>1, <3>3, BearsForward
  <2>8. ASSUME NEW e \in Effects, NEW s \in Statuses, PeerReply(e, s)
        PROVE  Bears(wire', n)
    <3>. DEFINE m == Head(wire[Peer(e)])
                x == [m EXCEPT !.status = s]
    <3>1. /\ Peer(e) \in Link /\ ToPlugin \in Link
          /\ Peer(e) # ToPlugin /\ wire[Peer(e)] # <<>>
      BY <2>8, LinkFacts DEF PeerReply
    <3>2. m \in Message
      BY <1>1, <3>1, Elements
    <3>3. x \in Message /\ x.n = m.n
      BY <3>2 DEF Message
    <3>4. wire' = [wire EXCEPT ![Peer(e)] = Tail(@), ![ToPlugin] = Append(@, x)]
      BY <2>8 DEF PeerReply
    <3>. HIDE DEF x
    <3>5. Moved(wire, wire', Peer(e), ToPlugin, x)
      BY <1>1, <3>1, <3>3, <3>4, MoveFacts
    <3>. QED
      BY <1>1, <2>2, <3>1, <3>3, <3>5, BearsMoved
  <2>9. ~ PeerCrash
    BY DEF PeerCrash
  <2>10. Bears(wire', n) => Bears(wire', call'[u].n)
    BY <2>1 DEF n
  <2>. QED
    BY <1>7, <2>3, <2>4, <2>5, <2>6, <2>7, <2>8, <2>9, <2>10 DEF BrokerStep, PeerStep
<1>. QED
  BY <1>4, <1>5, <1>6, <1>7 DEF Next, ThreadStep

LEMMA DeliveryInvariant ==
  ASSUME PeerMayCrash = FALSE, SleepSuffices = TRUE
  PROVE  Spec => []DeliveryInv
<1>1. Init => DeliveryInv
  <2>. SUFFICES ASSUME Init PROVE DeliveryInv
    OBVIOUS
  <2>1. SerialInv
    BY SerialInit
  <2>2. \A l \in Link : Len(wire[l]) = 0
    BY EmptySeq DEF Init
  <2>3. RoutedInv /\ OwnInv
    BY <2>2, LinkFacts DEF RoutedInv, OwnInv
  <2>4. LockInv /\ linkUp /\ ConnectInv /\ JoinInv /\ RecvJoined /\ NoMessageLost
    BY DEF Init, LockInv, Busy, ConnectInv, JoinInv, RecvJoined, NoMessageLost
  <2>. QED
    BY <2>1, <2>3, <2>4 DEF DeliveryInv
<1>2. DeliveryInv /\ [Next]_vars => DeliveryInv'
  <2>. SUFFICES ASSUME DeliveryInv, [Next]_vars PROVE DeliveryInv'
    OBVIOUS
  <2>1. TypeInv /\ SocketsInv /\ SerialInv /\ OwnInv /\ RoutedInv
    BY SerialInvParts DEF DeliveryInv, SocketsInv
  <2>2. SocketsInv' /\ SerialInv' /\ OwnInv' /\ RoutedInv' /\ NoMessageLost'
    BY <2>1, SocketsStep, SerialStep, OwnStep, RoutedStep, NoLossStep
  <2>. QED
    BY <2>2 DEF DeliveryInv, SocketsInv
<1>. QED
  BY <1>1, <1>2, PTL DEF Spec

\* As long as the remote process lives and the sleep in Load outlasts the
\* joins, no hop drops what a waiting call needs: not the sockets that Load
\* replaces and Unload closes, nor the broker's PUB socket, nor the replies
\* that receive_message, when it throws, leaves to later calls.
THEOREM NoMessageLostHolds ==
  ASSUME PeerMayCrash = FALSE, SleepSuffices = TRUE
  PROVE  Spec => []NoMessageLost
<1>1. DeliveryInv => NoMessageLost
  BY DEF DeliveryInv
<1>. QED
  BY <1>1, DeliveryInvariant, PTL

----------------------------------------------------------------------------
(* The proxy implements a remote MainEntry.                                *)

\* The links that carry replies.
Answering == {ToPlugin} \cup {Down(e) : e \in Effects}

\* A message is a request until the remote side has performed its action, and
\* from then on the reply with that action's status.
Stage(p, l, m) ==
  /\ IF l \in Answering
     THEN m.status \in Statuses /\ p[m.eff] = [n |-> m.n, status |-> m.status]
     ELSE m.status = "none" /\ p[m.eff].n # m.n
  /\ \A e \in Effects : l = Peer(e) => m.eff = e

StageInv == \A l \in Link : \A i \in 1 .. Len(wire[l]) : Stage(performed, l, wire[l][i])

\* Only the other actions are answered by the proxy itself, and a call gets
\* its outcome at the end.
OutcomeInv ==
  \A t \in Threads : call[t] # None =>
    /\ pc[t] = "local" => call[t].act \in LocalOnly
    /\ IF pc[t] = "release" THEN call[t].outcome \in Statuses ELSE call[t].outcome = "none"

\* A call that has not sent its request has not been performed.
PerformedInv ==
  \A e \in Effects : /\ performed[e].n <= calls
                     /\ \A u \in Threads : pc[u] \in Unsent => performed[e].n # call[u].n

ActsInv == MessagingInv /\ SerialInv /\ StageInv /\ OutcomeInv /\ PerformedInv

LEMMA StageKept ==
  ASSUME StageInv, UNCHANGED performed,
         \A l \in Link : \A i \in 1 .. Len(wire'[l]) :
           \/ \E j \in 1 .. Len(wire[l]) : wire'[l][i] = wire[l][j]
           \/ Stage(performed, l, wire'[l][i])
  PROVE  StageInv'
<1>1. SUFFICES ASSUME NEW l \in Link, NEW i \in 1 .. Len(wire'[l])
               PROVE  Stage(performed, l, wire'[l][i])
  BY DEF StageInv
<1>. QED
  BY <1>1 DEF StageInv

LEMMA StageForward ==
  ASSUME TypeOK, StageInv, UNCHANGED performed, NEW a \in Link, NEW b \in Link, a # b,
         wire[a] # <<>>, wire' = Forward(a, b), a \in Answering <=> b \in Answering,
         \A e \in Effects : b = Peer(e) => Head(wire[a]).eff = e
  PROVE  StageInv'
<1>. DEFINE m == Head(wire[a])
<1>1. wire \in WireType /\ m \in Message /\ m = wire[a][1] /\ 1 \in 1 .. Len(wire[a])
  BY Elements DEF TypeOK, WireType
<1>2. Moved(wire, wire', a, b, m)
  BY <1>1, MoveFacts DEF Forward
<1>3. Stage(performed, a, m)
  BY <1>1 DEF StageInv
<1>4. Stage(performed, b, m)
  BY <1>3 DEF Stage
<1>. HIDE DEF m
<1>5. ASSUME NEW l \in Link, NEW i \in 1 .. Len(wire'[l])
      PROVE  \/ \E j \in 1 .. Len(wire[l]) : wire'[l][i] = wire[l][j]
             \/ Stage(performed, l, wire'[l][i])
  <2>1. /\ Len(wire[a]) \in Nat /\ Len(wire[b]) \in Nat
    BY <1>1, Elements
  <2>2. CASE l \notin {a, b}
    BY <1>2, <2>2 DEF Moved
  <2>3. CASE l = a
    <3>1. i + 1 \in 1 .. Len(wire[a]) /\ wire'[a][i] = wire[a][i + 1]
      BY <1>2, <2>1, <2>3 DEF Moved
    <3>. QED
      BY <2>3, <3>1
  <2>4. CASE l = b /\ i \in 1 .. Len(wire[b])
    BY <1>2, <2>4 DEF Moved
  <2>5. CASE l = b /\ i = Len(wire[b]) + 1
    BY <1>2, <1>4, <2>5 DEF Moved
  <2>. QED
    BY <1>2, <2>1, <2>2, <2>3, <2>4, <2>5 DEF Moved
<1>. QED
  BY <1>5, StageKept

LEMMA StageLess ==
  ASSUME TypeOK, StageInv, UNCHANGED performed, NEW a \in Link,
         (wire' = Clear(a)) \/ (wire[a] # <<>> /\ wire' = Drop(a))
  PROVE  StageInv'
<1>1. wire \in WireType
  BY DEF TypeOK, WireType
<1>2. ASSUME NEW l \in Link, NEW i \in 1 .. Len(wire'[l])
      PROVE  \E j \in 1 .. Len(wire[l]) : wire'[l][i] = wire[l][j]
  <2>1. CASE wire' = Clear(a)
    <3>1. wire'[l] = IF l = a THEN <<>> ELSE wire[l]
      BY <1>1, <2>1 DEF Clear, WireType
    <3>. QED
      BY <1>2, <3>1, EmptySeq
  <2>2. CASE wire[a] # <<>> /\ wire' = Drop(a)
    <3>1. Dropped(wire, wire', a) /\ Len(wire[a]) \in Nat
      BY <1>1, <2>2, DropFacts, Elements DEF Drop
    <3>2. CASE l = a
      <4>1. i + 1 \in 1 .. Len(wire[a]) /\ wire'[a][i] = wire[a][i + 1]
        BY <3>1, <3>2 DEF Dropped
      <4>. QED
        BY <3>2, <4>1
    <3>. QED
      BY <3>1, <3>2 DEF Dropped
  <2>. QED
    BY <2>1, <2>2
<1>. QED
  BY <1>2, StageKept

LEMMA AnsweringLinks ==
  /\ ToPlugin \in Answering /\ Held \notin Answering /\ ToHost \notin Answering
  /\ \A e \in Effects : Down(e) \in Answering /\ Peer(e) \notin Answering
  /\ \A e \in Effects, s \in Serial : Up(e, s) \notin Answering
  BY LinkFacts DEF Answering

LEMMA StageStep ==
  ASSUME ActsInv, [Next]_vars
  PROVE  StageInv'
<1>1. /\ TypeOK /\ TypeInv /\ StageInv /\ PerformedInv /\ OnePerEffect(wire)
      /\ wire \in WireType
  BY DEF ActsInv, MessagingInv, TypeInv, TypeOK, WireType
<1>2. ASSUME \/ \E t \in Threads : \/ Acquire(t) \/ RunLocally(t) \/ SendFails(t)
                                   \/ ReceiveFails(t) \/ Release(t)
             \/ \E t \in Threads, e \in Effects, a \in Requests \cup LocalOnly : MainEntry(t, e, a)
             \/ \E e \in Effects, d \in {"up", "down"} : Join(e, d)
             \/ AllReturned \/ UNCHANGED vars
      PROVE  StageInv'
  <2>1. UNCHANGED <<wire, performed>>
    BY <1>2 DEF Acquire, RunLocally, SendFails, ReceiveFails, Release, MainEntry, Join,
                AllReturned, vars
  <2>. QED
    BY <1>1, <2>1, StageKept
<1>3. ASSUME NEW t \in Threads, Connect(t) \/ ReceiveMessage(t)
      PROVE  StageInv'
  <2>1. Down(call[t].eff) \in Link
    BY <1>1, <1>3, InsideHasCall, LinkFacts DEF Connect, ReceiveMessage
  <2>. QED
    BY <1>1, <1>3, <2>1, StageLess DEF Connect, ReceiveMessage
<1>4. ASSUME NEW t \in Threads, SendMessage(t)
      PROVE  StageInv'
  <2>. DEFINE e == call[t].eff
              l == Up(e, sock[e])
              m == [eff |-> e, act |-> call[t].act, n |-> call[t].n, status |-> "none"]
  <2>1. /\ pc[t] = "send" /\ UNCHANGED performed /\ sock[e] # 0
        /\ e \in Effects /\ call[t].n \in Serial /\ call[t].act \in Requests
    BY <1>1, <1>4, InsideHasCall DEF SendMessage, TypeInv, RequestInv
  <2>2. CASE wire' = wire
    BY <1>1, <2>1, <2>2, StageKept
  <2>3. CASE wire' = Put(l, m)
    <3>. sock[e] \in Serial
      BY <1>1, <2>1, ConstantsAssumption DEF TypeOK, Serial
    <3>1. /\ l \in Link /\ l \notin Answering /\ \A f \in Effects : l # Peer(f)
      BY <2>1, LinkFacts, AnsweringLinks
    <3>2. m \in Message /\ m.status = "none" /\ m.eff = e /\ m.n = call[t].n
      BY <2>1 DEF Message
    <3>3. performed[e].n # call[t].n
      BY <1>1, <2>1 DEF PerformedInv, Unsent
    <3>4. Stage(performed, l, m)
      BY <3>1, <3>2, <3>3 DEF Stage
    <3>. HIDE DEF l, m
    <3>5. Appended(wire, wire', l, m)
      BY <1>1, <2>3, <3>1, <3>2, PutFacts DEF Put
    <3>6. \A k \in Link : \A i \in 1 .. Len(wire'[k]) :
            \/ i \in 1 .. Len(wire[k]) /\ wire'[k][i] = wire[k][i]
            \/ k = l /\ wire'[k][i] = m
      BY <1>1, <3>5, Elements DEF Appended
    <3>. QED
      BY <1>1, <2>1, <3>4, <3>6, StageKept
  <2>. QED
    BY <1>4, <2>2, <2>3 DEF SendMessage
<1>5. ASSUME NEW e \in Effects, NEW s \in Serial, BrokerFromSub(e, s)
      PROVE  StageInv'
  BY <1>1, <1>5, LinkFacts, AnsweringLinks, StageForward DEF BrokerFromSub
<1>6. ASSUME BrokerToPair
      PROVE  StageInv'
  BY <1>1, <1>6, LinkFacts, AnsweringLinks, StageForward DEF BrokerToPair, BrokerIdle
<1>7. ASSUME BrokerFromPair
      PROVE  StageInv'
  <2>. DEFINE m == Head(wire[ToPlugin])
  <2>1. /\ m.eff \in Effects /\ wire[ToPlugin] # <<>> /\ UNCHANGED performed
        /\ (wire' = Forward(ToPlugin, Down(m.eff))) \/ (wire' = Drop(ToPlugin))
    BY <1>1, <1>7, BrokerFromPairDelivers DEF BrokerFromPair, Message
  <2>2. /\ ToPlugin \in Link /\ Down(m.eff) \in Link /\ Down(m.eff) # ToPlugin
        /\ ToPlugin \in Answering /\ Down(m.eff) \in Answering
        /\ \A e \in Effects : Down(m.eff) # Peer(e)
    BY <2>1, LinkFacts, AnsweringLinks
  <2>. QED
    BY <1>1, <2>1, <2>2, StageForward, StageLess
<1>8. ASSUME PeerReceive
      PROVE  StageInv'
  <2>. DEFINE m == Head(wire[ToHost])
  <2>1. ToHost \in Link /\ wire[ToHost] # <<>> /\ UNCHANGED performed
    BY <1>8, LinkFacts DEF PeerReceive
  <2>2. m.eff \in Effects
    BY <1>1, <2>1, Elements DEF Message
  <2>3. /\ Peer(m.eff) \in Link /\ Peer(m.eff) # ToHost
        /\ ToHost \notin Answering /\ Peer(m.eff) \notin Answering
        /\ \A e \in Effects : Peer(m.eff) = Peer(e) => m.eff = e
    BY <2>2, LinkFacts, AnsweringLinks
  <2>4. wire' = Forward(ToHost, Peer(m.eff))
    BY <1>8 DEF PeerReceive
  <2>. QED
    BY <1>1, <2>1, <2>3, <2>4, StageForward
<1>9. ASSUME NEW e \in Effects, NEW s \in Statuses, PeerReply(e, s)
      PROVE  StageInv'
  <2>. DEFINE m == Head(wire[Peer(e)])
              x == [m EXCEPT !.status = s]
  <2>1. /\ Peer(e) \in Link /\ ToPlugin \in Link
        /\ Peer(e) # ToPlugin /\ wire[Peer(e)] # <<>>
    BY <1>9, LinkFacts DEF PeerReply
  <2>2. m \in Message /\ m = wire[Peer(e)][1] /\ 1 \in 1 .. Len(wire[Peer(e)])
    BY <1>1, <2>1, Elements
  <2>3. m.eff = e
    <3>1. Stage(performed, Peer(e), m)
      BY <1>1, <2>1, <2>2 DEF StageInv
    <3>. QED
      BY <3>1 DEF Stage
  <2>4. x \in Message /\ x.n = m.n /\ x.eff = e /\ x.status = s
    BY <2>2, <2>3 DEF Message
  <2>5. /\ wire' = [wire EXCEPT ![Peer(e)] = Tail(@), ![ToPlugin] = Append(@, x)]
        /\ performed' = [performed EXCEPT ![e] = [n |-> m.n, status |-> s]]
    BY <1>9 DEF PeerReply
  <2>6. \A l \in Link : \A i \in 1 .. Len(wire[l]) :
          wire[l][i].eff = e => l = Peer(e) /\ i = 1
    BY <1>1, <2>1, <2>2, <2>3 DEF OnePerEffect
  <2>. HIDE DEF m, x
  <2>7. Moved(wire, wire', Peer(e), ToPlugin, x) /\ Len(wire[Peer(e)]) \in Nat
        /\ Len(wire[ToPlugin]) \in Nat
    BY <1>1, <2>1, <2>4, <2>5, MoveFacts, Elements
  <2>8. ASSUME NEW l \in Link, NEW y, y.eff \in Effects \ {e}, Stage(performed, l, y)
        PROVE  Stage(performed', l, y)
    BY <1>1, <2>5, <2>8 DEF Stage, TypeOK
  <2>9. Stage(performed', ToPlugin, x)
    <3>1. performed'[x.eff] = [n |-> x.n, status |-> x.status]
      BY <1>1, <2>4, <2>5 DEF TypeOK
    <3>2. ToPlugin \in Answering /\ \A f \in Effects : ToPlugin # Peer(f)
      BY LinkFacts, AnsweringLinks
    <3>. QED
      BY <2>4, <3>1, <3>2 DEF Stage
  <2>10. ASSUME NEW l \in Link, NEW i \in 1 .. Len(wire'[l])
         PROVE  \/ l = ToPlugin /\ wire'[l][i] = x
                \/ \E j \in 1 .. Len(wire[l]) : /\ wire'[l][i] = wire[l][j]
                                                /\ ~ (l = Peer(e) /\ j = 1)
    <3>1. CASE l \notin {Peer(e), ToPlugin}
      BY <2>7, <3>1 DEF Moved
    <3>2. CASE l = Peer(e)
      <4>1. i + 1 \in 1 .. Len(wire[l]) /\ wire'[l][i] = wire[l][i + 1] /\ i + 1 # 1
        BY <2>7, <3>2 DEF Moved
      <4>. QED
        BY <4>1
    <3>3. CASE l = ToPlugin
      BY <2>1, <2>7, <3>3 DEF Moved
    <3>. QED
      BY <3>1, <3>2, <3>3
  <2>11. ASSUME NEW l \in Link, NEW i \in 1 .. Len(wire'[l])
         PROVE  Stage(performed', l, wire'[l][i])
    <3>1. CASE l = ToPlugin /\ wire'[l][i] = x
      BY <2>9, <3>1 DEF Stage
    <3>2. CASE \E j \in 1 .. Len(wire[l]) : /\ wire'[l][i] = wire[l][j]
                                            /\ ~ (l = Peer(e) /\ j = 1)
      <4>1. PICK j \in 1 .. Len(wire[l]) : wire'[l][i] = wire[l][j] /\ ~ (l = Peer(e) /\ j = 1)
        BY <3>2
      <4>. DEFINE y == wire[l][j]
      <4>2. y.eff # e /\ y \in Message /\ Stage(performed, l, y)
        BY <1>1, <2>6, <4>1, Elements DEF StageInv
      <4>3. y.eff \in Effects \ {e}
        BY <4>2 DEF Message
      <4>. HIDE DEF y
      <4>4. PICK z : z = y
        OBVIOUS
      <4>5. Stage(performed', l, z)
        BY <2>8, <4>2, <4>3, <4>4
      <4>6. wire'[l][i] = z
        BY <4>1, <4>4 DEF y
      <4>. QED
        BY <4>5, <4>6 DEF Stage
    <3>. QED
      BY <2>10, <3>1, <3>2
  <2>. QED
    BY <2>11 DEF StageInv
<1>10. ASSUME PeerCrash
       PROVE  StageInv'
  <2>1. WireKept /\ UNCHANGED performed
    BY <1>1, <1>10, PeerCrashKept DEF PeerCrash
  <2>2. PICK k \in 0 .. Len(wire[ToPlugin]) :
          wire' = [l \in Link |->
                     IF l = ToHost \/ l \in {Peer(e) : e \in Effects} THEN <<>>
                     ELSE IF l = ToPlugin THEN SubSeq(wire[l], 1, k)
                     ELSE wire[l]]
    BY <1>10 DEF PeerCrash
  <2>3. ASSUME NEW l \in Link, NEW i \in 1 .. Len(wire'[l])
        PROVE  \E j \in 1 .. Len(wire[l]) : wire'[l][i] = wire[l][j]
    <3>1. CASE wire'[l] = <<>>
      BY <2>3, <3>1, EmptySeq
    <3>2. CASE l = ToPlugin /\ wire'[l] = SubSeq(wire[l], 1, k)
      <4>1. wire[l] \in Seq(Message) /\ Len(wire[l]) \in Nat /\ k \in Nat /\ k <= Len(wire[l])
        BY <1>1, <3>2, Elements
      <4>2. /\ Len(SubSeq(wire[l], 1, k)) = IF 1 <= k THEN k - 1 + 1 ELSE 0
            /\ \A j \in 1 .. k - 1 + 1 : SubSeq(wire[l], 1, k)[j] = wire[l][1 + j - 1]
        BY <4>1, SubSeqProperties
      <4>3. i \in 1 .. k /\ wire'[l][i] = wire[l][i] /\ i \in 1 .. Len(wire[l])
        BY <2>3, <3>2, <4>1, <4>2
      <4>. QED
        BY <4>3
    <3>3. CASE wire'[l] = wire[l]
      BY <2>3, <3>3
    <3>. QED
      BY <2>2, <3>1, <3>2, <3>3
  <2>. QED
    BY <1>1, <2>1, <2>3, StageKept
<1>. QED
  BY <1>2, <1>3, <1>4, <1>5, <1>6, <1>7, <1>8, <1>9, <1>10
     DEF Next, ThreadStep, BrokerStep, PeerStep

\* A thread leaves the body of MainEntry.
LEMMA OutcomeFinish ==
  ASSUME TypeOK, OutcomeInv, NEW t \in Threads, pc[t] # "idle", NEW g, NEW o \in Statuses,
         Finish(t, g, o)
  PROVE  OutcomeInv'
<1>1. call[t] \in Call /\ call[t] # None
  BY InsideHasCall, ConstantsAssumption
<1>2. /\ pc'[t] = "release" /\ call'[t].outcome = o
      /\ \A u \in Threads \ {t} : pc'[u] = pc[u] /\ call'[u] = call[u]
  BY <1>1 DEF Finish, TypeOK, Call
<1>. QED
  BY <1>2 DEF OutcomeInv

\* The message a thread takes is a reply to its own request, with a status.
LEMMA HeadHasStatus ==
  ASSUME ActsInv, NEW t \in Threads, ReceiveMessage(t)
  PROVE  LET m == Head(wire[Down(call[t].eff)])
         IN  /\ m.act = call[t].act /\ m.status \in Statuses
             /\ performed[call[t].eff] = [n |-> call[t].n, status |-> m.status]
<1>. DEFINE e == call[t].eff
            m == Head(wire[Down(e)])
<1>1. TypeOK /\ wire \in WireType /\ StageInv /\ MessagingInv
  BY DEF ActsInv, MessagingInv, TypeOK, WireType
<1>2. m.eff = e /\ m.act = call[t].act /\ m.n = call[t].n
  BY <1>1, HeadIsOwn
<1>3. e \in Effects /\ wire[Down(e)] # <<>>
  BY <1>1, InsideHasCall DEF ReceiveMessage
<1>4. /\ Down(e) \in Link /\ Down(e) \in Answering
      /\ m = wire[Down(e)][1] /\ 1 \in 1 .. Len(wire[Down(e)])
  BY <1>1, <1>3, LinkFacts, AnsweringLinks, Elements
<1>5. Stage(performed, Down(e), m)
  BY <1>1, <1>4 DEF StageInv
<1>. QED
  BY <1>2, <1>4, <1>5 DEF Stage

LEMMA OutcomeStep ==
  ASSUME ActsInv, [Next]_vars
  PROVE  OutcomeInv'
<1>1. TypeOK /\ OutcomeInv
  BY DEF ActsInv, MessagingInv
<1>2. ASSUME NEW t \in Threads, NEW e \in Effects, NEW a \in Requests \cup LocalOnly,
             MainEntry(t, e, a)
      PROVE  OutcomeInv'
  <2>1. /\ pc'[t] = "lock" /\ call'[t].outcome = "none"
        /\ \A u \in Threads \ {t} : pc'[u] = pc[u] /\ call'[u] = call[u]
    BY <1>1, <1>2 DEF MainEntry, TypeOK
  <2>. QED
    BY <1>1, <2>1 DEF OutcomeInv
<1>3. ASSUME NEW t \in Threads, Acquire(t)
      PROVE  OutcomeInv'
  <2>1. /\ pc[t] = "lock" /\ pc'[t] = FirstStep(call[t].act) /\ call' = call
        /\ \A u \in Threads \ {t} : pc'[u] = pc[u]
        /\ call[t].act \in Requests \cup LocalOnly
    BY <1>1, <1>3, InsideHasCall DEF Acquire, TypeOK
  <2>2. pc'[t] # "release" /\ (pc'[t] = "local" => call[t].act \in LocalOnly)
    BY <2>1 DEF FirstStep
  <2>. QED
    BY <1>1, <2>1, <2>2 DEF OutcomeInv
<1>4. ASSUME NEW t \in Threads, Connect(t) \/ SendMessage(t)
      PROVE  OutcomeInv'
  <2>1. /\ pc[t] # "release" /\ pc'[t] \notin {"local", "release"} /\ call' = call
        /\ \A u \in Threads \ {t} : pc'[u] = pc[u]
    BY <1>1, <1>4 DEF Connect, SendMessage, TypeOK
  <2>. QED
    BY <1>1, <2>1 DEF OutcomeInv
<1>5. ASSUME NEW t \in Threads, RunLocally(t) \/ SendFails(t) \/ ReceiveFails(t)
      PROVE  OutcomeInv'
  <2>1. pc[t] # "idle" /\ \E o \in Statuses : Finish(t, 0, o)
    BY <1>5 DEF RunLocally, SendFails, ReceiveFails, Statuses
  <2>. QED
    BY <1>1, <2>1, OutcomeFinish
<1>6. ASSUME NEW t \in Threads, ReceiveMessage(t)
      PROVE  OutcomeInv'
  <2>. DEFINE m == Head(wire[Down(call[t].eff)])
  <2>1. PICK o \in Results(call[t], m) : pc[t] # "idle" /\ Finish(t, m.n, o)
    BY <1>6 DEF ReceiveMessage
  <2>2. m.act = call[t].act /\ m.status \in Statuses
    BY <1>6, HeadHasStatus
  <2>3. o \in Statuses
    BY <2>2 DEF Results, Statuses
  <2>. QED
    BY <1>1, <2>1, <2>3, OutcomeFinish
<1>7. ASSUME NEW t \in Threads, Release(t)
      PROVE  OutcomeInv'
  <2>1. /\ call'[t] = None
        /\ \A u \in Threads \ {t} : pc'[u] = pc[u] /\ call'[u] = call[u]
    BY <1>1, <1>7 DEF Release, TypeOK
  <2>. QED
    BY <1>1, <2>1 DEF OutcomeInv
<1>8. ASSUME BrokerStep \/ PeerStep \/ PeerCrash \/ AllReturned \/ UNCHANGED vars
      PROVE  OutcomeInv'
  BY <1>1, <1>8, OthersLeaveThreads DEF OutcomeInv
<1>. QED
  BY <1>2, <1>3, <1>4, <1>5, <1>6, <1>7, <1>8 DEF Next, ThreadStep

LEMMA PerformedStep ==
  ASSUME ActsInv, [Next]_vars
  PROVE  PerformedInv'
<1>1. TypeOK /\ PerformedInv /\ SerialsIn /\ wire \in WireType
  BY SerialInvParts DEF ActsInv, MessagingInv, TypeOK, WireType
<1>2. ASSUME NEW t \in Threads, NEW e \in Effects, NEW a \in Requests \cup LocalOnly,
             MainEntry(t, e, a)
      PROVE  PerformedInv'
  <2>1. /\ call'[t].n = calls + 1 /\ calls' = calls + 1 /\ performed' = performed
        /\ \A u \in Threads \ {t} : pc'[u] = pc[u] /\ call'[u] = call[u]
    BY <1>1, <1>2 DEF MainEntry, TypeOK
  <2>2. calls \in Nat /\ \A f \in Effects : performed[f].n \in Nat /\ performed[f].n <= calls
    BY <1>1, ConstantsAssumption DEF TypeOK, PerformedInv
  <2>3. \A f \in Effects : performed[f].n <= calls + 1 /\ performed[f].n # calls + 1
    BY <2>2
  <2>. QED
    BY <1>1, <2>1, <2>3 DEF PerformedInv
<1>3. ASSUME NEW e \in Effects, NEW s \in Statuses, PeerReply(e, s)
      PROVE  PerformedInv'
  <2>. DEFINE m == Head(wire[Peer(e)])
  <2>1. /\ UNCHANGED <<pc, call, calls>>
        /\ performed' = [performed EXCEPT ![e] = [n |-> m.n, status |-> s]]
    BY <1>3 DEF PeerReply
  <2>2. /\ Peer(e) \in Link /\ m = wire[Peer(e)][1] /\ 1 \in 1 .. Len(wire[Peer(e)])
    BY <1>1, <1>3, LinkFacts, Elements DEF PeerReply
  <2>3. Bears(wire, m.n)
    BY <2>2 DEF Bears
  <2>4. m.n <= calls /\ \A u \in Threads : pc[u] \in Unsent => m.n # call[u].n
    BY <1>1, <2>3 DEF SerialsIn
  <2>. HIDE DEF m
  <2>5. \A f \in Effects : performed'[f].n = m.n \/ performed'[f].n = performed[f].n
    BY <1>1, <2>1 DEF TypeOK
  <2>. QED
    BY <1>1, <2>1, <2>4, <2>5 DEF PerformedInv
<1>4. ASSUME \/ BrokerStep \/ PeerCrash \/ AllReturned \/ UNCHANGED vars \/ PeerReceive
             \/ \E t \in Threads : ThreadStep(t) \/ ReceiveFails(t)
      PROVE  PerformedInv'
  <2>1. UNCHANGED <<calls, performed>>
    BY <1>4 DEF BrokerStep, PeerCrash, AllReturned, vars, PeerReceive, Join, BrokerFromSub,
                BrokerToPair, BrokerFromPair, ThreadStep, Acquire, RunLocally, Connect,
                SendMessage, SendFails, ReceiveMessage, ReceiveFails, Release
  <2>2. ASSUME NEW u \in Threads, pc'[u] \in Unsent
        PROVE  pc[u] \in Unsent /\ call'[u] = call[u]
    <3>1. CASE BrokerStep \/ PeerCrash \/ AllReturned \/ UNCHANGED vars \/ PeerReceive
      BY <2>2, <3>1, OthersLeaveThreads DEF PeerStep
    <3>2. ASSUME NEW t \in Threads, Acquire(t) \/ Connect(t) \/ SendMessage(t)
          PROVE  pc[u] \in Unsent /\ call'[u] = call[u]
      BY <1>1, <2>2, <3>2 DEF Acquire, Connect, SendMessage, TypeOK, Unsent
    <3>3. ASSUME NEW t \in Threads, \/ RunLocally(t) \/ SendFails(t) \/ ReceiveMessage(t)
                                    \/ ReceiveFails(t) \/ Release(t)
          PROVE  pc[u] \in Unsent /\ call'[u] = call[u]
      <4>1. /\ pc'[t] \notin Unsent
            /\ \A v \in Threads \ {t} : pc'[v] = pc[v] /\ call'[v] = call[v]
        BY <1>1, <3>3 DEF RunLocally, SendFails, ReceiveMessage, ReceiveFails, Release,
                          Finish, TypeOK, Unsent
      <4>. QED
        BY <2>2, <4>1
    <3>. QED
      BY <1>4, <3>1, <3>2, <3>3 DEF ThreadStep
  <2>. QED
    BY <1>1, <2>1, <2>2 DEF PerformedInv
<1>. QED
  BY <1>2, <1>3, <1>4 DEF Next, PeerStep

LEMMA ActsInvariant ==
  ASSUME RecvMayFail = FALSE
  PROVE  Spec => []ActsInv
<1>1. Init => ActsInv
  <2>. SUFFICES ASSUME Init PROVE ActsInv
    OBVIOUS
  <2>1. \A l \in Link : Len(wire[l]) = 0
    BY EmptySeq DEF Init
  <2>2. StageInv /\ OutcomeInv
    BY <2>1 DEF Init, StageInv, OutcomeInv
  <2>3. PerformedInv
    <3>1. \A u \in Threads : pc[u] \notin Unsent
      BY DEF Init, Unsent
    <3>. QED
      BY <3>1 DEF Init, PerformedInv
  <2>. QED
    BY <2>2, <2>3, MessagingInit, SerialInit DEF ActsInv
<1>2. ActsInv /\ [Next]_vars => ActsInv'
  <2>. SUFFICES ASSUME ActsInv, [Next]_vars PROVE ActsInv'
    OBVIOUS
  <2>. QED
    BY MessagingStep, SerialStep, StageStep, OutcomeStep, PerformedStep DEF ActsInv
<1>. QED
  BY <1>1, <1>2, PTL DEF Spec

\* A call as RemoteActions sees it.
Shown(c) == IF c = None THEN None
            ELSE [eff |-> c.eff, act |-> c.act, n |-> c.n, outcome |-> c.outcome]

ShownCalls == [t \in Threads |-> Shown(call[t])]

LEMMA ShownFacts ==
  ASSUME NEW c \in Call
  PROVE  /\ Shown(c) \in RemoteCall /\ Shown(c) # None
         /\ Shown(c).eff = c.eff /\ Shown(c).act = c.act /\ Shown(c).n = c.n
         /\ Shown(c).outcome = c.outcome
<1>1. c # None
  BY ConstantsAssumption
<1>2. Shown(c) = [eff |-> c.eff, act |-> c.act, n |-> c.n, outcome |-> c.outcome]
  BY <1>1 DEF Shown
<1>3. Shown(c) \in RemoteCall
  BY <1>2 DEF Call, RemoteCall
<1>. QED
  BY <1>2, <1>3, ConstantsAssumption

LEMMA FinishConcludes ==
  ASSUME ActsInv, NEW t \in Threads, pc[t] \in Busy \ {"release"},
         NEW g \in 0 .. MaxCalls, NEW o \in Statuses, Finish(t, g, o),
         UNCHANGED <<m_effect_lock, performed, calls>>,
         \/ o = "Failed"
         \/ call[t].act \in LocalOnly
         \/ performed[call[t].eff] = [n |-> call[t].n, status |-> "OK"]
  PROVE  Remote!Next
<1>1. TypeOK /\ LockInv /\ OutcomeInv
  BY DEF ActsInv, MessagingInv
<1>2. call[t] \in Call /\ call[t] # None /\ call[t].outcome = "none"
  BY <1>1, InsideHasCall, ConstantsAssumption DEF Busy, OutcomeInv
<1>3. m_effect_lock[call[t].eff] = t
  BY <1>1 DEF LockInv, Busy
<1>4. call' = [call EXCEPT ![t] = [@ EXCEPT !.got = g, !.outcome = o]]
  BY DEF Finish
<1>. DEFINE c == [call[t] EXCEPT !.got = g, !.outcome = o]
<1>5. c # None /\ Shown(c) = [Shown(call[t]) EXCEPT !.outcome = o]
  <2>1. /\ c.eff = call[t].eff /\ c.act = call[t].act /\ c.n = call[t].n /\ c.outcome = o
    BY <1>2 DEF Call
  <2>2. c \in Call
    BY <1>2 DEF Call
  <2>3. c # None
    BY <2>2, ConstantsAssumption
  <2>. QED
    BY <1>2, <2>1, <2>3 DEF Shown
<1>6. ShownCalls' = [ShownCalls EXCEPT ![t].outcome = o]
  BY <1>1, <1>4, <1>5 DEF ShownCalls, TypeOK
<1>7. ShownCalls[t] = Shown(call[t])
  BY DEF ShownCalls
<1>8. Remote!Conclude(t, o)
  BY <1>2, <1>3, <1>6, <1>7, ShownFacts DEF Remote!Conclude, ShownCalls, Shown
<1>. QED
  BY <1>8 DEF Remote!Next, Statuses

\* A step of the brokers or inside MainEntry that RemoteActions does not see.
LEMMA NotShown ==
  ASSUME UNCHANGED <<call, m_effect_lock, performed, calls>>
  PROVE  UNCHANGED Remote!vars
  BY DEF Remote!vars

LEMMA ActsStep ==
  ASSUME RecvMayFail = FALSE, ActsInv, [Next]_vars
  PROVE  [Remote!Next]_(Remote!vars)
<1>1. TypeOK /\ TypeInv /\ LockInv /\ OutcomeInv /\ StageInv /\ wire \in WireType /\ MessagingInv
  BY DEF ActsInv, MessagingInv, TypeInv, TypeOK, WireType
<1>2. ASSUME NEW t \in Threads, NEW e \in Effects, NEW a \in Requests \cup LocalOnly,
             MainEntry(t, e, a)
      PROVE  Remote!Next
  <2>. DEFINE c == [eff |-> e, act |-> a, n |-> calls + 1, got |-> 0, outcome |-> "none"]
  <2>1. /\ call[t] = None /\ calls < MaxCalls /\ calls' = calls + 1
        /\ call' = [call EXCEPT ![t] = c] /\ UNCHANGED <<m_effect_lock, performed>>
    BY <1>1, <1>2 DEF MainEntry, TypeOK
  <2>2. c \in Call
    <3>1. calls + 1 \in Serial /\ 0 \in 0 .. MaxCalls
      BY <1>1, <2>1, ConstantsAssumption DEF TypeOK, Serial
    <3>. QED
      BY <3>1 DEF Call
  <2>3. Shown(c) = [eff |-> e, act |-> a, n |-> calls + 1, outcome |-> "none"]
    BY <2>2, ConstantsAssumption DEF Shown
  <2>. HIDE DEF c
  <2>4. ShownCalls' = [ShownCalls EXCEPT ![t] = Shown(c)]
    BY <1>1, <2>1 DEF ShownCalls, TypeOK
  <2>5. ShownCalls[t] = None
    BY <2>1 DEF ShownCalls, Shown
  <2>6. Remote!Invoke(t, e, a)
    BY <2>1, <2>3, <2>4, <2>5 DEF Remote!Invoke, ShownCalls, Shown
  <2>. QED
    BY <2>6 DEF Remote!Next
<1>3. ASSUME NEW t \in Threads, Acquire(t)
      PROVE  Remote!Next
  <2>1. call[t] \in Call /\ ShownCalls[t] = Shown(call[t])
    BY <1>1, <1>3, InsideHasCall DEF Acquire, ShownCalls
  <2>2. /\ m_effect_lock[call[t].eff] = None
        /\ m_effect_lock' = [m_effect_lock EXCEPT ![call[t].eff] = t]
        /\ UNCHANGED <<call, performed, calls>>
    BY <1>3 DEF Acquire, LockFree
  <2>3. Shown(call[t]) # None /\ Shown(call[t]).eff = call[t].eff
    BY <2>1, ShownFacts
  <2>4. Remote!TakeTurn(t)
    BY <2>1, <2>2, <2>3 DEF Remote!TakeTurn, ShownCalls, Shown
  <2>. QED
    BY <2>4 DEF Remote!Next
<1>4. ASSUME NEW t \in Threads, RunLocally(t)
      PROVE  Remote!Next
  <2>1. PICK o \in Statuses : Finish(t, 0, o)
    BY <1>4 DEF RunLocally
  <2>2. /\ pc[t] = "local" /\ UNCHANGED <<m_effect_lock, performed, calls>>
        /\ call[t].act \in LocalOnly /\ 0 \in 0 .. MaxCalls
    BY <1>1, <1>4, ConstantsAssumption DEF RunLocally, OutcomeInv, TypeOK
  <2>. QED
    BY <2>1, <2>2, FinishConcludes DEF Busy
<1>5. ASSUME NEW t \in Threads, SendFails(t)
      PROVE  Remote!Next
  <2>1. /\ pc[t] = "send" /\ UNCHANGED <<m_effect_lock, performed, calls>>
        /\ Finish(t, 0, "Failed") /\ 0 \in 0 .. MaxCalls /\ "Failed" \in Statuses
    BY <1>5, ConstantsAssumption DEF SendFails, Statuses
  <2>. QED
    BY <2>1, FinishConcludes DEF Busy
<1>6. ASSUME NEW t \in Threads, ReceiveMessage(t)
      PROVE  Remote!Next
  <2>. DEFINE m == Head(wire[Down(call[t].eff)])
  <2>1. PICK o \in Results(call[t], m) : Finish(t, m.n, o)
    BY <1>6 DEF ReceiveMessage
  <2>2. /\ m.act = call[t].act /\ m.status \in Statuses
        /\ performed[call[t].eff] = [n |-> call[t].n, status |-> m.status]
    BY <1>6, HeadHasStatus
  <2>3. o \in Statuses /\ (o = "Failed" \/ m.status = "OK")
    BY <2>2 DEF Results, Statuses
  <2>4. /\ pc[t] = "recv" /\ UNCHANGED <<m_effect_lock, performed, calls>>
    BY <1>6 DEF ReceiveMessage
  <2>5. m.n \in 0 .. MaxCalls
    <3>1. m \in Message
      BY <1>1, <1>6, HeadIsOwn
    <3>. QED
      BY <3>1 DEF Message, Serial
  <2>6. o = "Failed" \/ performed[call[t].eff] = [n |-> call[t].n, status |-> "OK"]
    BY <2>2, <2>3
  <2>. HIDE DEF m
  <2>. QED
    BY <2>1, <2>3, <2>4, <2>5, <2>6, FinishConcludes DEF Busy
<1>7. ASSUME NEW t \in Threads, Release(t)
      PROVE  Remote!Next
  <2>1. call[t] \in Call /\ ShownCalls[t] = Shown(call[t])
    BY <1>1, <1>7, InsideHasCall DEF Release, ShownCalls
  <2>2. /\ m_effect_lock' = [m_effect_lock EXCEPT ![call[t].eff] = None]
        /\ call' = [call EXCEPT ![t] = None] /\ UNCHANGED <<performed, calls>>
        /\ call[t].outcome \in Statuses
    BY <1>1, <1>7, <2>1, ConstantsAssumption DEF Release, OutcomeInv
  <2>3. /\ Shown(call[t]) # None /\ Shown(call[t]).eff = call[t].eff
        /\ Shown(call[t]).outcome # "none"
    BY <2>1, <2>2, ShownFacts DEF Statuses
  <2>4. ShownCalls' = [ShownCalls EXCEPT ![t] = None]
    BY <1>1, <2>2 DEF ShownCalls, Shown, TypeOK
  <2>5. Remote!Return(t)
    BY <2>1, <2>2, <2>3, <2>4 DEF Remote!Return, ShownCalls, Shown
  <2>. QED
    BY <2>5 DEF Remote!Next
<1>8. ASSUME NEW e \in Effects, NEW s \in Statuses, PeerReply(e, s)
      PROVE  Remote!Next
  <2>. DEFINE m == Head(wire[Peer(e)])
  <2>1. /\ performed' = [performed EXCEPT ![e] = [n |-> m.n, status |-> s]]
        /\ UNCHANGED <<call, m_effect_lock, calls>>
    BY <1>8 DEF PeerReply
  <2>2. /\ Peer(e) \in Link /\ Peer(e) \notin Answering
        /\ m = wire[Peer(e)][1] /\ 1 \in 1 .. Len(wire[Peer(e)])
    BY <1>1, <1>8, LinkFacts, AnsweringLinks, Elements DEF PeerReply
  <2>3. m.eff = e /\ performed[e].n # m.n
    <3>1. Stage(performed, Peer(e), m)
      BY <1>1, <2>2 DEF StageInv
    <3>. QED
      BY <2>2, <3>1 DEF Stage
  <2>4. PICK t \in Threads : Awaits(t, m)
    BY <1>1, <2>2 DEF MessagingInv, AwaitedInv
  <2>5. /\ pc[t] = "recv" /\ call[t].eff = e /\ call[t].n = m.n /\ call[t] \in Call
        /\ call[t].act \in Requests /\ m_effect_lock[e] = t
    BY <1>1, <2>3, <2>4, InsideHasCall DEF Awaits, TypeInv, RequestInv, LockInv, Busy
  <2>6. call[t].outcome = "none"
    BY <1>1, <2>5, ConstantsAssumption DEF OutcomeInv
  <2>7. /\ ShownCalls[t] = Shown(call[t]) /\ Shown(call[t]) # None
        /\ Shown(call[t]).eff = e /\ Shown(call[t]).n = m.n
        /\ Shown(call[t]).act \in Requests /\ Shown(call[t]).outcome = "none"
    BY <2>5, <2>6, ShownFacts DEF ShownCalls
  <2>. HIDE DEF m
  <2>8. Remote!Perform(t, s)
    BY <2>1, <2>3, <2>5, <2>7 DEF Remote!Perform, ShownCalls, Shown
  <2>. QED
    BY <2>8 DEF Remote!Next, Statuses
<1>9. ASSUME \/ \E t \in Threads : Connect(t) \/ SendMessage(t)
             \/ BrokerStep \/ PeerReceive \/ PeerCrash \/ AllReturned \/ UNCHANGED vars
      PROVE  UNCHANGED Remote!vars
  <2>1. UNCHANGED <<call, m_effect_lock, performed, calls>>
    BY <1>9 DEF Connect, SendMessage, BrokerStep, PeerReceive, PeerCrash, AllReturned, vars,
                Join, BrokerFromSub, BrokerToPair, BrokerFromPair
  <2>. QED
    BY <2>1, NotShown
<1>10. \A t \in Threads : ~ ReceiveFails(t)
  BY DEF ReceiveFails
<1>. QED
  BY <1>2, <1>3, <1>4, <1>5, <1>6, <1>7, <1>8, <1>9, <1>10 DEF Next, ThreadStep, PeerStep

\* The proxy implements RemoteActions as long as receive_message does not fail:
\* calls of an effect take turns, the remote side performs an action at most
\* once and only while its caller waits, and MainEntry returns kOfxStatOK only
\* for an action performed with that status, even where the remote process dies
\* or a late subscription loses messages.
THEOREM ActsAsRemoteHolds ==
  ASSUME RecvMayFail = FALSE
  PROVE  Spec => ActsAsRemote
<1>1. Init => Remote!Init
  BY DEF Init, Remote!Init
<1>2. ActsInv /\ [Next]_vars => [Remote!Next]_(Remote!vars)
  BY ActsStep
<1>. QED
  BY <1>1, <1>2, ActsInvariant, PTL DEF Spec, ActsAsRemote, Remote!Spec
=============================================================================
