------------------------ MODULE VectorDownwardProofs -----------------------
(***************************************************************************)
(* What each operation of a vector_downward does to the two stacks in it,  *)
(* for memory of any initial size and alignment, and bytes of any set C.   *)
(***************************************************************************)
EXTENDS VectorDownward, SequenceTheorems, TLAPS

\* What every vector_downward is between two operations.
Good(v, C) ==
  /\ v \in [buf : {v.buf}, reserved : Nat, size : Nat, cur : Nat, scratch : Nat]
  /\ v.buf \in [0 .. v.reserved - 1 -> C]
  /\ v.cur = v.reserved - v.size
  /\ v.scratch <= v.cur

----------------------------------------------------------------------------
(* Numbers.                                                                *)

LEMMA RoundUpGrows ==
  ASSUME NEW n \in Nat
  PROVE  RoundUp(n) \in Nat /\ RoundUp(n) >= n
<1>. DEFINE m == n + BufferMinAlign - 1
<1>1. BufferMinAlign \in Nat /\ BufferMinAlign > 0 /\ m \in Nat
  BY DownwardAssumption
<1>2. m % BufferMinAlign \in 0 .. BufferMinAlign - 1
  BY <1>1
<1>3. RoundUp(n) = m - (m % BufferMinAlign)
  BY DEF RoundUp, RoundDown
<1>. HIDE DEF m
<1>4. m = n + BufferMinAlign - 1
  BY DEF m
<1>. QED
  BY <1>1, <1>2, <1>3, <1>4

LEMMA Half ==
  ASSUME NEW n \in Nat
  PROVE  n \div 2 \in Nat
OBVIOUS

\* There is room for len more bytes.
LEMMA NewReservedGrows ==
  ASSUME NEW v, v.reserved \in Nat, NEW len \in Nat
  PROVE  NewReserved(v, len) \in Nat /\ NewReserved(v, len) >= v.reserved + len
<1>. DEFINE step == IF v.reserved = 0 THEN InitialSize ELSE v.reserved \div 2
            more == IF len > step THEN len ELSE step
<1>1. step \in Nat
  BY DownwardAssumption, Half
<1>. HIDE DEF step
<1>2. more \in Nat /\ more >= len
  BY <1>1
<1>3. NewReserved(v, len) = RoundUp(v.reserved + more)
  BY DEF NewReserved, step
<1>. HIDE DEF more
<1>4. v.reserved + more \in Nat /\ v.reserved + more >= v.reserved + len
  BY <1>2
<1>5. /\ RoundUp(v.reserved + more) \in Nat
      /\ RoundUp(v.reserved + more) >= v.reserved + more
  BY <1>4, RoundUpGrows
<1>. QED
  BY <1>2, <1>3, <1>4, <1>5

----------------------------------------------------------------------------
(* The stacks are sequences.                                               *)

LEMMA GoodStacks ==
  ASSUME NEW C, Undefined \in C, NEW v, Good(v, C)
  PROVE  /\ Data(v) \in Seq(C) /\ Len(Data(v)) = v.size
         /\ \A k \in 1 .. v.size : Data(v)[k] = v.buf[v.cur + k - 1]
         /\ Scratch(v) \in Seq(C) /\ Len(Scratch(v)) = v.scratch
         /\ \A k \in 1 .. v.scratch : Scratch(v)[k] = v.buf[k - 1]
<1>1. /\ v.size \in Nat /\ v.scratch \in Nat /\ v.cur \in Nat /\ v.reserved \in Nat
      /\ v.cur = v.reserved - v.size /\ v.scratch <= v.cur
  BY DEF Good
<1>2. \A k \in 1 .. v.size : v.cur + k - 1 \in 0 .. v.reserved - 1
  BY <1>1
<1>3. \A k \in 1 .. v.scratch : k - 1 \in 0 .. v.reserved - 1
  BY <1>1
<1>4. \A p \in 0 .. v.reserved - 1 : v.buf[p] \in C
  BY DEF Good
<1>5. Data(v) \in [1 .. v.size -> C]
  BY <1>2, <1>4 DEF Data
<1>6. Scratch(v) \in [1 .. v.scratch -> C]
  BY <1>3, <1>4 DEF Scratch
<1>7. Data(v) \in Seq(C) /\ Len(Data(v)) = v.size
  BY <1>1, <1>5, SeqDef, LenProperties
<1>8. Scratch(v) \in Seq(C) /\ Len(Scratch(v)) = v.scratch
  BY <1>1, <1>6, SeqDef, LenProperties
<1>9. \A k \in 1 .. v.size : Data(v)[k] = v.buf[v.cur + k - 1]
  BY DEF Data
<1>10. \A k \in 1 .. v.scratch : Scratch(v)[k] = v.buf[k - 1]
  BY DEF Scratch
<1>. QED
  BY <1>7, <1>8, <1>9, <1>10

\* Two stacks are the same when their sizes and their bytes are.
LEMMA SameStack ==
  ASSUME NEW s, NEW t, NEW n \in Nat, NEW S,
         s \in [1 .. n -> S], t \in [1 .. n -> S],
         \A k \in 1 .. n : s[k] = t[k]
  PROVE  s = t
OBVIOUS

----------------------------------------------------------------------------
(* Growing.                                                                *)

\* Both stacks survive, at their ends of the new memory.
LEMMA Reallocated ==
  ASSUME NEW C, Undefined \in C, NEW v, Good(v, C), NEW len \in Nat
  PROVE  /\ Good(Reallocate(v, len), C)
         /\ Reallocate(v, len).size = v.size /\ Reallocate(v, len).scratch = v.scratch
         /\ len <= Reallocate(v, len).cur - v.scratch
         /\ Data(Reallocate(v, len)) = Data(v)
         /\ Scratch(Reallocate(v, len)) = Scratch(v)
<1>. DEFINE r == NewReserved(v, len)
            w == Reallocate(v, len)
<1>1. /\ v.size \in Nat /\ v.scratch \in Nat /\ v.cur \in Nat /\ v.reserved \in Nat
      /\ v.cur = v.reserved - v.size /\ v.scratch <= v.cur
  BY DEF Good
<1>2. r \in Nat /\ r >= v.reserved + len
  BY <1>1, NewReservedGrows
<1>3. /\ w \in [buf : {w.buf}, reserved : {r}, size : {v.size}, cur : {r - v.size},
                scratch : {v.scratch}]
      /\ w.buf = MemcpyDownward(v, r)
  BY DEF Good, Reallocate, MoveTo
<1>. HIDE DEF r, w
<1>4. /\ r - v.size \in Nat /\ v.scratch + len <= r - v.size
  BY <1>1, <1>2
<1>5. \A k \in 0 .. r - 1 : k >= r - v.size => k - r + v.reserved \in 0 .. v.reserved - 1
  BY <1>1, <1>2
<1>6. \A k \in 0 .. r - 1 : k < v.scratch => k \in 0 .. v.reserved - 1
  BY <1>1
<1>7. \A p \in 0 .. v.reserved - 1 : v.buf[p] \in C
  BY DEF Good
<1>8. w.buf \in [0 .. r - 1 -> C]
  BY <1>3, <1>5, <1>6, <1>7 DEF MemcpyDownward
<1>9. Good(w, C)
  BY <1>1, <1>2, <1>3, <1>4, <1>8 DEF Good
<1>10. \A k \in 1 .. v.size :
         /\ r - v.size + k - 1 \in 0 .. r - 1
         /\ ~(r - v.size + k - 1 < v.scratch)
         /\ r - v.size + k - 1 >= r - v.size
         /\ (r - v.size + k - 1) - r + v.reserved = v.cur + k - 1
  BY <1>1, <1>2, <1>4
<1>11. \A k \in 1 .. v.size : w.buf[r - v.size + k - 1] = v.buf[v.cur + k - 1]
  BY <1>3, <1>10 DEF MemcpyDownward
<1>12. \A k \in 1 .. v.scratch : k - 1 \in 0 .. r - 1 /\ k - 1 < v.scratch
  BY <1>1, <1>2, <1>4
<1>13. \A k \in 1 .. v.scratch : w.buf[k - 1] = v.buf[k - 1]
  BY <1>3, <1>12 DEF MemcpyDownward
<1>14. Data(w) = Data(v) /\ Scratch(w) = Scratch(v)
  BY <1>3, <1>11, <1>13 DEF Data, Scratch
<1>. QED
  BY <1>1, <1>3, <1>4, <1>9, <1>14 DEF w

\* There is room for len bytes between the stacks.
LEMMA SpaceEnsured ==
  ASSUME NEW C, Undefined \in C, NEW v, Good(v, C), NEW len \in Nat
  PROVE  /\ Good(EnsureSpace(v, len), C)
         /\ EnsureSpace(v, len).size = v.size /\ EnsureSpace(v, len).scratch = v.scratch
         /\ len <= EnsureSpace(v, len).cur - v.scratch
         /\ Data(EnsureSpace(v, len)) = Data(v)
         /\ Scratch(EnsureSpace(v, len)) = Scratch(v)
<1>1. v.cur \in Nat /\ v.scratch \in Nat
  BY DEF Good
<1>2. CASE len > v.cur - v.scratch
  BY <1>2, Reallocated DEF EnsureSpace
<1>3. CASE ~(len > v.cur - v.scratch)
  BY <1>1, <1>3 DEF EnsureSpace
<1>. QED
  BY <1>2, <1>3

----------------------------------------------------------------------------
(* The operations are those of two stacks.                                 *)

LEMMA PlaceAbove ==
  ASSUME NEW p \in Nat, NEW len \in Nat, NEW size \in Nat, NEW cur \in Nat, NEW reserved \in Nat,
         p + len <= cur, cur = reserved - size, NEW k \in 1 .. size
  PROVE  cur + k - 1 \in 0 .. reserved - 1 /\ cur + k - 1 \notin p .. p + len - 1
OBVIOUS

LEMMA PlaceInScratch ==
  ASSUME NEW p \in Nat, NEW len \in Nat, NEW size \in Nat, NEW cur \in Nat, NEW reserved \in Nat,
         p + len <= cur, cur = reserved - size, NEW k \in p + 1 .. p + len
  PROVE  /\ k \in 1 .. p + len /\ k - 1 \in 0 .. reserved - 1
         /\ k - 1 \in p .. p + len - 1 /\ (k - 1) - p + 1 = k - p
OBVIOUS

LEMMA PlaceInData ==
  ASSUME NEW p \in Nat, NEW len \in Nat, NEW size \in Nat, NEW cur \in Nat, NEW reserved \in Nat,
         p + len = cur, cur = reserved - size, NEW k \in len + 1 .. len + size
  PROVE  /\ k \in 1 .. size + len /\ p + k - 1 \in 0 .. reserved - 1
         /\ p + k - 1 \notin p .. p + len - 1
         /\ k - len \in 1 .. size /\ cur + (k - len) - 1 = p + k - 1
OBVIOUS

\* Bytes pushed are in front of the data, and nothing else changes.
LEMMA Pushed ==
  ASSUME NEW C, Undefined \in C, NEW v, Good(v, C), NEW bytes \in Seq(C)
  PROVE  /\ Good(Push(v, bytes), C)
         /\ Data(Push(v, bytes)) = bytes \o Data(v)
         /\ Scratch(Push(v, bytes)) = Scratch(v)
<1>. DEFINE len == Len(bytes)
            e   == EnsureSpace(v, len)
            w   == Push(v, bytes)
<1>1. len \in Nat /\ \A k \in 1 .. len : bytes[k] \in C
  BY LenProperties
<1>2. CASE len = 0
  <2>1. bytes = <<>>
    BY <1>2
  <2>2. MakeSpace(v, 0) = v
    BY DEF MakeSpace
  <2>3. WriteAt(v.buf, v.cur, bytes) = v.buf
    <3>1. v.cur \in Nat
      BY DEF Good
    <3>2. \A k \in DOMAIN v.buf : k \notin v.cur .. v.cur + 0 - 1
      BY <3>1
    <3>3. v.buf = [k \in DOMAIN v.buf |-> v.buf[k]]
      BY DEF Good
    <3>. QED
      BY <1>2, <3>2, <3>3 DEF WriteAt
  <2>4. w = [v EXCEPT !.buf = v.buf]
    BY <1>2, <2>2, <2>3 DEF Push, WriteData
  <2>5. w = v
    BY <2>4 DEF Good
  <2>6. <<>> \o Data(v) = Data(v)
    BY GoodStacks
  <2>. QED
    BY <2>1, <2>5, <2>6
<1>3. CASE len # 0
  <2>1. /\ Good(e, C) /\ e.size = v.size /\ e.scratch = v.scratch
        /\ len <= e.cur - e.scratch
        /\ Data(e) = Data(v) /\ Scratch(e) = Scratch(v)
    BY <1>1, SpaceEnsured
  <2>2. MakeSpace(v, len) = [e EXCEPT !.cur = e.cur - len, !.size = e.size + len]
    BY <1>3 DEF MakeSpace
  <2>. HIDE DEF e
  <2>. DEFINE p == e.cur - len
              buf == WriteAt(e.buf, p, bytes)
  <2>3. /\ w \in [buf : {w.buf}, reserved : {e.reserved}, size : {e.size + len},
                  cur : {p}, scratch : {e.scratch}]
        /\ w.buf = buf
    BY <2>1, <2>2 DEF Push, WriteData, Good
  <2>. HIDE DEF w, len
  <2>4. /\ e.size \in Nat /\ e.scratch \in Nat /\ e.cur \in Nat /\ e.reserved \in Nat
        /\ e.cur = e.reserved - e.size
    BY <2>1 DEF Good
  <2>5. p \in Nat /\ e.scratch <= p /\ p + len = e.cur
    BY <1>1, <2>1, <2>4
  <2>6. DOMAIN e.buf = 0 .. e.reserved - 1 /\ \A k \in DOMAIN e.buf : e.buf[k] \in C
    BY <2>1 DEF Good
  <2>7. \A k : k \in p .. p + len - 1 => k - p + 1 \in 1 .. len
    BY <1>1, <2>5
  <2>8. /\ buf \in [0 .. e.reserved - 1 -> C]
        /\ \A k \in 0 .. e.reserved - 1 :
             buf[k] = IF k \in p .. p + len - 1 THEN bytes[k - p + 1] ELSE e.buf[k]
    BY <1>1, <2>6, <2>7 DEF WriteAt, len
  <2>. HIDE DEF buf
  <2>9. Good(w, C)
    <3>1. /\ w.reserved = e.reserved /\ w.size = e.size + len /\ w.cur = p
          /\ w.scratch = e.scratch
      BY <2>3
    <3>2. e.size + len \in Nat /\ p = e.reserved - (e.size + len)
      BY <1>1, <2>4
    <3>3. w \in [buf : {w.buf}, reserved : Nat, size : Nat, cur : Nat, scratch : Nat]
      BY <2>3, <2>4, <2>5, <3>2
    <3>. HIDE DEF p
    <3>. QED
      BY <2>3, <2>5, <2>8, <3>1, <3>2, <3>3 DEF Good
  <2>. HIDE DEF p
  <2>10. Scratch(w) = Scratch(e)
    <3>1. \A k \in 1 .. e.scratch : k - 1 \in 0 .. e.reserved - 1 /\ k - 1 \notin p .. p + len - 1
      BY <1>1, <2>4, <2>5
    <3>2. \A k \in 1 .. e.scratch : w.buf[k - 1] = e.buf[k - 1]
      BY <2>3, <2>8, <3>1
    <3>. QED
      BY <2>3, <3>2 DEF Scratch
  <2>11. /\ Data(w) \in Seq(C) /\ Len(Data(w)) = e.size + len
         /\ \A k \in 1 .. e.size + len : Data(w)[k] = w.buf[p + k - 1]
    BY <2>3, <2>9, GoodStacks
  <2>12. /\ Data(e) \in Seq(C) /\ Len(Data(e)) = e.size
         /\ \A k \in 1 .. e.size : Data(e)[k] = e.buf[e.cur + k - 1]
    BY <2>1, GoodStacks
  <2>13. \A k \in 1 .. len : Data(w)[k] = bytes[k]
    <3>1. \A k \in 1 .. len :
            /\ k \in 1 .. e.size + len /\ p + k - 1 \in 0 .. e.reserved - 1
            /\ p + k - 1 \in p .. p + len - 1 /\ (p + k - 1) - p + 1 = k
      BY <1>1, <2>4, <2>5
    <3>. QED
      BY <2>3, <2>8, <2>11, <3>1
  <2>14. \A k \in len + 1 .. len + e.size : Data(w)[k] = Data(e)[k - len]
    <3>1. \A k \in len + 1 .. len + e.size :
            /\ k \in 1 .. e.size + len /\ p + k - 1 \in 0 .. e.reserved - 1
            /\ p + k - 1 \notin p .. p + len - 1
            /\ k - len \in 1 .. e.size /\ e.cur + (k - len) - 1 = p + k - 1
      <4>1. PICK size \in Nat, cur \in Nat, reserved \in Nat :
              size = e.size /\ cur = e.cur /\ reserved = e.reserved
        BY <2>4
      <4>2. len \in Nat /\ p \in Nat /\ p + len = cur /\ cur = reserved - size
        BY <1>1, <2>4, <2>5, <4>1
      <4>3. \A k \in len + 1 .. len + size :
              /\ k \in 1 .. size + len /\ p + k - 1 \in 0 .. reserved - 1
              /\ p + k - 1 \notin p .. p + len - 1
              /\ k - len \in 1 .. size /\ cur + (k - len) - 1 = p + k - 1
        BY ONLY size \in Nat, cur \in Nat, reserved \in Nat, <4>2, PlaceInData
      <4>. QED
        BY ONLY <4>1, <4>3
    <3>2. \A k \in len + 1 .. len + e.size : w.buf[p + k - 1] = e.buf[p + k - 1]
      BY <2>3, <2>8, <3>1
    <3>3. \A k \in len + 1 .. len + e.size : Data(w)[k] = w.buf[p + k - 1]
      BY <2>11, <3>1
    <3>4. \A k \in len + 1 .. len + e.size : Data(e)[k - len] = e.buf[p + k - 1]
      BY <2>12, <3>1
    <3>. QED
      BY <3>2, <3>3, <3>4
  <2>15. Data(w) = bytes \o Data(e)
    <3>1. /\ bytes \o Data(e) \in Seq(C)
          /\ Len(bytes \o Data(e)) = len + e.size
          /\ \A k \in 1 .. len + e.size :
               (bytes \o Data(e))[k] = IF k <= len THEN bytes[k] ELSE Data(e)[k - len]
      BY <2>12, ConcatProperties DEF len
    <3>2. \A k \in 1 .. len + e.size :
            /\ k <= len => k \in 1 .. len
            /\ ~(k <= len) => k \in len + 1 .. len + e.size
      BY <1>1, <2>4
    <3>3. \A k \in 1 .. len + e.size : Data(w)[k] = (bytes \o Data(e))[k]
      BY <2>13, <2>14, <3>1, <3>2
    <3>4. len + e.size = e.size + len
      BY <1>1, <2>4
    <3>. QED
      BY <2>11, <3>1, <3>3, <3>4, SeqEqual
  <2>. QED
    BY <2>1, <2>9, <2>10, <2>15 DEF w
<1>. QED
  BY <1>2, <1>3

\* Bytes pushed on the scratch pad are behind it, and nothing else changes.
LEMMA ScratchPushed ==
  ASSUME NEW C, Undefined \in C, NEW v, Good(v, C), NEW bytes \in Seq(C)
  PROVE  /\ Good(ScratchPush(v, bytes), C)
         /\ Scratch(ScratchPush(v, bytes)) = Scratch(v) \o bytes
         /\ Data(ScratchPush(v, bytes)) = Data(v)
<1>. DEFINE len == Len(bytes)
            e   == EnsureSpace(v, len)
            w   == ScratchPush(v, bytes)
            p   == e.scratch
            buf == WriteAt(e.buf, p, bytes)
<1>1. len \in Nat /\ \A k \in 1 .. len : bytes[k] \in C
  BY LenProperties
<1>2. /\ Good(e, C) /\ e.size = v.size /\ p = v.scratch
      /\ len <= e.cur - p
      /\ Data(e) = Data(v) /\ Scratch(e) = Scratch(v)
  BY <1>1, SpaceEnsured
<1>3. /\ w \in [buf : {w.buf}, reserved : {e.reserved}, size : {e.size}, cur : {e.cur},
                scratch : {p + len}]
      /\ w.buf = buf
  <2>. HIDE DEF e
  <2>. QED
    BY <1>2 DEF ScratchPush, WriteScratch, Good, e
<1>. HIDE DEF w, len, e
<1>4. /\ e.size \in Nat /\ p \in Nat /\ e.cur \in Nat /\ e.reserved \in Nat
      /\ e.cur = e.reserved - e.size /\ p + len <= e.cur
  BY <1>1, <1>2 DEF Good
<1>5. DOMAIN e.buf = 0 .. e.reserved - 1 /\ \A k \in DOMAIN e.buf : e.buf[k] \in C
  BY <1>2 DEF Good
<1>. HIDE DEF p
<1>6. \A k : k \in p .. p + len - 1 => k - p + 1 \in 1 .. len
  BY <1>1, <1>4
<1>7. /\ buf \in [0 .. e.reserved - 1 -> C]
      /\ \A k \in 0 .. e.reserved - 1 :
           buf[k] = IF k \in p .. p + len - 1 THEN bytes[k - p + 1] ELSE e.buf[k]
  BY <1>1, <1>5, <1>6 DEF WriteAt, len
<1>. HIDE DEF buf
<1>8. Good(w, C)
  <2>1. /\ w.reserved = e.reserved /\ w.size = e.size /\ w.cur = e.cur
        /\ w.scratch = p + len
    BY <1>3
  <2>2. p + len \in Nat
    BY <1>1, <1>4
  <2>3. w \in [buf : {w.buf}, reserved : Nat, size : Nat, cur : Nat, scratch : Nat]
    BY <1>3, <1>4, <2>2
  <2>. QED
    BY <1>3, <1>4, <1>7, <2>1, <2>3 DEF Good
<1>9. Data(w) = Data(e)
  <2>1. \A k \in 1 .. e.size :
          e.cur + k - 1 \in 0 .. e.reserved - 1 /\ e.cur + k - 1 \notin p .. p + len - 1
    BY <1>1, <1>4, PlaceAbove
  <2>2. \A k \in 1 .. e.size : w.buf[e.cur + k - 1] = e.buf[e.cur + k - 1]
    BY <1>3, <1>7, <2>1
  <2>. QED
    BY <1>3, <2>2 DEF Data
<1>10. /\ Scratch(w) \in Seq(C) /\ Len(Scratch(w)) = p + len
       /\ \A k \in 1 .. p + len : Scratch(w)[k] = w.buf[k - 1]
  BY <1>3, <1>8, GoodStacks
<1>11. /\ Scratch(e) \in Seq(C) /\ Len(Scratch(e)) = p
       /\ \A k \in 1 .. p : Scratch(e)[k] = e.buf[k - 1]
  BY <1>2, GoodStacks DEF p
<1>12. \A k \in 1 .. p : Scratch(w)[k] = Scratch(e)[k]
  <2>1. \A k \in 1 .. p :
          /\ k \in 1 .. p + len /\ k - 1 \in 0 .. e.reserved - 1
          /\ k - 1 \notin p .. p + len - 1
    BY <1>1, <1>4
  <2>. QED
    BY <1>3, <1>7, <1>10, <1>11, <2>1
<1>13. \A k \in p + 1 .. p + len : Scratch(w)[k] = bytes[k - p]
  <2>1. \A k \in p + 1 .. p + len :
          /\ k \in 1 .. p + len /\ k - 1 \in 0 .. e.reserved - 1
          /\ k - 1 \in p .. p + len - 1 /\ (k - 1) - p + 1 = k - p
    BY <1>1, <1>4, PlaceInScratch
  <2>. QED
    BY <1>3, <1>7, <1>10, <2>1
<1>14. Scratch(w) = Scratch(e) \o bytes
  <2>1. /\ Scratch(e) \o bytes \in Seq(C)
        /\ Len(Scratch(e) \o bytes) = p + len
        /\ \A k \in 1 .. p + len :
             (Scratch(e) \o bytes)[k] = IF k <= p THEN Scratch(e)[k] ELSE bytes[k - p]
    BY <1>11, ConcatProperties DEF len
  <2>2. \A k \in 1 .. p + len :
          /\ k <= p => k \in 1 .. p
          /\ ~(k <= p) => k \in p + 1 .. p + len
    BY <1>1, <1>4
  <2>3. \A k \in 1 .. p + len : Scratch(w)[k] = (Scratch(e) \o bytes)[k]
    BY <1>12, <1>13, <2>1, <2>2
  <2>. QED
    BY <1>10, <2>1, <2>3, SeqEqual
<1>. QED
  BY <1>2, <1>8, <1>9, <1>14 DEF w, e

\* Popping and clearing leave the rest of the data and the other stack alone.
LEMMA Popped ==
  ASSUME NEW C, Undefined \in C, NEW v, Good(v, C), NEW n \in Nat, n <= v.size
  PROVE  /\ Good(Pop(v, n), C)
         /\ Data(Pop(v, n)) = SubSeq(Data(v), n + 1, Len(Data(v)))
         /\ Scratch(Pop(v, n)) = Scratch(v)
<1>. DEFINE w == Pop(v, n)
<1>1. /\ v.size \in Nat /\ v.scratch \in Nat /\ v.cur \in Nat /\ v.reserved \in Nat
      /\ v.cur = v.reserved - v.size /\ v.scratch <= v.cur
  BY DEF Good
<1>2. /\ w \in [buf : {v.buf}, reserved : {v.reserved}, size : {v.size - n},
                cur : {v.cur + n}, scratch : {v.scratch}]
      /\ w.buf = v.buf
  BY DEF Good, Pop
<1>. HIDE DEF w
<1>3. /\ v.size - n \in Nat /\ v.cur + n \in Nat /\ v.scratch <= v.cur + n
      /\ v.cur + n = v.reserved - (v.size - n)
  BY <1>1
<1>4. Good(w, C)
  <2>1. w \in [buf : {w.buf}, reserved : Nat, size : Nat, cur : Nat, scratch : Nat]
    BY <1>1, <1>2, <1>3
  <2>2. /\ w.reserved = v.reserved /\ w.size = v.size - n /\ w.cur = v.cur + n
        /\ w.scratch = v.scratch
    BY <1>2
  <2>3. v.buf \in [0 .. v.reserved - 1 -> C]
    BY DEF Good
  <2>. QED
    BY <1>2, <1>3, <2>1, <2>2, <2>3 DEF Good
<1>5. Scratch(w) = Scratch(v)
  BY <1>2 DEF Scratch
<1>6. /\ Data(v) \in Seq(C) /\ Len(Data(v)) = v.size
      /\ \A k \in 1 .. v.size : Data(v)[k] = v.buf[v.cur + k - 1]
  BY GoodStacks
<1>7. /\ Data(w) \in Seq(C) /\ Len(Data(w)) = v.size - n
      /\ \A k \in 1 .. v.size - n : Data(w)[k] = v.buf[v.cur + n + k - 1]
  BY <1>2, <1>4, GoodStacks
<1>8. \A k \in 1 .. v.size - n :
        k + n \in 1 .. v.size /\ v.cur + (k + n) - 1 = v.cur + n + k - 1
  BY <1>1, <1>3
<1>9. \A k \in 1 .. v.size - n : Data(w)[k] = Data(v)[k + n]
  BY <1>6, <1>7, <1>8
<1>10. /\ SubSeq(Data(v), n + 1, v.size) \in Seq(C)
       /\ Len(SubSeq(Data(v), n + 1, v.size)) = v.size - n
       /\ \A k \in 1 .. v.size - n : SubSeq(Data(v), n + 1, v.size)[k] = Data(v)[k + n]
  <2>1. /\ n + 1 \in 1 .. v.size + 1 /\ v.size \in n .. v.size
        /\ v.size - (n + 1) + 1 = v.size - n
        /\ n + 1 <= v.size \/ v.size - n = 0
    BY <1>1
  <2>2. /\ SubSeq(Data(v), n + 1, v.size) \in Seq(C)
        /\ Len(SubSeq(Data(v), n + 1, v.size)) =
             IF n + 1 <= v.size THEN v.size - (n + 1) + 1 ELSE 0
        /\ \A k \in 1 .. v.size - (n + 1) + 1 :
             SubSeq(Data(v), n + 1, v.size)[k] = Data(v)[n + 1 + k - 1]
    BY <1>6, <2>1, SubSeqProperties
  <2>3. \A k \in 1 .. v.size - n : n + 1 + k - 1 = k + n
    BY <1>1
  <2>. QED
    BY <2>1, <2>2, <2>3
<1>11. Data(w) = SubSeq(Data(v), n + 1, v.size)
  BY <1>7, <1>9, <1>10, SeqEqual
<1>. QED
  BY <1>4, <1>5, <1>6, <1>11 DEF w

LEMMA ScratchPopped ==
  ASSUME NEW C, Undefined \in C, NEW v, Good(v, C), NEW n \in Nat, n <= v.scratch
  PROVE  /\ Good(ScratchPop(v, n), C)
         /\ Scratch(ScratchPop(v, n)) = SubSeq(Scratch(v), 1, Len(Scratch(v)) - n)
         /\ Data(ScratchPop(v, n)) = Data(v)
<1>. DEFINE w == ScratchPop(v, n)
            m == v.scratch - n
<1>1. /\ v.size \in Nat /\ v.scratch \in Nat /\ v.cur \in Nat /\ v.reserved \in Nat
      /\ v.cur = v.reserved - v.size /\ v.scratch <= v.cur
  BY DEF Good
<1>2. /\ w \in [buf : {v.buf}, reserved : {v.reserved}, size : {v.size}, cur : {v.cur},
                scratch : {m}]
      /\ w.buf = v.buf
  BY DEF Good, ScratchPop
<1>3. m \in Nat /\ m <= v.scratch /\ m <= v.cur
  BY <1>1
<1>. HIDE DEF w, m
<1>4. Good(w, C)
  <2>1. w \in [buf : {w.buf}, reserved : Nat, size : Nat, cur : Nat, scratch : Nat]
    BY <1>1, <1>2, <1>3
  <2>2. /\ w.reserved = v.reserved /\ w.size = v.size /\ w.cur = v.cur
        /\ w.scratch = m
    BY <1>2
  <2>3. v.buf \in [0 .. v.reserved - 1 -> C]
    BY DEF Good
  <2>. QED
    BY <1>1, <1>2, <1>3, <2>1, <2>2, <2>3 DEF Good
<1>5. Data(w) = Data(v)
  BY <1>2 DEF Data
<1>6. /\ Scratch(v) \in Seq(C) /\ Len(Scratch(v)) = v.scratch
      /\ \A k \in 1 .. v.scratch : Scratch(v)[k] = v.buf[k - 1]
  BY GoodStacks
<1>7. /\ Scratch(w) \in Seq(C) /\ Len(Scratch(w)) = m
      /\ \A k \in 1 .. m : Scratch(w)[k] = v.buf[k - 1]
  BY <1>2, <1>4, GoodStacks
<1>8. \A k \in 1 .. m : k \in 1 .. v.scratch
  BY <1>1, <1>3
<1>9. /\ SubSeq(Scratch(v), 1, m) \in Seq(C)
      /\ Len(SubSeq(Scratch(v), 1, m)) = m
      /\ \A k \in 1 .. m : SubSeq(Scratch(v), 1, m)[k] = Scratch(v)[k]
  <2>1. \A k \in 1 .. m : Scratch(v)[k] \in C
    BY <1>6, <1>8
  <2>2. /\ SubSeq(Scratch(v), 1, m) \in Seq(C)
        /\ Len(SubSeq(Scratch(v), 1, m)) = IF 1 <= m THEN m - 1 + 1 ELSE 0
        /\ \A k \in 1 .. m - 1 + 1 : SubSeq(Scratch(v), 1, m)[k] = Scratch(v)[1 + k - 1]
    BY <1>3, <2>1, SubSeqProperties
  <2>3. /\ (m - 1 + 1 = m /\ 1 <= m) \/ m = 0
        /\ \A k \in 1 .. m : 1 + k - 1 = k
    BY <1>3
  <2>. QED
    BY <1>3, <2>2, <2>3
<1>10. Scratch(w) = SubSeq(Scratch(v), 1, m)
  <2>1. \A k \in 1 .. m : Scratch(w)[k] = SubSeq(Scratch(v), 1, m)[k]
    BY <1>6, <1>7, <1>8, <1>9
  <2>. QED
    BY <1>7, <1>9, <2>1, SeqEqual
<1>. QED
  BY <1>4, <1>5, <1>6, <1>10 DEF w, m

LEMMA ScratchCleared ==
  ASSUME NEW C, Undefined \in C, NEW v, Good(v, C)
  PROVE  /\ Good(ClearScratch(v), C)
         /\ Scratch(ClearScratch(v)) = <<>> /\ Data(ClearScratch(v)) = Data(v)
<1>. DEFINE w == ClearScratch(v)
<1>1. /\ w \in [buf : {v.buf}, reserved : {v.reserved}, size : {v.size}, cur : {v.cur},
                scratch : {0}]
      /\ w.buf = v.buf
  BY DEF Good, ClearScratch
<1>. HIDE DEF w
<1>2. /\ v.size \in Nat /\ v.cur \in Nat /\ v.reserved \in Nat
      /\ v.cur = v.reserved - v.size
      /\ v.buf \in [0 .. v.reserved - 1 -> C]
  BY DEF Good
<1>3. Good(w, C)
  BY <1>1, <1>2 DEF Good
<1>4. Data(w) = Data(v) /\ Scratch(w) = <<>>
  BY <1>1 DEF Data, Scratch
<1>. QED
  BY <1>3, <1>4 DEF w

LEMMA Cleared ==
  ASSUME NEW C, Undefined \in C, NEW v, Good(v, C)
  PROVE  Good(Clear(v), C) /\ Scratch(Clear(v)) = <<>> /\ Data(Clear(v)) = <<>>
<1>. DEFINE w == Clear(v)
<1>1. /\ w \in [buf : {v.buf}, reserved : {v.reserved}, size : {0}, cur : {v.reserved},
                scratch : {0}]
      /\ w.buf = v.buf
  BY DEF Good, Clear
<1>. HIDE DEF w
<1>2. v.reserved \in Nat /\ v.buf \in [0 .. v.reserved - 1 -> C]
  BY DEF Good
<1>3. Good(w, C)
  BY <1>1, <1>2 DEF Good
<1>4. Data(w) = <<>> /\ Scratch(w) = <<>>
  BY <1>1 DEF Data, Scratch
<1>. QED
  BY <1>3, <1>4 DEF w

LEMMA EmptyGood ==
  ASSUME NEW C
  PROVE  Good(Empty, C) /\ Data(Empty) = <<>> /\ Scratch(Empty) = <<>>
<1>1. <<>> \in [0 .. 0 - 1 -> C]
  OBVIOUS
<1>. QED
  BY <1>1 DEF Good, Empty, Data, Scratch

LEMMA WasReset ==
  ASSUME NEW C, Undefined \in C, NEW v, Good(v, C)
  PROVE  Good(Reset(v), C) /\ Scratch(Reset(v)) = <<>> /\ Data(Reset(v)) = <<>>
<1>. DEFINE x == [v EXCEPT !.buf = <<>>, !.reserved = 0]
<1>1. x \in [buf : {<<>>}, reserved : {0}, size : {v.size}, cur : {v.cur}, scratch : {v.scratch}]
  BY DEF Good
<1>. HIDE DEF x
<1>2. Clear(x) \in [buf : {<<>>}, reserved : {0}, size : {0}, cur : {0}, scratch : {0}]
  BY <1>1 DEF Clear
<1>3. Clear(x) = Empty
  BY <1>2 DEF Empty
<1>4. Reset(v) = Empty
  BY <1>3 DEF Reset, x
<1>. QED
  BY <1>4, EmptyGood
=============================================================================
