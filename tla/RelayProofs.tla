---------------------------- MODULE RelayProofs ----------------------------
(***************************************************************************)
(* Proofs about Relay for buffers, copy array and number of bytes of any   *)
(* size and any number of failures: every byte is in one place and in its  *)
(* order, both buffers are queues, and sock_blocking_write reports right.  *)
(***************************************************************************)
EXTENDS Relay, SequenceTheorems, TLAPS

-----------------------------------------------------------------------------
(* Sequences that are cut and joined.                                      *)

\* A first part and the rest make the whole.
LEMMA FirstAndRest ==
    ASSUME NEW S, NEW q \in Seq(S), NEW n \in 0..Len(q)
    PROVE  /\ First(n, q) \in Seq(S) /\ Rest(n, q) \in Seq(S)
           /\ First(n, q) \o Rest(n, q) = q
           /\ Len(First(n, q)) = n /\ Len(Rest(n, q)) = Len(q) - n
           /\ \A k \in 1..Len(q) - n : Rest(n, q)[k] = q[n + k]
           /\ \A k \in 1..n : First(n, q)[k] = q[k]
<1>1. Len(q) \in Nat /\ n \in Nat /\ n <= Len(q)
  OBVIOUS
<1>2. /\ First(n, q) \in Seq(S) /\ Len(First(n, q)) = n
      /\ \A k \in 1..n : First(n, q)[k] = q[k]
  <2>1. \A i \in 1..n : q[i] \in S
    BY <1>1
  <2>2. /\ SubSeq(q, 1, n) \in Seq(S)
        /\ Len(SubSeq(q, 1, n)) = IF 1 <= n THEN n - 1 + 1 ELSE 0
        /\ \A i \in 1..n - 1 + 1 : SubSeq(q, 1, n)[i] = q[1 + i - 1]
    BY <1>1, <2>1, SubSeqProperties
  <2> QED
    BY <1>1, <2>2 DEF First
<1>3. /\ Rest(n, q) \in Seq(S) /\ Len(Rest(n, q)) = Len(q) - n
      /\ \A k \in 1..Len(q) - n : Rest(n, q)[k] = q[n + k]
  <2>1. \A i \in n + 1..Len(q) : q[i] \in S
    BY <1>1
  <2>2. /\ SubSeq(q, n + 1, Len(q)) \in Seq(S)
        /\ Len(SubSeq(q, n + 1, Len(q))) = IF n + 1 <= Len(q) THEN Len(q) - (n + 1) + 1 ELSE 0
        /\ \A i \in 1..Len(q) - (n + 1) + 1 : SubSeq(q, n + 1, Len(q))[i] = q[n + 1 + i - 1]
    BY <1>1, <2>1, SubSeqProperties
  <2> QED
    BY <1>1, <2>2 DEF Rest
<1>4. First(n, q) \o Rest(n, q) = q
  <2>1. SubSeq(q, 1, n) \o SubSeq(q, n + 1, Len(q)) = SubSeq(q, 1, Len(q))
    <3>1. 1 \in 1..Len(q) + 1 /\ n \in 1 - 1..Len(q) /\ Len(q) \in n..Len(q)
      BY <1>1
    <3> QED
      BY <3>1, ConcatAdjacentSubSeq
  <2> QED
    BY <2>1, SubSeqFull DEF First, Rest
<1> QED
  BY <1>2, <1>3, <1>4

\* What is joined may be grouped anew.
Regrouped(S, p, x, f, g) ==
    /\ x \o f \in Seq(S)
    /\ (x \o f) \o g = x \o (f \o g)
    /\ (p \o (x \o f)) \o g = (p \o x) \o (f \o g)

LEMMA Regroup ==
    ASSUME NEW S, NEW p \in Seq(S), NEW x \in Seq(S), NEW f \in Seq(S), NEW g \in Seq(S)
    PROVE  Regrouped(S, p, x, f, g)
<1>1. PICK xf \in Seq(S) : xf = x \o f
  BY ConcatProperties
<1>2. PICK fg \in Seq(S) : fg = f \o g
  BY ConcatProperties
<1>3. (x \o f) \o g = x \o (f \o g)
  BY ConcatAssociative
<1>4. (p \o xf) \o g = p \o (xf \o g)
  BY ConcatAssociative
<1>5. (p \o x) \o fg = p \o (x \o fg)
  BY ConcatAssociative
<1> QED
  BY <1>1, <1>2, <1>3, <1>4, <1>5 DEF Regrouped

\* The first bytes of one place go to the end of the place before it.
MovedOn(S, p, x, y, n) ==
    /\ x \o First(n, y) \in Seq(S) /\ Rest(n, y) \in Seq(S)
    /\ (x \o First(n, y)) \o Rest(n, y) = x \o y
    /\ (p \o (x \o First(n, y))) \o Rest(n, y) = (p \o x) \o y

LEMMA MoveOn ==
    ASSUME NEW S, NEW p \in Seq(S), NEW x \in Seq(S), NEW y \in Seq(S), NEW n \in 0..Len(y)
    PROVE  MovedOn(S, p, x, y, n)
<1>1. PICK f \in Seq(S), g \in Seq(S) : f = First(n, y) /\ g = Rest(n, y)
  BY FirstAndRest
<1>2. f \o g = y
  BY <1>1, FirstAndRest
<1>3. Regrouped(S, p, x, f, g)
  BY Regroup
<1> QED
  BY <1>1, <1>2, <1>3 DEF Regrouped, MovedOn

\* Appending the first element is moving a first part of length one.
LEMMA OneMore ==
    ASSUME NEW S, NEW x \in Seq(S), NEW q \in Seq(S), 1 \in 0..Len(q)
    PROVE  Append(x, q[1]) = x \o First(1, q)
<1>1. PICK f \in Seq(S) : f = First(1, q)
  BY FirstAndRest
<1>2. Len(f) = 1 /\ f[1] = q[1] /\ q[1] \in S
  <2>1. 1 \in 1..1 /\ 1 \in 1..Len(q)
    OBVIOUS
  <2>2. Len(First(1, q)) = 1 /\ \A k \in 1..1 : First(1, q)[k] = q[k]
    BY FirstAndRest
  <2>3. q[1] \in S
    BY <2>1
  <2> QED
    BY <1>1, <2>1, <2>2, <2>3
<1>3. PICK g \in Seq(S) : g = Append(x, q[1])
  BY <1>2, AppendProperties
<1>4. /\ Len(g) = Len(x) + 1 /\ \A i \in 1..Len(x) : g[i] = x[i]
      /\ g[Len(x) + 1] = q[1]
  BY <1>2, <1>3, AppendProperties
<1>5. PICK h \in Seq(S) : h = x \o f
  BY ConcatProperties
<1>6. /\ Len(h) = Len(x) + 1
      /\ \A k \in 1..Len(x) + 1 : h[k] = IF k <= Len(x) THEN x[k] ELSE f[k - Len(x)]
  <2>1. /\ Len(x \o f) = Len(x) + Len(f)
        /\ \A k \in 1..Len(x) + Len(f) :
             (x \o f)[k] = IF k <= Len(x) THEN x[k] ELSE f[k - Len(x)]
    BY ConcatProperties
  <2> QED
    BY <1>2, <1>5, <2>1
<1>7. \A k \in 1..Len(x) + 1 : g[k] = h[k]
  <2> SUFFICES ASSUME NEW k \in 1..Len(x) + 1 PROVE g[k] = h[k]
    OBVIOUS
  <2>1. Len(x) \in Nat
    OBVIOUS
  <2>2. CASE k <= Len(x)
    BY <2>1, <2>2, <1>4, <1>6
  <2>3. CASE k = Len(x) + 1
    <3>1. k - Len(x) = 1 /\ ~(k <= Len(x))
      BY <2>1, <2>3
    <3> QED
      BY <2>3, <3>1, <1>2, <1>4, <1>6
  <2> QED
    BY <2>1, <2>2, <2>3
<1>8. g = h
  BY <1>4, <1>6, <1>7, SeqEqual
<1> QED
  BY <1>1, <1>3, <1>5, <1>8

-----------------------------------------------------------------------------
(* The part of an array between two positions.                             *)

Window(d, r, w) == [k \in 1..w - r |-> d[r + k - 1]]

\* It is a sequence.
WindowOK(S, d, r, w) ==
    /\ Window(d, r, w) \in Seq(S) /\ Len(Window(d, r, w)) = w - r
    /\ \A k \in 1..w - r : Window(d, r, w)[k] = d[r + k - 1]

LEMMA WindowIsSeq ==
    ASSUME NEW S, NEW d, NEW r \in Nat, NEW w \in Nat, r <= w,
           \A i \in r..w - 1 : d[i] \in S
    PROVE  WindowOK(S, d, r, w)
<1>1. w - r \in Nat /\ \A k \in 1..w - r : r + k - 1 \in r..w - 1
  OBVIOUS
<1>2. Window(d, r, w) \in [1..w - r -> S]
  BY <1>1 DEF Window
<1>3. Window(d, r, w) \in Seq(S)
  BY <1>1, <1>2, SeqDef
<1> QED
  BY <1>1, <1>3, <1>2, LenProperties DEF Window, WindowOK

\* What is written behind it is put at its end.
Grown(S, d, e, r, w, more) ==
    /\ Window(e, r, w + Len(more)) = Window(d, r, w) \o more
    /\ \A i \in r..w + Len(more) - 1 : e[i] \in S

LEMMA WindowPut ==
    ASSUME NEW S, NEW d, NEW e, NEW r \in Nat, NEW w \in Nat, r <= w,
           \A i \in r..w - 1 : d[i] \in S /\ e[i] = d[i],
           NEW more \in Seq(S), \A k \in 1..Len(more) : e[w + k - 1] = more[k]
    PROVE  Grown(S, d, e, r, w, more)
<1>1. Len(more) \in Nat /\ w + Len(more) \in Nat /\ r <= w + Len(more)
  OBVIOUS
<1>2. \A i \in r..w + Len(more) - 1 : e[i] \in S
  <2> SUFFICES ASSUME NEW i \in r..w + Len(more) - 1 PROVE e[i] \in S
    OBVIOUS
  <2>1. CASE i < w
    BY <2>1
  <2>2. CASE ~(i < w)
    <3>1. i - w + 1 \in 1..Len(more) /\ w + (i - w + 1) - 1 = i
      BY <1>1, <2>2
    <3>2. e[w + (i - w + 1) - 1] = more[i - w + 1] /\ more[i - w + 1] \in S
      BY <3>1
    <3> QED
      BY <3>1, <3>2
  <2> QED
    BY <2>1, <2>2
<1>3. /\ Window(d, r, w) \in Seq(S) /\ Len(Window(d, r, w)) = w - r
      /\ \A k \in 1..w - r : Window(d, r, w)[k] = d[r + k - 1]
  <2>1. WindowOK(S, d, r, w)
    BY WindowIsSeq
  <2> QED
    BY <2>1 DEF WindowOK
<1>4. /\ Window(e, r, w + Len(more)) \in Seq(S)
      /\ Len(Window(e, r, w + Len(more))) = w + Len(more) - r
      /\ \A k \in 1..w + Len(more) - r : Window(e, r, w + Len(more))[k] = e[r + k - 1]
  <2>1. PICK v \in Nat : v = w + Len(more)
    BY <1>1
  <2>2. r <= v /\ \A i \in r..v - 1 : e[i] \in S
    BY <1>1, <1>2, <2>1
  <2>3. WindowOK(S, e, r, v)
    BY <2>2, WindowIsSeq
  <2> QED
    BY <2>1, <2>3 DEF WindowOK
<1>5. PICK a \in Seq(S) : a = Window(d, r, w)
  BY <1>3
<1>6. /\ a \o more \in Seq(S) /\ Len(a \o more) = w - r + Len(more)
      /\ \A k \in 1..w - r + Len(more) :
           (a \o more)[k] = IF k <= w - r THEN a[k] ELSE more[k - (w - r)]
  <2>1. Len(a) = w - r
    BY <1>3, <1>5
  <2>2. /\ a \o more \in Seq(S) /\ Len(a \o more) = Len(a) + Len(more)
        /\ \A k \in 1..Len(a) + Len(more) :
             (a \o more)[k] = IF k <= Len(a) THEN a[k] ELSE more[k - Len(a)]
    BY ConcatProperties
  <2> QED
    BY <2>1, <2>2
<1>7. \A k \in 1..w + Len(more) - r : e[r + k - 1] = (a \o more)[k]
  <2> SUFFICES ASSUME NEW k \in 1..w + Len(more) - r PROVE e[r + k - 1] = (a \o more)[k]
    OBVIOUS
  <2>0. k \in 1..w - r + Len(more)
    BY <1>1
  <2>1. CASE k <= w - r
    <3>1. r + k - 1 \in r..w - 1 /\ k \in 1..w - r
      BY <2>1
    <3> QED
      BY <2>0, <2>1, <3>1, <1>3, <1>5, <1>6
  <2>2. CASE ~(k <= w - r)
    <3>1. k - (w - r) \in 1..Len(more) /\ w + (k - (w - r)) - 1 = r + k - 1
      BY <1>1, <2>2
    <3>2. e[w + (k - (w - r)) - 1] = more[k - (w - r)]
      BY <3>1
    <3> QED
      BY <2>0, <2>2, <3>1, <3>2, <1>6
  <2> QED
    BY <2>1, <2>2
<1>8. w + Len(more) - r = w - r + Len(more)
  BY <1>1
<1>9. Window(e, r, w + Len(more)) = a \o more
  BY <1>4, <1>6, <1>7, <1>8, SeqEqual
<1> QED
  BY <1>2, <1>5, <1>9 DEF Grown

\* Bytes are put into an array of N where the positions leave room.
PutAt(N, d, e, w, more) ==
    e = [k \in 0..N - 1 |-> IF k \in w..w + Len(more) - 1 THEN more[k - w + 1] ELSE d[k]]

LEMMA ArrayPut ==
    ASSUME NEW S, NEW g, NEW N \in Nat, NEW d \in [0..N - 1 -> S \cup {g}],
           NEW r \in Nat, NEW w \in Nat, r <= w, \A i \in r..w - 1 : d[i] \in S,
           NEW more \in Seq(S), w + Len(more) <= N,
           NEW e, PutAt(N, d, e, w, more)
    PROVE  e \in [0..N - 1 -> S \cup {g}] /\ Grown(S, d, e, r, w, more)
<1>0. Len(more) \in Nat
  OBVIOUS
<1>1. \A k \in 0..N - 1 : e[k] = IF k \in w..w + Len(more) - 1 THEN more[k - w + 1] ELSE d[k]
  BY DEF PutAt
<1>2. \A k \in 1..Len(more) : e[w + k - 1] = more[k]
  <2> SUFFICES ASSUME NEW k \in 1..Len(more) PROVE e[w + k - 1] = more[k]
    OBVIOUS
  <2>1. PICK j : j = w + k - 1
    OBVIOUS
  <2>2. j \in 0..N - 1 /\ j \in w..w + Len(more) - 1 /\ j - w + 1 = k
    BY <1>0, <2>1
  <2>3. e[j] = more[j - w + 1]
    BY <2>2, <1>1
  <2> QED
    BY <2>1, <2>2, <2>3
<1>3. \A i \in r..w - 1 : d[i] \in S /\ e[i] = d[i]
  <2> SUFFICES ASSUME NEW i \in r..w - 1 PROVE d[i] \in S /\ e[i] = d[i]
    OBVIOUS
  <2>1. i \in 0..N - 1 /\ ~(i \in w..w + Len(more) - 1)
    BY <1>0
  <2> QED
    BY <2>1, <1>1
<1>4. Grown(S, d, e, r, w, more)
  BY <1>2, <1>3, WindowPut
<1>5. e \in [0..N - 1 -> S \cup {g}]
  <2> SUFFICES ASSUME NEW k \in 0..N - 1 PROVE e[k] \in S \cup {g}
    BY DEF PutAt
  <2>1. CASE k \in w..w + Len(more) - 1
    <3>1. k - w + 1 \in 1..Len(more)
      BY <1>0, <2>1
    <3>2. more[k - w + 1] \in S
      BY <3>1
    <3> QED
      BY <3>2, <2>1, <1>1
  <2>2. CASE ~(k \in w..w + Len(more) - 1)
    BY <2>2, <1>1
  <2> QED
    BY <2>1, <2>2
<1> QED
  BY <1>4, <1>5

LEMMA OnePut ==
    ASSUME NEW N \in Nat, NEW T, NEW d \in [0..N - 1 -> T], NEW w \in 0..N - 1,
           NEW b, NEW e, e = [d EXCEPT ![w] = b]
    PROVE  PutAt(N, d, e, w, <<b>>)
<1>1. PICK more : more = <<b>>
  OBVIOUS
<1>2. Len(more) = 1 /\ more[1] = b
  BY <1>1
<1>3. PICK f : f = [k \in 0..N - 1 |-> IF k \in w..w + Len(more) - 1
                                         THEN more[k - w + 1] ELSE d[k]]
  OBVIOUS
<1>4. \A k \in 0..N - 1 : f[k] = e[k]
  <2> SUFFICES ASSUME NEW k \in 0..N - 1 PROVE f[k] = e[k]
    OBVIOUS
  <2>0. f[k] = IF k \in w..w + Len(more) - 1 THEN more[k - w + 1] ELSE d[k]
    BY <1>3
  <2>1. CASE k = w
    <3>1. k \in w..w + Len(more) - 1 /\ k - w + 1 = 1
      BY <1>2, <2>1
    <3>2. f[k] = more[1]
      BY <2>0, <3>1
    <3> QED
      BY <1>2, <2>1, <3>2
  <2>2. CASE k # w
    <3>1. ~(k \in w..w + Len(more) - 1)
      BY <1>2, <2>2
    <3> QED
      BY <2>0, <2>2, <3>1
  <2> QED
    BY <2>1, <2>2
<1>5. f = e
  <2>1. /\ DOMAIN f = 0..N - 1 /\ DOMAIN e = 0..N - 1
        /\ f = [k \in DOMAIN f |-> f[k]] /\ e = [k \in DOMAIN e |-> e[k]]
    BY <1>3
  <2> QED
    BY <1>4, <2>1
<1> QED
  BY <1>1, <1>3, <1>5 DEF PutAt

\* What is taken from its start leaves the rest.
LEMMA WindowTake ==
    ASSUME NEW S, NEW d, NEW r \in Nat, NEW w \in Nat, r <= w,
           \A i \in r..w - 1 : d[i] \in S, NEW n \in 0..w - r
    PROVE  Window(d, r + n, w) = Rest(n, Window(d, r, w))
<1>0. /\ Window(d, r, w) \in Seq(S) /\ Len(Window(d, r, w)) = w - r
      /\ \A k \in 1..w - r : Window(d, r, w)[k] = d[r + k - 1]
  <2>1. WindowOK(S, d, r, w)
    BY WindowIsSeq
  <2> QED
    BY <2>1 DEF WindowOK
<1>1. PICK a \in Seq(S) : a = Window(d, r, w)
  BY <1>0
<1>2. Len(a) = w - r /\ \A k \in 1..w - r : a[k] = d[r + k - 1]
  BY <1>0, <1>1
<1>3. /\ Rest(n, a) \in Seq(S) /\ Len(Rest(n, a)) = w - r - n
      /\ \A k \in 1..w - r - n : Rest(n, a)[k] = a[n + k]
  <2>1. n \in 0..Len(a)
    BY <1>2
  <2>2. /\ Rest(n, a) \in Seq(S) /\ Len(Rest(n, a)) = Len(a) - n
        /\ \A k \in 1..Len(a) - n : Rest(n, a)[k] = a[n + k]
    BY <2>1, FirstAndRest
  <2> QED
    BY <1>2, <2>2
<1>4. r + n \in Nat /\ r + n <= w /\ w - (r + n) = w - r - n /\ \A i \in r + n..w - 1 : d[i] \in S
  OBVIOUS
<1>5. /\ Window(d, r + n, w) \in Seq(S) /\ Len(Window(d, r + n, w)) = w - (r + n)
      /\ \A k \in 1..w - (r + n) : Window(d, r + n, w)[k] = d[r + n + k - 1]
  <2>1. WindowOK(S, d, r + n, w)
    BY <1>4, WindowIsSeq
  <2> QED
    BY <2>1 DEF WindowOK
<1>6. \A k \in 1..w - r - n : d[r + n + k - 1] = a[n + k]
  <2> SUFFICES ASSUME NEW k \in 1..w - r - n PROVE d[r + n + k - 1] = a[n + k]
    OBVIOUS
  <2>1. n + k \in 1..w - r /\ r + (n + k) - 1 = r + n + k - 1
    OBVIOUS
  <2> QED
    BY <2>1, <1>2
<1>7. Window(d, r + n, w) = Rest(n, a)
  BY <1>3, <1>4, <1>5, <1>6, SeqEqual
<1> QED
  BY <1>1, <1>7

\* Moved to the start of the array it is the same.
MovedDown(S, d, e, r, w) ==
    Window(e, 0, w - r) = Window(d, r, w) /\ \A i \in 0..w - r - 1 : e[i] \in S

LEMMA WindowMove ==
    ASSUME NEW S, NEW d, NEW e, NEW r \in Nat, NEW w \in Nat, r <= w,
           \A i \in r..w - 1 : d[i] \in S, \A k \in 0..w - r - 1 : e[k] = d[r + k]
    PROVE  MovedDown(S, d, e, r, w)
<1>1. w - r \in Nat /\ w - r - 0 = w - r
  OBVIOUS
<1>2. \A i \in 0..w - r - 1 : e[i] \in S
  OBVIOUS
<1>3. \A k \in 1..w - r : e[0 + k - 1] = d[r + k - 1]
  <2> SUFFICES ASSUME NEW k \in 1..w - r PROVE e[0 + k - 1] = d[r + k - 1]
    OBVIOUS
  <2>1. k - 1 \in 0..w - r - 1 /\ 0 + k - 1 = k - 1 /\ r + (k - 1) = r + k - 1
    OBVIOUS
  <2> QED
    BY <2>1
<1> QED
  BY <1>1, <1>2, <1>3 DEF Window, MovedDown

\* Between equal positions there is nothing.
LEMMA WindowEmpty == ASSUME NEW d, NEW r \in Nat PROVE Window(d, r, r) = <<>>
<1>1. Window(d, r, r) \in Seq(Int) /\ Len(Window(d, r, r)) = r - r
  <2>1. r <= r /\ \A i \in r..r - 1 : d[i] \in Int
    OBVIOUS
  <2>2. WindowOK(Int, d, r, r)
    BY <2>1, WindowIsSeq
  <2> QED
    BY <2>2 DEF WindowOK
<1>2. r - r = 0
  OBVIOUS
<1> QED
  BY <1>1, <1>2, EmptySeq

-----------------------------------------------------------------------------
(* The six places that a byte can be in.                                   *)

Places(a, b, c, d, e, f) == a \o b \o c \o d \o e \o f

\* A byte that moves from one place to the next keeps its position.
MovedToFirst(a, b, c, d, e, f, n) ==
    Places(a \o First(n, b), Rest(n, b), c, d, e, f) = Places(a, b, c, d, e, f)

LEMMA MoveToFirst ==
    ASSUME NEW S, NEW a \in Seq(S), NEW b \in Seq(S), NEW c \in Seq(S),
           NEW d \in Seq(S), NEW e \in Seq(S), NEW f \in Seq(S), NEW n \in 0..Len(b)
    PROVE  MovedToFirst(a, b, c, d, e, f, n)
<1>1. MovedOn(S, a, a, b, n)
  BY MoveOn
<1> QED
  BY <1>1 DEF Places, MovedOn, MovedToFirst

MovedToSecond(a, b, c, d, e, f, n) ==
    Places(a, b \o First(n, c), Rest(n, c), d, e, f) = Places(a, b, c, d, e, f)

LEMMA MoveToSecond ==
    ASSUME NEW S, NEW a \in Seq(S), NEW b \in Seq(S), NEW c \in Seq(S),
           NEW d \in Seq(S), NEW e \in Seq(S), NEW f \in Seq(S), NEW n \in 0..Len(c)
    PROVE  MovedToSecond(a, b, c, d, e, f, n)
<1>1. MovedOn(S, a, b, c, n)
  BY MoveOn
<1> QED
  BY <1>1 DEF Places, MovedOn, MovedToSecond

MovedToThird(a, b, c, d, e, f, n) ==
    Places(a, b, c \o First(n, d), Rest(n, d), e, f) = Places(a, b, c, d, e, f)

LEMMA MoveToThird ==
    ASSUME NEW S, NEW a \in Seq(S), NEW b \in Seq(S), NEW c \in Seq(S),
           NEW d \in Seq(S), NEW e \in Seq(S), NEW f \in Seq(S), NEW n \in 0..Len(d)
    PROVE  MovedToThird(a, b, c, d, e, f, n)
<1>1. PICK p \in Seq(S) : p = a \o b
  BY ConcatProperties
<1>2. MovedOn(S, p, c, d, n)
  BY MoveOn
<1> QED
  BY <1>1, <1>2 DEF Places, MovedOn, MovedToThird

MovedToFourth(a, b, c, d, e, f, n) ==
    Places(a, b, c, d \o First(n, e), Rest(n, e), f) = Places(a, b, c, d, e, f)

LEMMA MoveToFourth ==
    ASSUME NEW S, NEW a \in Seq(S), NEW b \in Seq(S), NEW c \in Seq(S),
           NEW d \in Seq(S), NEW e \in Seq(S), NEW f \in Seq(S), NEW n \in 0..Len(e)
    PROVE  MovedToFourth(a, b, c, d, e, f, n)
<1>1. PICK q \in Seq(S) : q = a \o b
  BY ConcatProperties
<1>2. PICK p \in Seq(S) : p = q \o c
  BY ConcatProperties
<1>3. MovedOn(S, p, d, e, n)
  BY MoveOn
<1> QED
  BY <1>1, <1>2, <1>3 DEF Places, MovedOn, MovedToFourth

MovedToFifth(a, b, c, d, e, f, n) ==
    Places(a, b, c, d, e \o First(n, f), Rest(n, f)) = Places(a, b, c, d, e, f)

LEMMA MoveToFifth ==
    ASSUME NEW S, NEW a \in Seq(S), NEW b \in Seq(S), NEW c \in Seq(S),
           NEW d \in Seq(S), NEW e \in Seq(S), NEW f \in Seq(S), NEW n \in 0..Len(f)
    PROVE  MovedToFifth(a, b, c, d, e, f, n)
<1>1. PICK q \in Seq(S) : q = a \o b
  BY ConcatProperties
<1>2. PICK r \in Seq(S) : r = q \o c
  BY ConcatProperties
<1>3. PICK p \in Seq(S) : p = r \o d
  BY ConcatProperties
<1>4. MovedOn(S, p, e, f, n)
  BY MoveOn
<1> QED
  BY <1>1, <1>2, <1>3, <1>4 DEF Places, MovedOn, MovedToFifth

\* What comes to the last place comes to the end of everything.
PutAtEnd(a, b, c, d, e, f, more) ==
    Places(a, b, c, d, e, f \o more) = Places(a, b, c, d, e, f) \o more

LEMMA PutLast ==
    ASSUME NEW S, NEW a \in Seq(S), NEW b \in Seq(S), NEW c \in Seq(S),
           NEW d \in Seq(S), NEW e \in Seq(S), NEW f \in Seq(S), NEW more \in Seq(S)
    PROVE  PutAtEnd(a, b, c, d, e, f, more)
<1>1. PICK q \in Seq(S) : q = a \o b
  BY ConcatProperties
<1>2. PICK r \in Seq(S) : r = q \o c
  BY ConcatProperties
<1>3. PICK o \in Seq(S) : o = r \o d
  BY ConcatProperties
<1>4. PICK p \in Seq(S) : p = o \o e
  BY ConcatProperties
<1>5. Regrouped(S, p, p, f, more)
  BY Regroup
<1> QED
  BY <1>1, <1>2, <1>3, <1>4, <1>5 DEF Places, Regrouped, PutAtEnd

\* The bytes written so far, and the next ones.
Numbers(n) == [k \in 1..n |-> k]
NumbersFrom(n, m) == [k \in 1..m |-> n + k]

LEMMA NumbersGoOn ==
    ASSUME NEW n \in Nat, NEW m \in Nat, NEW T, 1..n + m \subseteq T
    PROVE  /\ NumbersFrom(n, m) \in Seq(T)
           /\ Len(NumbersFrom(n, m)) = m
           /\ Numbers(n) \o NumbersFrom(n, m) = Numbers(n + m)
<1>1. /\ NumbersFrom(n, m) \in Seq(T) /\ Len(NumbersFrom(n, m)) = m
      /\ \A k \in 1..m : NumbersFrom(n, m)[k] = n + k
  <2>1. NumbersFrom(n, m) \in [1..m -> T]
    BY DEF NumbersFrom
  <2>2. NumbersFrom(n, m) \in Seq(T)
    BY <2>1, SeqDef
  <2> QED
    BY <2>1, <2>2, LenProperties DEF NumbersFrom
<1>2. /\ Numbers(n) \in Seq(T) /\ Len(Numbers(n)) = n
      /\ \A k \in 1..n : Numbers(n)[k] = k
  <2>1. Numbers(n) \in [1..n -> T]
    BY DEF Numbers
  <2>2. Numbers(n) \in Seq(T)
    BY <2>1, SeqDef
  <2> QED
    BY <2>1, <2>2, LenProperties DEF Numbers
<1>3. /\ Numbers(n + m) \in Seq(T) /\ Len(Numbers(n + m)) = n + m
      /\ \A k \in 1..n + m : Numbers(n + m)[k] = k
  <2>0. n + m \in Nat
    OBVIOUS
  <2>1. Numbers(n + m) \in [1..n + m -> T]
    BY DEF Numbers
  <2>2. Numbers(n + m) \in Seq(T)
    BY <2>0, <2>1, SeqDef
  <2> QED
    BY <2>0, <2>1, <2>2, LenProperties DEF Numbers
<1>4. PICK a \in Seq(T), b \in Seq(T) : a = Numbers(n) /\ b = NumbersFrom(n, m)
  BY <1>1, <1>2
<1>5. /\ a \o b \in Seq(T) /\ Len(a \o b) = Len(a) + Len(b)
      /\ \A k \in 1..Len(a) + Len(b) :
           (a \o b)[k] = IF k <= Len(a) THEN a[k] ELSE b[k - Len(a)]
  BY ConcatProperties
<1>6. Len(a) = n /\ Len(b) = m
  BY <1>1, <1>2, <1>4
<1>7. \A k \in 1..n + m : (a \o b)[k] = k
  <2> SUFFICES ASSUME NEW k \in 1..n + m PROVE (a \o b)[k] = k
    OBVIOUS
  <2>1. CASE k <= n
    <3>1. k \in 1..n
      BY <2>1
    <3> QED
      BY <3>1, <2>1, <1>2, <1>4, <1>5, <1>6
  <2>2. CASE ~(k <= n)
    <3>1. k - n \in 1..m /\ n + (k - n) = k
      BY <2>2
    <3>2. b[k - n] = k
      BY <3>1, <1>1, <1>4
    <3> QED
      BY <3>2, <2>2, <1>5, <1>6
  <2> QED
    BY <2>1, <2>2
<1>8. a \o b = Numbers(n + m)
  BY <1>3, <1>5, <1>6, <1>7, SeqEqual
<1> QED
  BY <1>1, <1>4, <1>8

-----------------------------------------------------------------------------
(* The inductive invariant.  The arrays hold bytes wherever there is       *)
(* something to read, and the copy receives only into an empty array.      *)

ServerOK ==
    /\ s_data \in [0..Size - 1 -> Byte \cup {Garbage}]
    /\ s_write \in 0..Size /\ s_read \in 0..s_write
    /\ \A i \in s_read..s_write - 1 : s_data[i] \in Byte

ClientOK ==
    /\ c_data \in [0..Limit - 1 -> Byte \cup {Garbage}]
    /\ c_write \in 0..Limit /\ c_read \in 0..c_write
    /\ \A i \in c_read..c_write - 1 : c_data[i] \in Byte

ControlOK ==
    /\ produced \in 0..Total
    /\ w_pc \in {"program", "send", "closed"}
    /\ w_ret \in {0, AnErrno} /\ errno \in {0, AnErrno}
    /\ p_pc \in {"recv", "send", "returned"}
    /\ p_ret \in {0, AnErrno}
    /\ failures \in 0..MaxFailures

TransitOK ==
    /\ wire1 \in Seq(Byte) /\ wire2 \in Seq(Byte)
    /\ p_buf \in Seq(Byte) /\ Len(p_buf) <= CopySize
    /\ (p_pc = "recv" => p_buf = <<>>)
    /\ consumed \in Seq(Byte)

SR == Server!Readable
CR == Client!Readable

RInv ==
    /\ ServerOK /\ ClientOK /\ ControlOK /\ TransitOK
    /\ Places(consumed, CR, wire2, p_buf, wire1, SR) = Numbers(produced)

LEMMA RInvImplies ==
    ASSUME RInv
    PROVE  RelayTypeOK /\ InOrder
BY DEF RInv, ServerOK, ClientOK, ControlOK, TransitOK, RelayTypeOK, InOrder,
       Places, Numbers, SR, CR

-----------------------------------------------------------------------------
(* The server's buffer.                                                    *)

LEMMA ServerReadable ==
    SR = Window(s_data, s_read, s_write)
BY DEF SR, Server!Readable, Server!buffer_available_read, Window

LEMMA ServerReadableIsSeq ==
    ASSUME ServerOK
    PROVE  SR \in Seq(Byte) /\ Len(SR) = s_write - s_read
<1>1. s_read \in Nat /\ s_write \in Nat /\ s_read <= s_write
  BY RelayAssumption DEF ServerOK
<1>2. WindowOK(Byte, s_data, s_read, s_write)
  BY <1>1, WindowIsSeq DEF ServerOK
<1> QED
  BY <1>2, ServerReadable DEF WindowOK

\* What is written in place, or with buffer_write, comes to the end.
LEMMA ServerPuts ==
    ASSUME ServerOK, NEW bytes \in Seq(Byte), Server!buffer_write_adv(bytes)
    PROVE  ServerOK' /\ SR' = SR \o bytes /\ Len(SR) + Len(bytes) <= Size
<1>0. /\ Size \in Nat /\ s_read \in Nat /\ s_write \in Nat /\ s_read <= s_write
      /\ s_write <= Size /\ Len(bytes) \in Nat
  BY RelayAssumption DEF ServerOK
<1>1. /\ s_write + Len(bytes) <= Size
      /\ s_write' = s_write + Len(bytes) /\ s_read' = s_read
      /\ s_data' = [k \in 0..Size - 1 |-> IF k \in s_write..s_write + Len(bytes) - 1
                                            THEN bytes[k - s_write + 1] ELSE s_data[k]]
  BY <1>0 DEF Server!buffer_write_adv, Server!buffer_available_write
<1>2. PICK d, e, r, w : d = s_data /\ e = s_data' /\ r = s_read /\ w = s_write
  OBVIOUS
<1>3. /\ d \in [0..Size - 1 -> Byte \cup {Garbage}]
      /\ \A i \in r..w - 1 : d[i] \in Byte
      /\ PutAt(Size, d, e, w, bytes)
      /\ r \in Nat /\ w \in Nat /\ r <= w /\ w + Len(bytes) <= Size
  BY <1>0, <1>1, <1>2 DEF ServerOK, PutAt
<1>4. e \in [0..Size - 1 -> Byte \cup {Garbage}] /\ Grown(Byte, d, e, r, w, bytes)
  BY <1>0, <1>3, ArrayPut
<1>5. SR' = Window(s_data', s_read', s_write')
  BY DEF SR, Server!Readable, Server!buffer_available_read, Window
<1>6. SR' = SR \o bytes
  BY <1>1, <1>2, <1>4, <1>5, ServerReadable DEF Grown
<1>7. ServerOK'
  BY <1>0, <1>1, <1>2, <1>4 DEF ServerOK, Grown
<1> QED
  BY <1>0, <1>1, <1>6, <1>7, ServerReadableIsSeq

\* What is taken leaves the rest.
LEMMA ServerSkips ==
    ASSUME ServerOK, NEW n \in 0..s_write - s_read,
           s_read' = s_read + n, UNCHANGED <<s_data, s_write>>
    PROVE  ServerOK' /\ SR' = Rest(n, SR)
<1>0. /\ Size \in Nat /\ s_read \in Nat /\ s_write \in Nat /\ s_read <= s_write
      /\ s_write <= Size /\ n \in Nat /\ s_read + n <= s_write
  BY RelayAssumption DEF ServerOK
<1>1. \A i \in s_read..s_write - 1 : s_data[i] \in Byte
  BY DEF ServerOK
<1>2. Window(s_data, s_read + n, s_write) = Rest(n, Window(s_data, s_read, s_write))
  <2>1. PICK d, r, w : d = s_data /\ r = s_read /\ w = s_write
    OBVIOUS
  <2>2. /\ r \in Nat /\ w \in Nat /\ r <= w /\ n \in 0..w - r
        /\ \A i \in r..w - 1 : d[i] \in Byte
    BY <1>0, <1>1, <2>1
  <2>3. Window(d, r + n, w) = Rest(n, Window(d, r, w))
    BY <2>2, WindowTake
  <2> QED
    BY <2>1, <2>3
<1>3. SR' = Window(s_data', s_read', s_write')
  BY DEF SR, Server!Readable, Server!buffer_available_read, Window
<1>4. SR' = Rest(n, SR)
  BY <1>2, <1>3, ServerReadable
<1>5. ServerOK'
  BY <1>0 DEF ServerOK
<1> QED
  BY <1>4, <1>5

LEMMA ServerResets ==
    ASSUME ServerOK, Server!buffer_reset
    PROVE  ServerOK' /\ SR' = <<>>
<1>1. s_read' = 0 /\ s_write' = 0 /\ s_data' = s_data /\ Size \in Nat
  BY RelayAssumption DEF Server!buffer_reset
<1>2. SR' = Window(s_data', s_read', s_write')
  BY DEF SR, Server!Readable, Server!buffer_available_read, Window
<1>3. PICK e : e = s_data'
  OBVIOUS
<1>4. Window(e, 0, 0) = <<>>
  BY WindowEmpty
<1>5. ServerOK'
  BY <1>1 DEF ServerOK
<1> QED
  BY <1>1, <1>2, <1>3, <1>4, <1>5

\* The rest of everything is nothing.
LEMMA NoRest ==
    ASSUME NEW S, NEW q \in Seq(S)
    PROVE  Rest(Len(q), q) = <<>>
<1>1. Len(q) \in 0..Len(q) /\ Len(q) - Len(q) = 0
  OBVIOUS
<1>2. Rest(Len(q), q) \in Seq(S) /\ Len(Rest(Len(q), q)) = 0
  BY <1>1, FirstAndRest
<1> QED
  BY <1>2, EmptySeq

LEMMA ServerTakes ==
    ASSUME ServerOK, NEW n \in 0..s_write - s_read, Server!buffer_read_adv(n)
    PROVE  /\ ServerOK' /\ SR' = Rest(n, SR)
           /\ (n = s_write - s_read => s_read' = s_write')
<1>0. s_read \in Nat /\ s_write \in Nat
  BY RelayAssumption DEF ServerOK
<1>1. CASE s_read + n = s_write
  <2>1. Server!buffer_reset
    BY <1>1 DEF Server!buffer_read_adv
  <2>2. n = s_write - s_read
    BY <1>0, <1>1
  <2>3. Rest(n, SR) = <<>>
    BY <2>2, NoRest, ServerReadableIsSeq
  <2>4. s_read' = s_write'
    BY <2>1 DEF Server!buffer_reset
  <2> QED
    BY <2>1, <2>3, <2>4, ServerResets
<1>2. CASE s_read + n # s_write
  <2>1. s_read' = s_read + n /\ UNCHANGED <<s_data, s_write>>
    BY <1>2 DEF Server!buffer_read_adv
  <2>2. n # s_write - s_read
    BY <1>0, <1>2
  <2> QED
    BY <2>1, <2>2, ServerSkips
<1> QED
  BY <1>1, <1>2

\* The byte that buffer_read returns is the first one to be read.
LEMMA ServerHead ==
    ASSUME ServerOK, wire1 \in Seq(Byte), Server!buffer_can_read
    PROVE  /\ 1 \in 0..s_write - s_read
           /\ Append(wire1, s_data[s_read]) = wire1 \o First(1, SR)
<1>0. s_read \in Nat /\ s_write \in Nat /\ s_read < s_write /\ s_read <= s_write
  BY RelayAssumption DEF ServerOK, Server!buffer_can_read
<1>1. PICK q \in Seq(Byte) : q = SR
  BY ServerReadableIsSeq
<1>2. 1 \in 0..Len(q) /\ 1 \in 1..s_write - s_read
  BY <1>0, <1>1, ServerReadableIsSeq
<1>3. WindowOK(Byte, s_data, s_read, s_write)
  BY <1>0, WindowIsSeq DEF ServerOK
<1>4. q[1] = s_data[s_read]
  BY <1>0, <1>1, <1>2, <1>3, ServerReadable DEF WindowOK
<1>5. Append(wire1, q[1]) = wire1 \o First(1, q)
  BY <1>2, OneMore
<1> QED
  BY <1>1, <1>2, <1>4, <1>5

-----------------------------------------------------------------------------
(* The client's buffer.                                                    *)

LEMMA ClientReadable ==
    CR = Window(c_data, c_read, c_write)
BY DEF CR, Client!Readable, Window

LEMMA ClientReadableIsSeq ==
    ASSUME ClientOK
    PROVE  CR \in Seq(Byte) /\ Len(CR) = c_write - c_read
<1>1. c_read \in Nat /\ c_write \in Nat /\ c_read <= c_write
  BY RelayAssumption DEF ClientOK
<1>2. WindowOK(Byte, c_data, c_read, c_write)
  BY <1>1, WindowIsSeq DEF ClientOK
<1> QED
  BY <1>2, ClientReadable DEF WindowOK

LEMMA ClientPuts ==
    ASSUME ClientOK, NEW bytes \in Seq(Byte), NEW n, n = Len(bytes),
           Client!buffer_write_adv(n, bytes)
    PROVE  ClientOK' /\ CR' = CR \o bytes /\ Len(CR) + Len(bytes) <= Limit
<1>0. /\ Limit \in Nat /\ c_read \in Nat /\ c_write \in Nat /\ c_read <= c_write
      /\ c_write <= Limit /\ Len(bytes) \in Nat /\ n > -1
  BY RelayAssumption DEF ClientOK
<1>1. /\ c_write + Len(bytes) <= Limit
      /\ c_write' = c_write + Len(bytes) /\ c_read' = c_read
      /\ c_data' = [k \in 0..Limit - 1 |-> IF k \in c_write..c_write + Len(bytes) - 1
                                             THEN bytes[k - c_write + 1] ELSE c_data[k]]
  BY <1>0 DEF Client!buffer_write_adv, Client!Room
<1>2. PICK d, e, r, w : d = c_data /\ e = c_data' /\ r = c_read /\ w = c_write
  OBVIOUS
<1>3. /\ d \in [0..Limit - 1 -> Byte \cup {Garbage}]
      /\ \A i \in r..w - 1 : d[i] \in Byte
      /\ PutAt(Limit, d, e, w, bytes)
      /\ r \in Nat /\ w \in Nat /\ r <= w /\ w + Len(bytes) <= Limit
  BY <1>0, <1>1, <1>2 DEF ClientOK, PutAt
<1>4. e \in [0..Limit - 1 -> Byte \cup {Garbage}] /\ Grown(Byte, d, e, r, w, bytes)
  BY <1>0, <1>3, ArrayPut
<1>5. CR' = Window(c_data', c_read', c_write')
  BY DEF CR, Client!Readable, Window
<1>6. CR' = CR \o bytes
  BY <1>1, <1>2, <1>4, <1>5, ClientReadable DEF Grown
<1>7. ClientOK'
  <2>1. \A i \in c_read'..c_write' - 1 : c_data'[i] \in Byte
    <3>1. c_read' = r /\ c_write' = w + Len(bytes) /\ c_data' = e
      BY <1>1, <1>2
    <3>2. \A i \in r..w + Len(bytes) - 1 : e[i] \in Byte
      BY <1>4 DEF Grown
    <3> QED
      BY <1>0, <1>2, <3>1, <3>2
  <2>2. /\ c_data' \in [0..Limit - 1 -> Byte \cup {Garbage}]
        /\ c_write' \in 0..Limit /\ c_read' \in 0..c_write'
    BY <1>0, <1>1, <1>2, <1>4
  <2> QED
    BY <2>1, <2>2 DEF ClientOK
<1> QED
  BY <1>0, <1>1, <1>6, <1>7, ClientReadableIsSeq

\* The -1 of a failed recv changes nothing.
LEMMA ClientPutsNothing ==
    ASSUME ClientOK, Client!buffer_write_adv(-1, <<>>)
    PROVE  UNCHANGED <<c_data, c_read, c_write>>
<1>1. /\ c_write' = c_write /\ c_read' = c_read
      /\ c_data' = [k \in 0..Limit - 1 |-> c_data[k]]
  BY DEF Client!buffer_write_adv
<1> QED
  BY <1>1 DEF ClientOK

LEMMA ClientResets ==
    ASSUME ClientOK, Client!buffer_reset
    PROVE  ClientOK' /\ CR' = <<>>
<1>1. c_read' = 0 /\ c_write' = 0 /\ c_data' = c_data /\ Limit \in Nat
  BY RelayAssumption DEF Client!buffer_reset
<1>2. CR' = Window(c_data', c_read', c_write')
  BY DEF CR, Client!Readable, Window
<1>3. PICK e : e = c_data'
  OBVIOUS
<1>4. Window(e, 0, 0) = <<>>
  BY WindowEmpty
<1>5. ClientOK'
  BY <1>1 DEF ClientOK
<1> QED
  BY <1>1, <1>2, <1>3, <1>4, <1>5

LEMMA ClientTakes ==
    ASSUME ClientOK, NEW n \in 0..c_write - c_read, Client!buffer_read_adv(n)
    PROVE  ClientOK' /\ CR' = Rest(n, CR)
<1>0. /\ Limit \in Nat /\ c_read \in Nat /\ c_write \in Nat /\ c_read <= c_write
      /\ c_write <= Limit /\ n \in Nat /\ c_read + n <= c_write /\ n > -1
  BY RelayAssumption DEF ClientOK
<1>1. CASE c_read + n = c_write
  <2>1. Client!buffer_reset
    BY <1>0, <1>1 DEF Client!buffer_read_adv
  <2>2. n = c_write - c_read
    BY <1>0, <1>1
  <2>3. Rest(n, CR) = <<>>
    BY <2>2, NoRest, ClientReadableIsSeq
  <2> QED
    BY <2>1, <2>3, ClientResets
<1>2. CASE c_read + n # c_write
  <2>1. c_read' = c_read + n /\ UNCHANGED <<c_data, c_write>>
    BY <1>0, <1>2 DEF Client!buffer_read_adv
  <2>2. PICK d, r, w : d = c_data /\ r = c_read /\ w = c_write
    OBVIOUS
  <2>3. /\ r \in Nat /\ w \in Nat /\ r <= w /\ n \in 0..w - r
        /\ \A i \in r..w - 1 : d[i] \in Byte
    BY <1>0, <2>2 DEF ClientOK
  <2>4. Window(d, r + n, w) = Rest(n, Window(d, r, w))
    BY <2>3, WindowTake
  <2>5. CR' = Window(c_data', c_read', c_write')
    BY DEF CR, Client!Readable, Window
  <2>6. CR' = Rest(n, CR)
    BY <2>1, <2>2, <2>4, <2>5, ClientReadable
  <2>7. ClientOK'
    BY <1>0, <2>1 DEF ClientOK
  <2> QED
    BY <2>6, <2>7
<1> QED
  BY <1>1, <1>2

LEMMA ClientHead ==
    ASSUME ClientOK, consumed \in Seq(Byte), Client!buffer_can_read
    PROVE  /\ 1 \in 1..c_write - c_read
           /\ Append(consumed, c_data[c_read]) = consumed \o First(1, CR)
<1>0. c_read \in Nat /\ c_write \in Nat /\ c_read < c_write /\ c_read <= c_write
  BY RelayAssumption DEF ClientOK, Client!buffer_can_read
<1>1. PICK q \in Seq(Byte) : q = CR
  BY ClientReadableIsSeq
<1>2. 1 \in 0..Len(q) /\ 1 \in 1..c_write - c_read
  BY <1>0, <1>1, ClientReadableIsSeq
<1>3. WindowOK(Byte, c_data, c_read, c_write)
  BY <1>0, WindowIsSeq DEF ClientOK
<1>4. q[1] = c_data[c_read]
  BY <1>0, <1>1, <1>2, <1>3, ClientReadable DEF WindowOK
<1>5. Append(consumed, q[1]) = consumed \o First(1, q)
  BY <1>2, OneMore
<1> QED
  BY <1>1, <1>2, <1>4, <1>5

\* Compaction leaves what there is to read as it is.
LEMMA ClientCompacted ==
    ASSUME ClientOK, Client!buffer_compact
    PROVE  ClientOK' /\ CR' = CR
<1>0. /\ Limit \in Nat /\ c_read \in Nat /\ c_write \in Nat /\ c_read <= c_write
      /\ c_write <= Limit
  BY RelayAssumption DEF ClientOK
<1>1. CASE c_read = 0 /\ UNCHANGED Client!buffer
  BY <1>1 DEF ClientOK, Client!buffer, CR, Client!Readable
<1>2. CASE c_read # 0 /\ c_read = c_write /\ Client!buffer_reset
  <2>1. CR \in Seq(Byte) /\ Len(CR) = 0
    BY <1>0, <1>2, ClientReadableIsSeq
  <2>2. CR = <<>>
    BY <2>1, EmptySeq
  <2> QED
    BY <1>2, <2>2, ClientResets
<1>3. CASE /\ c_read # 0 /\ c_read # c_write
           /\ c_data' = [k \in 0..Limit - 1 |->
                           IF k < c_write - c_read THEN c_data[c_read + k] ELSE c_data[k]]
           /\ c_write' = c_write - c_read
           /\ c_read' = 0
  <2>1. PICK d, e, r, w : d = c_data /\ e = c_data' /\ r = c_read /\ w = c_write
    OBVIOUS
  <2>2. /\ d \in [0..Limit - 1 -> Byte \cup {Garbage}]
        /\ r \in Nat /\ w \in Nat /\ r <= w /\ w <= Limit /\ \A i \in r..w - 1 : d[i] \in Byte
        /\ e = [k \in 0..Limit - 1 |-> IF k < w - r THEN d[r + k] ELSE d[k]]
    BY <1>0, <1>3, <2>1 DEF ClientOK
  <2>3. \A k \in 0..w - r - 1 : e[k] = d[r + k]
    <3> SUFFICES ASSUME NEW k \in 0..w - r - 1 PROVE e[k] = d[r + k]
      OBVIOUS
    <3>1. k \in 0..Limit - 1 /\ k < w - r
      BY <1>0, <2>2
    <3> QED
      BY <3>1, <2>2
  <2>4. Window(e, 0, w - r) = Window(d, r, w) /\ \A i \in 0..w - r - 1 : e[i] \in Byte
    <3>1. MovedDown(Byte, d, e, r, w)
      BY <2>2, <2>3, WindowMove
    <3> QED
      BY <3>1 DEF MovedDown
  <2>5. e \in [0..Limit - 1 -> Byte \cup {Garbage}]
    <3> SUFFICES ASSUME NEW k \in 0..Limit - 1 PROVE e[k] \in Byte \cup {Garbage}
      BY <2>2
    <3>1. CASE k < w - r
      <4>1. k \in 0..w - r - 1
        BY <2>2, <3>1
      <4> QED
        BY <4>1, <2>4
    <3>2. CASE ~(k < w - r)
      BY <2>2, <3>2
    <3> QED
      BY <3>1, <3>2
  <2>6. CR' = Window(c_data', c_read', c_write')
    BY DEF CR, Client!Readable, Window
  <2>7. CR' = CR
    BY <1>3, <2>1, <2>4, <2>6, ClientReadable
  <2>8. ClientOK'
    <3>1. \A i \in c_read'..c_write' - 1 : c_data'[i] \in Byte
      BY <1>0, <1>3, <2>1, <2>4
    <3>2. /\ c_data' \in [0..Limit - 1 -> Byte \cup {Garbage}]
          /\ c_write' \in 0..Limit /\ c_read' \in 0..c_write'
      BY <1>0, <1>3, <2>1, <2>5
    <3> QED
      BY <3>1, <3>2 DEF ClientOK
  <2> QED
    BY <2>7, <2>8
<1> QED
  BY <1>1, <1>2, <1>3 DEF Client!buffer_compact

-----------------------------------------------------------------------------
(* Steps.                                                                  *)

Good ==
    /\ RInv'
    /\ ServerQueue!Next \/ UNCHANGED SR
    /\ ClientQueue!Next \/ UNCHANGED CR

LEMMA ServerUnchanged ==
    ASSUME RInv, UNCHANGED s_buffer
    PROVE  ServerOK' /\ UNCHANGED SR
BY DEF RInv, s_buffer, ServerOK, SR, Server!Readable, Server!buffer_available_read

LEMMA ClientUnchanged ==
    ASSUME RInv, UNCHANGED <<c_data, c_read, c_write>>
    PROVE  ClientOK' /\ UNCHANGED CR
BY DEF RInv, ClientOK, CR, Client!Readable

LEMMA TransitUnchanged ==
    ASSUME RInv, UNCHANGED <<wire1, proxy, wire2, consumed>>
    PROVE  TransitOK'
BY DEF RInv, TransitOK, proxy

LEMMA ServerQueueTakes ==
    ASSUME ServerOK, NEW n \in 1..s_write - s_read, SR' = Rest(n, SR)
    PROVE  ServerQueue!Next
<1>1. n \in 1..Len(SR)
  BY ServerReadableIsSeq
<1>2. ServerQueue!Take(n)
  BY <1>1 DEF ServerQueue!Take, Rest, SR
<1> QED
  BY <1>1, <1>2 DEF ServerQueue!Next, SR

LEMMA ServerQueuePuts ==
    ASSUME NEW n \in 1..Size, NEW bytes \in Seq(Byte), Len(bytes) = n,
           Len(SR) + Len(bytes) <= Size, SR' = SR \o bytes
    PROVE  ServerQueue!Next
<1>1. bytes \in [1..n -> Byte]
  OBVIOUS
<1>2. ServerQueue!Put(bytes)
  BY DEF ServerQueue!Put, SR
<1> QED
  BY <1>1, <1>2 DEF ServerQueue!Next

LEMMA ClientQueueTakes ==
    ASSUME ClientOK, NEW n \in 1..c_write - c_read, CR' = Rest(n, CR)
    PROVE  ClientQueue!Next
<1>1. n \in 1..Len(CR)
  BY ClientReadableIsSeq
<1>2. ClientQueue!Take(n)
  BY <1>1 DEF ClientQueue!Take, Rest, CR
<1> QED
  BY <1>1, <1>2 DEF ClientQueue!Next, CR

LEMMA ClientQueuePuts ==
    ASSUME NEW n \in 1..Limit, NEW bytes \in Seq(Byte), Len(bytes) = n,
           Len(CR) + Len(bytes) <= Limit, CR' = CR \o bytes
    PROVE  ClientQueue!Next
<1>1. bytes \in [1..n -> Byte]
  OBVIOUS
<1>2. ClientQueue!Put(bytes)
  BY DEF ClientQueue!Put, CR
<1> QED
  BY <1>1, <1>2 DEF ClientQueue!Next

LEMMA InitRInv ==
    ASSUME Init
    PROVE  RInv /\ SR = <<>> /\ CR = <<>>
<1>0. Size \in Nat /\ Limit \in Nat /\ CopySize \in Nat /\ Total \in Nat /\ MaxFailures \in Nat
  BY RelayAssumption
<1>1. ServerOK /\ s_read = 0 /\ s_write = 0
  BY <1>0 DEF Init, Server!buffer_init, ServerOK
<1>2. ClientOK /\ c_read = 0 /\ c_write = 0
  BY <1>0 DEF Init, Client!buffer_init, ClientOK
<1>3. SR = <<>>
  BY <1>1, ServerReadable, WindowEmpty
<1>4. CR = <<>>
  BY <1>2, ClientReadable, WindowEmpty
<1>5. ControlOK /\ TransitOK
  BY <1>0 DEF Init, ControlOK, TransitOK, AnErrno
<1>6. Places(consumed, CR, wire2, p_buf, wire1, SR) = <<>>
  BY <1>3, <1>4 DEF Init, Places
<1>7. Numbers(produced) = <<>>
  <2>1. Numbers(0) = <<>>
    BY DEF Numbers
  <2> QED
    BY <2>1 DEF Init
<1> QED
  BY <1>1, <1>2, <1>3, <1>4, <1>5, <1>6, <1>7 DEF RInv

\* What the program writes, one byte or several, follows what it has written.
LEMMA ProducesGood ==
    ASSUME RInv, NEW n \in Nat \ {0}, produced + n <= Total,
           Server!buffer_write_adv(NumbersFrom(produced, n)),
           produced' = produced + n,
           UNCHANGED <<w_pc, w_ret, errno, wire1, proxy, wire2, client, failures>>
    PROVE  Good
<1>1. PICK m : m = produced
  OBVIOUS
<1>2. m \in Nat /\ n \in Nat /\ Total \in Nat
  BY <1>1, RelayAssumption DEF RInv, ControlOK
<1>3. PICK bytes : bytes = NumbersFrom(m, n)
  OBVIOUS
<1>4. /\ bytes \in Seq(Byte) /\ Len(bytes) = n
      /\ Numbers(m) \o bytes = Numbers(m + n)
  <2>1. 1..m + n \subseteq Byte
    BY <1>1, <1>2 DEF Byte
  <2> QED
    BY <1>2, <1>3, <2>1, NumbersGoOn
<1>5. bytes \in Seq(Byte)
  BY <1>4
<1>6. ServerOK' /\ SR' = SR \o bytes /\ Len(SR) + Len(bytes) <= Size
  BY <1>1, <1>3, <1>5, ServerPuts DEF RInv
<1>7. ServerQueue!Next
  <2>1. SR \in Seq(Byte)
    BY ServerReadableIsSeq DEF RInv
  <2>2. n \in 1..Size
    BY <1>4, <1>6, <2>1, RelayAssumption
  <2> QED
    BY <1>4, <1>5, <1>6, <2>2, ServerQueuePuts
<1>8. ClientOK' /\ UNCHANGED CR
  BY ClientUnchanged DEF client
<1>9. TransitOK'
  BY TransitUnchanged DEF client
<1>10. ControlOK'
  BY <1>1, <1>2 DEF RInv, ControlOK, proxy
<1>11. Places(consumed, CR, wire2, p_buf, wire1, SR \o bytes)
         = Places(consumed, CR, wire2, p_buf, wire1, SR) \o bytes
  <2>1. SR \in Seq(Byte) /\ CR \in Seq(Byte)
    BY ServerReadableIsSeq, ClientReadableIsSeq DEF RInv
  <2>2. /\ consumed \in Seq(Byte) /\ wire2 \in Seq(Byte) /\ p_buf \in Seq(Byte)
        /\ wire1 \in Seq(Byte)
    BY DEF RInv, TransitOK
  <2>3. PutAtEnd(consumed, CR, wire2, p_buf, wire1, SR, bytes)
    BY <1>5, <2>1, <2>2, PutLast
  <2> QED
    BY <2>3 DEF PutAtEnd
<1>12. (Places(consumed, CR, wire2, p_buf, wire1, SR) = Numbers(produced))'
  <2>1. UNCHANGED <<consumed, wire2, p_buf, wire1>>
    BY DEF client, proxy
  <2> QED
    BY <1>1, <1>4, <1>6, <1>8, <1>11, <2>1 DEF RInv
<1> QED
  BY <1>6, <1>7, <1>8, <1>9, <1>10, <1>12 DEF Good, RInv

LEMMA ProduceGood ==
    ASSUME RInv, Produce
    PROVE  Good
<1>0. produced \in Nat
  BY RelayAssumption DEF RInv, ControlOK
<1>1. CASE /\ produced < Total
           /\ Server!buffer_write(produced + 1)
           /\ produced' = produced + 1
  <2>1. NumbersFrom(produced, 1) = <<produced + 1>>
    <3>1. 1..1 = {1}
      OBVIOUS
    <3> QED
      BY <3>1 DEF NumbersFrom
  <2>2. Server!buffer_write_adv(<<produced + 1>>)
    <3>0. /\ Size \in Nat /\ s_read \in Nat /\ s_write \in Nat /\ s_write < Size
      BY RelayAssumption DEF RInv, ServerOK, Produce, Server!buffer_can_write
    <3>1. /\ s_data' = [s_data EXCEPT ![s_write] = produced + 1]
          /\ s_write' = s_write + 1 /\ s_read' = s_read
      BY <3>0, <1>1 DEF Server!buffer_write, Server!buffer_can_write
    <3>2. s_data \in [0..Size - 1 -> Byte \cup {Garbage}]
      BY DEF RInv, ServerOK
    <3>3. Len(<<produced + 1>>) = 1
      OBVIOUS
    <3>4. PICK d, e, w, b : d = s_data /\ e = s_data' /\ w = s_write /\ b = produced + 1
      OBVIOUS
    <3>5. /\ d \in [0..Size - 1 -> Byte \cup {Garbage}] /\ w \in 0..Size - 1
          /\ e = [d EXCEPT ![w] = b]
      BY <3>0, <3>1, <3>2, <3>4
    <3>6. PutAt(Size, d, e, w, <<b>>)
      BY <3>0, <3>5, OnePut
    <3>7. PutAt(Size, s_data, s_data', s_write, <<produced + 1>>)
      BY <3>4, <3>6
    <3>8. Len(<<produced + 1>>) <= Size - s_write
      BY <3>0, <3>3
    <3> QED
      BY <3>1, <3>3, <3>7, <3>8
      DEF PutAt, Server!buffer_write_adv, Server!buffer_available_write
  <2>3. produced + 1 <= Total
    BY <1>0, <1>1, RelayAssumption
  <2> QED
    BY <1>1, <2>1, <2>2, <2>3, ProducesGood DEF Produce
<1>2. ASSUME NEW n \in 2..Server!buffer_available_write,
             produced + n <= Total,
             Server!buffer_write_adv([k \in 1..n |-> produced + k]),
             produced' = produced + n
      PROVE  Good
  <2>1. n \in Nat \ {0}
    OBVIOUS
  <2>2. Server!buffer_write_adv(NumbersFrom(produced, n))
    BY <1>2 DEF NumbersFrom
  <2> QED
    BY <1>2, <2>1, <2>2, ProducesGood DEF Produce
<1> QED
  BY <1>1, <1>2 DEF Produce

\* A step that moves no byte.
LEMMA IdleGood ==
    ASSUME RInv, ControlOK', p_pc' = "recv" => p_pc = "recv",
           UNCHANGED <<s_buffer, produced, wire1, p_buf, wire2, client>>
    PROVE  Good
<1>1. ServerOK' /\ UNCHANGED SR
  BY ServerUnchanged
<1>2. ClientOK' /\ UNCHANGED CR
  BY ClientUnchanged DEF client
<1>3. TransitOK' /\ UNCHANGED <<consumed, wire2, p_buf, wire1, produced>>
  BY DEF RInv, TransitOK, client
<1>4. (Places(consumed, CR, wire2, p_buf, wire1, SR) = Numbers(produced))'
  BY <1>1, <1>2, <1>3 DEF RInv
<1> QED
  BY <1>1, <1>2, <1>3, <1>4 DEF Good, RInv

\* The sequences that a state is made of.
LEMMA AllAreSeqs ==
    ASSUME RInv
    PROVE  /\ consumed \in Seq(Byte) /\ CR \in Seq(Byte) /\ wire2 \in Seq(Byte)
           /\ p_buf \in Seq(Byte) /\ wire1 \in Seq(Byte) /\ SR \in Seq(Byte)
           /\ Len(SR) = s_write - s_read /\ Len(CR) = c_write - c_read
BY ServerReadableIsSeq, ClientReadableIsSeq DEF RInv, TransitOK

\* The first n bytes of the server's buffer are sent.
LEMMA SentGood ==
    ASSUME RInv, NEW n \in 1..s_write - s_read, ServerOK', SR' = Rest(n, SR),
           wire1' = wire1 \o First(n, SR), ControlOK',
           UNCHANGED <<produced, proxy, wire2, client>>
    PROVE  Good
<1>1. n \in 0..Len(SR)
  BY AllAreSeqs
<1>2. UNCHANGED <<produced, p_pc, p_buf, wire2, consumed>>
  BY DEF proxy, client
<1>3. ClientOK' /\ UNCHANGED CR
  BY ClientUnchanged DEF client
<1>4. ServerQueue!Next
  BY ServerQueueTakes DEF RInv
<1>5. wire1' \in Seq(Byte)
  BY <1>1, AllAreSeqs, FirstAndRest, ConcatProperties
<1>6. TransitOK'
  BY <1>2, <1>5 DEF RInv, TransitOK
<1>7. Places(consumed, CR, wire2, p_buf, wire1 \o First(n, SR), Rest(n, SR))
        = Places(consumed, CR, wire2, p_buf, wire1, SR)
  <2>1. MovedToFifth(consumed, CR, wire2, p_buf, wire1, SR, n)
    BY <1>1, AllAreSeqs, MoveToFifth
  <2> QED
    BY <2>1 DEF MovedToFifth
<1>8. (Places(consumed, CR, wire2, p_buf, wire1, SR) = Numbers(produced))'
  BY <1>2, <1>3, <1>7 DEF RInv
<1> QED
  BY <1>3, <1>4, <1>6, <1>8 DEF Good, RInv

LEMMA SendByteGood ==
    ASSUME RInv, SendByte
    PROVE  Good
<1>1. /\ 1 \in 1..s_write - s_read
      /\ Append(wire1, s_data[s_read]) = wire1 \o First(1, SR)
  BY ServerHead DEF SendByte, RInv, TransitOK
<1>2. s_read' = s_read + 1 /\ UNCHANGED <<s_data, s_write>>
  BY DEF SendByte, Server!buffer_read
<1>3. ServerOK' /\ SR' = Rest(1, SR)
  BY <1>1, <1>2, ServerSkips DEF RInv
<1>4. wire1' = wire1 \o First(1, SR) /\ UNCHANGED <<produced, proxy, wire2, client>>
  BY <1>1 DEF SendByte
<1>5. ControlOK'
  BY DEF RInv, ControlOK, SendByte, proxy
<1> QED
  BY <1>1, <1>3, <1>4, <1>5, SentGood

LEMMA ResetGood ==
    ASSUME RInv, Reset
    PROVE  Good
<1>1. SR = <<>>
  <2>1. s_read \in Nat /\ s_write \in Nat /\ s_read <= s_write /\ ~(s_read < s_write)
    BY RelayAssumption DEF RInv, ServerOK, Reset, Server!buffer_can_read
  <2>2. SR \in Seq(Byte) /\ Len(SR) = 0
    BY <2>1, AllAreSeqs
  <2> QED
    BY <2>2, EmptySeq
<1>2. ServerOK' /\ SR' = <<>>
  BY ServerResets DEF Reset, RInv
<1>3. ClientOK' /\ UNCHANGED CR
  BY ClientUnchanged DEF Reset, client
<1>4. TransitOK'
  BY TransitUnchanged DEF Reset, client
<1>5. ControlOK'
  BY DEF RInv, ControlOK, Reset, proxy
<1>6. UNCHANGED <<consumed, wire2, p_buf, wire1, produced>>
  BY DEF Reset, client, proxy
<1>7. (Places(consumed, CR, wire2, p_buf, wire1, SR) = Numbers(produced))'
  BY <1>1, <1>2, <1>3, <1>6 DEF RInv
<1> QED
  BY <1>1, <1>2, <1>3, <1>4, <1>5, <1>7 DEF Good, RInv

LEMMA WriteSendGood ==
    ASSUME RInv, WriteSend
    PROVE  Good
<1>1. PICK n \in 1..Server!buffer_available_read :
        /\ wire1' = wire1 \o First(n, SR)
        /\ Server!buffer_read_adv(n)
        /\ \/ n < Server!buffer_available_read /\ UNCHANGED <<w_pc, w_ret>>
           \/ n = Server!buffer_available_read /\ WriteReturns(0)
  BY DEF WriteSend, SR
<1>2. n \in 1..s_write - s_read /\ n \in 0..s_write - s_read
  BY <1>1 DEF Server!buffer_available_read
<1>3. ServerOK' /\ SR' = Rest(n, SR)
  BY <1>1, <1>2, ServerTakes DEF RInv
<1>4. ControlOK'
  BY <1>1 DEF RInv, ControlOK, WriteSend, WriteReturns, proxy
<1>5. UNCHANGED <<produced, proxy, wire2, client>>
  BY DEF WriteSend
<1> QED
  BY <1>1, <1>2, <1>3, <1>4, <1>5, SentGood

\* The array of sock_blocking_copy is empty when recv fills it.
LEMMA CopyReceivesGood ==
    ASSUME RInv, CopyReceives
    PROVE  Good
<1>1. PICK n \in 1..Len(wire1) :
        n <= CopySize /\ p_buf' = First(n, wire1) /\ wire1' = Rest(n, wire1)
  BY DEF CopyReceives
<1>2. n \in 0..Len(wire1) /\ p_buf = <<>> /\ p_pc' = "send"
  BY DEF CopyReceives, RInv, TransitOK
<1>3. /\ First(n, wire1) \in Seq(Byte) /\ Rest(n, wire1) \in Seq(Byte)
      /\ Len(First(n, wire1)) = n
  BY <1>2, AllAreSeqs, FirstAndRest
<1>4. p_buf' = p_buf \o First(n, wire1)
  BY <1>1, <1>2, <1>3
<1>5. ServerOK' /\ UNCHANGED SR
  BY ServerUnchanged DEF CopyReceives, server
<1>6. ClientOK' /\ UNCHANGED CR
  BY ClientUnchanged DEF CopyReceives, client
<1>7. TransitOK'
  BY <1>1, <1>2, <1>3 DEF RInv, TransitOK, CopyReceives, client
<1>8. ControlOK'
  BY DEF RInv, ControlOK, CopyReceives, server
<1>9. Places(consumed, CR, wire2, p_buf \o First(n, wire1), Rest(n, wire1), SR)
        = Places(consumed, CR, wire2, p_buf, wire1, SR)
  <2>1. MovedToFourth(consumed, CR, wire2, p_buf, wire1, SR, n)
    BY <1>2, AllAreSeqs, MoveToFourth
  <2> QED
    BY <2>1 DEF MovedToFourth
<1>10. UNCHANGED <<consumed, wire2, produced>>
  BY DEF CopyReceives, client, server
<1>11. (Places(consumed, CR, wire2, p_buf, wire1, SR) = Numbers(produced))'
  BY <1>1, <1>4, <1>5, <1>6, <1>9, <1>10 DEF RInv
<1> QED
  BY <1>5, <1>6, <1>7, <1>8, <1>11 DEF Good, RInv

LEMMA CopySendsGood ==
    ASSUME RInv, CopySends
    PROVE  Good
<1>1. PICK n \in 1..Len(p_buf) :
        wire2' = wire2 \o First(n, p_buf) /\ p_buf' = Rest(n, p_buf)
  BY DEF CopySends
<1>2. n \in 0..Len(p_buf) /\ p_pc' = IF p_buf' = <<>> THEN "recv" ELSE "send"
  BY DEF CopySends
<1>3. /\ First(n, p_buf) \in Seq(Byte) /\ Rest(n, p_buf) \in Seq(Byte)
      /\ Len(Rest(n, p_buf)) = Len(p_buf) - n
  BY <1>2, AllAreSeqs, FirstAndRest
<1>4. wire2' \in Seq(Byte)
  BY <1>1, <1>3, AllAreSeqs, ConcatProperties
<1>5. ServerOK' /\ UNCHANGED SR
  BY ServerUnchanged DEF CopySends, server
<1>6. ClientOK' /\ UNCHANGED CR
  BY ClientUnchanged DEF CopySends, client
<1>7. TransitOK'
  <2>1. Len(p_buf) \in Nat /\ Len(p_buf) <= CopySize /\ CopySize \in Nat
    BY RelayAssumption, AllAreSeqs DEF RInv, TransitOK
  <2>2. Len(p_buf') <= CopySize
    BY <1>1, <1>3, <2>1
  <2> QED
    BY <1>1, <1>2, <1>3, <1>4, <2>2 DEF RInv, TransitOK, CopySends, client
<1>8. ControlOK'
  BY <1>2 DEF RInv, ControlOK, CopySends, server
<1>9. Places(consumed, CR, wire2 \o First(n, p_buf), Rest(n, p_buf), wire1, SR)
        = Places(consumed, CR, wire2, p_buf, wire1, SR)
  <2>1. MovedToThird(consumed, CR, wire2, p_buf, wire1, SR, n)
    BY <1>2, AllAreSeqs, MoveToThird
  <2> QED
    BY <2>1 DEF MovedToThird
<1>10. UNCHANGED <<consumed, wire1, produced>>
  BY DEF CopySends, client, server
<1>11. (Places(consumed, CR, wire2, p_buf, wire1, SR) = Numbers(produced))'
  BY <1>1, <1>5, <1>6, <1>9, <1>10 DEF RInv
<1> QED
  BY <1>5, <1>6, <1>7, <1>8, <1>11 DEF Good, RInv

LEMMA ClientReceivesGood ==
    ASSUME RInv, ClientReceives
    PROVE  Good
<1>1. PICK n \in 1..Len(wire2) :
        /\ n <= Client!Room
        /\ \/ Client!buffer_write_adv(n, First(n, wire2))
           \/ n = 1 /\ Client!buffer_write(wire2[1])
        /\ wire2' = Rest(n, wire2)
  BY DEF ClientReceives
<1>2. n \in 0..Len(wire2)
  OBVIOUS
<1>3. /\ First(n, wire2) \in Seq(Byte) /\ Rest(n, wire2) \in Seq(Byte)
      /\ Len(First(n, wire2)) = n
  BY <1>2, AllAreSeqs, FirstAndRest
<1>4. Client!buffer_write_adv(n, First(n, wire2))
  <2>1. CASE n = 1 /\ Client!buffer_write(wire2[1])
    <3>1. Client!buffer_can_write
      BY DEF ClientReceives
    <3>2. First(1, wire2) = <<wire2[1]>>
      <4>1. PICK f \in Seq(Byte) : f = First(1, wire2)
        BY <2>1, <1>3
      <4>2. Len(f) = 1 /\ f[1] = wire2[1]
        <5>1. \A k \in 1..1 : First(1, wire2)[k] = wire2[k]
          BY <2>1, <1>2, AllAreSeqs, FirstAndRest
        <5>2. 1 \in 1..1
          OBVIOUS
        <5> QED
          BY <2>1, <1>3, <4>1, <5>1, <5>2
      <4>3. f = <<f[1]>>
        BY <4>2
      <4> QED
        BY <4>1, <4>2, <4>3
    <3> QED
      BY <2>1, <3>1, <3>2 DEF Client!buffer_write
  <2> QED
    BY <1>1, <2>1
<1>5. ClientOK' /\ CR' = CR \o First(n, wire2) /\ Len(CR) + Len(First(n, wire2)) <= Limit
  BY <1>3, <1>4, ClientPuts DEF RInv
<1>6. ClientQueue!Next
  <2>1. n \in 1..Limit
    BY <1>3, <1>5, AllAreSeqs, RelayAssumption
  <2> QED
    BY <1>3, <1>5, <2>1, ClientQueuePuts
<1>7. ServerOK' /\ UNCHANGED SR
  BY ServerUnchanged DEF ClientReceives, server
<1>8. TransitOK'
  BY <1>1, <1>3 DEF RInv, TransitOK, ClientReceives, proxy
<1>9. ControlOK'
  BY DEF RInv, ControlOK, ClientReceives, server, proxy
<1>10. Places(consumed, CR \o First(n, wire2), Rest(n, wire2), p_buf, wire1, SR)
        = Places(consumed, CR, wire2, p_buf, wire1, SR)
  <2>1. MovedToSecond(consumed, CR, wire2, p_buf, wire1, SR, n)
    BY <1>2, AllAreSeqs, MoveToSecond
  <2> QED
    BY <2>1 DEF MovedToSecond
<1>11. UNCHANGED <<consumed, p_buf, wire1, produced>>
  BY DEF ClientReceives, proxy, server
<1>12. (Places(consumed, CR, wire2, p_buf, wire1, SR) = Numbers(produced))'
  BY <1>1, <1>5, <1>7, <1>10, <1>11 DEF RInv
<1> QED
  BY <1>5, <1>6, <1>7, <1>8, <1>9, <1>12 DEF Good, RInv

\* The client takes its first n bytes.
LEMMA TakenGood ==
    ASSUME RInv, NEW n \in 1..c_write - c_read, consumed' = consumed \o First(n, CR),
           Client!buffer_read_adv(n),
           UNCHANGED <<server, wire1, proxy, wire2, failures>>
    PROVE  Good
<1>1. n \in 0..Len(CR) /\ n \in 0..c_write - c_read
  BY AllAreSeqs
<1>2. ClientOK' /\ CR' = Rest(n, CR)
  BY <1>1, ClientTakes DEF RInv
<1>3. ClientQueue!Next
  BY <1>2, ClientQueueTakes DEF RInv
<1>4. ServerOK' /\ UNCHANGED SR
  BY ServerUnchanged DEF server
<1>5. consumed' \in Seq(Byte)
  BY <1>1, AllAreSeqs, FirstAndRest, ConcatProperties
<1>6. TransitOK'
  BY <1>5 DEF RInv, TransitOK, proxy
<1>7. ControlOK'
  BY DEF RInv, ControlOK, server, proxy
<1>8. Places(consumed \o First(n, CR), Rest(n, CR), wire2, p_buf, wire1, SR)
        = Places(consumed, CR, wire2, p_buf, wire1, SR)
  <2>1. MovedToFirst(consumed, CR, wire2, p_buf, wire1, SR, n)
    BY <1>1, AllAreSeqs, MoveToFirst
  <2> QED
    BY <2>1 DEF MovedToFirst
<1>9. UNCHANGED <<wire2, p_buf, wire1, produced>>
  BY DEF proxy, server
<1>10. (Places(consumed, CR, wire2, p_buf, wire1, SR) = Numbers(produced))'
  BY <1>2, <1>4, <1>8, <1>9 DEF RInv
<1> QED
  BY <1>2, <1>3, <1>4, <1>6, <1>7, <1>10 DEF Good, RInv

LEMMA ClientConsumesGood ==
    ASSUME RInv, ClientConsumes
    PROVE  Good
<1>1. CASE consumed' = Append(consumed, c_data[c_read]) /\ Client!buffer_read
  <2>1. Client!buffer_can_read
    BY DEF ClientConsumes
  <2>2. /\ 1 \in 1..c_write - c_read
        /\ consumed' = consumed \o First(1, CR)
    BY <1>1, <2>1, ClientHead DEF RInv, TransitOK
  <2>3. Client!buffer_read_adv(1)
    BY <1>1, <2>1 DEF Client!buffer_read
  <2> QED
    BY <2>2, <2>3, TakenGood DEF ClientConsumes
<1>2. ASSUME NEW n \in 2..Len(CR), consumed' = consumed \o First(n, CR),
             Client!buffer_read_adv(n)
      PROVE  Good
  <2>1. n \in 1..c_write - c_read
    BY AllAreSeqs
  <2> QED
    BY <1>2, <2>1, TakenGood DEF ClientConsumes
<1> QED
  BY <1>1, <1>2 DEF ClientConsumes, CR

LEMMA ClientCompactsGood ==
    ASSUME RInv, ClientCompacts
    PROVE  Good
<1>1. ClientOK' /\ UNCHANGED CR
  BY ClientCompacted DEF ClientCompacts, RInv
<1>2. ServerOK' /\ UNCHANGED SR
  BY ServerUnchanged DEF ClientCompacts, server
<1>3. TransitOK'
  BY TransitUnchanged DEF ClientCompacts
<1>4. ControlOK'
  BY DEF RInv, ControlOK, ClientCompacts, server, proxy
<1>5. UNCHANGED <<consumed, wire2, p_buf, wire1, produced>>
  BY DEF ClientCompacts, server, proxy
<1>6. (Places(consumed, CR, wire2, p_buf, wire1, SR) = Numbers(produced))'
  BY <1>1, <1>2, <1>5 DEF RInv
<1> QED
  BY <1>1, <1>2, <1>3, <1>4, <1>6 DEF Good, RInv

LEMMA StepGood ==
    ASSUME RInv, [Next]_vars
    PROVE  Good
<1>1. CASE Produce
  BY <1>1, ProduceGood
<1>2. CASE Flush
  <2>1. /\ ControlOK' /\ (p_pc' = "recv" => p_pc = "recv")
        /\ UNCHANGED <<s_buffer, produced, wire1, p_buf, wire2, client>>
    BY <1>2 DEF RInv, ControlOK, Flush, proxy
  <2> QED
    BY <2>1, IdleGood
<1>3. CASE SendByte
  BY <1>3, SendByteGood
<1>4. CASE Reset
  BY <1>4, ResetGood
<1>5. CASE Close
  <2>1. /\ ControlOK' /\ (p_pc' = "recv" => p_pc = "recv")
        /\ UNCHANGED <<s_buffer, produced, wire1, p_buf, wire2, client>>
    BY <1>5 DEF RInv, ControlOK, Close, proxy
  <2> QED
    BY <2>1, IdleGood
<1>6. CASE WriteSend
  BY <1>6, WriteSendGood
<1>7. CASE WriteNothing
  <2>1. /\ ControlOK' /\ (p_pc' = "recv" => p_pc = "recv")
        /\ UNCHANGED <<s_buffer, produced, wire1, p_buf, wire2, client>>
    BY <1>7 DEF RInv, ControlOK, WriteNothing, WriteReturns, proxy
  <2> QED
    BY <2>1, IdleGood
<1>8. CASE WriteFails
  <2>1. /\ ControlOK' /\ (p_pc' = "recv" => p_pc = "recv")
        /\ UNCHANGED <<s_buffer, produced, wire1, p_buf, wire2, client>>
    BY <1>8, RelayAssumption
    DEF RInv, ControlOK, WriteFails, WriteReturns, Fails, AnErrno, proxy
  <2> QED
    BY <2>1, IdleGood
<1>9. CASE CopyReceives
  BY <1>9, CopyReceivesGood
<1>10. CASE CopyEnds
  <2>1. /\ ControlOK' /\ (p_pc' = "recv" => p_pc = "recv")
        /\ UNCHANGED <<s_buffer, produced, wire1, p_buf, wire2, client>>
    BY <1>10 DEF RInv, ControlOK, CopyEnds, server
  <2> QED
    BY <2>1, IdleGood
<1>11. CASE CopyReceiveFails
  <2>1. /\ ControlOK' /\ (p_pc' = "recv" => p_pc = "recv")
        /\ UNCHANGED <<s_buffer, produced, wire1, p_buf, wire2, client>>
    BY <1>11, RelayAssumption DEF RInv, ControlOK, CopyReceiveFails, Fails, server
  <2> QED
    BY <2>1, IdleGood
<1>12. CASE CopySends
  BY <1>12, CopySendsGood
<1>13. CASE CopySendFails
  <2>1. /\ ControlOK' /\ (p_pc' = "recv" => p_pc = "recv")
        /\ UNCHANGED <<s_buffer, produced, wire1, p_buf, wire2, client>>
    BY <1>13, RelayAssumption DEF RInv, ControlOK, CopySendFails, Fails, AnErrno, server
  <2> QED
    BY <2>1, IdleGood
<1>14. CASE ClientReceives
  BY <1>14, ClientReceivesGood
<1>15. CASE ClientReceiveFails
  <2>1. UNCHANGED <<c_data, c_read, c_write>>
    BY <1>15, ClientPutsNothing DEF ClientReceiveFails, RInv
  <2>2. /\ ControlOK' /\ (p_pc' = "recv" => p_pc = "recv")
        /\ UNCHANGED <<s_buffer, produced, wire1, p_buf, wire2, client>>
    BY <1>15, <2>1, RelayAssumption
    DEF RInv, ControlOK, ClientReceiveFails, Fails, server, proxy, client
  <2> QED
    BY <2>2, IdleGood
<1>16. CASE ClientConsumes
  BY <1>16, ClientConsumesGood
<1>17. CASE ClientCompacts
  BY <1>17, ClientCompactsGood
<1>18. CASE UNCHANGED vars
  <2>1. /\ ControlOK' /\ (p_pc' = "recv" => p_pc = "recv")
        /\ UNCHANGED <<s_buffer, produced, wire1, p_buf, wire2, client>>
    BY <1>18 DEF RInv, ControlOK, vars, server, proxy
  <2> QED
    BY <2>1, IdleGood
<1> QED
  BY <1>1, <1>2, <1>3, <1>4, <1>5, <1>6, <1>7, <1>8, <1>9, <1>10, <1>11, <1>12,
     <1>13, <1>14, <1>15, <1>16, <1>17, <1>18
  DEF Next, sock_blocking_write, sock_blocking_copy

LEMMA RInvAlways == Spec => []RInv
<1>1. Init => RInv
  BY InitRInv
<1>2. RInv /\ [Next]_vars => RInv'
  BY StepGood DEF Good
<1> QED
  BY <1>1, <1>2, PTL DEF Spec

-----------------------------------------------------------------------------
(* Theorems.                                                               *)

\* 0 <= R <= W <= limit in both buffers, whatever is written, read, reset and
\* compacted, and with the -1 of a failed recv (client/buffer.h:25-26,
\* client/buffer.c:11-103, buffer.c:14-83).
THEOREM RelayTypeCorrect == Spec => []RelayTypeOK
<1>1. RInv => RelayTypeOK
  BY RInvImplies
<1> QED
  BY <1>1, RInvAlways, PTL

\* No byte is lost, repeated or overtaken between buffer_write of the server and
\* buffer_read of the client, whatever send and recv do, as long as the
\* bytes a failed copy leaves in its array are counted (netutils.c:57-100).
THEOREM BytesInOrder == Spec => []InOrder
<1>1. RInv => InOrder
  BY RInvImplies
<1> QED
  BY <1>1, RInvAlways, PTL

\* When sock_blocking_write reports success its buffer is empty, also when it
\* found nothing to send and returned an old errno (netutils.c:57-76).
THEOREM WriteReportsRight == Spec => WriteReports
<1>1. ASSUME RInv, [Next]_vars
      PROVE  [w_pc = "send" /\ w_pc' = "program" /\ w_ret' = 0 => s_read' = s_write']_vars
  <2> SUFFICES ASSUME Next, w_pc = "send", w_pc' = "program", w_ret' = 0
               PROVE  s_read' = s_write'
    BY <1>1
  <2>1. WriteSend \/ WriteNothing \/ WriteFails
    BY DEF Next, sock_blocking_write, sock_blocking_copy, Produce, Flush, SendByte, Reset,
           Close, CopyReceives, CopyEnds, CopyReceiveFails, CopySends, CopySendFails,
           ClientReceives, ClientReceiveFails, ClientConsumes, ClientCompacts, server
  <2>2. CASE WriteSend
    <3>1. PICK n \in 1..Server!buffer_available_read :
            /\ Server!buffer_read_adv(n)
            /\ \/ n < Server!buffer_available_read /\ UNCHANGED <<w_pc, w_ret>>
               \/ n = Server!buffer_available_read /\ WriteReturns(0)
      BY <2>2 DEF WriteSend
    <3>2. n \in 0..s_write - s_read /\ n = s_write - s_read
      BY <3>1 DEF Server!buffer_available_read
    <3> QED
      BY <1>1, <3>1, <3>2, ServerTakes DEF RInv
  <2>3. CASE WriteNothing
    <3>1. ~(s_read < s_write) /\ UNCHANGED s_buffer
      BY <2>3 DEF WriteNothing, Server!buffer_can_read
    <3>2. s_read \in Nat /\ s_write \in Nat /\ s_read <= s_write
      BY <1>1, RelayAssumption DEF RInv, ServerOK
    <3> QED
      BY <3>1, <3>2 DEF s_buffer
  <2>4. CASE WriteFails
    BY <2>4 DEF WriteFails, WriteReturns, AnErrno
  <2> QED
    BY <2>1, <2>2, <2>3, <2>4
<1> QED
  BY <1>1, RInvAlways, PTL DEF Spec, WriteReports

\* Both buffers are queues of bytes: every step of the positions, resets and
\* compaction included, puts bytes at the end, takes some from the start or
\* changes nothing that can be seen (buffer.c, client/buffer.c).
THEOREM BuffersImplementQueues == Spec => BuffersAreQueues
<1>1. Init => ServerQueue!Init /\ ClientQueue!Init
  BY InitRInv DEF ServerQueue!Init, ClientQueue!Init, SR, CR
<1>2. RInv /\ [Next]_vars => /\ [ServerQueue!Next]_(Server!Readable)
                             /\ [ClientQueue!Next]_(Client!Readable)
  BY StepGood DEF Good, SR, CR
<1> QED
  BY <1>1, <1>2, RInvAlways, PTL DEF Spec, BuffersAreQueues, ServerQueue!Spec, ClientQueue!Spec
=============================================================================
