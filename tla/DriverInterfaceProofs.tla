----------------------- MODULE DriverInterfaceProofs -----------------------
(***************************************************************************)
(* Proofs about what the controller offers the drivers: RequestQueue, for  *)
(* any requests of the four kinds and any number of sleeps, and            *)
(* InterruptActions, on one processor and on several, with a request that  *)
(* polls and without.  The two have no state in common; the definitions of *)
(* InterruptActions that every module has carry its name.                  *)
(***************************************************************************)
EXTENDS RequestQueue, InterruptActions, TLAPS

-----------------------------------------------------------------------------
(* One more at the end of a sequence, one less at its head. *)
Longer(w, q, r) ==
    /\ Len(w) = Len(q) + 1 /\ DOMAIN w = 1 .. Len(q) + 1
    /\ w[Len(q) + 1] = r /\ \A i \in 1 .. Len(q) : w[i] = q[i]
Shorter(w, q) ==
    /\ Len(w) = Len(q) - 1 /\ DOMAIN w = 1 .. Len(q) - 1 /\ Len(q) \in Nat \ {0}
    /\ Head(q) = q[1] /\ \A i \in 1 .. Len(q) - 1 : w[i] = q[i + 1]

LEMMA AppendIsLonger ==
    ASSUME NEW S, NEW q \in Seq(S), NEW r \in S
    PROVE  Append(q, r) \in Seq(S) /\ Longer(Append(q, r), q, r)
BY DEF Longer

LEMMA TailIsShorter ==
    ASSUME NEW S, NEW q \in Seq(S), q # <<>>
    PROVE  Tail(q) \in Seq(S) /\ Head(q) \in S /\ Shorter(Tail(q), q)
BY DEF Shorter

LEMMA SubSeqIsShorter ==
    ASSUME NEW S, NEW q \in Seq(S), NEW m \in 0 .. Len(q)
    PROVE  /\ SubSeq(q, 1, m) \in Seq(S) /\ Len(SubSeq(q, 1, m)) = m
           /\ DOMAIN SubSeq(q, 1, m) = 1 .. m /\ \A i \in 1 .. m : SubSeq(q, 1, m)[i] = q[i]
<1>1. Len(q) \in Nat /\ m \in Nat /\ \A i \in 1 .. m : i \in DOMAIN q
  OBVIOUS
<1>2. \A i \in 1 .. m : q[i] \in S
  BY <1>1
<1>3. Len(SubSeq(q, 1, m)) = m
  BY <1>1
<1>4. \A i \in 1 .. m : SubSeq(q, 1, m)[i] = q[i]
  BY <1>1
<1>5. SubSeq(q, 1, m) \in Seq(S)
  BY <1>1, <1>2
<1>6. QED
  BY <1>3, <1>4, <1>5

LEMMA JoinHas ==
    ASSUME NEW S, NEW l \in Seq(S), NEW q \in Seq(S)
    PROVE  ToSet(l) \subseteq ToSet(l \o q) /\ ToSet(q) \subseteq ToSet(l \o q)
<1>1. PICK w \in Seq(S) : w = l \o q
  <2>1. l \o q \in Seq(S)
    OBVIOUS
  <2>2. QED
    BY <2>1, Zenon
<1>2. Len(l) \in Nat /\ Len(q) \in Nat /\ DOMAIN w = 1 .. Len(l) + Len(q)
      /\ DOMAIN l = 1 .. Len(l) /\ DOMAIN q = 1 .. Len(q)
  BY <1>1
<1>3. \A i \in 1 .. Len(l) : i \in DOMAIN w /\ w[i] = l[i]
  BY <1>1, <1>2
<1>4. \A i \in 1 .. Len(q) : Len(l) + i \in DOMAIN w /\ w[Len(l) + i] = q[i]
  <2> TAKE i \in 1 .. Len(q)
  <2>1. PICK k \in Nat : k = Len(l) + i /\ k \in DOMAIN w /\ k > Len(l) /\ k - Len(l) = i
    BY <1>2
  <2>2. w[k] = q[k - Len(l)]
    BY <1>1, <1>2, <2>1
  <2>3. QED
    BY <2>1, <2>2
<1>5. ToSet(l) \subseteq ToSet(w)
  BY <1>2, <1>3 DEF ToSet
<1>6. ToSet(q) \subseteq ToSet(w)
  BY <1>2, <1>4 DEF ToSet
<1>7. QED
  BY <1>1, <1>5, <1>6

-----------------------------------------------------------------------------
(* Those that wait are the last of those submitted. *)
InLine(queue, all) ==
    /\ Len(all) - Len(queue) >= 0
    /\ \A i \in DOMAIN queue : queue[i] = all[(Len(all) - Len(queue)) + i]

LEMMA LineAppend ==
    ASSUME NEW q \in Seq(Async), NEW s \in Seq(Async), NEW r \in Async, InLine(q, s)
    PROVE  /\ InLine(Append(q, r), Append(s, r))
           /\ Len(Append(s, r)) - Len(Append(q, r)) = Len(s) - Len(q)
<1>1. PICK p \in Seq(Async) : p = Append(q, r) /\ Longer(p, q, r)
  BY AppendIsLonger
<1>2. PICK t \in Seq(Async) : t = Append(s, r) /\ Longer(t, s, r)
  BY AppendIsLonger
<1>3. Len(q) \in Nat /\ Len(s) \in Nat /\ Len(s) >= Len(q) /\ Len(t) - Len(p) = Len(s) - Len(q)
  BY <1>1, <1>2 DEF InLine, Longer
<1>4. ASSUME NEW i \in DOMAIN p PROVE p[i] = t[(Len(s) - Len(q)) + i]
  <2>1. i \in 1 .. Len(q) + 1
    BY <1>1 DEF Longer
  <2>2. CASE i = Len(q) + 1
    BY <1>1, <1>2, <1>3, <2>2 DEF Longer
  <2>3. CASE i \in 1 .. Len(q)
    <3>1. (Len(s) - Len(q)) + i \in 1 .. Len(s)
      BY <1>3, <2>3
    <3>2. QED
      BY <1>1, <1>2, <2>3, <3>1 DEF InLine, Longer
  <2>4. QED
    BY <1>3, <2>1, <2>2, <2>3
<1>5. QED
  BY <1>1, <1>2, <1>3, <1>4 DEF InLine

LEMMA LineTail ==
    ASSUME NEW q \in Seq(Async), NEW s \in Seq(Async), q # <<>>, InLine(q, s)
    PROVE  /\ InLine(Tail(q), s) /\ Len(s) - Len(Tail(q)) = (Len(s) - Len(q)) + 1
           /\ (Len(s) - Len(q)) + 1 \in DOMAIN s /\ Head(q) = s[(Len(s) - Len(q)) + 1]
<1>1. PICK p \in Seq(Async) : p = Tail(q) /\ Shorter(p, q)
  BY TailIsShorter
<1>2. Len(q) \in Nat \ {0} /\ Len(s) \in Nat /\ Len(s) >= Len(q) /\ Head(q) = q[1]
      /\ Len(p) = Len(q) - 1
  BY <1>1 DEF InLine, Shorter
<1>3. ASSUME NEW i \in DOMAIN p PROVE p[i] = s[(Len(s) - Len(p)) + i]
  <2>1. i + 1 \in DOMAIN q /\ p[i] = q[i + 1]
    BY <1>1, <1>2 DEF Shorter
  <2>2. (Len(s) - Len(q)) + (i + 1) = (Len(s) - Len(p)) + i
    BY <1>1, <1>2
  <2>3. QED
    BY <2>1, <2>2 DEF InLine
<1>4. QED
  BY <1>1, <1>2, <1>3 DEF InLine

-----------------------------------------------------------------------------
(* The first n submitted are the asynchronous requests processed. *)
PlaceOf(place, n, all, done) ==
    /\ \A i \in 1 .. n : done[place[i]] = all[i]
    /\ \A i, j \in 1 .. n : i < j => place[i] < place[j]
    /\ \A k \in DOMAIN done : done[k] \in Async => \E i \in 1 .. n : place[i] = k
Placed(n, all, done) == \E place \in [1 .. n -> DOMAIN done] : PlaceOf(place, n, all, done)

LEMMA PlacedSubmit ==
    ASSUME NEW s \in Seq(Async), NEW p \in Seq(Request), NEW n \in 0 .. Len(s), NEW r \in Async,
           Placed(n, s, p)
    PROVE  Placed(n, Append(s, r), p)
<1>1. PICK place \in [1 .. n -> DOMAIN p] : PlaceOf(place, n, s, p)
  BY DEF Placed
<1>2. \A i \in 1 .. n : Append(s, r)[i] = s[i]
  OBVIOUS
<1>3. PlaceOf(place, n, Append(s, r), p)
  BY <1>1, <1>2 DEF PlaceOf
<1>4. QED
  BY <1>3 DEF Placed

LEMMA PlacedBlocking ==
    ASSUME NEW s \in Seq(Async), NEW p \in Seq(Request), NEW n \in Nat, NEW r \in Request \ Async,
           Placed(n, s, p)
    PROVE  Placed(n, s, Append(p, r))
<1>1. PICK place \in [1 .. n -> DOMAIN p] : PlaceOf(place, n, s, p)
  BY DEF Placed
<1>2. PICK w \in Seq(Request) : w = Append(p, r) /\ Longer(w, p, r)
  BY AppendIsLonger
<1>3. place \in [1 .. n -> DOMAIN w]
  BY <1>1, <1>2 DEF Longer
<1>4. PlaceOf(place, n, s, w)
  BY <1>1, <1>2 DEF PlaceOf, Longer
<1>5. QED
  BY <1>2, <1>3, <1>4 DEF Placed

LEMMA PlacedNext ==
    ASSUME NEW s \in Seq(Async), NEW p \in Seq(Request), NEW n \in Nat, n + 1 \in DOMAIN s,
           Placed(n, s, p)
    PROVE  Placed(n + 1, s, Append(p, s[n + 1]))
<1>1. PICK place \in [1 .. n -> DOMAIN p] : PlaceOf(place, n, s, p)
  BY DEF Placed
<1>2. PICK r \in Async : r = s[n + 1]
  OBVIOUS
<1>3. PICK w \in Seq(Request) : w = Append(p, r) /\ Longer(w, p, r)
  BY AppendIsLonger DEF Request
<1>4. DEFINE more == [i \in 1 .. n + 1 |-> IF i = n + 1 THEN Len(p) + 1 ELSE place[i]]
<1>5. /\ more[n + 1] = Len(p) + 1 /\ \A i \in 1 .. n : more[i] = place[i] /\ place[i] \in 1 .. Len(p)
      /\ more \in [1 .. n + 1 -> DOMAIN w] /\ Len(p) \in Nat
  BY <1>1, <1>3 DEF Longer
<1> HIDE DEF more
<1>6. PlaceOf(more, n + 1, s, w)
  <2>1. \A i \in 1 .. n + 1 : w[more[i]] = s[i]
    BY <1>1, <1>2, <1>3, <1>5 DEF PlaceOf, Longer
  <2>2. \A i, j \in 1 .. n + 1 : i < j => more[i] < more[j]
    <3> SUFFICES ASSUME NEW i \in 1 .. n + 1, NEW j \in 1 .. n + 1, i < j
                 PROVE  more[i] < more[j]
      OBVIOUS
    <3>1. CASE j \in 1 .. n
      <4>1. i \in 1 .. n
        BY <3>1
      <4>2. place[i] < place[j]
        BY <1>1, <3>1, <4>1 DEF PlaceOf
      <4>3. QED
        BY <1>5, <3>1, <4>1, <4>2
    <3>2. CASE j = n + 1
      BY <1>5, <3>2
    <3>3. QED
      BY <3>1, <3>2
  <2>3. \A k \in DOMAIN w : w[k] \in Async => \E i \in 1 .. n + 1 : more[i] = k
    <3>1. \A k \in DOMAIN p : p[k] \in Async => \E i \in 1 .. n + 1 : more[i] = k
      BY <1>1, <1>5 DEF PlaceOf
    <3>2. QED
      BY <1>3, <1>5, <3>1 DEF Longer
  <2>4. QED
    BY <2>1, <2>2, <2>3 DEF PlaceOf
<1>7. QED
  BY <1>2, <1>3, <1>5, <1>6 DEF Placed

LEMMA PlacedAll ==
    ASSUME NEW s \in Seq(Async), NEW p \in Seq(Request), NEW q \in Seq(Async), InLine(q, s),
           Placed(Len(s) - Len(q), s, p)
    PROVE  Placed(Len(s), s, p \o q) /\ p \o q \in Seq(Request)
<1>1. PICK n \in Nat : n = Len(s) - Len(q) /\ Len(s) = n + Len(q)
  BY DEF InLine
<1>2. PICK place \in [1 .. n -> DOMAIN p] : PlaceOf(place, n, s, p)
  BY <1>1 DEF Placed
<1>3. PICK r \in Seq(Request) : r = q
  BY DEF Request
<1>4. PICK w \in Seq(Request) : w = p \o r
  <2>1. p \o r \in Seq(Request)
    OBVIOUS
  <2>2. QED
    BY <2>1, Zenon
<1>5. /\ DOMAIN w = 1 .. Len(p) + Len(q) /\ Len(p) \in Nat /\ Len(q) \in Nat
      /\ \A i \in 1 .. Len(p) : w[i] = p[i]
      /\ \A i \in Len(p) + 1 .. Len(p) + Len(q) : w[i] = q[i - Len(p)]
  BY <1>3, <1>4
<1>6. DEFINE more == [i \in 1 .. Len(s) |-> IF i <= n THEN place[i] ELSE Len(p) + (i - n)]
<1>7. /\ more \in [1 .. Len(s) -> DOMAIN w]
      /\ \A i \in 1 .. n : i \in 1 .. Len(s) /\ more[i] = place[i] /\ place[i] \in 1 .. Len(p)
      /\ \A i \in n + 1 .. Len(s) : more[i] = Len(p) + (i - n)
  <2>1. \A i \in 1 .. n : i \in 1 .. Len(s) /\ place[i] \in 1 .. Len(p)
    <3>1. DOMAIN p = 1 .. Len(p)
      OBVIOUS
    <3>2. \A i \in 1 .. n : place[i] \in 1 .. Len(p)
      BY <1>2, <3>1
    <3>3. \A i \in 1 .. n : i \in 1 .. Len(s)
      BY <1>1, <1>5
    <3>4. QED
      BY <3>2, <3>3
  <2>2. \A i \in 1 .. Len(s) : IF i <= n THEN i \in 1 .. n
                              ELSE i \in n + 1 .. Len(s) /\ Len(p) + (i - n) \in 1 .. Len(p) + Len(q)
    BY <1>1, <1>5
  <2>3. \A i \in 1 .. Len(s) : (IF i <= n THEN place[i] ELSE Len(p) + (i - n)) \in DOMAIN w
    BY <1>5, <2>1, <2>2
  <2>4. more \in [1 .. Len(s) -> DOMAIN w]
    BY <2>3
  <2>5. \A i \in n + 1 .. Len(s) : i \in 1 .. Len(s) /\ ~(i <= n)
    BY <1>1
  <2>6. QED
    BY <2>1, <2>4, <2>5
<1> HIDE DEF more
<1>8. PlaceOf(more, Len(s), s, w)
  <2>1. \A i \in 1 .. Len(s) : w[more[i]] = s[i]
    <3> TAKE i \in 1 .. Len(s)
    <3>1. CASE i \in 1 .. n
      BY <1>2, <1>5, <1>7, <3>1 DEF PlaceOf
    <3>2. CASE i \in n + 1 .. Len(s)
      <4>1. i - n \in DOMAIN q /\ n + (i - n) = i
        BY <1>1, <1>5, <3>2
      <4>2. s[i] = q[i - n]
        BY <1>1, <4>1 DEF InLine
      <4>3. Len(p) + (i - n) \in Len(p) + 1 .. Len(p) + Len(q) /\ (Len(p) + (i - n)) - Len(p) = i - n
        BY <1>1, <1>5, <3>2
      <4>4. QED
        BY <1>5, <1>7, <3>2, <4>2, <4>3
    <3>3. QED
      BY <1>1, <3>1, <3>2
  <2>2. \A i, j \in 1 .. Len(s) : i < j => more[i] < more[j]
    <3> SUFFICES ASSUME NEW i \in 1 .. Len(s), NEW j \in 1 .. Len(s), i < j
                 PROVE  more[i] < more[j]
      OBVIOUS
    <3>1. CASE j \in 1 .. n
      <4>1. i \in 1 .. n
        BY <3>1
      <4>2. place[i] < place[j]
        BY <1>2, <3>1, <4>1 DEF PlaceOf
      <4>3. QED
        BY <1>7, <3>1, <4>1, <4>2
    <3>2. CASE j \in n + 1 .. Len(s) /\ i \in 1 .. n
      BY <1>5, <1>7, <3>2
    <3>3. CASE j \in n + 1 .. Len(s) /\ i \in n + 1 .. Len(s)
      BY <1>5, <1>7, <3>3
    <3>4. QED
      BY <1>1, <3>1, <3>2, <3>3
  <2>3. \A k \in DOMAIN w : w[k] \in Async => \E i \in 1 .. Len(s) : more[i] = k
    <3> SUFFICES ASSUME NEW k \in DOMAIN w, w[k] \in Async PROVE \E i \in 1 .. Len(s) : more[i] = k
      OBVIOUS
    <3>1. CASE k \in 1 .. Len(p)
      <4>1. k \in DOMAIN p /\ p[k] \in Async
        BY <1>5, <3>1
      <4>2. PICK i \in 1 .. n : place[i] = k
        BY <1>2, <4>1 DEF PlaceOf
      <4>3. QED
        BY <1>7, <4>2
    <3>2. CASE k \in Len(p) + 1 .. Len(p) + Len(q)
      <4>1. PICK i \in n + 1 .. Len(s) : i = n + (k - Len(p))
        <5>1. n + (k - Len(p)) \in n + 1 .. Len(s)
          BY <1>1, <1>5, <3>2
        <5>2. QED
          BY <5>1, Zenon
      <4>2. i \in 1 .. Len(s) /\ Len(p) + (i - n) = k
        BY <1>1, <1>5, <3>2, <4>1
      <4>3. QED
        BY <1>7, <4>1, <4>2
    <3>3. QED
      BY <1>5, <3>1, <3>2
  <2>4. QED
    BY <2>1, <2>2, <2>3 DEF PlaceOf
<1>9. QED
  BY <1>3, <1>4, <1>7, <1>8 DEF Placed

-----------------------------------------------------------------------------
(* The queue, local and shared part together, as the steps change it. *)
LEMMA QueuedType ==
    ASSUME NEW l \in Seq(Async), NEW q \in Seq(Async)
    PROVE  l \o q \in Seq(Async) /\ Len(l \o q) = Len(l) + Len(q)
OBVIOUS

LEMMA QueuedSubmit ==
    ASSUME NEW l \in Seq(Async), NEW q \in Seq(Async), NEW r \in Async
    PROVE  l \o Append(q, r) = Append(l \o q, r)
OBVIOUS

LEMMA QueuedTransfer ==
    ASSUME NEW q \in Seq(Async)
    PROVE  q \o <<>> = q /\ <<>> \o q = q
OBVIOUS

LEMMA QueuedProcess ==
    ASSUME NEW l \in Seq(Async), NEW q \in Seq(Async), l # <<>>
    PROVE  /\ Tail(l) \o q = Tail(l \o q) /\ Head(l) = Head(l \o q) /\ l \o q # <<>>
OBVIOUS

-----------------------------------------------------------------------------
(* The inductive invariant.  The line of asynchronous requests: each is    *)
(* submitted once, and those that have not ended are those that wait.      *)
Line ==
    /\ \A i, j \in DOMAIN submitted : submitted[i] = submitted[j] => i = j
    /\ InLine(Queued, submitted)
    /\ Placed(Done, submitted, processed)
    /\ \A i \in DOMAIN submitted : result[submitted[i]] = "none" <=> Done < i

(* The gate lets one blocking request in, and what was ahead of it is in   *)
(* the local queue until it is processed.                                  *)
InGate ==
    /\ \A i \in DOMAIN gate : gate[i] \in Blocking =>
          /\ i = Len(gate) /\ result[gate[i]] = "none"
          /\ ahead[gate[i]] \subseteq ToSet(processed) \cup ToSet(localQueue)
    /\ gate \in {<<>>, <<"sleep">>, <<"wake">>} => localQueue = <<>>
    /\ stopped => gate = <<>> /\ requestQueue = <<>>

(* Memory is released when a request ends, and not before. *)
Disposed ==
    /\ \A r \in Request : result[r] = "none" => frees[r] = 0
    /\ \A r \in Async \cup Legacy : result[r] # "none" => frees[r] = 1
    /\ \A r \in OnStack : frees[r] = 0
    /\ \A r \in freedAgain : r \in Legacy /\ result[r] # "none"

QInv == TypeOK /\ Line /\ InGate /\ Disposed /\ BlockingComesLast

After(q, r, done) == \E i, j \in DOMAIN done : i < j /\ done[i] = q /\ done[j] = r

LEMMA AfterGrows ==
    ASSUME NEW p \in Seq(Request), NEW x \in Request, NEW q, NEW r
    PROVE  /\ After(q, r, p) => After(q, r, Append(p, x))
           /\ q \in ToSet(p) => After(q, x, Append(p, x))
           /\ ToSet(Append(p, x)) = ToSet(p) \cup {x}
<1>1. PICK w \in Seq(Request) : w = Append(p, x) /\ Longer(w, p, x)
  BY AppendIsLonger
<1>2. /\ DOMAIN w = 1 .. Len(p) + 1 /\ DOMAIN p = 1 .. Len(p) /\ Len(p) \in Nat
      /\ w[Len(p) + 1] = x /\ \A i \in DOMAIN p : w[i] = p[i]
  BY <1>1 DEF Longer
<1>3. \A i \in DOMAIN p : i \in DOMAIN w /\ i < Len(p) + 1
  BY <1>2
<1>4. After(q, r, p) => After(q, r, w)
  BY <1>2, <1>3 DEF After
<1>5. ASSUME q \in ToSet(p) PROVE After(q, x, w)
  <2>1. PICK i \in DOMAIN p : p[i] = q
    BY <1>5 DEF ToSet
  <2>2. i \in DOMAIN w /\ Len(p) + 1 \in DOMAIN w /\ i < Len(p) + 1 /\ w[i] = q /\ w[Len(p) + 1] = x
    BY <1>2, <1>3, <2>1
  <2>3. QED
    BY <2>2 DEF After
<1>6. ToSet(w) = ToSet(p) \cup {x}
  BY <1>2 DEF ToSet
<1>7. QED
  BY <1>1, <1>4, <1>5, <1>6

LEMMA AfterJoined ==
    ASSUME NEW p \in Seq(Request), NEW s \in Seq(Request), NEW q, NEW r, After(q, r, p)
    PROVE  After(q, r, p \o s)
<1>1. PICK w \in Seq(Request) : w = p \o s
  <2>1. p \o s \in Seq(Request)
    OBVIOUS
  <2>2. QED
    BY <2>1, Zenon
<1>2. \A i \in DOMAIN p : i \in DOMAIN w /\ w[i] = p[i]
  BY <1>1
<1>3. QED
  BY <1>1, <1>2 DEF After

LEMMA ToSetHead ==
    ASSUME NEW S, NEW q \in Seq(S), q # <<>>
    PROVE  ToSet(q) = {Head(q)} \cup ToSet(Tail(q))
<1>1. PICK w \in Seq(S) : w = Tail(q) /\ Shorter(w, q)
  BY TailIsShorter
<1>2. /\ DOMAIN q = 1 .. Len(q) /\ DOMAIN w = 1 .. Len(q) - 1 /\ Len(q) \in Nat \ {0}
      /\ Head(q) = q[1] /\ \A i \in 1 .. Len(q) - 1 : w[i] = q[i + 1]
  BY <1>1 DEF Shorter
<1>3. \A i \in DOMAIN q : i = 1 \/ (i - 1 \in DOMAIN w /\ w[i - 1] = q[i])
  BY <1>2
<1>4. ToSet(q) \subseteq {Head(q)} \cup ToSet(w)
  BY <1>2, <1>3 DEF ToSet
<1>5. \A i \in DOMAIN w : i + 1 \in DOMAIN q /\ w[i] = q[i + 1]
  BY <1>2
<1>6. {Head(q)} \cup ToSet(w) \subseteq ToSet(q)
  BY <1>2, <1>5 DEF ToSet
<1>7. QED
  BY <1>1, <1>4, <1>6

(* The facts the steps use. *)
LEMMA QueueTypes ==
    ASSUME QInv
    PROVE  /\ requestQueue \in Seq(Async) /\ localQueue \in Seq(Async)
           /\ Queued \in Seq(Async) /\ submitted \in Seq(Async) /\ processed \in Seq(Request)
           /\ DOMAIN result = Request /\ DOMAIN frees = Request /\ DOMAIN ahead = Request
           /\ Done \in 0 .. Len(submitted) /\ Done = Len(submitted) - Len(Queued)
           /\ InLine(Queued, submitted) /\ Placed(Done, submitted, processed)
<1>1. requestQueue \in Seq(Async) /\ localQueue \in Seq(Async) /\ submitted \in Seq(Async)
      /\ InLine(Queued, submitted) /\ Placed(Done, submitted, processed)
  BY DEF QInv, TypeOK, Line
<1>2. Queued \in Seq(Async)
  BY <1>1, QueuedType DEF Queued
<1>3. Len(Queued) \in Nat /\ Len(submitted) \in Nat /\ Len(submitted) - Len(Queued) >= 0
  BY <1>1, <1>2 DEF InLine
<1>4. Done \in 0 .. Len(submitted)
  BY <1>3 DEF Done
<1>5. QED
  BY <1>1, <1>2, <1>4 DEF Done, QInv, TypeOK

LEMMA InitQInv == Init => QInv
<1> SUFFICES ASSUME Init PROVE QInv
  OBVIOUS
<1>1. /\ requestQueue = <<>> /\ localQueue = <<>> /\ gate = <<>> /\ submitted = <<>>
      /\ processed = <<>>
  BY DEF Init
<1>2. /\ \A r \in Request : result[r] = "none" /\ frees[r] = 0
      /\ freedAgain = {}
      /\ stopped = FALSE /\ offline = FALSE /\ signalled = FALSE
  BY DEF Init
<1>3. TypeOK
  <2>1. signalled \in BOOLEAN /\ offline \in BOOLEAN /\ stopped \in BOOLEAN
    BY <1>2, Zenon
  <2>2. /\ result \in [Request -> {"none", "ok", "failed"}] /\ ahead \in [Request -> SUBSET Async]
    BY DEF Init
  <2>3. frees \in [Request -> 0 .. 1] /\ sleeps \in 0 .. MaxSleeps
    BY MaxSleepsAssumption DEF Init
  <2>4. unsignalled \subseteq Async
    BY DEF Init
  <2>5. gate \in Seq(Blocking \cup {"event", "sleep", "wake"}) /\ Len(gate) <= 2
    BY <1>1
  <2>6. /\ requestQueue \in Seq(Async) /\ localQueue \in Seq(Async) /\ submitted \in Seq(Async)
        /\ processed \in Seq(Request)
    BY <1>1
  <2>7. QED
    BY <1>2, <2>1, <2>2, <2>3, <2>4, <2>5, <2>6 DEF TypeOK
<1>4. Line
  <2>1. Queued = <<>> /\ Done = 0
    BY <1>1 DEF Queued, Done
  <2>2. InLine(Queued, submitted)
    BY <1>1, <2>1 DEF InLine
  <2>3. Placed(Done, submitted, processed)
    <3>1. [i \in 1 .. 0 |-> 1] \in [1 .. 0 -> DOMAIN processed]
      OBVIOUS
    <3>2. PlaceOf([i \in 1 .. 0 |-> 1], 0, submitted, processed)
      BY <1>1 DEF PlaceOf
    <3>3. QED
      BY <2>1, <3>1, <3>2 DEF Placed
  <2>4. QED
    BY <1>1, <2>2, <2>3 DEF Line
<1>5. InGate
  BY <1>1, <1>2 DEF InGate
<1>6. Disposed /\ BlockingComesLast
  BY <1>2 DEF Disposed, BlockingComesLast, Request, Async, Blocking
<1>7. QED
  BY <1>3, <1>4, <1>5, <1>6 DEF QInv

-----------------------------------------------------------------------------
(* The gate when no request is inside. *)
LEMMA QuietGate ==
    ASSUME NEW g \in {<<>>, <<"sleep">>, <<"wake">>}
    PROVE  /\ g \in Seq(Blocking \cup {"event", "sleep", "wake"}) /\ Len(g) <= 1
           /\ \A i \in DOMAIN g : g[i] \in {"sleep", "wake"}
<1>1. CASE g = <<>>
  BY <1>1
<1>2. CASE g = <<"sleep">>
  BY <1>2
<1>3. CASE g = <<"wake">>
  BY <1>3
<1>4. QED
  BY <1>1, <1>2, <1>3

(* One lemma for each step. *)
LEMMA LineSame ==
    ASSUME Line, UNCHANGED <<submitted, processed, result>>, Queued' = Queued
    PROVE  Line'
BY DEF Line, Done

LEMMA StepSubmit ==
    ASSUME QInv, NEW r \in Async, Submit(r)
    PROVE  QInv'
<1>1. /\ ~stopped /\ New(r) /\ requestQueue' = Append(requestQueue, r)
      /\ submitted' = Append(submitted, r) /\ unsignalled' = unsignalled \cup {r}
      /\ UNCHANGED <<localQueue, signalled, gate, offline, sleeps, stopped, processed, result,
                     frees, freedAgain, ahead>>
  BY DEF Submit
<1>2. PICK t \in Seq(Async) : t = submitted' /\ Longer(t, submitted, r)
  BY <1>1, AppendIsLonger, QueueTypes
<1>3. Queued' = Append(Queued, r)
  BY <1>1, QueuedSubmit, QueueTypes DEF Queued
<1>4. InLine(Queued', submitted') /\ Done' = Done
  BY <1>1, <1>3, LineAppend, QueueTypes DEF Done
<1>5. Placed(Done', submitted', processed')
  BY <1>1, <1>4, PlacedSubmit, QueueTypes
<1>6. /\ DOMAIN t = 1 .. Len(submitted) + 1 /\ DOMAIN submitted = 1 .. Len(submitted)
      /\ t[Len(submitted) + 1] = r /\ \A i \in DOMAIN submitted : t[i] = submitted[i]
      /\ Len(submitted) \in Nat /\ Done < Len(submitted) + 1
  <2>1. submitted \in Seq(Async) /\ Done \in 0 .. Len(submitted)
    BY QueueTypes
  <2>2. DOMAIN submitted = 1 .. Len(submitted) /\ Len(submitted) \in Nat
    BY <2>1
  <2>3. QED
    BY <1>2, <2>1, <2>2 DEF Longer
<1>7. \A i \in DOMAIN t : i \in DOMAIN submitted \/ i = Len(submitted) + 1
  BY <1>6
<1>8. \A i \in DOMAIN submitted : submitted[i] # r
  BY <1>1 DEF New, ToSet
<1>9. \A i, j \in DOMAIN t : t[i] = t[j] => i = j
  BY <1>6, <1>7, <1>8 DEF QInv, Line
<1>10. result[r] = "none"
  BY <1>1 DEF New
<1>11. \A i \in DOMAIN t : result[t[i]] = "none" <=> Done < i
  BY <1>6, <1>7, <1>10 DEF QInv, Line
<1>12. Line'
  BY <1>1, <1>2, <1>4, <1>5, <1>9, <1>11 DEF Line
<1>13. requestQueue' \in Seq(Async)
  BY <1>1, AppendIsLonger, QueueTypes
<1>14. TypeOK'
  BY <1>1, <1>2, <1>13 DEF QInv, TypeOK
<1>15. InGate' /\ Disposed' /\ BlockingComesLast'
  BY <1>1 DEF QInv, InGate, Disposed, BlockingComesLast
<1>16. QED
  BY <1>12, <1>14, <1>15 DEF QInv

(* Steps that change neither a queue nor a request, nor let one in. *)
LEMMA StepGate ==
    ASSUME QInv,
           UNCHANGED <<requestQueue, localQueue, stopped, submitted, processed, result, frees, freedAgain, ahead>>,
           unsignalled' \subseteq Async, signalled' \in BOOLEAN, offline' \in BOOLEAN,
           sleeps' \in 0 .. MaxSleeps,
           \/ gate' = gate
           \/ gate' \in {<<>>, <<"sleep">>, <<"wake">>} /\ localQueue = <<>> /\ ~stopped
    PROVE  QInv'
<1>1. Line'
  BY LineSame DEF QInv, Queued
<1>2. Disposed' /\ BlockingComesLast'
  BY DEF QInv, Disposed, BlockingComesLast
<1>3. gate' \in Seq(Blocking \cup {"event", "sleep", "wake"}) /\ Len(gate') <= 2
  <2>1. CASE gate' = gate
    BY <2>1 DEF QInv, TypeOK
  <2>2. CASE gate' \in {<<>>, <<"sleep">>, <<"wake">>}
    <3>1. gate' \in Seq(Blocking \cup {"event", "sleep", "wake"}) /\ Len(gate') <= 1
      BY <2>2, QuietGate
    <3>2. QED
      BY <3>1
  <2>3. QED
    BY <2>1, <2>2
<1>4. InGate'
  <2>1. CASE gate' = gate
    BY <2>1 DEF QInv, InGate
  <2>2. CASE gate' \in {<<>>, <<"sleep">>, <<"wake">>} /\ localQueue = <<>> /\ ~stopped
    <3>1. \A i \in DOMAIN gate' : gate'[i] \in {"sleep", "wake"}
      BY <2>2, QuietGate
    <3>2. \A i \in DOMAIN gate' : gate'[i] \notin Blocking
      BY <3>1, KindsAssumption DEF Request
    <3>3. QED
      BY <2>2, <3>2 DEF InGate
  <2>3. QED
    BY <2>1, <2>2
<1>5. TypeOK'
  BY <1>3 DEF QInv, TypeOK
<1>6. QED
  BY <1>1, <1>2, <1>4, <1>5 DEF QInv

(* All that is queued moves to the empty local queue; a blocking request   *)
(* that enters with it is behind all of it.                                *)
LEMMA QueueTransferred ==
    ASSUME QInv, localQueue = <<>>, TransferQueue
    PROVE  Queued' = Queued /\ localQueue' \in Seq(Async) /\ requestQueue' \in Seq(Async)
<1>1. localQueue' = requestQueue /\ requestQueue' = <<>>
  BY DEF TransferQueue
<1>2. requestQueue \in Seq(Async)
  BY QueueTypes
<1>3. requestQueue \o <<>> = requestQueue /\ <<>> \o requestQueue = requestQueue
  BY <1>2, QueuedTransfer
<1>4. Queued' = Queued
  BY <1>1, <1>3, Zenon DEF Queued
<1>5. <<>> \in Seq(Async)
  OBVIOUS
<1>6. QED
  BY <1>1, <1>2, <1>4, <1>5, Zenon

LEMMA StepServe ==
    ASSUME QInv, ServeQueue
    PROVE  QInv'
<1>1. /\ gate = <<>> /\ ~stopped /\ signalled' = FALSE /\ gate' = <<"event">> /\ TransferQueue
      /\ UNCHANGED <<unsignalled, offline, sleeps, stopped, submitted, processed, result, frees, freedAgain,
                     ahead>>
  BY DEF ServeQueue
<1>2. localQueue = <<>>
  BY <1>1 DEF QInv, InGate
<1>3. Queued' = Queued /\ localQueue' \in Seq(Async) /\ requestQueue' \in Seq(Async)
  BY <1>1, <1>2, QueueTransferred
<1>4. Line'
  BY <1>1, <1>3, LineSame DEF QInv
<1>5. \A i \in DOMAIN gate' : gate'[i] \notin Blocking
  BY <1>1, KindsAssumption DEF Request
<1>6. gate' \notin {<<>>, <<"sleep">>, <<"wake">>}
  BY <1>1
<1>7. InGate'
  BY <1>1, <1>5, <1>6 DEF InGate
<1>8. gate' \in Seq(Blocking \cup {"event", "sleep", "wake"}) /\ Len(gate') <= 2
  <2>1. <<"event">> \in Seq(Blocking \cup {"event", "sleep", "wake"}) /\ Len(<<"event">>) <= 2
    OBVIOUS
  <2>2. QED
    BY <1>1, <2>1, Zenon
<1>9. signalled' \in BOOLEAN
  BY <1>1, Zenon
<1>10. TypeOK'
  BY <1>1, <1>3, <1>8, <1>9 DEF QInv, TypeOK
<1>11. Disposed' /\ BlockingComesLast'
  BY <1>1 DEF QInv, Disposed, BlockingComesLast
<1>12. QED
  BY <1>4, <1>7, <1>10, <1>11 DEF QInv

LEMMA StepEnter ==
    ASSUME QInv, NEW r \in Blocking, EnterGate(r)
    PROVE  QInv'
<1>1. /\ gate \in {<<>>, <<"sleep">>, <<"wake">>} /\ ~stopped /\ gate' = Append(gate, r)
      /\ TransferQueue /\ New(r) /\ ahead' = [ahead EXCEPT ![r] = ToSet(requestQueue)]
      /\ UNCHANGED <<unsignalled, signalled, offline, sleeps, stopped, submitted, processed,
                     result, frees, freedAgain>>
  BY DEF EnterGate
<1>2. localQueue = <<>>
  BY <1>1 DEF QInv, InGate
<1>3. Queued' = Queued /\ localQueue' \in Seq(Async) /\ requestQueue' \in Seq(Async)
  BY <1>1, <1>2, QueueTransferred
<1>4. Line'
  BY <1>1, <1>3, LineSame DEF QInv
<1>5. gate \in Seq(Blocking \cup {"event", "sleep", "wake"}) /\ Len(gate) <= 1
  BY <1>1, QuietGate
<1>6. PICK g \in Seq(Blocking \cup {"event", "sleep", "wake"}) : g = gate' /\ Longer(g, gate, r)
  BY <1>1, <1>5, AppendIsLonger
<1>7. Len(g) <= 2 /\ Len(g) # 0 /\ g[Len(g)] = r
  BY <1>5, <1>6 DEF Longer
<1>8. \A i \in DOMAIN g : i = Len(g) \/ g[i] \in {"sleep", "wake"}
  <2>1. \A i \in DOMAIN gate : gate[i] \in {"sleep", "wake"}
    BY <1>1, QuietGate
  <2>2. \A i \in DOMAIN g : i = Len(g) \/ (i \in DOMAIN gate /\ g[i] = gate[i])
    BY <1>5, <1>6 DEF Longer
  <2>3. QED
    BY <2>1, <2>2
<1>9. r \in Request /\ r \notin {"sleep", "wake"} /\ \A b \in {"sleep", "wake"} : b \notin Blocking
  BY KindsAssumption DEF Request
<1>10. ahead'[r] = ToSet(localQueue')
  BY <1>1, <1>9, QueueTypes DEF TransferQueue
<1>11. gate' \notin {<<>>, <<"sleep">>, <<"wake">>}
  BY <1>6, <1>7, <1>9
<1>12. result[r] = "none"
  BY <1>1 DEF New
<1>13. InGate'
  <2>1. \A i \in DOMAIN g : g[i] \in Blocking => i = Len(g) /\ g[i] = r
    BY <1>7, <1>8, <1>9
  <2>2. QED
    BY <1>1, <1>6, <1>10, <1>11, <1>12, <2>1 DEF InGate
<1>14. ahead' \in [Request -> SUBSET Async]
  <2>1. ToSet(requestQueue) \subseteq Async
    BY QueueTypes DEF ToSet
  <2>2. QED
    BY <1>1, <2>1 DEF QInv, TypeOK
<1>15. TypeOK'
  BY <1>1, <1>3, <1>6, <1>7, <1>14 DEF QInv, TypeOK
<1>16. Disposed'
  BY <1>1 DEF QInv, Disposed
<1>17. BlockingComesLast'
  <2>1. \A b \in Blocking : result'[b] # "none" => ahead'[b] = ahead[b]
    BY <1>1, <1>12, QueueTypes DEF Request
  <2>2. QED
    BY <1>1, <2>1 DEF QInv, BlockingComesLast
<1>18. QED
  BY <1>4, <1>13, <1>15, <1>16, <1>17 DEF QInv

(* processRequest ends request r, which has not ended before. *)
LEMMA RequestEnded ==
    ASSUME QInv, NEW r \in Request, result[r] = "none", ProcessRequest(r), freedAgain' = freedAgain
    PROVE  /\ processed' = Append(processed, r) /\ processed' \in Seq(Request)
           /\ ToSet(processed') = ToSet(processed) \cup {r}
           /\ result' \in [Request -> {"none", "ok", "failed"}] /\ result'[r] # "none"
           /\ \A q \in Request : q # r => result'[q] = result[q]
           /\ frees' \in [Request -> 0 .. 1] /\ Disposed'
<1>1. processed' = Append(processed, r)
  BY DEF ProcessRequest
<1>2. processed' \in Seq(Request)
  BY <1>1, AppendIsLonger, QueueTypes
<1>3. ToSet(processed') = ToSet(processed) \cup {r}
  BY <1>1, AfterGrows, QueueTypes
<1>4. PICK o \in {"ok", "failed"} : result' = [result EXCEPT ![r] = o]
  BY DEF ProcessRequest, Outcomes
<1>5. /\ result' \in [Request -> {"none", "ok", "failed"}] /\ result'[r] # "none"
      /\ \A q \in Request : q # r => result'[q] = result[q]
  BY <1>4 DEF QInv, TypeOK
<1>6. frees' = [frees EXCEPT ![r] = IF r \in OnStack THEN frees[r] ELSE frees[r] + 1] /\ frees[r] = 0
  BY DEF ProcessRequest, Frees, QInv, Disposed
<1>7. /\ frees' \in [Request -> 0 .. 1] /\ frees'[r] = IF r \in OnStack THEN 0 ELSE 1
      /\ \A q \in Request : q # r => frees'[q] = frees[q]
  BY <1>6 DEF QInv, TypeOK
<1>8. Disposed'
  <2>1. \A q \in Async \cup Legacy : q \in Request /\ q \notin OnStack
    BY KindsAssumption DEF Request, Blocking
  <2>2. \A q \in OnStack : q \in Request
    BY DEF Request, Blocking
  <2>3. \A q \in freedAgain' : q \in Legacy /\ result'[q] # "none"
    BY <1>5, <2>1 DEF Disposed, QInv
  <2>4. QED
    BY <1>5, <1>7, <2>1, <2>2, <2>3 DEF Disposed, QInv
<1>9. QED
  BY <1>1, <1>2, <1>3, <1>5, <1>7, <1>8

LEMMA StepProcessQueued ==
    ASSUME QInv, ProcessQueued
    PROVE  QInv'
<1>1. /\ gate # <<>> /\ localQueue # <<>> /\ ProcessRequest(Head(localQueue))
      /\ localQueue' = Tail(localQueue)
      /\ UNCHANGED <<requestQueue, unsignalled, signalled, gate, offline, sleeps, stopped,
                     submitted, freedAgain, ahead>>
  BY DEF ProcessQueued
<1>2. PICK r \in Async : r = Head(localQueue)
  BY <1>1, TailIsShorter, QueueTypes
<1>3. /\ Queued' = Tail(Queued) /\ r = Head(Queued) /\ Queued # <<>>
  BY <1>1, <1>2, QueuedProcess, QueueTypes DEF Queued
<1>4. /\ InLine(Tail(Queued), submitted) /\ Len(submitted) - Len(Tail(Queued)) = Done + 1
      /\ Done + 1 \in DOMAIN submitted /\ r = submitted[Done + 1]
  BY <1>3, LineTail, QueueTypes
<1>5. Done' = Done + 1 /\ Done \in Nat
  BY <1>1, <1>3, <1>4, QueueTypes DEF Done
<1>6. r \in Request /\ result[r] = "none"
  <2>1. Done < Done + 1
    BY <1>5
  <2>2. result[submitted[Done + 1]] = "none"
    BY <1>4, <2>1 DEF QInv, Line
  <2>3. QED
    BY <1>4, <2>2 DEF Request
<1>7. /\ processed' = Append(processed, r) /\ processed' \in Seq(Request)
      /\ ToSet(processed') = ToSet(processed) \cup {r}
      /\ result' \in [Request -> {"none", "ok", "failed"}] /\ result'[r] # "none"
      /\ \A q \in Request : q # r => result'[q] = result[q]
      /\ frees' \in [Request -> 0 .. 1] /\ Disposed'
  BY <1>1, <1>2, <1>6, RequestEnded
<1>8. Placed(Done', submitted', processed')
  <2>1. Placed(Done + 1, submitted, Append(processed, submitted[Done + 1]))
    BY <1>4, <1>5, PlacedNext, QueueTypes
  <2>2. QED
    BY <1>1, <1>4, <1>5, <1>7, <2>1
<1>9. \A i \in DOMAIN submitted : result'[submitted[i]] = "none" <=> Done + 1 < i
  <2> TAKE i \in DOMAIN submitted
  <2>1. submitted[i] \in Request /\ i \in Nat
    BY QueueTypes DEF Request
  <2>2. CASE i = Done + 1
    BY <1>4, <1>5, <1>7, <2>2
  <2>3. CASE i # Done + 1
    <3>1. submitted[i] # r
      BY <1>4, <2>3 DEF QInv, Line
    <3>2. result'[submitted[i]] = result[submitted[i]]
      BY <1>7, <2>1, <3>1
    <3>3. Done < i <=> Done + 1 < i
      BY <1>5, <2>1, <2>3
    <3>4. QED
      BY <3>2, <3>3 DEF QInv, Line
  <2>4. QED
    BY <2>2, <2>3
<1>10. Line'
  BY <1>1, <1>3, <1>4, <1>5, <1>8, <1>9 DEF QInv, Line
<1>11. ToSet(localQueue) = {r} \cup ToSet(localQueue')
  BY <1>1, <1>2, ToSetHead, QueueTypes
<1>12. InGate'
  <2>1. \A b \in Blocking : b \in Request /\ b # r
    BY KindsAssumption DEF Request
  <2>2. \A i \in DOMAIN gate : gate[i] \in Blocking =>
           /\ i = Len(gate) /\ result'[gate[i]] = "none"
           /\ ahead[gate[i]] \subseteq ToSet(processed') \cup ToSet(localQueue')
    BY <1>7, <1>11, <2>1 DEF QInv, InGate
  <2>3. gate \notin {<<>>, <<"sleep">>, <<"wake">>} /\ ~stopped
    BY <1>1 DEF QInv, InGate
  <2>4. QED
    BY <1>1, <2>2, <2>3 DEF InGate
<1>13. localQueue' \in Seq(Async)
  BY <1>1, TailIsShorter, QueueTypes
<1>14. TypeOK'
  BY <1>1, <1>7, <1>13 DEF QInv, TypeOK
<1>15. BlockingComesLast'
  <2>1. \A b \in Blocking : b \in Request /\ b # r
    BY KindsAssumption DEF Request
  <2>2. \A b \in Blocking : result'[b] # "none" => \A q \in ahead[b] : After(q, b, processed)
    BY <1>7, <2>1 DEF QInv, BlockingComesLast, After
  <2>3. \A b \in Blocking : result'[b] # "none" => \A q \in ahead[b] : After(q, b, processed')
    BY <1>6, <1>7, <2>2, AfterGrows, QueueTypes
  <2>4. QED
    BY <1>1, <2>3 DEF BlockingComesLast, After
<1>16. QED
  BY <1>7, <1>10, <1>12, <1>14, <1>15 DEF QInv

LEMMA StepProcessOwn ==
    ASSUME QInv, ProcessOwn
    PROVE  QInv'
<1>1. /\ gate # <<>> /\ Last(gate) \in Blocking /\ localQueue = <<>>
      /\ ProcessRequest(Last(gate)) /\ gate' = Front(gate)
      /\ UNCHANGED <<requestQueue, localQueue, unsignalled, signalled, offline, sleeps, stopped,
                     submitted, freedAgain, ahead>>
  BY DEF ProcessOwn
<1>2. gate \in Seq(Blocking \cup {"event", "sleep", "wake"}) /\ Len(gate) <= 2
  BY DEF QInv, TypeOK
<1>3. Len(gate) \in DOMAIN gate /\ Len(gate) \in Nat \ {0}
  BY <1>1, <1>2
<1>4. PICK r \in Blocking : r = gate[Len(gate)] /\ r = Last(gate)
  BY <1>1 DEF Last
<1>5. /\ r \in Request /\ r \notin Async /\ result[r] = "none"
      /\ ahead[r] \subseteq ToSet(processed) \cup ToSet(localQueue)
  BY <1>3, <1>4, KindsAssumption DEF QInv, InGate, Request
<1>6. /\ processed' = Append(processed, r) /\ processed' \in Seq(Request)
      /\ ToSet(processed') = ToSet(processed) \cup {r}
      /\ result' \in [Request -> {"none", "ok", "failed"}] /\ result'[r] # "none"
      /\ \A q \in Request : q # r => result'[q] = result[q]
      /\ frees' \in [Request -> 0 .. 1] /\ Disposed'
  BY <1>1, <1>4, <1>5, RequestEnded
<1>7. Queued' = Queued /\ Done' = Done
  BY <1>1 DEF Queued, Done
<1>8. Placed(Done', submitted', processed')
  BY <1>1, <1>5, <1>6, <1>7, PlacedBlocking, QueueTypes
<1>9. \A i \in DOMAIN submitted : submitted[i] \in Request /\ submitted[i] # r
  BY <1>5, QueueTypes DEF Request
<1>10. Line'
  BY <1>1, <1>6, <1>7, <1>8, <1>9 DEF QInv, Line
<1>11. PICK g \in Seq(Blocking \cup {"event", "sleep", "wake"}) : g = gate'
  BY <1>1, <1>2 DEF Front
<1>12. /\ Len(g) = Len(gate) - 1 /\ \A i \in 1 .. Len(gate) - 1 : g[i] = gate[i]
       /\ DOMAIN g = 1 .. Len(gate) - 1
  <2>1. Len(gate) - 1 \in 0 .. Len(gate)
    BY <1>3
  <2>2. g = SubSeq(gate, 1, Len(gate) - 1)
    BY <1>1, <1>11 DEF Front
  <2>3. QED
    BY <1>2, <2>1, <2>2, SubSeqIsShorter
<1>13. \A i \in DOMAIN g : g[i] \notin Blocking
  <2>1. \A i \in 1 .. Len(gate) - 1 : i \in DOMAIN gate /\ i # Len(gate)
    BY <1>2, <1>3
  <2>2. QED
    BY <1>12, <2>1 DEF QInv, InGate
<1>14. ~stopped
  BY <1>1 DEF QInv, InGate
<1>15. InGate'
  BY <1>1, <1>11, <1>13, <1>14 DEF InGate
<1>16. Len(g) <= 2
  BY <1>2, <1>3, <1>12
<1>17. TypeOK'
  BY <1>1, <1>6, <1>11, <1>16 DEF QInv, TypeOK
<1>18. BlockingComesLast'
  <2>1. ToSet(localQueue) = {}
    BY <1>1 DEF ToSet
  <2>2. \A q \in ahead[r] : After(q, r, processed')
    BY <1>5, <1>6, <2>1, AfterGrows, QueueTypes
  <2>3. \A b \in Blocking : b \in Request
    BY DEF Request
  <2>4. \A b \in Blocking : b # r /\ result'[b] # "none" => \A q \in ahead[b] : After(q, b, processed)
    BY <1>6, <2>3 DEF QInv, BlockingComesLast, After
  <2>5. \A b \in Blocking : b # r /\ result'[b] # "none" => \A q \in ahead[b] : After(q, b, processed')
    BY <1>5, <1>6, <2>4, AfterGrows, QueueTypes
  <2>6. QED
    BY <1>1, <2>2, <2>5 DEF BlockingComesLast, After
<1>19. QED
  BY <1>6, <1>10, <1>15, <1>17, <1>18 DEF QInv

LEMMA StepCallerFrees ==
    ASSUME QInv, NEW r \in Legacy, CallerFrees(r)
    PROVE  QInv'
<1>1. /\ result[r] # "none" /\ freedAgain' = freedAgain \cup {r}
      /\ UNCHANGED <<requestQueue, localQueue, unsignalled, signalled, gate, offline, sleeps,
                     stopped, submitted, processed, result, frees, ahead>>
  BY DEF CallerFrees
<1>2. Disposed' /\ freedAgain' \subseteq Legacy
  BY <1>1 DEF QInv, Disposed
<1>3. Line'
  BY <1>1, LineSame DEF QInv, Queued
<1>4. InGate' /\ BlockingComesLast'
  BY <1>1 DEF QInv, InGate, BlockingComesLast
<1>5. TypeOK'
  BY <1>1, <1>2 DEF QInv, TypeOK
<1>6. QED
  BY <1>2, <1>3, <1>4, <1>5 DEF QInv

(* stop() ends all that is queued: nothing is in the gate, so the local    *)
(* queue is empty.                                                         *)
LEMMA StepStop ==
    ASSUME QInv, Stop
    PROVE  QInv'
<1>1. /\ gate = <<>> /\ ~stopped /\ stopped' = TRUE /\ offline' = TRUE /\ requestQueue' = <<>>
      /\ processed' = processed \o requestQueue
      /\ UNCHANGED <<localQueue, unsignalled, signalled, gate, sleeps, submitted, freedAgain, ahead>>
  BY DEF Stop
<1>2. /\ result' = [r \in Request |-> IF r \in ToSet(requestQueue) THEN "failed" ELSE result[r]]
      /\ frees' = [r \in Request |-> IF r \in ToSet(requestQueue) THEN frees[r] + 1 ELSE frees[r]]
  BY DEF Stop
<1>3. localQueue = <<>>
  BY <1>1 DEF QInv, InGate
<1>4. Queued = requestQueue /\ Queued' = <<>>
  <2>1. <<>> \o requestQueue = requestQueue /\ <<>> \o <<>> = <<>>
    BY QueueTypes
  <2>2. QED
    BY <1>1, <1>3, <2>1, Zenon DEF Queued
<1>5. Done' = Len(submitted) /\ Len(submitted) \in Nat /\ InLine(Queued', submitted')
  BY <1>1, <1>4, QueueTypes DEF Done, InLine
<1>6. Placed(Done', submitted', processed') /\ processed' \in Seq(Request)
  BY <1>1, <1>4, <1>5, PlacedAll, QueueTypes
<1>7. ASSUME NEW i \in DOMAIN submitted
      PROVE  Done < i <=> submitted[i] \in ToSet(requestQueue)
  <2>1. PICK n \in Nat : n = Done /\ n <= Len(submitted) /\ Len(requestQueue) = Len(submitted) - n
        /\ Len(submitted) \in Nat
    BY <1>4, QueueTypes
  <2>2. \A k \in DOMAIN requestQueue : requestQueue[k] = submitted[n + k]
    BY <1>4, <2>1, QueueTypes DEF InLine, Done
  <2>3. DOMAIN requestQueue = 1 .. Len(requestQueue) /\ DOMAIN submitted = 1 .. Len(submitted)
    BY QueueTypes
  <2>4. ASSUME n < i PROVE submitted[i] \in ToSet(requestQueue)
    <3>1. i - n \in DOMAIN requestQueue /\ n + (i - n) = i
      BY <2>1, <2>3, <2>4
    <3>2. QED
      BY <2>2, <3>1 DEF ToSet
  <2>5. ASSUME submitted[i] \in ToSet(requestQueue) PROVE n < i
    <3>1. PICK k \in DOMAIN requestQueue : requestQueue[k] = submitted[i]
      BY <2>5 DEF ToSet
    <3>2. n + k \in DOMAIN submitted /\ n < n + k
      BY <2>1, <2>3, <3>1
    <3>3. n + k = i
      BY <2>2, <3>1, <3>2 DEF QInv, Line
    <3>4. QED
      BY <3>2, <3>3
  <2>6. QED
    BY <2>1, <2>4, <2>5
<1>8. \A q \in ToSet(requestQueue) : q \in Async /\ result[q] = "none"
  <2> TAKE q \in ToSet(requestQueue)
  <2>1. PICK k \in DOMAIN requestQueue : requestQueue[k] = q
    BY DEF ToSet
  <2>2. PICK n \in Nat : n = Done /\ n <= Len(submitted) /\ Len(requestQueue) = Len(submitted) - n
        /\ Len(submitted) \in Nat
    BY <1>4, QueueTypes
  <2>3. q = submitted[n + k]
    BY <1>4, <2>1, <2>2, QueueTypes DEF InLine, Done
  <2>4. DOMAIN requestQueue = 1 .. Len(requestQueue) /\ DOMAIN submitted = 1 .. Len(submitted)
    BY QueueTypes
  <2>5. n + k \in DOMAIN submitted /\ n < n + k
    BY <2>1, <2>2, <2>4
  <2>6. result[q] = "none"
    BY <2>2, <2>3, <2>5 DEF QInv, Line
  <2>7. QED
    BY <2>1, <2>6, QueueTypes
<1>9. result' \in [Request -> {"none", "ok", "failed"}]
  BY <1>2 DEF QInv, TypeOK
<1>10. \A q \in Request : result'[q] = IF q \in ToSet(requestQueue) THEN "failed" ELSE result[q]
  BY <1>2
<1>11. \A i \in DOMAIN submitted : result'[submitted[i]] # "none" /\ ~(Len(submitted) < i)
  <2> TAKE i \in DOMAIN submitted
  <2>1. submitted[i] \in Request /\ ~(Len(submitted) < i)
    BY QueueTypes DEF Request
  <2>2. submitted[i] \notin ToSet(requestQueue) => result[submitted[i]] # "none"
    BY <1>7 DEF QInv, Line
  <2>3. QED
    BY <1>10, <2>1, <2>2
<1>12. Line'
  BY <1>1, <1>5, <1>6, <1>11 DEF QInv, Line
<1>13. /\ \A q \in ToSet(requestQueue) : frees'[q] = 1
       /\ \A q \in Request : q \notin ToSet(requestQueue) => frees'[q] = frees[q]
  BY <1>2, <1>8 DEF QInv, Disposed, Request
<1>14. frees' \in [Request -> 0 .. 1]
  <2>1. \A q \in Request : q \in ToSet(requestQueue) => frees[q] + 1 = 1
    BY <1>8 DEF QInv, Disposed
  <2>2. \A q \in Request : frees[q] \in 0 .. 1
    BY DEF QInv, TypeOK
  <2>3. QED
    BY <1>2, <2>1, <2>2
<1>15. Disposed'
  <2>1. \A q \in OnStack : q \in Request /\ q \notin ToSet(requestQueue)
    BY <1>8, KindsAssumption DEF Request, Blocking
  <2>2. \A q \in Async \cup Legacy : q \in Request
    BY DEF Request, Blocking
  <2>3. \A q \in freedAgain' : q \in Legacy /\ result'[q] # "none"
    BY <1>1, <1>10, <2>2 DEF QInv, Disposed
  <2>4. QED
    BY <1>8, <1>10, <1>13, <2>1, <2>2, <2>3 DEF QInv, Disposed
<1>16. InGate'
  BY <1>1, <1>3 DEF InGate
<1>17. TypeOK'
  <2>1. stopped' \in BOOLEAN /\ offline' \in BOOLEAN
    BY <1>1, Zenon
  <2>2. requestQueue' \in Seq(Async)
    BY <1>1
  <2>3. QED
    BY <1>1, <1>6, <1>9, <1>14, <2>1, <2>2 DEF QInv, TypeOK
<1>18. BlockingComesLast'
  <2>1. \A b \in Blocking : b \in Request /\ b \notin ToSet(requestQueue)
    BY <1>8, KindsAssumption DEF Request
  <2>2. \A b \in Blocking : result'[b] # "none" => \A q \in ahead[b] : After(q, b, processed)
    BY <1>10, <2>1 DEF QInv, BlockingComesLast, After
  <2>3. requestQueue \in Seq(Request)
    BY QueueTypes DEF Request
  <2>4. \A b \in Blocking : result'[b] # "none" => \A q \in ahead[b] : After(q, b, processed')
    BY <1>1, <2>2, <2>3, AfterJoined, QueueTypes
  <2>5. QED
    BY <1>1, <2>4 DEF BlockingComesLast, After
<1>19. QED
  BY <1>12, <1>15, <1>16, <1>17, <1>18 DEF QInv

LEMMA NextQInv == QInv /\ [Next]_vars => QInv'
<1> SUFFICES ASSUME QInv, [Next]_vars PROVE QInv'
  OBVIOUS
<1>1. /\ unsignalled \subseteq Async /\ signalled \in BOOLEAN /\ offline \in BOOLEAN
      /\ sleeps \in 0 .. MaxSleeps
  BY DEF QInv, TypeOK
<1>2. gate # <<>> => ~stopped
  BY DEF QInv, InGate
<1>3. ASSUME NEW r \in Async, SignalQueue(r) PROVE QInv'
  <2>1. signalled' \in BOOLEAN
    BY <1>3, Zenon DEF SignalQueue
  <2>2. QED
    BY <1>1, <1>3, <2>1, StepGate DEF SignalQueue
<1>4. CASE QueueServed
  BY <1>1, <1>2, <1>4, StepGate DEF QueueServed
<1>5. CASE SleepBegin
  <2>1. sleeps' \in 0 .. MaxSleeps
    BY <1>1, <1>5, MaxSleepsAssumption DEF SleepBegin
  <2>2. localQueue = <<>>
    BY <1>5 DEF SleepBegin, QInv, InGate
  <2>3. QED
    BY <1>1, <1>5, <2>1, <2>2, StepGate DEF SleepBegin
<1>6. CASE SleepEnd
  <2>1. offline' \in BOOLEAN
    BY <1>6, Zenon DEF SleepEnd
  <2>2. QED
    BY <1>1, <1>2, <1>6, <2>1, StepGate DEF SleepEnd
<1>7. CASE WakeBegin
  <2>1. offline' \in BOOLEAN
    BY <1>7, Zenon DEF WakeBegin
  <2>2. localQueue = <<>>
    BY <1>7 DEF WakeBegin, QInv, InGate
  <2>3. QED
    BY <1>1, <1>7, <2>1, <2>2, StepGate DEF WakeBegin
<1>8. CASE WakeEnd
  BY <1>1, <1>2, <1>8, StepGate DEF WakeEnd
<1>9. CASE UNCHANGED vars
  BY <1>1, <1>9, StepGate DEF vars
<1>10. QED
  BY <1>3, <1>4, <1>5, <1>6, <1>7, <1>8, <1>9, StepSubmit, StepEnter, StepCallerFrees, StepServe,
     StepProcessQueued, StepProcessOwn, StepStop DEF Next, WorkLoop, PowerEnds

LEMMA QueueInvariance == Spec => []QInv
<1>1. QED
  BY InitQInv, NextQInv, PTL DEF Spec

-----------------------------------------------------------------------------
(* The queues, the gate and the requests' fates keep their types: the gate *)
(* is never entered more than twice by its owner, and the controller frees *)
(* no request twice.                                                       *)
THEOREM QueueTypeCorrect == Spec => []TypeOK
<1>1. QInv => TypeOK
  BY DEF QInv
<1>2. QED
  BY <1>1, QueueInvariance, PTL

(* Whatever mixture of queued and blocking requests, and whoever works off *)
(* the queue, asynchronous requests are processed once each in the order   *)
(* of submitRequest, and a blocking one after all that was queued before   *)
(* it (processRequestQueue's local queue, submitRequestAndBlockGated).     *)
THEOREM ProcessedInOrderHolds == Spec => []ProcessedInOrder
<1>1. QInv => ProcessedInOrder
  <2> SUFFICES ASSUME QInv PROVE SubmissionOrder
    BY DEF QInv, ProcessedInOrder
  <2>1. Done >= 0 /\ \A i \in DOMAIN Queued : Queued[i] = submitted[Done + i]
    BY QueueTypes DEF InLine, Done
  <2>2. PICK place \in [1 .. Done -> DOMAIN processed] : PlaceOf(place, Done, submitted, processed)
    BY QueueTypes DEF Placed
  <2>3. InPlace(place)
    BY <2>2 DEF PlaceOf, InPlace
  <2>4. QED
    BY <2>1, <2>2, <2>3 DEF SubmissionOrder
<1>2. QED
  BY <1>1, QueueInvariance, PTL

(* The memory of every allocated request is released at the right time:    *)
(* once by the controller, when processRequest ends it, never while it is  *)
(* queued, never for one on its caller's stack, so that a driver's release *)
(* is one too many; and stop() ends whatever it finds in the queue.        *)
THEOREM NothingLeaksHolds == Spec => []NothingLeaks
<1>1. ASSUME QInv PROVE FreedOnce
  <2>1. \A r \in Async : r \in Request
    BY DEF Request
  <2>2. \A r \in ToSet(requestQueue) \cup ToSet(localQueue) : result[r] = "none" /\ r \in Async
    <3> TAKE r \in ToSet(requestQueue) \cup ToSet(localQueue)
    <3>1. PICK k \in DOMAIN Queued : Queued[k] = r
      <4>1. r \in ToSet(Queued)
        BY <1>1, JoinHas, QueueTypes DEF Queued
      <4>2. QED
        BY <4>1 DEF ToSet
    <3>2. PICK n \in Nat : n = Done /\ Len(Queued) = Len(submitted) - n /\ Len(submitted) \in Nat
      <4>1. Done \in 0 .. Len(submitted) /\ Done = Len(submitted) - Len(Queued)
        BY <1>1, QueueTypes
      <4>2. Queued \in Seq(Async) /\ submitted \in Seq(Async)
        BY <1>1, QueueTypes
      <4>3. Len(Queued) \in Nat /\ Len(submitted) \in Nat
        BY <4>2
      <4>4. Done \in Nat /\ Len(Queued) = Len(submitted) - Done
        BY <4>1, <4>3
      <4>5. QED
        BY <4>3, <4>4, Zenon
    <3>3. Queued \in Seq(Async) /\ submitted \in Seq(Async) /\ r = submitted[n + k]
      BY <1>1, <3>1, <3>2, QueueTypes DEF InLine, Done
    <3>4. DOMAIN Queued = 1 .. Len(Queued) /\ DOMAIN submitted = 1 .. Len(submitted)
      BY <3>3
    <3>5. n + k \in DOMAIN submitted /\ n < n + k
      BY <3>1, <3>2, <3>4
    <3>6. QED
      BY <1>1, <3>2, <3>3, <3>5 DEF QInv, Line
  <2>3. \A r \in Legacy : r \in Request
    BY DEF Request, Blocking
  <2>4. QED
    BY <1>1, <2>1, <2>2, <2>3 DEF FreedOnce, QInv, Disposed
<1>2. ASSUME QInv PROVE DriverFreesAgain
  BY <1>2 DEF QInv, Disposed, DriverFreesAgain
<1>3. ASSUME QInv PROVE NothingLeftByStop
  <2> SUFFICES ASSUME stopped PROVE \A r \in ToSet(submitted) : result[r] # "none"
    BY DEF NothingLeftByStop
  <2>1. requestQueue = <<>> /\ localQueue = <<>>
    BY <1>3 DEF QInv, InGate
  <2>2. Queued = <<>>
    BY <2>1 DEF Queued
  <2>3. Done = Len(submitted) /\ Len(submitted) \in Nat /\ DOMAIN submitted = 1 .. Len(submitted)
    BY <1>3, <2>2, QueueTypes DEF Done
  <2>4. \A i \in DOMAIN submitted : ~(Done < i)
    BY <2>3
  <2>5. QED
    BY <1>3, <2>4 DEF QInv, Line, ToSet
<1>4. QInv => NothingLeaks
  BY <1>1, <1>2, <1>3 DEF NothingLeaks
<1>5. QED
  BY <1>4, QueueInvariance, PTL

-----------------------------------------------------------------------------
(* InterruptActions.  The inductive invariant: what is connected at each   *)
(* stage of a driver's coming and going, and what the parties that may be  *)
(* calling it forbid.                                                      *)
Connected(d) == client[d] # "out"

Pointers ==
    \A d \in Device :
        /\ action[d] <=> Connected(d)
        /\ packetAction[d] <=> Connected(d)
        /\ target[d] <=> Connected(d)

Wired ==
    \A d \in Device :
        /\ registered[d] <=> client[d] \in {"registered", "in", "disabled"}
        /\ source[d] <=> client[d] \in {"sourceAdded", "enabled", "registered", "in",
                                        "disabled", "unregistered"}

(* A handler runs only while it is registered, the packet routine only     *)
(* between the end of installing and the removal of the event source.      *)
Callers ==
    /\ \A d \in Device : at[d] # "idle" => registered[d]
    /\ loop # "none" => client[loop] \in {"in", "disabled", "unregistered"}

ActionsInv == ActionsTypeOK /\ Pointers /\ Wired /\ Callers

-----------------------------------------------------------------------------
LEMMA InitActions == ActionsInit => ActionsInv
<1> SUFFICES ASSUME ActionsInit PROVE ActionsInv
  OBVIOUS
<1>1. ActionsTypeOK
  BY DEF ActionsInit, ActionsTypeOK, Device, Dispatcher
<1>2. Pointers /\ Wired /\ Callers
  BY DEF ActionsInit, Pointers, Connected, Wired, Callers, Dispatcher
<1>3. QED
  BY <1>1, <1>2 DEF ActionsInv

LEMMA InstallStep ==
    ASSUME ActionsInv, NEW d \in Device, Install(d)
    PROVE  ActionsInv'
<1> USE DEF Client, wiring, deviceVars
<1>1. CASE SetAction(d)
  <2>1. ActionsTypeOK'
    BY <1>1 DEF SetAction, ActionsInv, ActionsTypeOK
  <2>2. Pointers' /\ Wired' /\ Callers'
    BY <1>1 DEF SetAction, ActionsInv, ActionsTypeOK, Pointers, Connected, Wired, Callers
  <2>3. QED
    BY <2>1, <2>2 DEF ActionsInv
<1>2. CASE AddSource(d)
  <2>1. ActionsTypeOK'
    BY <1>2 DEF AddSource, ActionsInv, ActionsTypeOK
  <2>2. Pointers' /\ Wired' /\ Callers'
    BY <1>2 DEF AddSource, ActionsInv, ActionsTypeOK, Pointers, Connected, Wired, Callers
  <2>3. QED
    BY <2>1, <2>2 DEF ActionsInv
<1>3. CASE EnableIRQ(d)
  <2>1. ActionsTypeOK'
    BY <1>3 DEF EnableIRQ, ActionsInv, ActionsTypeOK
  <2>2. Pointers' /\ Wired' /\ Callers'
    BY <1>3 DEF EnableIRQ, ActionsInv, ActionsTypeOK, Pointers, Connected, Wired, Callers
  <2>3. QED
    BY <2>1, <2>2 DEF ActionsInv
<1>4. CASE Register(d)
  <2>1. ActionsTypeOK'
    BY <1>4 DEF Register, ActionsInv, ActionsTypeOK
  <2>2. Pointers' /\ Wired' /\ Callers'
    BY <1>4 DEF Register, ActionsInv, ActionsTypeOK, Pointers, Connected, Wired, Callers
  <2>3. QED
    BY <2>1, <2>2 DEF ActionsInv
<1>5. CASE SetInstalled(d)
  <2>1. ActionsTypeOK'
    BY <1>5 DEF SetInstalled, ActionsInv, ActionsTypeOK
  <2>2. Pointers' /\ Wired' /\ Callers'
    BY <1>5 DEF SetInstalled, ActionsInv, ActionsTypeOK, Pointers, Connected, Wired, Callers
  <2>3. QED
    BY <2>1, <2>2 DEF ActionsInv
<1>6. QED
  BY <1>1, <1>2, <1>3, <1>4, <1>5 DEF Install

(* The two waits are what the proof turns on: a handler is taken off when  *)
(* it has ended, and the event source when the gate is free.               *)
LEMMA UninstallStep ==
    ASSUME ActionsInv, NEW d \in Device, Uninstall(d)
    PROVE  ActionsInv'
<1> USE DEF Client, wiring, deviceVars
<1>1. CASE DisableIRQ(d)
  <2>1. ActionsTypeOK'
    BY <1>1 DEF DisableIRQ, ActionsInv, ActionsTypeOK
  <2>2. Pointers' /\ Wired' /\ Callers'
    BY <1>1 DEF DisableIRQ, ActionsInv, ActionsTypeOK, Pointers, Connected, Wired, Callers
  <2>3. QED
    BY <2>1, <2>2 DEF ActionsInv
<1>2. CASE Unregister(d)
  <2>1. ActionsTypeOK'
    BY <1>2 DEF Unregister, ActionsInv, ActionsTypeOK
  <2>2. Pointers' /\ Wired' /\ Callers'
    BY <1>2 DEF Unregister, ActionsInv, ActionsTypeOK, Pointers, Connected, Wired, Callers
  <2>3. QED
    BY <2>1, <2>2 DEF ActionsInv
<1>3. CASE RemoveSource(d)
  <2>1. ActionsTypeOK'
    BY <1>3 DEF RemoveSource, ActionsInv, ActionsTypeOK
  <2>2. Pointers' /\ Wired' /\ Callers'
    BY <1>3 DEF RemoveSource, ActionsInv, ActionsTypeOK, Pointers, Connected, Wired, Callers, GateIsFree
  <2>3. QED
    BY <2>1, <2>2 DEF ActionsInv
<1>4. CASE ClearInstalled(d)
  <2>1. ActionsTypeOK'
    BY <1>4 DEF ClearInstalled, ActionsInv, ActionsTypeOK
  <2>2. Pointers' /\ Wired' /\ Callers'
    BY <1>4 DEF ClearInstalled, ActionsInv, ActionsTypeOK, Pointers, Connected, Wired, Callers
  <2>3. QED
    BY <2>1, <2>2 DEF ActionsInv
<1>5. CASE ClearAction(d)
  <2>1. ActionsTypeOK'
    BY <1>5 DEF ClearAction, ActionsInv, ActionsTypeOK
  <2>2. Pointers' /\ Wired' /\ Callers'
    BY <1>5 DEF ClearAction, ActionsInv, ActionsTypeOK, Pointers, Connected, Wired, Callers
  <2>3. QED
    BY <2>1, <2>2 DEF ActionsInv
<1>6. QED
  BY <1>1, <1>2, <1>3, <1>4, <1>5 DEF Uninstall

(* The dispatchers leave drivers and wiring alone. *)
LEMMA DispatchStep ==
    ASSUME ActionsInv, UNCHANGED <<deviceVars, wiring, client>>, loop' = loop,
           at' \in [Dispatcher -> {"idle", "test", "call"}], for' \in [Dispatcher -> Device],
           sourceSignalled' \in [Device -> BOOLEAN],
           \A d \in Device : at'[d] # "idle" => registered[d]
    PROVE  ActionsInv'
<1>1. ActionsTypeOK'
  BY DEF ActionsInv, ActionsTypeOK, deviceVars, wiring
<1>2. Pointers' /\ Wired' /\ Callers'
  BY DEF ActionsInv, Pointers, Connected, Wired, Callers, deviceVars, wiring
<1>3. QED
  BY <1>1, <1>2 DEF ActionsInv

LEMMA StepActions == ActionsInv /\ [ActionsNext]_actionsVars => ActionsInv'
<1> SUFFICES ASSUME ActionsInv, [ActionsNext]_actionsVars PROVE ActionsInv'
  OBVIOUS
<1>1. CASE \E d \in Device : Install(d) \/ Uninstall(d)
  BY <1>1, InstallStep, UninstallStep
<1>2. ASSUME NEW e \in Device, NEW d \in Device, Interrupt(e, d) PROVE ActionsInv'
  BY <1>2, DispatchStep DEF Interrupt, ActionsInv, ActionsTypeOK, Callers, Dispatcher
<1>3. ASSUME NEW d \in Device, Poll(d) PROVE ActionsInv'
  BY <1>3, DispatchStep DEF Poll, ActionsInv, ActionsTypeOK, Callers, Dispatcher, Device
<1>4. ASSUME NEW x \in Dispatcher, TestInstalled(x) PROVE ActionsInv'
  BY <1>4, DispatchStep DEF TestInstalled, ActionsInv, ActionsTypeOK, Callers, Dispatcher
<1>5. ASSUME NEW x \in Dispatcher, CallAction(x) PROVE ActionsInv'
  BY <1>5, DispatchStep DEF CallAction, ActionsInv, ActionsTypeOK, Callers, Dispatcher
<1>6. ASSUME NEW d \in Device, PacketReady(d) PROVE ActionsInv'
  <2>1. ActionsTypeOK'
    BY <1>6 DEF PacketReady, ActionsInv, ActionsTypeOK, deviceVars, wiring
  <2>2. Pointers' /\ Wired'
    BY <1>6 DEF PacketReady, ActionsInv, Pointers, Connected, Wired, deviceVars, wiring
  <2>3. Callers'
    BY <1>6 DEF PacketReady, ActionsInv, ActionsTypeOK, Wired, Callers, deviceVars, wiring
  <2>4. QED
    BY <2>1, <2>2, <2>3 DEF ActionsInv
<1>7. CASE PacketsDone
  <2>1. ActionsTypeOK'
    BY <1>7 DEF PacketsDone, ActionsInv, ActionsTypeOK, deviceVars, wiring
  <2>2. Pointers' /\ Wired' /\ Callers'
    BY <1>7 DEF PacketsDone, ActionsInv, Pointers, Connected, Wired, Callers, deviceVars, wiring
  <2>3. QED
    BY <2>1, <2>2 DEF ActionsInv
<1>8. CASE UNCHANGED actionsVars
  BY <1>8, DispatchStep DEF actionsVars, ActionsInv, ActionsTypeOK, Callers
<1>9. QED
  BY <1>1, <1>2, <1>3, <1>4, <1>5, <1>6, <1>7, <1>8 DEF ActionsNext

-----------------------------------------------------------------------------
(* ActionsInv holds in every state, on any number of processors.                 *)
THEOREM ActionsInvariance == ActionsSpec => []ActionsInv
BY InitActions, StepActions, PTL DEF ActionsSpec

(* The flags keep their types, and _interruptInstalled... is set exactly   *)
(* between the end of installInterruptAction and the middle of             *)
(* uninstallInterruptAction.                                               *)
THEOREM ActionsTypeCorrect == ActionsSpec => []ActionsTypeOK
<1>1. ActionsInv => ActionsTypeOK
  BY DEF ActionsInv
<1>2. QED
  BY <1>1, ActionsInvariance, PTL

(* What a device's own interrupt, or its packets, call is a driver that    *)
(* has come and not gone, although the flag is tested before the call and  *)
(* the driver may go in between.                                           *)
THEOREM CallsReachDriversHolds == ActionsSpec => []CallsReachDrivers
<1>1. ActionsInv => CallsReachDrivers
  <2> SUFFICES ASSUME ActionsInv PROVE CallsReachDrivers
    OBVIOUS
  <2>1. OwnHandlersAreConnected
    BY DEF ActionsInv, Pointers, Connected, Wired, Callers, OwnHandlersAreConnected
  <2>2. PacketsAreConnected
    BY DEF ActionsInv, ActionsTypeOK, Pointers, Connected, Callers, PacketsAreConnected
  <2>3. QED
    BY <2>1, <2>2 DEF CallsReachDrivers
<1>2. QED
  BY <1>1, ActionsInvariance, PTL

=============================================================================
