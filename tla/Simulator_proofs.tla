-------------------------- MODULE Simulator_proofs --------------------------
(***************************************************************************)
(* The end-to-end test, for any tags, zones, channel sizes and number of   *)
(* simulators run one after the other.                                     *)
(***************************************************************************)
EXTENDS Simulator, Pipeline_proofs, SequenceTheorems

-----------------------------------------------------------------------------
(* Which events of the channel Write will publish.                         *)

\* e says what d said before.
Repeats(e, d) ==
    /\ e.type = d.type
    /\ IF e.type = "ZONE"
         THEN /\ ZonesOf(e) = ZonesOf(d) /\ LocationTypeOf(e) = LocationTypeOf(d)
              /\ MovementOf(e) = MovementOf(d)
         ELSE e.state.presence = d.state.presence

\* The i-th event of the channel q does not repeat the one of its type before
\* it, in the channel or, with none there, on the stream.
Renews(q, l, i) ==
    /\ \A j \in 1 .. i - 1 :
         q[j].type = q[i].type /\ (\A m \in j + 1 .. i - 1 : q[m].type # q[i].type)
           => ~Repeats(q[i], q[j])
    /\ (\A j \in 1 .. i - 1 : q[j].type # q[i].type)
         => \A r \in l[q[i].type] : ~Repeats(q[i], unmarshal(r.data))

\* Only what is before the event counts.
LEMMA RenewsPrefix ==
    ASSUME NEW q, NEW r, NEW l, NEW i \in Nat, \A j \in 1 .. i : r[j] = q[j], i > 0,
           Renews(q, l, i)
    PROVE  Renews(r, l, i)
  <1>1. r[i] = q[i] /\ \A j \in 1 .. i - 1 : r[j] = q[j]
    OBVIOUS
  <1>2. ASSUME NEW j \in 1 .. i - 1, r[j].type = r[i].type,
               \A m \in j + 1 .. i - 1 : r[m].type # r[i].type
        PROVE  ~Repeats(r[i], r[j])
    <2>1. \A m \in j + 1 .. i - 1 : q[m].type # q[i].type
      BY <1>1, <1>2
    <2>2. q[j].type = q[i].type
      BY <1>1, <1>2
    <2> QED
      BY <1>1, <2>1, <2>2 DEF Renews
  <1>3. ASSUME \A j \in 1 .. i - 1 : r[j].type # r[i].type, NEW x \in l[r[i].type]
        PROVE  ~Repeats(r[i], unmarshal(x.data))
    BY <1>1, <1>3 DEF Renews
  <1> QED
    BY <1>2, <1>3 DEF Renews

\* The first event has been taken, and the record of its subject says the same.
LEMMA RenewsTail ==
    ASSUME NEW S, NEW q \in Seq(S), q # <<>>, NEW l, NEW n, NEW i \in 2 .. Len(q),
           Renews(q, l, i),
           q[i].type # q[1].type => n[q[i].type] = l[q[i].type],
           q[i].type = q[1].type => \A x \in n[q[i].type] : Repeats(q[1], unmarshal(x.data))
    PROVE  Renews(Tail(q), n, i - 1)
  <1> DEFINE r == Tail(q)
             k == i - 1
  <1>0. i \in Nat /\ k \in Nat /\ k \in 1 .. Len(q) - 1 /\ Len(q) \in Nat
    OBVIOUS
  <1>1. \A j \in 1 .. Len(q) - 1 : r[j] = q[j + 1]
    BY TakeFirst
  <1> HIDE DEF r
  <1>2. r[k] = q[i] /\ \A j \in 1 .. k - 1 : r[j] = q[j + 1]
    BY <1>0, <1>1
  <1>3. ASSUME NEW j \in 1 .. k - 1, r[j].type = r[k].type,
               \A m \in j + 1 .. k - 1 : r[m].type # r[k].type
        PROVE  ~Repeats(r[k], r[j])
    <2>1. j + 1 \in 1 .. i - 1 /\ q[j + 1].type = q[i].type
      BY <1>0, <1>2, <1>3
    <2>2. ASSUME NEW m \in (j + 1) + 1 .. i - 1 PROVE q[m].type # q[i].type
      <3>1. m - 1 \in j + 1 .. k - 1 /\ (m - 1) + 1 = m /\ m - 1 \in 1 .. k - 1
        BY <1>0, <2>2
      <3> QED
        BY <1>2, <1>3, <3>1
    <2>3. ~Repeats(q[i], q[j + 1])
      BY <2>1, <2>2 DEF Renews
    <2> QED
      BY <1>2, <2>3
  <1>4. ASSUME \A j \in 1 .. k - 1 : r[j].type # r[k].type, NEW x \in n[r[k].type]
        PROVE  ~Repeats(r[k], unmarshal(x.data))
    <2>1. ASSUME NEW m \in 2 .. i - 1 PROVE q[m].type # q[i].type
      <3>1. m - 1 \in 1 .. k - 1 /\ (m - 1) + 1 = m
        BY <1>0, <2>1
      <3> QED
        BY <1>2, <1>4, <3>1
    <2>2. CASE q[i].type = q[1].type
      <3>1. 1 \in 1 .. i - 1 /\ 1 + 1 = 2
        BY <1>0
      <3>2. ~Repeats(q[i], q[1])
        BY <2>1, <2>2, <3>1 DEF Renews
      <3>3. Repeats(q[1], unmarshal(x.data))
        BY <1>2, <1>4, <2>2
      <3> QED
        BY <1>2, <2>2, <3>2, <3>3 DEF Repeats
    <2>3. CASE q[i].type # q[1].type
      <3>1. \A j \in 1 .. i - 1 : q[j].type # q[i].type
        BY <1>0, <2>1, <2>3
      <3> QED
        BY <1>2, <1>4, <2>3, <3>1 DEF Renews
    <2> QED
      BY <2>2, <2>3
  <1> QED
    BY <1>3, <1>4 DEF Renews, r

-----------------------------------------------------------------------------
(* The checks that lie ahead, and what will satisfy them.                  *)

\* The p-th message on its way to the simulator satisfies c: u is on its way
\* from the core, then comes what Write will publish of the channel q.
Coming(c, u, q, l, p) ==
    \/ p \in 1 .. Len(u) /\ Matches(c, u[p])
    \/ /\ p - Len(u) \in 1 .. Len(q)
       /\ Matches(c, domainEventToPb(q[p - Len(u)]))
       /\ Renews(q, l, p - Len(u))

\* The checks lo .. hi will be satisfied, one after the other, by some of the
\* first n messages.
Lined(cs, lo, hi, u, q, l, n) ==
    \E f \in [lo .. hi -> 1 .. n] :
        /\ \A j \in lo .. hi : Coming(cs[j], u, q, l, f[j])
        /\ \A i, j \in lo .. hi : i < j => f[i] < f[j]

\* Nothing is waited for.
LEMMA LinedEmpty ==
    ASSUME NEW cs, NEW lo \in Nat, NEW hi \in Nat, lo > hi, NEW u, NEW q, NEW l, NEW n
    PROVE  Lined(cs, lo, hi, u, q, l, n)
  <1> DEFINE f == [j \in lo .. hi |-> 1]
  <1>1. lo .. hi = {}
    OBVIOUS
  <1>2. f \in [lo .. hi -> 1 .. n]
    BY <1>1
  <1> QED
    BY <1>1, <1>2 DEF Lined

\* A part of the checks in line is in line.
LEMMA LinedFewer ==
    ASSUME NEW cs, NEW lo \in Nat, NEW hi \in Nat, NEW low \in Nat, NEW high \in Nat,
           lo <= low, high <= hi,
           NEW u, NEW q, NEW l, NEW n, Lined(cs, lo, hi, u, q, l, n)
    PROVE  Lined(cs, low, high, u, q, l, n)
  <1>1. PICK f \in [lo .. hi -> 1 .. n] :
        /\ \A j \in lo .. hi : Coming(cs[j], u, q, l, f[j])
        /\ \A i, j \in lo .. hi : i < j => f[i] < f[j]
    BY DEF Lined
  <1> DEFINE g == [j \in low .. high |-> f[j]]
  <1>2. low .. high \subseteq lo .. hi
    OBVIOUS
  <1>3. g \in [low .. high -> 1 .. n] /\ \A j \in low .. high : g[j] = f[j]
    BY <1>1, <1>2
  <1> HIDE DEF g
  <1>4. \A j \in low .. high : Coming(cs[j], u, q, l, g[j])
    BY <1>1, <1>2, <1>3
  <1>5. \A i, j \in low .. high : i < j => g[i] < g[j]
    BY <1>1, <1>2, <1>3
  <1> QED
    BY <1>3, <1>4, <1>5 DEF Lined

\* The places move: those behind a by d, the others not at all.
LEMMA LinedShift ==
    ASSUME NEW cs, NEW lo \in Nat, NEW hi \in Nat, NEW low \in Nat, lo <= low,
           NEW n \in Nat, NEW v, NEW r, NEW k, NEW m \in Nat, NEW a \in Nat, NEW d \in Int,
           NEW f \in [lo .. hi -> 1 .. n],
           \A i, j \in lo .. hi : i < j => f[i] < f[j],
           \A j \in low .. hi : f[j] <= a => f[j] \in 1 .. m /\ Coming(cs[j], v, r, k, f[j]),
           \A j \in low .. hi : f[j] > a => f[j] + d \in 1 .. m /\ Coming(cs[j], v, r, k, f[j] + d),
           \A i, j \in low .. hi : f[i] <= a /\ f[j] > a => f[i] < f[j] + d
    PROVE  Lined(cs, low, hi, v, r, k, m)
  <1> DEFINE g == [j \in low .. hi |-> IF f[j] <= a THEN f[j] ELSE f[j] + d]
  <1>1. low .. hi \subseteq lo .. hi
    OBVIOUS
  <1>2. \A j \in low .. hi : f[j] \in Nat
    BY <1>1
  <1>3. \A j \in low .. hi : (f[j] <= a => g[j] = f[j]) /\ (f[j] > a => g[j] = f[j] + d)
    BY <1>2
  <1>4. ASSUME NEW j \in low .. hi PROVE g[j] \in 1 .. m /\ Coming(cs[j], v, r, k, g[j])
    BY <1>2, <1>3
  <1>5. g \in [low .. hi -> 1 .. m]
    BY <1>4
  <1> HIDE DEF g
  <1>6. ASSUME NEW i \in low .. hi, NEW j \in low .. hi, i < j PROVE g[i] < g[j]
    <2>1. f[i] < f[j] /\ f[i] \in Nat /\ f[j] \in Nat
      BY <1>1, <1>2, <1>6
    <2>2. CASE f[i] <= a /\ f[j] <= a
      BY <1>3, <2>1, <2>2
    <2>3. CASE f[i] <= a /\ f[j] > a
      BY <1>3, <2>1, <2>3
    <2>4. CASE f[i] > a /\ f[j] > a
      BY <1>3, <2>1, <2>4
    <2> QED
      BY <2>1, <2>2, <2>3, <2>4
  <1> QED
    BY <1>4, <1>5, <1>6 DEF Lined

\* The simulator takes the first message: it satisfies the check at hand, or
\* nothing that is waited for.
LEMMA LinedTake ==
    ASSUME NEW cs, NEW lo \in Nat, NEW hi \in Nat, NEW low \in {lo, lo + 1},
           NEW S, NEW u \in Seq(S), u # <<>>, NEW D, NEW q \in Seq(D), NEW l,
           Lined(cs, lo, hi, u, q, l, Len(u) + Len(q)),
           low = lo => (lo <= hi => ~Matches(cs[lo], u[1]))
    PROVE  Lined(cs, low, hi, Tail(u), q, l, Len(Tail(u)) + Len(q))
  <1> DEFINE a == Len(u)
             n == Len(u) + Len(q)
             v == Tail(u)
             m == Len(Tail(u)) + Len(q)
  <1>1. a \in Nat /\ a # 0 /\ Len(q) \in Nat /\ Len(v) = a - 1 /\ \A i \in 1 .. a - 1 : v[i] = u[i + 1]
    BY TakeFirst
  <1>2. PICK f \in [lo .. hi -> 1 .. n] :
        /\ \A j \in lo .. hi : Coming(cs[j], u, q, l, f[j])
        /\ \A i, j \in lo .. hi : i < j => f[i] < f[j]
    BY DEF Lined
  <1> HIDE DEF v
  <1>3. n \in Nat /\ m \in Nat /\ m = n - 1 /\ m = Len(v) + Len(q) /\ low \in Nat /\ lo <= low
    BY <1>1 DEF v
  <1> HIDE DEF a, n, m
  <1>4. ASSUME NEW j \in low .. hi PROVE f[j] \in 1 .. n /\ f[j] >= 2 /\ j \in lo .. hi
    <2>1. j \in lo .. hi /\ lo \in lo .. hi /\ f[j] \in 1 .. n /\ f[lo] \in 1 .. n
      BY <1>4
    <2>2. CASE lo < j
      <3>1. f[lo] < f[j]
        BY <1>2, <2>1, <2>2
      <3> QED
        BY <1>3, <2>1, <3>1
    <2>3. CASE lo = j
      <3>1. low = lo /\ lo <= hi
        BY <1>4, <2>3
      <3>2. Coming(cs[j], u, q, l, f[j]) /\ ~Matches(cs[j], u[1])
        BY <1>2, <2>1, <2>3, <3>1
      <3>3. f[j] # 1
        BY <1>1, <3>2 DEF Coming, a
      <3> QED
        BY <1>3, <2>1, <3>3
    <2> QED
      BY <2>1, <2>2, <2>3
  <1>5. ASSUME NEW j \in lo .. hi, NEW p \in 1 .. n, p >= 2, Coming(cs[j], u, q, l, p)
        PROVE  p - 1 \in 1 .. m /\ Coming(cs[j], v, q, l, p - 1)
    <2>0. p - 1 \in 1 .. m /\ p \in Nat
      BY <1>3, <1>5
    <2>1. CASE p \in 1 .. Len(u) /\ Matches(cs[j], u[p])
      <3>1. p - 1 \in 1 .. Len(v) /\ v[p - 1] = u[p]
        BY <1>1, <1>5, <2>0, <2>1 DEF a
      <3> QED
        BY <2>0, <2>1, <3>1 DEF Coming
    <2>2. CASE /\ p - Len(u) \in 1 .. Len(q)
               /\ Matches(cs[j], domainEventToPb(q[p - Len(u)]))
               /\ Renews(q, l, p - Len(u))
      <3>1. (p - 1) - Len(v) = p - Len(u)
        BY <1>1, <2>0 DEF a
      <3> QED
        BY <2>0, <2>2, <3>1 DEF Coming
    <2> QED
      BY <1>5, <2>1, <2>2 DEF Coming
  <1>6. ASSUME NEW j \in low .. hi
        PROVE  f[j] + (-1) \in 1 .. m /\ Coming(cs[j], v, q, l, f[j] + (-1))
    <2>1. f[j] - 1 \in 1 .. m /\ Coming(cs[j], v, q, l, f[j] - 1) /\ f[j] >= 2 /\ f[j] \in 1 .. n
      BY <1>2, <1>4, <1>5
    <2>2. f[j] - 1 = f[j] + (-1)
      BY <1>3, <2>1
    <2> QED
      BY <1>3, <2>1, <2>2
  <1>7. Lined(cs, low, hi, v, q, l, m)
    <2>1. 0 \in Nat /\ -1 \in Int
      OBVIOUS
    <2>2. \A j \in low .. hi : ~(f[j] <= 0)
      BY <1>3, <1>4
    <2> QED
      BY <1>2, <1>3, <1>6, <2>1, <2>2, LinedShift
  <1> QED
    BY <1>7 DEF v, m

\* A message of another tag is sent.
LEMMA LinedOther ==
    ASSUME NEW cs, NEW lo \in Nat, NEW hi \in Nat,
           NEW S, NEW u \in Seq(S), NEW e \in S, NEW D, NEW q \in Seq(D), NEW l,
           Lined(cs, lo, hi, u, q, l, Len(u) + Len(q))
    PROVE  Lined(cs, lo, hi, Append(u, e), q, l, Len(Append(u, e)) + Len(q))
  <1> DEFINE a == Len(u)
             n == Len(u) + Len(q)
             v == Append(u, e)
             m == Len(Append(u, e)) + Len(q)
  <1>1. a \in Nat /\ Len(q) \in Nat /\ Len(v) = a + 1 /\ \A i \in 1 .. a : v[i] = u[i]
    OBVIOUS
  <1>2. PICK f \in [lo .. hi -> 1 .. n] :
        /\ \A j \in lo .. hi : Coming(cs[j], u, q, l, f[j])
        /\ \A i, j \in lo .. hi : i < j => f[i] < f[j]
    BY DEF Lined
  <1> HIDE DEF v
  <1>3. n \in Nat /\ m \in Nat /\ m = n + 1 /\ n = a + Len(q) /\ lo <= lo
    BY <1>1 DEF v
  <1> HIDE DEF a, n, m
  <1>4. ASSUME NEW j \in lo .. hi, NEW p \in 1 .. n, Coming(cs[j], u, q, l, p), p <= a
        PROVE  p \in 1 .. m /\ Coming(cs[j], v, q, l, p)
    <2>1. p \in 1 .. m /\ p \in 1 .. Len(u) /\ ~(p - Len(u) \in 1 .. Len(q)) /\ p \in 1 .. Len(v)
      BY <1>1, <1>3, <1>4 DEF a
    <2>2. Matches(cs[j], u[p]) /\ v[p] = u[p]
      BY <1>1, <1>4, <2>1 DEF Coming, a
    <2> QED
      BY <2>1, <2>2 DEF Coming
  <1>5. ASSUME NEW j \in lo .. hi, NEW p \in 1 .. n, Coming(cs[j], u, q, l, p), p > a
        PROVE  p + 1 \in 1 .. m /\ Coming(cs[j], v, q, l, p + 1)
    <2>1. p + 1 \in 1 .. m /\ ~(p \in 1 .. Len(u)) /\ (p + 1) - Len(v) = p - Len(u)
      BY <1>1, <1>3, <1>5 DEF a
    <2> QED
      BY <1>5, <2>1 DEF Coming
  <1>6. \A j \in lo .. hi : f[j] \in 1 .. n
    OBVIOUS
  <1>7. \A j \in lo .. hi : f[j] <= a => f[j] \in 1 .. m /\ Coming(cs[j], v, q, l, f[j])
    BY <1>2, <1>4, <1>6
  <1>8. \A j \in lo .. hi : f[j] > a => f[j] + 1 \in 1 .. m /\ Coming(cs[j], v, q, l, f[j] + 1)
    BY <1>2, <1>5, <1>6
  <1>9. \A i, j \in lo .. hi : f[i] <= a /\ f[j] > a => f[i] < f[j] + 1
    <2> SUFFICES ASSUME NEW i \in lo .. hi, NEW j \in lo .. hi, f[i] <= a, f[j] > a
                 PROVE  f[i] < f[j] + 1
      OBVIOUS
    <2>1. f[i] \in Nat /\ f[j] \in Nat /\ a \in Nat
      BY <1>1, <1>3, <1>6, SMTT(30)
    <2> QED
      BY <2>1
  <1>10. Lined(cs, lo, hi, v, q, l, m)
    <2>1. a \in Nat /\ 1 \in Int
      BY <1>1
    <2> QED
      BY <1>2, <1>3, <1>7, <1>8, <1>9, <2>1, LinedShift
  <1> QED
    BY <1>10 DEF v, m

\* Write publishes the first event of the channel.
LEMMA LinedPublish ==
    ASSUME NEW cs, NEW lo \in Nat, NEW hi \in Nat,
           NEW S, NEW u \in Seq(S), NEW D, NEW q \in Seq(D), q # <<>>, NEW l, NEW k,
           domainEventToPb(q[1]) \in S,
           \A i \in 2 .. Len(q) : q[i].type # q[1].type => k[q[i].type] = l[q[i].type],
           \A x \in k[q[1].type] : Repeats(q[1], unmarshal(x.data)),
           Lined(cs, lo, hi, u, q, l, Len(u) + Len(q))
    PROVE  LET v == Append(u, domainEventToPb(q[1]))
           IN  Lined(cs, lo, hi, v, Tail(q), k, Len(v) + Len(Tail(q)))
  <1> DEFINE a == Len(u)
             b == Len(q)
             n == Len(u) + Len(q)
             e == domainEventToPb(q[1])
             v == Append(u, e)
             r == Tail(q)
  <1>1. /\ a \in Nat /\ Len(v) = a + 1 /\ v[a + 1] = e /\ \A i \in 1 .. a : v[i] = u[i]
        /\ b \in Nat /\ b # 0 /\ Len(r) = b - 1 /\ \A i \in 1 .. b - 1 : r[i] = q[i + 1]
    BY TakeFirst
  <1>2. PICK f \in [lo .. hi -> 1 .. n] :
        /\ \A j \in lo .. hi : Coming(cs[j], u, q, l, f[j])
        /\ \A i, j \in lo .. hi : i < j => f[i] < f[j]
    BY DEF Lined
  <1>0. \A i \in 2 .. b : Renews(q, l, i) => Renews(r, k, i - 1)
    BY RenewsTail
  <1> HIDE DEF v, r
  <1>3. n \in Nat /\ n = a + b /\ Len(v) + Len(r) = n
    BY <1>1
  <1> HIDE DEF a, b, n, e
  <1>4. ASSUME NEW j \in lo .. hi, NEW p \in 1 .. n, Coming(cs[j], u, q, l, p)
        PROVE  Coming(cs[j], v, r, k, p)
    <2>0. p \in Nat
      BY <1>3
    <2>1. CASE p \in 1 .. a
      <3>1. p \in 1 .. Len(u) /\ ~(p - Len(u) \in 1 .. Len(q)) /\ p \in 1 .. Len(v)
        BY <1>1, <2>0, <2>1 DEF a, b
      <3>2. Matches(cs[j], u[p]) /\ v[p] = u[p]
        BY <1>1, <1>4, <2>1, <3>1 DEF Coming
      <3> QED
        BY <3>1, <3>2 DEF Coming
    <2>2. CASE p = a + 1
      <3>1. ~(p \in 1 .. Len(u)) /\ p - Len(u) = 1 /\ p \in 1 .. Len(v)
        BY <1>1, <2>2 DEF a
      <3>2. Matches(cs[j], e) /\ v[p] = e
        BY <1>1, <1>4, <2>2, <3>1 DEF Coming, e
      <3> QED
        BY <3>1, <3>2 DEF Coming
    <2>3. CASE p > a + 1
      <3> DEFINE i == p - a
      <3>0. a \in Nat /\ b \in Nat /\ Len(r) = b - 1 /\ p <= a + b /\ p > a + 1 /\ p \in Nat
        BY <1>1, <1>3, <2>0, <2>3
      <3>01. i \in 2 .. b
        BY <3>0
      <3>1. i \in 2 .. b /\ i - 1 \in 1 .. b - 1 /\ i - 1 \in 1 .. Len(r) /\ (i - 1) + 1 = i
        BY <3>0, <3>01
      <3>11. r[i - 1] = q[i]
        BY <1>1, <3>1
      <3>2. ~(p \in 1 .. Len(u)) /\ p - Len(u) = i /\ p - Len(v) = i - 1
        BY <1>1, <2>0, <2>3 DEF a
      <3> HIDE DEF i
      <3>3. Matches(cs[j], domainEventToPb(q[i])) /\ Renews(q, l, i)
        BY <1>4, <3>2 DEF Coming
      <3>4. Renews(r, k, i - 1)
        BY <1>0, <3>1, <3>3
      <3> QED
        BY <3>1, <3>11, <3>2, <3>3, <3>4 DEF Coming
    <2> QED
      BY <1>1, <2>0, <2>1, <2>2, <2>3
  <1>5. \A j \in lo .. hi : f[j] \in 1 .. n
    OBVIOUS
  <1>6. \A j \in lo .. hi : Coming(cs[j], v, r, k, f[j])
    BY <1>2, <1>4, <1>5
  <1>7. Lined(cs, lo, hi, v, r, k, n)
    BY <1>2, <1>6 DEF Lined
  <1> QED
    BY <1>3, <1>7 DEF v, r, e

\* Write suppresses the first event of the channel, which repeats the record.
LEMMA LinedSuppress ==
    ASSUME NEW cs, NEW lo \in Nat, NEW hi \in Nat,
           NEW S, NEW u \in Seq(S), NEW D, NEW q \in Seq(D), q # <<>>, NEW l,
           l[q[1].type] # {},
           \A x \in l[q[1].type] : Repeats(q[1], unmarshal(x.data)),
           Lined(cs, lo, hi, u, q, l, Len(u) + Len(q))
    PROVE  Lined(cs, lo, hi, u, Tail(q), l, Len(u) + Len(Tail(q)))
  <1> DEFINE a == Len(u)
             b == Len(q)
             n == Len(u) + Len(q)
             r == Tail(q)
             m == Len(u) + Len(Tail(q))
  <1>1. /\ a \in Nat
        /\ b \in Nat /\ b # 0 /\ Len(r) = b - 1 /\ \A i \in 1 .. b - 1 : r[i] = q[i + 1]
    BY TakeFirst
  <1>2. PICK f \in [lo .. hi -> 1 .. n] :
        /\ \A j \in lo .. hi : Coming(cs[j], u, q, l, f[j])
        /\ \A i, j \in lo .. hi : i < j => f[i] < f[j]
    BY DEF Lined
  <1>0. \A i \in 2 .. b : Renews(q, l, i) => Renews(r, l, i - 1)
    BY RenewsTail
  <1>00. ~Renews(q, l, 1)
    <2>1. \A j \in 1 .. 1 - 1 : q[j].type # q[1].type
      OBVIOUS
    <2> QED
      BY <2>1 DEF Renews
  <1> HIDE DEF r
  <1>3. n \in Nat /\ m \in Nat /\ n = a + b /\ m = n - 1
    BY <1>1 DEF r
  <1> HIDE DEF a, b, n, m
  <1>4. ASSUME NEW j \in lo .. hi, NEW p \in 1 .. n, Coming(cs[j], u, q, l, p), p <= a
        PROVE  p \in 1 .. m /\ Coming(cs[j], u, r, l, p)
    <2>0. p \in Nat
      BY <1>3
    <2>1. p \in 1 .. Len(u) /\ ~(p - Len(u) \in 1 .. Len(q)) /\ p \in 1 .. m
      BY <1>1, <1>3, <1>4, <2>0 DEF a, b
    <2>2. Matches(cs[j], u[p])
      BY <1>4, <2>1 DEF Coming
    <2> QED
      BY <2>1, <2>2 DEF Coming
  <1>5. ASSUME NEW j \in lo .. hi, NEW p \in 1 .. n, Coming(cs[j], u, q, l, p), p > a
        PROVE  p > a + 1 /\ p + (-1) \in 1 .. m /\ Coming(cs[j], u, r, l, p + (-1))
    <2> DEFINE i == p - a
    <2>00. a \in Nat /\ b \in Nat /\ p <= a + b /\ p \in Nat /\ p > a
      BY <1>1, <1>3, <1>5
    <2>0. p \in Nat /\ i \in 1 .. b
      BY <2>00
    <2>1. ~(p \in 1 .. Len(u)) /\ p - Len(u) = i /\ (p + (-1)) - Len(u) = i - 1
      BY <1>1, <1>5, <2>0 DEF a
    <2>2. Matches(cs[j], domainEventToPb(q[i])) /\ Renews(q, l, i)
      BY <1>5, <2>1 DEF Coming
    <2>3. i # 1
      BY <1>00, <2>2
    <2>4. i \in 2 .. b /\ i - 1 \in 1 .. Len(r) /\ r[i - 1] = q[i]
      BY <1>1, <2>0, <2>3
    <2>5. p > a + 1 /\ p + (-1) \in 1 .. m
      BY <1>1, <1>3, <2>0, <2>4
    <2> HIDE DEF i
    <2>6. Renews(r, l, i - 1)
      BY <1>0, <2>2, <2>4
    <2> QED
      BY <2>1, <2>2, <2>4, <2>5, <2>6 DEF Coming
  <1>6. \A j \in lo .. hi : f[j] \in 1 .. n
    OBVIOUS
  <1>7. \A j \in lo .. hi : f[j] <= a => f[j] \in 1 .. m /\ Coming(cs[j], u, r, l, f[j])
    BY <1>2, <1>4, <1>6
  <1>8. \A j \in lo .. hi : f[j] > a => f[j] + (-1) \in 1 .. m /\ Coming(cs[j], u, r, l, f[j] + (-1))
    BY <1>2, <1>5, <1>6
  <1>9. \A i, j \in lo .. hi : f[i] <= a /\ f[j] > a => f[i] < f[j] + (-1)
    <2> SUFFICES ASSUME NEW i \in lo .. hi, NEW j \in lo .. hi, f[i] <= a, f[j] > a
                 PROVE  f[i] < f[j] + (-1)
      OBVIOUS
    <2>1. f[i] \in Nat /\ f[j] \in Nat /\ a \in Nat
      BY <1>1, <1>3, <1>6
    <2>2. f[j] > a + 1
      BY <1>2, <1>5, <1>6
    <2> QED
      BY <2>1, <2>2
  <1>10. Lined(cs, lo, hi, u, r, l, m)
    <2>1. a \in Nat /\ -1 \in Int /\ lo <= lo
      BY <1>1
    <2> QED
      BY <1>2, <1>3, <1>7, <1>8, <1>9, <2>1, LinedShift
  <1> QED
    BY <1>10 DEF r, m

\* Events enter the channel.
LEMMA LinedSend ==
    ASSUME NEW cs, NEW lo \in Nat, NEW hi \in Nat,
           NEW S, NEW u \in Seq(S), NEW D, NEW q \in Seq(D), NEW s \in Seq(D), NEW l,
           Lined(cs, lo, hi, u, q, l, Len(u) + Len(q))
    PROVE  Lined(cs, lo, hi, u, q \o s, l, Len(u) + Len(q))
  <1> DEFINE a == Len(u)
             b == Len(q)
             n == Len(u) + Len(q)
             r == q \o s
  <1>1. /\ a \in Nat /\ b \in Nat /\ Len(r) \in Nat /\ b <= Len(r) /\ \A i \in 1 .. b : r[i] = q[i]
    BY ConcatProperties, LenProperties
  <1>2. PICK f \in [lo .. hi -> 1 .. n] :
        /\ \A j \in lo .. hi : Coming(cs[j], u, q, l, f[j])
        /\ \A i, j \in lo .. hi : i < j => f[i] < f[j]
    BY DEF Lined
  <1> HIDE DEF r
  <1>3. n \in Nat /\ n = a + b
    BY <1>1
  <1>4. ASSUME NEW i \in 1 .. b, Renews(q, l, i) PROVE Renews(r, l, i)
    <2>1. i \in Nat /\ i > 0 /\ \A j \in 1 .. i : r[j] = q[j]
      BY <1>1
    <2> QED
      BY <1>4, <2>1, RenewsPrefix
  <1> HIDE DEF a, b, n
  <1>5. ASSUME NEW j \in lo .. hi, NEW p \in 1 .. n, Coming(cs[j], u, q, l, p)
        PROVE  Coming(cs[j], u, r, l, p)
    <2>1. CASE p \in 1 .. Len(u) /\ Matches(cs[j], u[p])
      BY <2>1 DEF Coming
    <2>2. CASE /\ p - Len(u) \in 1 .. Len(q)
               /\ Matches(cs[j], domainEventToPb(q[p - Len(u)]))
               /\ Renews(q, l, p - Len(u))
      <3> DEFINE i == p - Len(u)
      <3>1. i \in 1 .. b
        BY <2>2 DEF b
      <3> HIDE DEF i
      <3>2. i \in 1 .. Len(r) /\ r[i] = q[i] /\ Renews(r, l, i)
        BY <1>1, <1>4, <2>2, <3>1 DEF i
      <3> QED
        BY <2>2, <3>2 DEF Coming, i
    <2> QED
      BY <1>5, <2>1, <2>2 DEF Coming
  <1>6. \A j \in lo .. hi : f[j] \in 1 .. n
    OBVIOUS
  <1>7. \A j \in lo .. hi : Coming(cs[j], u, r, l, f[j])
    BY <1>2, <1>5, <1>6
  <1> QED
    BY <1>2, <1>7 DEF Lined, n, r

\* One more check will be satisfied, by a later message.
LEMMA LinedExtend ==
    ASSUME NEW cs, NEW lo \in Nat, NEW hi \in Nat, NEW u, NEW q, NEW l,
           NEW n \in Nat, NEW p \in Nat, p > n, Lined(cs, lo, hi, u, q, l, n),
           lo <= hi + 1 => Coming(cs[hi + 1], u, q, l, p)
    PROVE  Lined(cs, lo, hi + 1, u, q, l, p)
  <1>1. CASE lo > hi + 1
    BY <1>1, LinedEmpty
  <1>2. CASE lo <= hi + 1
    <2>1. PICK f \in [lo .. hi -> 1 .. n] :
          /\ \A j \in lo .. hi : Coming(cs[j], u, q, l, f[j])
          /\ \A i, j \in lo .. hi : i < j => f[i] < f[j]
      BY DEF Lined
    <2> DEFINE g == [j \in lo .. hi + 1 |-> IF j = hi + 1 THEN p ELSE f[j]]
    <2>2. lo .. hi + 1 = (lo .. hi) \cup {hi + 1} /\ hi + 1 \notin lo .. hi
      BY <1>2
    <2>3. \A j \in lo .. hi : f[j] \in 1 .. n /\ g[j] = f[j]
      BY <2>2
    <2>4. g[hi + 1] = p
      BY <2>2
    <2>5. g \in [lo .. hi + 1 -> 1 .. p]
      <3>1. \A j \in lo .. hi : f[j] \in 1 .. p
        BY <2>3
      <3> QED
        BY <2>2, <2>3, <2>4, <3>1
    <2> HIDE DEF g
    <2>6. \A j \in lo .. hi + 1 : Coming(cs[j], u, q, l, g[j])
      BY <1>2, <2>1, <2>2, <2>3, <2>4
    <2>7. ASSUME NEW i \in lo .. hi + 1, NEW j \in lo .. hi + 1, i < j PROVE g[i] < g[j]
      <3>1. i \in lo .. hi
        BY <2>7
      <3>2. CASE j = hi + 1
        <4>1. f[i] \in 1 .. n /\ g[i] = f[i] /\ g[j] = p
          BY <2>3, <2>4, <3>1, <3>2
        <4> QED
          BY <4>1
      <3>3. CASE j \in lo .. hi
        BY <2>1, <2>3, <2>7, <3>1, <3>3
      <3> QED
        BY <2>2, <3>2, <3>3
    <2> QED
      BY <2>5, <2>6, <2>7 DEF Lined
  <1> QED
    BY <1>1, <1>2

\* A later bound.
LEMMA LinedLater ==
    ASSUME NEW cs, NEW lo \in Nat, NEW hi \in Nat, NEW u, NEW q, NEW l,
           NEW n \in Nat, NEW m \in Nat, n <= m, Lined(cs, lo, hi, u, q, l, n)
    PROVE  Lined(cs, lo, hi, u, q, l, m)
  <1>1. PICK f \in [lo .. hi -> 1 .. n] :
          /\ \A j \in lo .. hi : Coming(cs[j], u, q, l, f[j])
          /\ \A i, j \in lo .. hi : i < j => f[i] < f[j]
    BY DEF Lined
  <1>2. f \in [lo .. hi -> 1 .. m]
    <2>1. 1 .. n \subseteq 1 .. m
      OBVIOUS
    <2> QED
      BY <2>1
  <1> QED
    BY <1>1, <1>2 DEF Lined

-----------------------------------------------------------------------------
(* What the channel and the stream hold of a tag, as long as the process   *)
(* runs and nothing expires.                                               *)

\* An event repeats another when their types agree and what consumers see of them.
LEMMA RepeatsSame ==
    ASSUME NEW t, NEW a \in Event, NEW b \in Event
    PROVE  Repeats(DomainEvent(t, a), DomainEvent(t, b)) <=> a.type = b.type /\ Same(a, b)
  <1> DEFINE d == DomainEvent(t, a)
             e == DomainEvent(t, b)
  <1>1. /\ d.type = a.type /\ ZonesOf(d) = a.zones /\ LocationTypeOf(d) = a.locationType
        /\ MovementOf(d) = a.movement /\ d.state.presence = a.presence
    BY EventReads
  <1>2. /\ e.type = b.type /\ ZonesOf(e) = b.zones /\ LocationTypeOf(e) = b.locationType
        /\ MovementOf(e) = b.movement /\ e.state.presence = b.presence
    BY EventReads
  <1> HIDE DEF d, e
  <1>3. Repeats(d, e) <=> a.type = b.type /\ Same(a, b)
    BY <1>1, <1>2 DEF Repeats, Same
  <1> QED
    BY <1>3 DEF d, e

\* What repeats what was announced says so, too.
LEMMA RepeatsSays ==
    ASSUME NEW t, NEW a \in Event, NEW b \in Event, NEW v, Says(b, b.type, v),
           Repeats(DomainEvent(t, a), DomainEvent(t, b))
    PROVE  a.type = b.type /\ Says(a, a.type, v)
  BY RepeatsSame DEF Same, Says

\* A type that was not announced has left no trace; every record is as young as
\* can be; no zone event repeats; and a tag that was never heard of has
\* announced nothing.
Clean(st, q, l, sp) ==
    /\ \A k \in ChangeTypes \ sp : l[k] = Nil /\ \A i \in 1 .. Len(q) : q[i].type # k
    /\ \A k \in ChangeTypes : \A r \in l[k] : r.age = 0
    /\ \A i \in 1 .. Len(q) : q[i].type = "ZONE" => Renews(q, l, i)
    /\ ~hadHistory(st) => sp = {}

\* The last event of a type on the way to the repository, or, with none on the
\* way, its last record, says what the adapter last announced.
Reported(t, q, l, v, sp) ==
    \A k \in sp : \E i \in 0 .. Len(q), ev \in Event :
        /\ IsLast(q, k, i)
        /\ ev.type = k /\ Says(ev, k, v)
        /\ IF i = 0 THEN \E n \in Ages : RecordIs(l, t, k, ev, n)
                    ELSE q[i] = DomainEvent(t, ev)

\* What the core keeps of t while nothing goes wrong in it.
CorePipe(t, st, q, l, v, sp) ==
    /\ st \in tagState /\ v \in View /\ sp \subseteq ChangeTypes
    /\ TagInv(st, v, FALSE)
    /\ v.presence # "NONE" => "PRESENCE" \in sp
    /\ v.zones # {} => "ZONE" \in sp
    /\ q \in Seq(OfTag(t))
    /\ DOMAIN l = ChangeTypes /\ Records(t, l)
    /\ Reported(t, q, l, v, sp)

\* With no memory behind, that is what the invariant of the pipeline says.
LEMMA UntroubledTag ==
    ASSUME NEW t, NEW st, NEW q, NEW c, NEW b, NEW l, NEW v, NEW sp, NEW d,
           TagPipe(t, st, q, c, b, l, v, sp, d), d.cache = {}, c # Nil \/ d.kv = {}
    PROVE  CorePipe(t, st, q, l, v, sp)
  <1>1. DoubtOf(c, d) = {}
    BY DEF DoubtOf
  <1>2. Announced(t, q, l, v, sp, {})
    BY <1>1 DEF TagPipe
  <1>3. Reported(t, q, l, v, sp)
    BY <1>2 DEF Announced, Reported
  <1>4. Records(t, l)
    BY DEF TagPipe, StoreInv
  <1> QED
    BY <1>3, <1>4 DEF TagPipe, CorePipe

\* An event that does not say what was announced last will be published, if it
\* is the first of its type in its datagram.
LEMMA SendRenews ==
    ASSUME NEW t, NEW q \in Seq(OfTag(t)), NEW l, NEW v, NEW sp \in SUBSET ChangeTypes,
           Reported(t, q, l, v, sp),
           \A k \in ChangeTypes \ sp : l[k] = Nil /\ \A i \in 1 .. Len(q) : q[i].type # k,
           NEW evs \in Seq(Event), NEW m \in 1 .. Len(evs),
           \A i \in 1 .. m - 1 : evs[i].type # evs[m].type,
           ~Says(evs[m], evs[m].type, v)
    PROVE  Renews(q \o Sent(t, evs), l, Len(q) + m)
  <1> DEFINE r == q \o Sent(t, evs)
             a == Len(q)
             n == Len(q) + m
             ev == evs[m]
             k == evs[m].type
  <1>1. /\ a \in Nat /\ Len(evs) \in Nat /\ Len(r) = a + Len(evs)
        /\ \A i \in 1 .. a : r[i] = q[i]
        /\ \A i \in 1 .. Len(evs) : r[a + i] = DomainEvent(t, evs[i])
        /\ \A i \in 1 .. Len(evs) : evs[i] \in Event
    BY SentConcat
  <1> HIDE DEF r, a
  <1>2. \A i \in 1 .. Len(evs) : r[a + i].type = evs[i].type /\ evs[i].type \in ChangeTypes
    BY <1>1, EventReads
  <1>3. r[n] = DomainEvent(t, ev) /\ r[n].type = k /\ ev \in Event /\ k \in ChangeTypes
    BY <1>1, <1>2 DEF a
  <1>4. n \in Nat /\ n = a + m /\ m \in Nat /\ m >= 1
    BY <1>1 DEF a
  <1> HIDE DEF n
  <1>5. ASSUME NEW j \in 1 .. n - 1, r[j].type = k PROVE j \in 1 .. a
    <2> SUFFICES ASSUME j > a PROVE FALSE
      BY <1>1, <1>4
    <2> DEFINE i == j - a
    <2>1. i \in 1 .. m - 1 /\ i \in 1 .. Len(evs) /\ j = a + i
      BY <1>1, <1>4
    <2> HIDE DEF i
    <2>2. evs[i].type = k
      BY <1>2, <1>5, <2>1
    <2> QED
      BY <2>1, <2>2
  <1>6. ASSUME k \in sp
        PROVE  \E i \in 0 .. a, x \in Event :
                 /\ IsLast(q, k, i) /\ x.type = k /\ Says(x, k, v)
                 /\ IF i = 0 THEN \E age \in Ages : RecordIs(l, t, k, x, age)
                             ELSE q[i] = DomainEvent(t, x)
    BY <1>6 DEF Reported, a
  <1>10. ASSUME NEW x \in Event, x.type = k, Says(x, k, v)
         PROVE  ~Repeats(DomainEvent(t, ev), DomainEvent(t, x))
    <2> SUFFICES ASSUME Repeats(DomainEvent(t, ev), DomainEvent(t, x)) PROVE FALSE
      OBVIOUS
    <2>1. ~Says(ev, k, v) /\ ev.type = k
      OBVIOUS
    <2>2. Says(x, x.type, v)
      BY <1>10
    <2> HIDE DEF ev, k
    <2>3. Says(ev, ev.type, v)
      BY <1>3, <2>2, RepeatsSays
    <2> QED
      BY <2>1, <2>3
  <1>7. ASSUME NEW j \in 1 .. n - 1, r[j].type = r[n].type,
               \A i \in j + 1 .. n - 1 : r[i].type # r[n].type
        PROVE  ~Repeats(r[n], r[j])
    <2>1. j \in 1 .. a /\ r[j] = q[j] /\ q[j].type = k
      BY <1>1, <1>3, <1>5, <1>7
    <2>2. k \in sp
      BY <1>3, <2>1 DEF a
    <2>3. PICK i \in 0 .. a, x \in Event :
                 /\ IsLast(q, k, i) /\ x.type = k /\ Says(x, k, v)
                 /\ IF i = 0 THEN \E age \in Ages : RecordIs(l, t, k, x, age)
                             ELSE q[i] = DomainEvent(t, x)
      BY <1>6, <2>2
    <2>4. j <= i
      BY <1>1, <2>1, <2>3 DEF IsLast, a
    <2>5. q[i].type = k /\ i > 0
      BY <1>1, <2>1, <2>3, <2>4 DEF IsLast
    <2>6. ~(j < i)
      <3> SUFFICES ASSUME j < i PROVE FALSE
        OBVIOUS
      <3>1. i \in j + 1 .. n - 1 /\ i \in 1 .. a
        BY <1>1, <1>4, <2>1, <2>5
      <3> QED
        BY <1>1, <1>3, <1>7, <2>5, <3>1
    <2>7. i = j /\ i # 0
      BY <1>1, <2>1, <2>4, <2>6
    <2>8. q[j] = DomainEvent(t, x)
      BY <2>3, <2>7
    <2>9. ~Repeats(DomainEvent(t, ev), DomainEvent(t, x))
      BY <1>3, <2>3, <1>10
    <2> QED
      BY <1>3, <2>1, <2>8, <2>9
  <1>8. ASSUME \A j \in 1 .. n - 1 : r[j].type # r[n].type, NEW y \in l[r[n].type]
        PROVE  ~Repeats(r[n], unmarshal(y.data))
    <2>1. y \in l[k] /\ k \in sp
      BY <1>3, <1>8 DEF Nil
    <2>3. PICK i \in 0 .. a, x \in Event :
                 /\ IsLast(q, k, i) /\ x.type = k /\ Says(x, k, v)
                 /\ IF i = 0 THEN \E age \in Ages : RecordIs(l, t, k, x, age)
                             ELSE q[i] = DomainEvent(t, x)
      BY <1>6, <2>1
    <2>4. i = 0
      <3> SUFFICES ASSUME i # 0 PROVE FALSE
        OBVIOUS
      <3>1. i \in 1 .. a /\ i \in 1 .. n - 1 /\ q[i].type = k
        BY <1>1, <1>4, <2>3 DEF IsLast
      <3> QED
        BY <1>1, <1>3, <1>8, <3>1
    <2>5. PICK age \in Ages : RecordIs(l, t, k, x, age)
      BY <2>3, <2>4
    <2>6. \A z \in l[k] : unmarshal(z.data) = DomainEvent(t, x)
      <3> DEFINE d == marshal(DomainEvent(t, x))
      <3>1. unmarshal(d) = DomainEvent(t, x)
        BY RecordBack
      <3>2. l[k] = {[data |-> d, age |-> age]}
        BY <2>5 DEF RecordIs, Some
      <3> HIDE DEF d, k
      <3>3. QED
        BY <3>1, <3>2
    <2>7. ~Repeats(DomainEvent(t, ev), DomainEvent(t, x))
      BY <1>3, <2>3, <1>10
    <2> QED
      BY <1>3, <2>1, <2>6, <2>7
  <1>9. Renews(r, l, n)
    BY <1>7, <1>8 DEF Renews
  <1> QED
    BY <1>9 DEF r, n

\* Events enter the channel.
LEMMA CleanSend ==
    ASSUME NEW t, NEW st, NEW new, NEW q \in Seq(OfTag(t)), NEW l, NEW v, NEW sp \in SUBSET ChangeTypes,
           Reported(t, q, l, v, sp), Clean(st, q, l, sp), NEW evs \in Seq(Event),
           \A m \in 1 .. Len(evs) : evs[m].type = "ZONE" =>
               /\ ~Says(evs[m], "ZONE", v)
               /\ \A i \in 1 .. m - 1 : evs[i].type # "ZONE",
           ~hadHistory(new) => sp \cup TypesOf(evs) = {}
    PROVE  Clean(new, q \o Sent(t, evs), l, sp \cup TypesOf(evs))
  <1> DEFINE r == q \o Sent(t, evs)
             a == Len(q)
  <1>1. /\ a \in Nat /\ Len(evs) \in Nat /\ Len(r) = a + Len(evs)
        /\ \A i \in 1 .. a : r[i] = q[i]
        /\ \A i \in 1 .. Len(evs) : r[a + i] = DomainEvent(t, evs[i])
        /\ \A i \in 1 .. Len(evs) : evs[i] \in Event
    BY SentConcat
  <1>2. \A i \in 1 .. Len(evs) : r[a + i].type = evs[i].type
    BY <1>1, EventReads
  <1>3. ASSUME NEW i \in 1 .. Len(evs), evs[i].type = "ZONE" PROVE Renews(r, l, a + i)
    BY <1>3, SendRenews DEF Clean
  <1> HIDE DEF r, a
  <1>4. \A j \in 1 .. Len(r) : j \in 1 .. a \/ \E i \in 1 .. Len(evs) : j = a + i
    <2> SUFFICES ASSUME NEW j \in 1 .. Len(r), j \notin 1 .. a
                 PROVE  j - a \in 1 .. Len(evs) /\ j = a + (j - a)
      OBVIOUS
    <2> QED
      BY <1>1
  <1>5. TypesOf(evs) = {evs[i].type : i \in 1 .. Len(evs)}
    BY DEF TypesOf
  <1>6. ASSUME NEW k \in ChangeTypes \ (sp \cup TypesOf(evs))
        PROVE  l[k] = Nil /\ \A i \in 1 .. Len(r) : r[i].type # k
    <2>1. l[k] = Nil /\ \A i \in 1 .. a : q[i].type # k
      BY DEF Clean, a
    <2>2. \A i \in 1 .. Len(evs) : evs[i].type # k
      BY <1>5
    <2> QED
      BY <1>1, <1>2, <1>4, <2>1, <2>2, ZenonT(30)
  <1>7. ASSUME NEW j \in 1 .. Len(r), r[j].type = "ZONE" PROVE Renews(r, l, j)
    <2>1. CASE j \in 1 .. a
      <3>1. Renews(q, l, j)
        BY <1>1, <1>7, <2>1 DEF Clean, a
      <3>2. j \in Nat /\ j > 0 /\ \A i \in 1 .. j : r[i] = q[i]
        BY <1>1, <2>1
      <3> QED
        BY <3>1, <3>2, RenewsPrefix
    <2>2. CASE \E i \in 1 .. Len(evs) : j = a + i
      BY <1>2, <1>3, <1>7, <2>2
    <2> QED
      BY <1>4, <2>1, <2>2
  <1> QED
    BY <1>6, <1>7 DEF Clean, r

-----------------------------------------------------------------------------
(* What the datagrams of the simulator make the adapter derive.            *)

\* One more event.
LEMMA AppendSeq ==
    ASSUME NEW S, NEW out \in Seq(S), NEW ev \in S, NEW s, s = Append(out, ev)
    PROVE  /\ s \in Seq(S) /\ Len(s) \in Nat /\ Len(out) \in Nat
           /\ \A i \in 1 .. Len(out) : s[i] = out[i]
           /\ Len(s) = Len(out) + 1 /\ s[Len(out) + 1] = ev
  OBVIOUS

\* What is assumed of the scenarios.
LEMMA Order ==
    /\ TagOrder \in Seq(Tags) /\ ToSet(TagOrder) = Tags /\ TagOrder # <<>> /\ IsInjective(TagOrder)
    /\ ZoneOrder \in Seq(Zones) /\ ZoneOrder # <<>>
    /\ Scenarios \subseteq {"walk", "offline", "lost", "stress"} /\ Buffer \in Nat /\ Buffer # 0
    /\ "position" \in LocationTypes /\ "noLocation" \in LocationTypes
    /\ "moving" \in Movements /\ "" \in Movements /\ 0 \in PacketAges
    /\ \A Z \in SUBSET Zones : Z # NullZones
  <1>1. {"position", "noLocation"} \subseteq LocationTypes /\ NullZones \notin SUBSET Zones
        /\ {"moving", ""} \subseteq Movements /\ Buffer \in Nat \ {0}
    BY SimulatorAssumption, Zenon
  <1>2. /\ TagOrder \in Seq(Tags) /\ ToSet(TagOrder) = Tags /\ TagOrder # <<>> /\ IsInjective(TagOrder)
        /\ ZoneOrder \in Seq(Zones) /\ ZoneOrder # <<>>
        /\ Scenarios \subseteq {"walk", "offline", "lost", "stress"}
        /\ 0 \in PacketAges
    BY SimulatorAssumption, Zenon
  <1> QED
    BY <1>1, <1>2

\* The first and the other zones, and the tags.
LEMMA OrderReads ==
    /\ Len(ZoneOrder) \in Nat /\ Len(ZoneOrder) >= 1 /\ DOMAIN ZoneOrder = 1 .. Len(ZoneOrder)
    /\ \A i \in 1 .. Len(ZoneOrder) : ZoneOrder[i] \in Zones /\ {ZoneOrder[i]} \in SUBSET Zones
    /\ Len(TagOrder) \in Nat /\ Len(TagOrder) >= 1
    /\ \A i \in 1 .. Len(TagOrder) : TagOrder[i] \in Tags
    /\ \A i, j \in 1 .. Len(TagOrder) : i # j => TagOrder[i] # TagOrder[j]
    /\ \A t \in Tags : \E i \in 1 .. Len(TagOrder) : t = TagOrder[i]
  <1>0. ASSUME NEW S, NEW s \in Seq(S), s # <<>>
        PROVE  /\ Len(s) \in Nat /\ Len(s) >= 1 /\ DOMAIN s = 1 .. Len(s)
               /\ \A i \in 1 .. Len(s) : s[i] \in S
    BY <1>0, EmptySeq, LenProperties
  <1>1. /\ Len(ZoneOrder) \in Nat /\ Len(ZoneOrder) >= 1 /\ DOMAIN ZoneOrder = 1 .. Len(ZoneOrder)
        /\ \A i \in 1 .. Len(ZoneOrder) : ZoneOrder[i] \in Zones
    BY <1>0, Order
  <1>2. /\ Len(TagOrder) \in Nat /\ Len(TagOrder) >= 1 /\ DOMAIN TagOrder = 1 .. Len(TagOrder)
        /\ \A i \in 1 .. Len(TagOrder) : TagOrder[i] \in Tags
    BY <1>0, Order
  <1>3. \A i, j \in 1 .. Len(TagOrder) : i # j => TagOrder[i] # TagOrder[j]
    BY <1>2, Order DEF IsInjective
  <1>4. \A t \in Tags : \E i \in 1 .. Len(TagOrder) : t = TagOrder[i]
    BY <1>2, Order DEF ToSet
  <1> QED
    BY <1>1, <1>2, <1>3, <1>4

\* A datagram with a position inside zones.
LEMMA PositionReads ==
    ASSUME NEW Z \in SUBSET Zones
    PROVE  /\ positionPkt(Z) \in Datagram /\ positionPkt(Z).type = "position"
           /\ positionPkt(Z).movement = "moving" /\ positionPkt(Z).age = 0
           /\ normaliseZones(positionPkt(Z).zones) = Z
  <1>1. "position" \in LocationTypes /\ "moving" \in Movements /\ 0 \in PacketAges /\ Z # NullZones
    BY Order
  <1>2. positionPkt(Z) \in Datagram
    BY <1>1 DEF positionPkt, Datagram
  <1> QED
    BY <1>1, <1>2 DEF positionPkt, normaliseZones

\* The datagram without a location.
LEMMA NoLocationReads ==
    /\ noLocationPkt \in Datagram /\ noLocationPkt.type = "noLocation"
    /\ noLocationPkt.movement = "" /\ noLocationPkt.age = 0
    /\ normaliseZones(noLocationPkt.zones) = {}
  <1>1. "noLocation" \in LocationTypes /\ "" \in Movements /\ 0 \in PacketAges
    BY Order
  <1>2. noLocationPkt \in Datagram
    BY <1>1 DEF noLocationPkt, Datagram
  <1> QED
    BY <1>1, <1>2 DEF noLocationPkt, normaliseZones

\* Some datagram's events: at most a presence ACTIVE first, and a zone snapshot
\* last.
LEMMA PositionEvents ==
    ASSUME NEW st \in tagState, NEW Z \in SUBSET Zones,
           NEW evs, evs = deriveEvents(st, positionPkt(Z))
    PROVE  LET msg == positionPkt(Z)
               back == WasOffline(st) \/ LocationRestored(st, msg)
           IN  /\ evs \in Seq(Event)
               /\ \A i \in 1 .. Len(evs) :
                    \/ evs[i].type = "PRESENCE" /\ evs[i].presence = "ACTIVE" /\ back
                    \/ evs[i].type = "ZONE" /\ evs[i].zones = Z /\ evs[i].movement = "moving"
                         /\ i = Len(evs) /\ SnapshotDue(st, msg)
               /\ back => Len(evs) > 0 /\ evs[1].type = "PRESENCE" /\ evs[1].presence = "ACTIVE"
               /\ SnapshotDue(st, msg) =>
                    /\ Len(evs) > 0 /\ evs[Len(evs)].type = "ZONE" /\ evs[Len(evs)].zones = Z
                    /\ back => Len(evs) > 1
  <1> DEFINE msg == positionPkt(Z)
             A == WasOffline(st)
             B == LocationRestored(st, msg)
             C == SnapshotDue(st, msg)
             lost == LocationLost(st, msg)
             emptied == LocationLost(st, msg) /\ st.lastZoneIds # {}
             x == presenceEvent(msg, st.lastZoneIds, "ACTIVE")
             y == presenceEvent(msg, normaliseZones(msg.zones), "ACTIVE")
             z == zoneEvent(msg, normaliseZones(msg.zones))
             el == zoneEvent(msg, {})
             pl == presenceEvent(msg, st.lastZoneIds, "INACTIVE")
             s1 == AppendIf(<<>>, A, x)
             s2 == AppendIf(s1, emptied, el)
             s3 == AppendIf(s2, lost, pl)
             s4 == AppendIf(s3, B, y)
             s5 == AppendIf(s4, C, z)
  <1>1. /\ msg \in Datagram /\ msg.type = "position" /\ msg.movement = "moving"
        /\ normaliseZones(msg.zones) = Z
    BY PositionReads
  <1>2. st.lastZoneIds \in SUBSET Zones /\ "ACTIVE" \in Presences
    BY DEF tagState, Presences
  <1> HIDE DEF msg
  <1>3. x \in Event /\ y \in Event /\ z \in Event
    BY <1>1, <1>2, DerivedEvents
  <1>4. /\ x.type = "PRESENCE" /\ x.presence = "ACTIVE" /\ y.type = "PRESENCE" /\ y.presence = "ACTIVE"
        /\ z.type = "ZONE" /\ z.zones = Z /\ z.movement = "moving"
    BY <1>1 DEF presenceEvent, zoneEvent
  <1>5. ~lost /\ ~emptied
    BY <1>1 DEF LocationLost, isLocationType
  <1>6. evs = s5
    BY DEF deriveEvents, onlineEvents, lostEvents, restoredEvents, snapshotEvents, msg
  <1>7. s2 = s1 /\ s3 = s2
    BY <1>5 DEF AppendIf
  <1>8. /\ A => s1 = Append(<<>>, x)
        /\ ~A => s1 = <<>>
    BY DEF AppendIf
  <1>9. /\ B => s4 = Append(s3, y)
        /\ ~B => s4 = s3
    BY DEF AppendIf
  <1>10. /\ C => s5 = Append(s4, z)
         /\ ~C => s5 = s4
    BY DEF AppendIf
  <1> HIDE DEF s1, s2, s3, s4, s5, x, y, z, el, pl, A, B, C, lost, emptied
  <1>15. s1 \in Seq(Event) /\ (A => Len(s1) = 1 /\ s1[1] = x) /\ (~A => Len(s1) = 0)
    <2>1. CASE A
      <3>1. s1 = <<x>>
        BY <1>8, <2>1
      <3> QED
        BY <1>3, <2>1, <3>1
    <2>2. CASE ~A
      BY <1>8, <2>2
    <2> QED
      BY <2>1, <2>2
  <1>16. /\ s4 \in Seq(Event) /\ Len(s1) \in Nat /\ Len(s4) \in Nat
         /\ \A i \in 1 .. Len(s1) : s4[i] = s1[i]
         /\ B => Len(s4) = Len(s1) + 1 /\ s4[Len(s1) + 1] = y
         /\ ~B => Len(s4) = Len(s1)
    <2>0. s3 = s1
      BY <1>7
    <2>1. CASE B
      BY <1>3, <1>9, <1>15, <2>0, <2>1, AppendSeq
    <2>2. CASE ~B
      BY <1>9, <1>15, <2>0, <2>2
    <2> QED
      BY <2>1, <2>2
  <1>17. /\ evs \in Seq(Event) /\ Len(evs) \in Nat
         /\ \A i \in 1 .. Len(s4) : evs[i] = s4[i]
         /\ C => Len(evs) = Len(s4) + 1 /\ evs[Len(s4) + 1] = z
         /\ ~C => Len(evs) = Len(s4)
    <2>1. CASE C
      BY <1>3, <1>6, <1>10, <1>16, <2>1, AppendSeq
    <2>2. CASE ~C
      BY <1>6, <1>10, <1>16, <2>2
    <2> QED
      BY <2>1, <2>2
  <1> DEFINE a == Len(s1)
             b == Len(s4)
             n == Len(evs)
  <1>18. /\ a \in Nat /\ b \in Nat /\ n \in Nat /\ (A => a = 1) /\ (~A => a = 0)
         /\ (B => b = a + 1) /\ (~B => b = a) /\ (C => n = b + 1) /\ (~C => n = b)
    BY <1>15, <1>16, <1>17
  <1>19. /\ A => evs[1] = x
         /\ B => evs[a + 1] = y
         /\ C => evs[n] = z
    <2>1. A => evs[1] = x
      <3> SUFFICES ASSUME A PROVE evs[1] = x
        OBVIOUS
      <3>0. a = 1 /\ b >= 1 /\ b \in Nat
        BY <1>18
      <3>1. 1 \in 1 .. Len(s1) /\ 1 \in 1 .. Len(s4)
        BY <3>0
      <3> QED
        BY <1>15, <1>16, <1>17, <3>1
    <2>2. B => evs[a + 1] = y
      <3> SUFFICES ASSUME B PROVE evs[a + 1] = y
        OBVIOUS
      <3>1. a + 1 \in 1 .. Len(s4)
        BY <1>18
      <3> QED
        BY <1>16, <1>17, <3>1
    <2> QED
      BY <1>17, <2>1, <2>2
  <1> HIDE DEF a, b, n
  <1>20. \A i \in 1 .. n : (A /\ i = 1) \/ (B /\ i = a + 1) \/ (C /\ i = n)
    BY <1>18
  <1>11. /\ evs \in Seq(Event)
         /\ \A i \in 1 .. Len(evs) :
              (A /\ evs[i] = x) \/ (B /\ evs[i] = y) \/ (C /\ i = Len(evs) /\ evs[i] = z)
         /\ A => Len(evs) > 0 /\ evs[1] = x
         /\ ~A /\ B => Len(evs) > 0 /\ evs[1] = y
         /\ C => Len(evs) > 0 /\ evs[Len(evs)] = z
         /\ C /\ (A \/ B) => Len(evs) > 1
    <2>1. \A i \in 1 .. Len(evs) :
            (A /\ evs[i] = x) \/ (B /\ evs[i] = y) \/ (C /\ i = Len(evs) /\ evs[i] = z)
      BY <1>19, <1>20 DEF n
    <2>2. A => n > 0 /\ evs[1] = x
      BY <1>18, <1>19
    <2>3. ~A /\ B => n > 0 /\ evs[1] = y
      <3> SUFFICES ASSUME ~A, B PROVE n > 0 /\ evs[1] = y
        OBVIOUS
      <3>1. a + 1 = 1 /\ n > 0
        BY <1>18
      <3> QED
        BY <1>19, <3>1
    <2>4. C => n > 0 /\ evs[n] = z
      BY <1>18, <1>19
    <2>5. C /\ (A \/ B) => n > 1
      BY <1>18
    <2> QED
      BY <1>17, <2>1, <2>2, <2>3, <2>4, <2>5 DEF n
  <1>12. \A i \in 1 .. Len(evs) :
           \/ evs[i].type = "PRESENCE" /\ evs[i].presence = "ACTIVE" /\ (A \/ B)
           \/ evs[i].type = "ZONE" /\ evs[i].zones = Z /\ evs[i].movement = "moving"
                /\ i = Len(evs) /\ C
    BY <1>4, <1>11
  <1>13. A \/ B => Len(evs) > 0 /\ evs[1].type = "PRESENCE" /\ evs[1].presence = "ACTIVE"
    BY <1>4, <1>11
  <1>14. C => /\ Len(evs) > 0 /\ evs[Len(evs)].type = "ZONE" /\ evs[Len(evs)].zones = Z
              /\ A \/ B => Len(evs) > 1
    BY <1>4, <1>11
  <1> QED
    BY <1>11, <1>12, <1>13, <1>14 DEF A, B, C, msg

\* A datagram without a location: the tag is announced, the snapshot is emptied,
\* the tag is lost.
LEMMA NoLocationEvents ==
    ASSUME NEW st \in tagState, NEW evs, evs = deriveEvents(st, noLocationPkt)
    PROVE  LET lost == LocationLost(st, noLocationPkt)
               emptied == Emptied(st, noLocationPkt)
           IN  /\ evs \in Seq(Event)
               /\ \A i \in 1 .. Len(evs) :
                    \/ evs[i].type = "PRESENCE" /\ evs[i].presence = "ACTIVE" /\ i = 1 /\ WasOffline(st)
                    \/ evs[i].type = "ZONE" /\ evs[i].zones = {} /\ emptied
                         /\ \A j \in 1 .. i - 1 : evs[j].type # "ZONE"
                    \/ evs[i].type = "PRESENCE" /\ evs[i].presence = "INACTIVE" /\ i = Len(evs) /\ lost
               /\ lost => Len(evs) > 0 /\ evs[Len(evs)].type = "PRESENCE" /\ evs[Len(evs)].presence = "INACTIVE"
               /\ WasOffline(st) => Len(evs) > 0 /\ evs[1].presence = "ACTIVE"
               /\ WasOffline(st) /\ lost => Len(evs) > 1
  <1> DEFINE msg == noLocationPkt
             A == WasOffline(st)
             B == Emptied(st, msg)
             C == LocationLost(st, msg)
             back == LocationRestored(st, msg)
             due == SnapshotDue(st, msg)
             x == presenceEvent(msg, st.lastZoneIds, "ACTIVE")
             y == zoneEvent(msg, {})
             z == presenceEvent(msg, st.lastZoneIds, "INACTIVE")
             pr == presenceEvent(msg, normaliseZones(msg.zones), "ACTIVE")
             zs == zoneEvent(msg, normaliseZones(msg.zones))
             s1 == AppendIf(<<>>, A, x)
             s2 == AppendIf(s1, B, y)
             s3 == AppendIf(s2, C, z)
             s4 == AppendIf(s3, back, pr)
             s5 == AppendIf(s4, due, zs)
  <1>1. msg \in Datagram /\ msg.type = "noLocation" /\ normaliseZones(msg.zones) = {}
    BY NoLocationReads
  <1>2. /\ st.lastZoneIds \in SUBSET Zones /\ {} \in SUBSET Zones
        /\ "ACTIVE" \in Presences /\ "INACTIVE" \in Presences
    BY DEF tagState, Presences
  <1> HIDE DEF msg
  <1>3. x \in Event /\ y \in Event /\ z \in Event
    BY <1>1, <1>2, DerivedEvents
  <1>4. /\ x.type = "PRESENCE" /\ x.presence = "ACTIVE" /\ z.type = "PRESENCE" /\ z.presence = "INACTIVE"
        /\ y.type = "ZONE" /\ y.zones = {} /\ y.presence = "ACTIVE"
    BY <1>1 DEF presenceEvent, zoneEvent
  <1>5. ~back /\ ~due
    BY <1>1 DEF LocationRestored, SnapshotDue, isLocationType
  <1>6. evs = s5
    BY DEF deriveEvents, onlineEvents, lostEvents, restoredEvents, snapshotEvents, msg, Emptied
  <1>7. s5 = s4 /\ s4 = s3
    BY <1>5 DEF AppendIf
  <1>8. /\ A => s1 = Append(<<>>, x)
        /\ ~A => s1 = <<>>
    BY DEF AppendIf
  <1>9. /\ B => s2 = Append(s1, y)
        /\ ~B => s2 = s1
    BY DEF AppendIf
  <1>10. /\ C => s3 = Append(s2, z)
         /\ ~C => s3 = s2
    BY DEF AppendIf
  <1> HIDE DEF s1, x, A
  <1>11. s1 \in Seq(Event) /\ (A => Len(s1) = 1 /\ s1[1] = x) /\ (~A => Len(s1) = 0)
    <2>1. CASE A
      <3>1. s1 = <<x>>
        BY <1>8, <2>1
      <3> QED
        BY <1>3, <2>1, <3>1
    <2>2. CASE ~A
      BY <1>8, <2>2
    <2> QED
      BY <2>1, <2>2
  <1> HIDE DEF s1, s2, s3, s4, s5, x, y, z, pr, zs, A, B, C, back, due
  <1>12. /\ s2 \in Seq(Event) /\ Len(s1) \in Nat /\ Len(s2) \in Nat
         /\ \A i \in 1 .. Len(s1) : s2[i] = s1[i]
         /\ B => Len(s2) = Len(s1) + 1 /\ s2[Len(s1) + 1] = y
         /\ ~B => Len(s2) = Len(s1)
    <2>1. CASE B
      BY <1>3, <1>9, <1>11, <2>1, AppendSeq
    <2>2. CASE ~B
      BY <1>9, <1>11, <2>2
    <2> QED
      BY <2>1, <2>2
  <1>13. /\ evs \in Seq(Event) /\ Len(evs) \in Nat
         /\ \A i \in 1 .. Len(s2) : evs[i] = s2[i]
         /\ C => Len(evs) = Len(s2) + 1 /\ evs[Len(s2) + 1] = z
         /\ ~C => Len(evs) = Len(s2)
    <2>0. evs = s3
      BY <1>6, <1>7
    <2>1. CASE C
      BY <1>3, <1>10, <1>12, <2>0, <2>1, AppendSeq
    <2>2. CASE ~C
      BY <1>10, <1>12, <2>0, <2>2
    <2> QED
      BY <2>1, <2>2
  <1> DEFINE a == Len(s1)
             b == Len(s2)
             n == Len(evs)
  <1>14. /\ a \in Nat /\ b \in Nat /\ n \in Nat /\ (A => a = 1) /\ (~A => a = 0)
         /\ (B => b = a + 1) /\ (~B => b = a) /\ (C => n = b + 1) /\ (~C => n = b)
    BY <1>11, <1>12, <1>13
  <1>15. /\ A => evs[1] = x
         /\ B => evs[a + 1] = y
         /\ C => evs[n] = z
    <2>1. A => evs[1] = x
      <3> SUFFICES ASSUME A PROVE evs[1] = x
        OBVIOUS
      <3>0. a = 1 /\ b >= 1 /\ b \in Nat
        BY <1>14
      <3>1. 1 \in 1 .. Len(s1) /\ 1 \in 1 .. Len(s2)
        BY <3>0
      <3> QED
        BY <1>11, <1>12, <1>13, <3>1
    <2>2. B => evs[a + 1] = y
      <3> SUFFICES ASSUME B PROVE evs[a + 1] = y
        OBVIOUS
      <3>1. a + 1 \in 1 .. Len(s2)
        BY <1>14
      <3> QED
        BY <1>12, <1>13, <3>1
    <2> QED
      BY <1>13, <2>1, <2>2
  <1> HIDE DEF a, b, n
  <1>16. \A i \in 1 .. n : (A /\ i = 1 /\ a = 1) \/ (B /\ i = a + 1) \/ (C /\ i = n)
    BY <1>14
  <1>17. ASSUME NEW i \in 1 .. n, B, i = a + 1, NEW j \in 1 .. i - 1 PROVE evs[j].type # "ZONE"
    <2>1. A
      BY <1>14, <1>17
    <2>2. j = 1
      BY <1>14, <1>17, <2>1
    <2> QED
      BY <1>4, <1>15, <2>1, <2>2
  <1>18. \A i \in 1 .. n :
           \/ evs[i].type = "PRESENCE" /\ evs[i].presence = "ACTIVE" /\ i = 1 /\ A
           \/ evs[i].type = "ZONE" /\ evs[i].zones = {} /\ B
                /\ \A j \in 1 .. i - 1 : evs[j].type # "ZONE"
           \/ evs[i].type = "PRESENCE" /\ evs[i].presence = "INACTIVE" /\ i = n /\ C
    BY <1>4, <1>15, <1>16, <1>17
  <1>19. C => n > 0 /\ evs[n].type = "PRESENCE" /\ evs[n].presence = "INACTIVE"
    BY <1>4, <1>14, <1>15
  <1>20. /\ A => n > 0 /\ evs[1].presence = "ACTIVE"
         /\ A /\ C => n > 1
    <2>1. A => evs[1].presence = "ACTIVE"
      BY <1>4, <1>15
    <2> QED
      BY <1>14, <2>1
  <1> QED
    BY <1>13, <1>18, <1>19, <1>20 DEF A, B, C, n, msg

\* Zones other than those the tag is in are announced.
LEMMA NewZones ==
    ASSUME NEW st \in tagState, NEW v, TagInv(st, v, FALSE),
           NEW Z \in SUBSET Zones, Z # {},
           ~(isLocationType(st.lastLocationType) /\ st.lastZoneIds = Z)
    PROVE  SnapshotDue(st, positionPkt(Z)) /\ v.zones # Z
  <1> DEFINE msg == positionPkt(Z)
  <1>1. msg.type = "position" /\ normaliseZones(msg.zones) = Z
    BY PositionReads
  <1> HIDE DEF msg
  <1>2. SnapshotDue(st, msg)
    BY <1>1 DEF SnapshotDue, isLocationType, HasZoneContext, ZoneChanged, StateChanged
  <1>3. v.zones # Z
    BY DEF TagInv
  <1> QED
    BY <1>2, <1>3 DEF msg

\* A zone snapshot that is announced says something new.
LEMMA SnapshotSays ==
    ASSUME NEW st \in tagState, NEW v, TagInv(st, v, FALSE),
           NEW Z \in SUBSET Zones, Z # {}, SnapshotDue(st, positionPkt(Z))
    PROVE  ~(v.zones = Z /\ v.movement = "moving")
  <1> DEFINE msg == positionPkt(Z)
  <1>1. msg.type = "position" /\ normaliseZones(msg.zones) = Z /\ msg.movement = "moving"
    BY PositionReads
  <1>2. SnapshotDue(st, msg)
    OBVIOUS
  <1> HIDE DEF msg
  <1>3. CASE isLocationType(st.lastLocationType)
    <2>1. hadHistory(st) /\ st.lastLocationType = "position"
      BY <1>3 DEF hadHistory, isLocationType
    <2>2. Z # st.lastZoneIds \/ "moving" # st.lastMovementStatus
      BY <1>1, <1>2, <2>1 DEF SnapshotDue, ZoneChanged, StateChanged
    <2>3. v.zones = st.lastZoneIds /\ (st.lastZoneIds # {} => v.movement = st.lastMovementStatus)
      BY <1>3 DEF TagInv
    <2> QED
      BY <2>2, <2>3
  <1>4. CASE ~isLocationType(st.lastLocationType)
    BY <1>4 DEF TagInv
  <1> QED
    BY <1>3, <1>4

\* The datagrams of the scenarios.
Packets == {positionPkt({ZoneOrder[i]}) : i \in 1 .. Len(ZoneOrder)} \cup {noLocationPkt}

\* A datagram of the scenarios has a position inside a zone, or no location.
LEMMA PacketCases ==
    ASSUME NEW msg \in Packets
    PROVE  /\ msg \in Datagram /\ msg.type # "" /\ msg.age = 0
           /\ \/ msg = noLocationPkt
              \/ \E Z \in SUBSET Zones : Z # {} /\ msg = positionPkt(Z)
  <1>1. CASE msg = noLocationPkt
    BY <1>1, NoLocationReads
  <1>2. CASE msg # noLocationPkt
    <2>1. PICK i \in 1 .. Len(ZoneOrder) : msg = positionPkt({ZoneOrder[i]})
      BY <1>2 DEF Packets
    <2>2. {ZoneOrder[i]} \in SUBSET Zones /\ {ZoneOrder[i]} # {}
      BY OrderReads
    <2> HIDE DEF positionPkt
    <2> QED
      BY <2>1, <2>2, PositionReads
  <1> QED
    BY <1>1, <1>2

\* The zone event of a datagram says something new, and there is only one.
LEMMA PacketZones ==
    ASSUME NEW st \in tagState, NEW v \in View, TagInv(st, v, FALSE),
           NEW msg \in Packets, NEW evs, evs = deriveEvents(st, msg)
    PROVE  /\ evs \in Seq(Event)
           /\ \A m \in 1 .. Len(evs) : evs[m].type = "ZONE" =>
                /\ ~Says(evs[m], "ZONE", v)
                /\ \A i \in 1 .. m - 1 : evs[i].type # "ZONE"
  <1>1. CASE msg = noLocationPkt
    <2>0. evs = deriveEvents(st, noLocationPkt)
      BY <1>1
    <2> HIDE DEF noLocationPkt
    <2>1. /\ evs \in Seq(Event)
          /\ \A m \in 1 .. Len(evs) : evs[m].type = "ZONE" =>
               /\ evs[m].zones = {} /\ Emptied(st, noLocationPkt)
               /\ \A j \in 1 .. m - 1 : evs[j].type # "ZONE"
      BY <2>0, NoLocationEvents
    <2>2. Emptied(st, noLocationPkt) => v.zones # {}
      BY DEF Emptied, LocationLost, TagInv
    <2> QED
      BY <2>1, <2>2 DEF Says
  <1>2. ASSUME NEW Z \in SUBSET Zones, Z # {}, msg = positionPkt(Z)
        PROVE  /\ evs \in Seq(Event)
               /\ \A m \in 1 .. Len(evs) : evs[m].type = "ZONE" =>
                    /\ ~Says(evs[m], "ZONE", v)
                    /\ \A i \in 1 .. m - 1 : evs[i].type # "ZONE"
    <2>0. evs = deriveEvents(st, positionPkt(Z))
      BY <1>2
    <2>1. /\ evs \in Seq(Event)
          /\ \A m \in 1 .. Len(evs) : evs[m].type = "ZONE" =>
               /\ evs[m].zones = Z /\ evs[m].movement = "moving"
               /\ m = Len(evs) /\ SnapshotDue(st, positionPkt(Z))
      BY <2>0, PositionEvents
    <2>2. SnapshotDue(st, positionPkt(Z)) => ~(v.zones = Z /\ v.movement = "moving")
      BY <1>2, SnapshotSays
    <2>3. ASSUME NEW m \in 1 .. Len(evs), evs[m].type = "ZONE"
          PROVE  /\ ~Says(evs[m], "ZONE", v)
                 /\ \A i \in 1 .. m - 1 : evs[i].type # "ZONE"
      <3>1. ~Says(evs[m], "ZONE", v)
        BY <2>1, <2>2, <2>3 DEF Says
      <3>2. Len(evs) \in Nat /\ m = Len(evs)
        BY <2>1, <2>3
      <3>3. ASSUME NEW i \in 1 .. m - 1 PROVE evs[i].type # "ZONE"
        <4>1. i \in 1 .. Len(evs) /\ i # Len(evs)
          BY <3>2
        <4> QED
          BY <2>1, <4>1
      <3> QED
        BY <3>1, <3>3
    <2> QED
      BY <2>1, <2>3
  <1> QED
    BY <1>1, <1>2, PacketCases

\* Nothing of Clean is lost when a datagram is read, the watchdog runs, time
\* passes or the repository takes an event.
LEMMA CleanDatagram ==
    ASSUME NEW t, NEW st, NEW q, NEW l, NEW v, NEW sp,
           CorePipe(t, st, q, l, v, sp), Clean(st, q, l, sp), NEW msg \in Packets
    PROVE  Clean(nextTagState(st, msg), q \o Sent(t, deriveEvents(st, msg)), l,
                 sp \cup TypesOf(deriveEvents(st, msg)))
  <1> DEFINE evs == deriveEvents(st, msg)
             new == nextTagState(st, msg)
  <1>1. /\ st \in tagState /\ v \in View /\ TagInv(st, v, FALSE) /\ q \in Seq(OfTag(t))
        /\ sp \in SUBSET ChangeTypes /\ Reported(t, q, l, v, sp)
    BY DEF CorePipe
  <1>2. /\ evs \in Seq(Event)
        /\ \A m \in 1 .. Len(evs) : evs[m].type = "ZONE" =>
             /\ ~Says(evs[m], "ZONE", v)
             /\ \A i \in 1 .. m - 1 : evs[i].type # "ZONE"
    BY <1>1, PacketZones
  <1>3. hadHistory(new)
    BY PacketCases DEF nextTagState, hadHistory
  <1> HIDE DEF evs, new
  <1>4. Clean(new, q \o Sent(t, evs), l, sp \cup TypesOf(evs))
    BY <1>1, <1>2, <1>3, CleanSend
  <1> QED
    BY <1>4 DEF evs, new

\* What the watchdog does to a tag.
LEMMA SweepEvents ==
    ASSUME NEW st \in tagState, NEW evs, evs = watchdogEvents(st)
    PROVE  /\ evs \in Seq(Event) /\ (~Overdue(st) => Len(evs) = 0)
           /\ Overdue(st) => Len(evs) = 1 /\ evs[1].type = "PRESENCE" /\ evs[1].presence = "INACTIVE"
           /\ \A i \in 1 .. Len(evs) : i = 1 /\ evs[i].type = "PRESENCE" /\ evs[i].presence = "INACTIVE"
  <1> DEFINE e == offlineEvent(st)
  <1>1. e \in Event /\ e.type = "PRESENCE" /\ e.presence = "INACTIVE"
    BY DerivedEvents DEF offlineEvent
  <1>2. evs = AppendIf(<<>>, Overdue(st), e)
    BY DEF watchdogEvents
  <1> HIDE DEF e
  <1>3. CASE Overdue(st)
    <2>1. evs = <<e>>
      BY <1>2, <1>3 DEF AppendIf
    <2> QED
      BY <1>1, <1>3, <2>1
  <1>4. CASE ~Overdue(st)
    <2>1. evs = <<>>
      BY <1>2, <1>4 DEF AppendIf
    <2> QED
      BY <1>4, <2>1
  <1> QED
    BY <1>3, <1>4

\* A round of the watchdog speaks only of tags the adapter has heard of.
LEMMA CleanSweep ==
    ASSUME NEW t, NEW st, NEW q, NEW l, NEW v, NEW sp,
           CorePipe(t, st, q, l, v, sp), Clean(st, q, l, sp)
    PROVE  Clean(watchdogState(st), q \o Sent(t, watchdogEvents(st)), l,
                 sp \cup TypesOf(watchdogEvents(st)))
  <1> DEFINE evs == watchdogEvents(st)
             new == watchdogState(st)
  <1>1. /\ st \in tagState /\ v \in View /\ TagInv(st, v, FALSE) /\ q \in Seq(OfTag(t))
        /\ sp \in SUBSET ChangeTypes /\ Reported(t, q, l, v, sp)
    BY DEF CorePipe
  <1>2. /\ evs \in Seq(Event) /\ (~Overdue(st) => Len(evs) = 0)
        /\ \A i \in 1 .. Len(evs) : evs[i].type = "PRESENCE"
    BY <1>1, SweepEvents
  <1>3. hadHistory(new) = hadHistory(st)
    BY <1>1 DEF watchdogState, hadHistory, tagState
  <1>4. ~hadHistory(st) => ~Overdue(st) /\ sp = {}
    BY <1>1 DEF TagInv, Overdue, Clean
  <1> HIDE DEF evs, new
  <1>5. ~hadHistory(new) => sp \cup TypesOf(evs) = {}
    <2> SUFFICES ASSUME ~hadHistory(new) PROVE sp \cup TypesOf(evs) = {}
      OBVIOUS
    <2>1. DOMAIN evs = {} /\ sp = {}
      BY <1>2, <1>3, <1>4
    <2> QED
      BY <2>1 DEF TypesOf
  <1>6. Clean(new, q \o Sent(t, evs), l, sp \cup TypesOf(evs))
    BY <1>1, <1>2, <1>5, CleanSend
  <1> QED
    BY <1>6 DEF evs, new

\* Time says nothing of a tag.
LEMMA CleanElapse ==
    ASSUME NEW st \in tagState, NEW q, NEW l, NEW sp, Clean(st, q, l, sp)
    PROVE  Clean(Elapse(st), q, l, sp)
  <1>1. hadHistory(Elapse(st)) = hadHistory(st)
    BY DEF Elapse, hadHistory, tagState
  <1> QED
    BY <1>1 DEF Clean

\* The first event leaves the channel; the record of its subject now says the same.
LEMMA CleanTake ==
    ASSUME NEW st, NEW S, NEW q \in Seq(S), q # <<>>, NEW l, NEW n, NEW sp, Clean(st, q, l, sp),
           \A k \in ChangeTypes : k # q[1].type => n[k] = l[k],
           \A x \in n[q[1].type] : x.age = 0 /\ Repeats(q[1], unmarshal(x.data)),
           \A i \in 1 .. Len(q) : q[i].type \in ChangeTypes
    PROVE  Clean(st, Tail(q), n, sp)
  <1> DEFINE r == Tail(q)
  <1>1. /\ Len(q) \in Nat /\ Len(q) >= 1 /\ Len(r) = Len(q) - 1
        /\ \A i \in 1 .. Len(r) : r[i] = q[i + 1] /\ i + 1 \in 2 .. Len(q)
    OBVIOUS
  <1> HIDE DEF r
  <1>2. \A k \in ChangeTypes \ sp : n[k] = Nil /\ \A i \in 1 .. Len(r) : r[i].type # k
    <2> SUFFICES ASSUME NEW k \in ChangeTypes \ sp
                 PROVE  n[k] = Nil /\ \A i \in 1 .. Len(r) : r[i].type # k
      OBVIOUS
    <2>1. l[k] = Nil /\ \A i \in 1 .. Len(q) : q[i].type # k
      BY DEF Clean
    <2>2. q[1].type # k
      BY <1>1, <2>1
    <2>3. \A i \in 1 .. Len(r) : r[i].type # k
      BY <1>1, <2>1
    <2> QED
      BY <2>1, <2>2, <2>3
  <1>3. \A k \in ChangeTypes : \A x \in n[k] : x.age = 0
    BY DEF Clean
  <1>4. ASSUME NEW i \in 1 .. Len(r), r[i].type = "ZONE" PROVE Renews(r, n, i)
    <2> DEFINE j == i + 1
    <2>1. j \in 2 .. Len(q) /\ r[i] = q[j] /\ i = j - 1 /\ j \in 1 .. Len(q)
      BY <1>1
    <2> HIDE DEF j
    <2>2. Renews(q, l, j)
      BY <1>4, <2>1 DEF Clean
    <2>3. q[j].type \in ChangeTypes
      BY <2>1
    <2>4. Renews(Tail(q), n, j - 1)
      BY <2>1, <2>2, <2>3, RenewsTail
    <2> QED
      BY <2>1, <2>4 DEF r
  <1> QED
    BY <1>2, <1>3, <1>4 DEF Clean, r

-----------------------------------------------------------------------------
(* Sequences made of sets, and without one of their elements.              *)

\* SetToSeq has each element of a finite set once.
LEMMA SetToSeqReads ==
    ASSUME NEW S, IsFiniteSet(S)
    PROVE  /\ SetToSeq(S) \in Seq(S)
           /\ \A x \in S : \E i \in 1 .. Len(SetToSeq(S)) : SetToSeq(S)[i] = x
           /\ \A i, j \in 1 .. Len(SetToSeq(S)) : SetToSeq(S)[i] = SetToSeq(S)[j] => i = j
  <1> DEFINE n == Cardinality(S)
             f == SetToSeq(S)
  <1>1. n \in Nat /\ ExistsBijection(1 .. n, S)
    BY FS_CardinalityType
  <1>0. Bijection(1 .. n, S) # {}
    BY <1>1 DEF ExistsBijection
  <1>2. PICK g : g \in Bijection(1 .. n, S)
    BY <1>0
  <1>3. g \in [1 .. n -> S] /\ IsInjective(g)
    BY <1>2 DEF Bijection, Injection, IsInjective
  <1>4. f \in [1 .. n -> S] /\ IsInjective(f)
    BY <1>3 DEF SetToSeq
  <1> HIDE DEF f, n
  <1>5. f \in Injection(1 .. n, S)
    BY <1>4 DEF Injection, IsInjective
  <1>6. IsFiniteSet(1 .. n) /\ Cardinality(1 .. n) = n
    BY <1>1, FS_Interval
  <1>7. f \in Surjection(1 .. n, S)
    BY <1>5, <1>6, FS_Injection DEF n
  <1>8. \A x \in S : \E i \in 1 .. n : f[i] = x
    BY <1>7 DEF Surjection
  <1>9. f \in Seq(S) /\ Len(f) = n
    BY <1>1, <1>4
  <1>10. \A i, j \in 1 .. n : f[i] = f[j] => i = j
    BY <1>4 DEF IsInjective
  <1> QED
    BY <1>8, <1>9, <1>10 DEF f

\* RemoveAt leaves what is before the place alone and moves up what is behind it.
LEMMA RemoveAtReads ==
    ASSUME NEW S, NEW s \in Seq(S), NEW i \in 1 .. Len(s)
    PROVE  /\ RemoveAt(s, i) \in Seq(S) /\ Len(s) \in Nat /\ Len(RemoveAt(s, i)) = Len(s) - 1
           /\ \A j \in 1 .. i - 1 : RemoveAt(s, i)[j] = s[j]
           /\ \A j \in i .. Len(s) - 1 : RemoveAt(s, i)[j] = s[j + 1]
           /\ i = 1 => RemoveAt(s, i) = Tail(s)
  <1> DEFINE a == SubSeq(s, 1, i - 1)
             b == SubSeq(s, i + 1, Len(s))
  <1>1. /\ Len(s) \in Nat /\ a \in Seq(S) /\ Len(a) = i - 1 /\ \A j \in 1 .. i - 1 : a[j] = s[j]
        /\ i \in Nat /\ i >= 1 /\ i <= Len(s)
    OBVIOUS
  <1>2. b \in Seq(S) /\ Len(b) = Len(s) - i /\ \A j \in 1 .. Len(s) - i : b[j] = s[i + j]
    OBVIOUS
  <1>3. RemoveAt(s, i) = a \o b
    BY DEF RemoveAt
  <1> HIDE DEF a, b
  <1> DEFINE r == a \o b
  <1>4. /\ r \in Seq(S) /\ Len(r) = Len(a) + Len(b)
        /\ \A j \in 1 .. Len(a) : r[j] = a[j]
        /\ \A j \in 1 .. Len(b) : r[Len(a) + j] = b[j]
    <2>1. a \in Seq(S) /\ b \in Seq(S)
      BY <1>1, <1>2
    <2> QED
      BY <2>1
  <1> HIDE DEF r
  <1>5. Len(r) = Len(s) - 1 /\ \A j \in 1 .. i - 1 : r[j] = s[j]
    BY <1>1, <1>2, <1>4
  <1>6. \A j \in i .. Len(s) - 1 : r[j] = s[j + 1]
    <2> SUFFICES ASSUME NEW j \in i .. Len(s) - 1 PROVE r[j] = s[j + 1]
      OBVIOUS
    <2> DEFINE k == j - i + 1
    <2>1. k \in 1 .. Len(s) - i /\ k \in 1 .. Len(b) /\ j = Len(a) + k /\ i + k = j + 1
      BY <1>1, <1>2
    <2> HIDE DEF k
    <2>2. r[j] = b[k] /\ b[k] = s[i + k]
      BY <1>2, <1>4, <2>1
    <2> QED
      BY <2>1, <2>2
  <1>7. i = 1 => r = Tail(s)
    <2> SUFFICES ASSUME i = 1 PROVE r = Tail(s)
      OBVIOUS
    <2> DEFINE v == Tail(s)
    <2>1. s # <<>>
      BY <1>1
    <2>2. v \in Seq(S) /\ Len(v) = Len(s) - 1 /\ \A j \in 1 .. Len(s) - 1 : v[j] = s[j + 1]
      BY <2>1
    <2> HIDE DEF v
    <2>3. \A j \in 1 .. Len(r) : r[j] = v[j]
      BY <1>5, <1>6, <2>2
    <2>4. r = v
      BY <1>4, <1>5, <2>2, <2>3, SeqEqual
    <2> QED
      BY <2>4 DEF v
  <1> QED
    BY <1>1, <1>3, <1>4, <1>5, <1>6, <1>7 DEF r

\* What a client can be sent.
Messages == {domainEventToPb(DomainEvent(t, ev)) : t \in Tags, ev \in Event}

\* The snapshot of a subject is its record, if that is still seen.
LEMMA SnapshotIs ==
    ASSUME NEW t, NEW l, Records(t, l), NEW k \in ChangeTypes
    PROVE  \/ Live(l[k]) = {}
           \/ \E ev \in Event, n \in Ages :
                /\ RecordIs(l, t, k, ev, n) /\ n <= MaxAge
                /\ ToClient(Live(l[k])) = {domainEventToPb(DomainEvent(t, ev))}
  <1>1. CASE l[k] = Nil
    BY <1>1 DEF Live, Nil
  <1>2. CASE l[k] # Nil
    <2>1. PICK ev \in Event, n \in Ages : RecordIs(l, t, k, ev, n)
      BY <1>2 DEF Records
    <2> DEFINE d == marshal(DomainEvent(t, ev))
    <2>2. unmarshal(d) = DomainEvent(t, ev)
      BY RecordBack
    <2>3. l[k] = Some([data |-> d, age |-> n]) /\ n \in Nat
      BY <2>1, AgeBounds DEF RecordIs
    <2> HIDE DEF d
    <2>4. CASE n <= MaxAge
      <3>1. Live(l[k]) = {[data |-> d, age |-> n]}
        BY <2>3, <2>4, LiveOne DEF Some
      <3>2. ToClient(Live(l[k])) = {domainEventToPb(unmarshal(d))}
        BY <3>1 DEF ToClient
      <3> QED
        BY <2>1, <2>2, <2>4, <3>2
    <2>5. CASE ~(n <= MaxAge)
      BY <2>3, <2>5, LiveOne DEF Nil
    <2> QED
      BY <2>4, <2>5
  <1> QED
    BY <1>1, <1>2

\* TagOrder counts the tags.
LEMMA TagsFinite == IsFiniteSet(Tags)
  <1> DEFINE n == Len(TagOrder)
             f == [i \in 1 .. n |-> TagOrder[i]]
  <1>1. n \in Nat /\ f \in [1 .. n -> Tags]
    BY OrderReads
  <1>2. \A t \in Tags : \E i \in 1 .. n : f[i] = t
    BY OrderReads
  <1> HIDE DEF n, f
  <1>3. f \in Surjection(1 .. n, Tags)
    BY <1>1, <1>2 DEF Surjection
  <1>4. IsFiniteSet(1 .. n)
    BY <1>1, FS_Interval
  <1> QED
    BY <1>3, <1>4, FS_Surjection

\* The snapshots of a kind, in some order.
LEMMA SnapshotSeqReads ==
    ASSUME PipeInv, NEW k \in ChangeTypes
    PROVE  /\ SnapshotSeq(k) \in Seq(Messages)
           /\ \A t \in Tags : \A m \in SnapshotOf(t, k) :
                \E i \in 1 .. Len(SnapshotSeq(k)) : SnapshotSeq(k)[i] = m
           /\ \A i \in 1 .. Len(SnapshotSeq(k)) : \E t \in Tags : SnapshotSeq(k)[i] \in SnapshotOf(t, k)
           /\ \A i, j \in 1 .. Len(SnapshotSeq(k)) : SnapshotSeq(k)[i] = SnapshotSeq(k)[j] => i = j
  <1> DEFINE F == {SnapshotOf(t, k) : t \in Tags}
             S == UNION F
             f == [t \in Tags |-> SnapshotOf(t, k)]
             s == SetToSeq(S)
  <1>1. ASSUME NEW t \in Tags
        PROVE  /\ IsFiniteSet(SnapshotOf(t, k)) /\ SnapshotOf(t, k) \subseteq Messages
    <2>1. Records(t, last[t])
      BY TagOf
    <2>2. CASE Live(last[t][k]) = {}
      <3>1. SnapshotOf(t, k) = {}
        BY <2>2 DEF SnapshotOf, ToClient
      <3> QED
        BY <3>1, FS_EmptySet
    <2>3. CASE Live(last[t][k]) # {}
      <3>1. PICK ev \in Event : SnapshotOf(t, k) = {domainEventToPb(DomainEvent(t, ev))}
        BY <2>1, <2>3, SnapshotIs DEF SnapshotOf
      <3>2. domainEventToPb(DomainEvent(t, ev)) \in Messages
        BY DEF Messages
      <3> QED
        BY <3>1, <3>2, FS_Singleton
    <2> QED
      BY <2>2, <2>3
  <1>2. f \in [Tags -> F] /\ \A T \in F : \E t \in Tags : f[t] = T
    OBVIOUS
  <1> HIDE DEF f
  <1>3. f \in Surjection(Tags, F)
    BY <1>2 DEF Surjection
  <1>4. IsFiniteSet(F)
    BY <1>3, TagsFinite, FS_Surjection
  <1>5. \A T \in F : IsFiniteSet(T) /\ T \subseteq Messages
    BY <1>1
  <1>6. /\ \A t \in Tags : \A m \in SnapshotOf(t, k) : m \in S
        /\ \A m \in S : \E t \in Tags : m \in SnapshotOf(t, k)
    OBVIOUS
  <1>7. SnapshotSeq(k) = s
    BY DEF SnapshotSeq
  <1> HIDE DEF F
  <1>8. IsFiniteSet(S) /\ S \subseteq Messages
    BY <1>4, <1>5, FS_UNION
  <1> HIDE DEF S
  <1>9. /\ s \in Seq(S)
        /\ \A x \in S : \E i \in 1 .. Len(s) : s[i] = x
        /\ \A i, j \in 1 .. Len(s) : s[i] = s[j] => i = j
    BY <1>8, SetToSeqReads
  <1> HIDE DEF s
  <1>10. s \in Seq(Messages) /\ \A i \in 1 .. Len(s) : s[i] \in S
    BY <1>8, <1>9
  <1> QED
    BY <1>6, <1>7, <1>9, <1>10

-----------------------------------------------------------------------------
(* The scenarios, by what they have at each place.                         *)

Length(sc, v) ==
    CASE sc = "walk" -> Len(ZoneOrder)
      [] sc = "offline" -> IF v THEN 5 ELSE 4
      [] sc = "lost" -> IF v THEN 3 ELSE 2
      [] sc = "stress" -> 1

StepAt(sc, i) ==
    IF sc = "walk" THEN positionPkt({ZoneOrder[i]})
    ELSE IF sc = "offline" /\ i = 4 THEN Silence
    ELSE IF sc = "lost" /\ i = 2 THEN noLocationPkt ELSE positionPkt({ZoneOrder[1]})

CheckCount(sc) ==
    CASE sc = "walk" -> Len(ZoneOrder) [] sc = "offline" -> 3 [] sc = "lost" -> 4

CheckAt(sc, t, i) ==
    CASE sc = "walk" -> zoneCheck(t, Some({ZoneOrder[i]}))
      [] sc = "offline" -> IF i = 1 THEN zoneCheck(t, Nil)
                           ELSE IF i = 2 THEN presenceCheck(t, "INACTIVE")
                           ELSE presenceCheck(t, "ACTIVE")
      [] sc = "lost" -> IF i = 1 THEN zoneCheck(t, Some({ZoneOrder[1]}))
                        ELSE IF i = 2 THEN presenceCheck(t, "INACTIVE")
                        ELSE IF i = 3 THEN presenceCheck(t, "ACTIVE")
                        ELSE zoneCheck(t, Nil)

Kinds == {"walk", "offline", "lost", "stress"}

\* Every scenario has a step.
LEMMA LengthType ==
    ASSUME NEW sc \in Kinds, NEW v \in BOOLEAN
    PROVE  Length(sc, v) \in Nat /\ Length(sc, v) >= 1
  BY OrderReads DEF Length, Kinds

\* Every scenario that is validated has a check.
LEMMA CountType ==
    ASSUME NEW sc \in Kinds \ {"stress"}
    PROVE  CheckCount(sc) \in Nat /\ CheckCount(sc) >= 1
  BY OrderReads DEF CheckCount, Kinds

\* A sequence and one more element.
LEMMA ConcatOne ==
    ASSUME NEW S, NEW p \in Seq(S), NEW a \in S
    PROVE  /\ Len(p) \in Nat /\ Len(p \o <<a>>) = Len(p) + 1 /\ DOMAIN (p \o <<a>>) = 1 .. Len(p) + 1
           /\ \A i \in 1 .. Len(p) : (p \o <<a>>)[i] = p[i]
           /\ (p \o <<a>>)[Len(p) + 1] = a
  <1>1. p \o <<a>> = Append(p, a)
    BY AppendIsConcat
  <1> DEFINE r == Append(p, a)
  <1>2. r = Append(p, a)
    OBVIOUS
  <1>4. r \in Seq(S)
    OBVIOUS
  <1> HIDE DEF r
  <1>3. /\ Len(p) \in Nat /\ \A i \in 1 .. Len(p) : r[i] = p[i]
        /\ Len(r) = Len(p) + 1 /\ r[Len(p) + 1] = a
    BY <1>2, AppendSeq
  <1>5. DOMAIN r = 1 .. Len(r)
    BY <1>4
  <1> QED
    BY <1>1, <1>2, <1>3, <1>5

\* What is sent, step by step.
LEMMA ProgramIs ==
    ASSUME scenario \in Kinds, validate \in BOOLEAN
    PROVE  /\ Len(Program) = Length(scenario, validate)
           /\ DOMAIN Program = 1 .. Length(scenario, validate)
           /\ \A i \in 1 .. Length(scenario, validate) : Program[i] = StepAt(scenario, i)
  <1> DEFINE A == ZoneA
             N == noLocationPkt
             S == Silence
  <1>0. A = positionPkt({ZoneOrder[1]})
    BY DEF ZoneA
  <1>1. CASE scenario = "walk"
    <2>1. Program = Walk
      BY <1>1 DEF Program
    <2>2. DOMAIN ZoneOrder = 1 .. Len(ZoneOrder) /\ Len(ZoneOrder) \in Nat
      BY OrderReads
    <2>3. /\ Len(Walk) = Len(ZoneOrder) /\ DOMAIN Walk = 1 .. Len(ZoneOrder)
          /\ \A i \in 1 .. Len(ZoneOrder) : Walk[i] = positionPkt({ZoneOrder[i]})
      BY <2>2 DEF Walk
    <2> QED
      BY <1>1, <2>1, <2>3 DEF Length, StepAt
  <1> HIDE DEF A, N, S
  <1>2. CASE scenario = "offline"
    <2>1. Program = <<A, A, A, S>> \o (IF validate THEN <<A>> ELSE <<>>)
      BY <1>2 DEF Program, Offline, A, S
    <2>2. CASE validate
      <3> DEFINE p == <<A, A, A, S>>
                 B == {A, S}
      <3>1. /\ p \in Seq(B) /\ Len(p) = 4 /\ A \in B
            /\ p[1] = A /\ p[2] = A /\ p[3] = A /\ p[4] = S
        OBVIOUS
      <3>3. Program = p \o <<A>>
        BY <2>1, <2>2
      <3> HIDE DEF p, B
      <3>4. /\ Len(Program) = Len(p) + 1 /\ DOMAIN Program = 1 .. Len(p) + 1
            /\ \A i \in 1 .. Len(p) : Program[i] = p[i]
            /\ Program[Len(p) + 1] = A
        <4>1. /\ Len(p \o <<A>>) = Len(p) + 1 /\ DOMAIN (p \o <<A>>) = 1 .. Len(p) + 1
              /\ \A i \in 1 .. Len(p) : (p \o <<A>>)[i] = p[i]
              /\ (p \o <<A>>)[Len(p) + 1] = A
          <5>1. p \in Seq(B) /\ A \in B
            BY <3>1
          <5> QED
            BY ONLY <5>1, ConcatOne
        <4> QED
          BY <3>3, <4>1
      <3>2. /\ Len(Program) = 5 /\ DOMAIN Program = 1 .. 5
            /\ Program[1] = A /\ Program[2] = A /\ Program[3] = A /\ Program[4] = S /\ Program[5] = A
        BY <3>1, <3>4
      <3> QED
        BY <1>0, <1>2, <2>2, <3>2 DEF Length, StepAt, S
    <2>3. CASE ~validate
      <3>1. Program = <<A, A, A, S>>
        BY <2>1, <2>3
      <3>2. /\ Len(Program) = 4 /\ DOMAIN Program = 1 .. 4
            /\ Program[1] = A /\ Program[2] = A /\ Program[3] = A /\ Program[4] = S
        BY <3>1
      <3> QED
        BY <1>0, <1>2, <2>3, <3>2 DEF Length, StepAt, S
    <2> QED
      BY <2>2, <2>3
  <1>3. CASE scenario = "lost"
    <2>1. Program = <<A, N>> \o (IF validate THEN <<A>> ELSE <<>>)
      BY <1>3 DEF Program, Lost, A, N
    <2>2. CASE validate
      <3> DEFINE p == <<A, N>>
                 B == {A, N}
      <3>1. p \in Seq(B) /\ Len(p) = 2 /\ A \in B /\ p[1] = A /\ p[2] = N
        OBVIOUS
      <3>3. Program = p \o <<A>>
        BY <2>1, <2>2
      <3> HIDE DEF p, B
      <3>4. /\ Len(Program) = Len(p) + 1 /\ DOMAIN Program = 1 .. Len(p) + 1
            /\ \A i \in 1 .. Len(p) : Program[i] = p[i]
            /\ Program[Len(p) + 1] = A
        <4>1. /\ Len(p \o <<A>>) = Len(p) + 1 /\ DOMAIN (p \o <<A>>) = 1 .. Len(p) + 1
              /\ \A i \in 1 .. Len(p) : (p \o <<A>>)[i] = p[i]
              /\ (p \o <<A>>)[Len(p) + 1] = A
          <5>1. p \in Seq(B) /\ A \in B
            BY <3>1
          <5> QED
            BY ONLY <5>1, ConcatOne
        <4> QED
          BY <3>3, <4>1
      <3>2. /\ Len(Program) = 3 /\ DOMAIN Program = 1 .. 3
            /\ Program[1] = A /\ Program[2] = N /\ Program[3] = A
        BY <3>1, <3>4
      <3> QED
        BY <1>0, <1>3, <2>2, <3>2 DEF Length, StepAt, N
    <2>3. CASE ~validate
      <3>1. Program = <<A, N>>
        BY <2>1, <2>3
      <3>2. Len(Program) = 2 /\ DOMAIN Program = 1 .. 2 /\ Program[1] = A /\ Program[2] = N
        BY <3>1
      <3> QED
        BY <1>0, <1>3, <2>3, <3>2 DEF Length, StepAt, N
    <2> QED
      BY <2>2, <2>3
  <1>4. CASE scenario = "stress"
    <2>1. Program = <<A>>
      BY <1>4 DEF Program, Stress, A
    <2> QED
      BY <1>0, <1>4, <2>1 DEF Length, StepAt
  <1> QED
    BY <1>1, <1>2, <1>3, <1>4 DEF Kinds

\* What is expected, check by check.
LEMMA ChecksAre ==
    ASSUME scenario \in Kinds, scenario # "stress", NEW t
    PROVE  /\ Len(Checks(t)) = CheckCount(scenario)
           /\ \A i \in 1 .. CheckCount(scenario) : Checks(t)[i] = CheckAt(scenario, t, i)
  <1>1. CASE scenario = "walk"
    <2>1. Checks(t) = WalkChecks(t)
      BY <1>1 DEF Checks
    <2>2. DOMAIN ZoneOrder = 1 .. Len(ZoneOrder) /\ Len(ZoneOrder) \in Nat
      BY OrderReads
    <2>3. /\ Len(WalkChecks(t)) = Len(ZoneOrder)
          /\ \A i \in 1 .. Len(ZoneOrder) : WalkChecks(t)[i] = zoneCheck(t, Some({ZoneOrder[i]}))
      BY <2>2 DEF WalkChecks
    <2> QED
      BY <1>1, <2>1, <2>3 DEF CheckCount, CheckAt
  <1> DEFINE Z == zoneCheck(t, Nil)
             F == zoneCheck(t, Some({ZoneOrder[1]}))
             I == presenceCheck(t, "INACTIVE")
             A == presenceCheck(t, "ACTIVE")
  <1>2. CASE scenario = "offline"
    <2>1. Checks(t) = <<Z, I, A>>
      BY <1>2 DEF Checks, OfflineChecks
    <2> HIDE DEF Z, I, A
    <2>2. Len(Checks(t)) = 3 /\ Checks(t)[1] = Z /\ Checks(t)[2] = I /\ Checks(t)[3] = A
      BY <2>1
    <2> QED
      BY <1>2, <2>2 DEF CheckCount, CheckAt, Z, I, A
  <1>3. CASE scenario = "lost"
    <2>1. Checks(t) = <<F, I, A, Z>>
      BY <1>3 DEF Checks, LostChecks
    <2> HIDE DEF F, Z, I, A
    <2>2. /\ Len(Checks(t)) = 4 /\ Checks(t)[1] = F /\ Checks(t)[2] = I
          /\ Checks(t)[3] = A /\ Checks(t)[4] = Z
      BY <2>1
    <2> QED
      BY <1>3, <2>2 DEF CheckCount, CheckAt, F, Z, I, A
  <1> QED
    BY <1>1, <1>2, <1>3 DEF Kinds

\* A step is a silence or one of the datagrams.
LEMMA StepCases ==
    ASSUME NEW sc \in Kinds, NEW v \in BOOLEAN, NEW i \in 1 .. Length(sc, v)
    PROVE  /\ StepAt(sc, i) # Silence => StepAt(sc, i) \in Packets
           /\ StepAt(sc, i) = Silence <=> sc = "offline" /\ i = 4
  <1> DEFINE first == positionPkt({ZoneOrder[1]})
  <1>1. /\ first # Silence /\ noLocationPkt # Silence
        /\ \A j \in 1 .. Len(ZoneOrder) : positionPkt({ZoneOrder[j]}) # Silence
    BY NoLocationReads, PositionReads, OrderReads DEF Silence, positionPkt, noLocationPkt
  <1>2. 1 \in 1 .. Len(ZoneOrder)
    BY OrderReads
  <1>3. first \in Packets /\ noLocationPkt \in Packets
    BY <1>2 DEF Packets
  <1>4. CASE sc = "walk"
    <2>1. i \in 1 .. Len(ZoneOrder) /\ StepAt(sc, i) = positionPkt({ZoneOrder[i]})
      BY <1>4 DEF Length, StepAt
    <2> HIDE DEF positionPkt
    <2>2. StepAt(sc, i) \in Packets
      BY <2>1 DEF Packets
    <2> QED
      BY <1>1, <1>4, <2>1, <2>2
  <1>5. CASE sc # "walk"
    <2>1. StepAt(sc, i) = IF sc = "offline" /\ i = 4 THEN Silence
                          ELSE IF sc = "lost" /\ i = 2 THEN noLocationPkt ELSE first
      BY <1>5 DEF StepAt
    <2> HIDE DEF first
    <2> QED
      BY <1>1, <1>3, <2>1
  <1> QED
    BY <1>4, <1>5

-----------------------------------------------------------------------------
(* What the steps of the core do, tag by tag.                              *)

\* No event is sent.
LEMMA SentNone ==
    ASSUME NEW t, NEW q \in Seq(OfTag(t)), NEW sp
    PROVE  q \o Sent(t, <<>>) = q /\ sp \cup TypesOf(<<>>) = sp
  <1> DEFINE none == <<>>
             D == OfTag(t)
  <1>1. DOMAIN none = {} /\ none = <<>>
    OBVIOUS
  <1> HIDE DEF none
  <1>2. TypesOf(none) = {}
    BY <1>1 DEF TypesOf
  <1>3. Sent(t, none) = <<>>
    BY <1>1 DEF Sent
  <1>4. q \in Seq(D)
    OBVIOUS
  <1> HIDE DEF D
  <1>5. q \o <<>> = q
    BY <1>4
  <1> QED
    BY <1>1, <1>2, <1>3, <1>5

\* A datagram of t.
LEMMA DatagramDoes ==
    ASSUME PipeInv, NEW t \in Tags, NEW msg \in Datagram, ReadDatagram(t, msg)
    PROVE  /\ last' = last
           /\ states'[t] = nextTagState(states[t], msg)
           /\ queue'[t] = queue[t] \o Sent(t, deriveEvents(states[t], msg))
           /\ spoke'[t] = spoke[t] \cup TypesOf(deriveEvents(states[t], msg))
           /\ \A u \in Tags : u # t => /\ states'[u] = states[u] /\ queue'[u] = queue[u]
                                       /\ spoke'[u] = spoke[u]
  <1> DEFINE evs == [u \in Tags |-> IF u = t THEN deriveEvents(states[t], msg) ELSE <<>>]
  <1>1. /\ states' = [states EXCEPT ![t] = nextTagState(states[t], msg)]
        /\ Send(evs) /\ last' = last
    BY DEF ReadDatagram, memVars
  <1>2. evs[t] = deriveEvents(states[t], msg) /\ \A u \in Tags : u # t => evs[u] = <<>>
    OBVIOUS
  <1> HIDE DEF evs
  <1>3. \A u \in Tags : /\ queue'[u] = queue[u] \o Sent(u, evs[u])
                        /\ spoke'[u] = spoke[u] \cup TypesOf(evs[u])
    BY <1>1, SendSteps
  <1>4. /\ states'[t] = nextTagState(states[t], msg)
        /\ \A u \in Tags : u # t => states'[u] = states[u]
    BY <1>1 DEF PipeInv, Total
  <1>5. ASSUME NEW u \in Tags, u # t PROVE queue'[u] = queue[u] /\ spoke'[u] = spoke[u]
    <2>1. queue[u] \in Seq(OfTag(u))
      BY TagOf
    <2>2. queue[u] \o Sent(u, <<>>) = queue[u] /\ spoke[u] \cup TypesOf(<<>>) = spoke[u]
      BY <2>1, SentNone
    <2> QED
      BY <1>2, <1>3, <1>5, <2>2
  <1> QED
    BY <1>1, <1>2, <1>3, <1>4, <1>5

\* A round of the watchdog.
LEMMA SweepDoes ==
    ASSUME PipeInv, Sweep
    PROVE  /\ last' = last
           /\ \A t \in Tags : /\ states'[t] = watchdogState(states[t])
                              /\ queue'[t] = queue[t] \o Sent(t, watchdogEvents(states[t]))
                              /\ spoke'[t] = spoke[t] \cup TypesOf(watchdogEvents(states[t]))
  <1> DEFINE evs == [t \in Tags |-> watchdogEvents(states[t])]
  <1>1. /\ states' = [t \in Tags |-> watchdogState(states[t])]
        /\ Send(evs) /\ last' = last
    BY DEF Sweep, memVars
  <1>2. \A t \in Tags : evs[t] = watchdogEvents(states[t])
    OBVIOUS
  <1> HIDE DEF evs
  <1>3. \A t \in Tags : /\ queue'[t] = queue[t] \o Sent(t, evs[t])
                        /\ spoke'[t] = spoke[t] \cup TypesOf(evs[t])
    BY <1>1, SendSteps
  <1> QED
    BY <1>1, <1>2, <1>3

\* Time.
LEMMA TickDoes ==
    ASSUME Tick
    PROVE  /\ \A t \in Tags : states'[t] = Elapse(states[t])
           /\ UNCHANGED <<queue, last, spoke>>
  BY DEF Tick, memVars

\* No memory is behind, but for an entry whose put is still to come: nothing has
\* failed, and the process has not stopped.
Untroubled ==
    \A t \in Tags : behind[t].cache = {} /\ (t \notin owed => behind[t].kv = {})

CoreInv ==
    PipeInv /\ Untroubled /\ \A t \in Tags : Clean(states[t], queue[t], last[t], spoke[t])

\* What that says of one tag.
LEMMA CoreTag ==
    ASSUME CoreInv, NEW t \in Tags
    PROVE  /\ CorePipe(t, states[t], queue[t], last[t], view[t], spoke[t])
           /\ Clean(states[t], queue[t], last[t], spoke[t])
           /\ queue[t] \in Seq(OfTag(t)) /\ DOMAIN last[t] = ChangeTypes
           /\ Doubt(t) = {} /\ DoubtOf(cache[t], behind[t]) = {}
  <1>1. /\ PipeInv /\ behind[t].cache = {} /\ (t \notin owed => behind[t].kv = {})
        /\ Clean(states[t], queue[t], last[t], spoke[t])
    BY DEF CoreInv, Untroubled
  <1>2. cache[t] # Nil \/ behind[t].kv = {}
    BY <1>1 DEF PipeInv
  <1>3. TagPipe(t, states[t], queue[t], cache[t], kv[t], last[t], view[t], spoke[t], behind[t])
    BY <1>1, TagOf
  <1>4. CorePipe(t, states[t], queue[t], last[t], view[t], spoke[t])
    BY <1>1, <1>2, <1>3, UntroubledTag
  <1>5. Doubt(t) = {} /\ DoubtOf(cache[t], behind[t]) = {}
    BY <1>1, <1>2 DEF Doubt, DoubtOf
  <1> QED
    BY <1>1, <1>4, <1>5 DEF CorePipe

\* A Write of t: either the event is published, or it repeats the record of its
\* subject.
LEMMA WriteDoes ==
    ASSUME CoreInv, NEW t \in Tags, Write(t)
    PROVE  \E ev \in Event :
             /\ queue[t] # <<>> /\ queue[t][1] = DomainEvent(t, ev) /\ Head(queue[t]) = DomainEvent(t, ev)
             /\ queue'[t] = Tail(queue[t]) /\ states' = states /\ spoke' = spoke
             /\ \A u \in Tags : u # t => queue'[u] = queue[u] /\ last'[u] = last[u]
             /\ \/ Published(t) /\ last'[t] = Publish(last[t], t, ev)
                \/ /\ ~Published(t) /\ last'[t] = last[t] /\ last[t][ev.type] # {}
                   /\ \A x \in last[t][ev.type] : Repeats(queue[t][1], unmarshal(x.data))
  <1> DEFINE found == Found(cache[t], kv[t])
             prev == OrZero(found, ZeroActorState)
  <1>2. /\ PipeInv /\ Sought(t, found, {}) /\ WriteWith(t, found, {})
    <2>1. PipeInv /\ DoubtOf(cache[t], behind[t]) = {} /\ Doubt(t) = {}
      BY CoreTag DEF CoreInv
    <2>2. getActorState(t) = found
      BY FoundIs
    <2> HIDE DEF found
    <2>3. WriteWith(t, found, {})
      BY <2>1, <2>2 DEF Write
    <2>4. found = Found(cache[t], kv[t])
      BY DEF found
    <2> QED
      BY <2>1, <2>3, <2>4 DEF Sought
  <1>3. /\ queue' = [queue EXCEPT ![t] = Tail(queue[t])] /\ UNCHANGED <<states, view, spoke>>
        /\ IF Unchanged(prev, Head(queue[t])) THEN last' = last ELSE OnStream(t, Head(queue[t]))
    BY <1>2 DEF WriteWith
  <1>4. HasEvent(t) /\ Total(queue) /\ Total(last)
    BY <1>2 DEF WriteWith, PipeInv
  <1>5. queue[t] \in Seq(OfTag(t))
    BY <1>2, TagOf
  <1>8. prev \in ActorState /\ Knows(prev, t, last[t], ChangeTypes)
    <2>1. Trusted({}) = ChangeTypes
      BY DEF Trusted
    <2> QED
      BY <1>2, <2>1, SoughtKnows
  <1>9. Published(t) <=> ~Unchanged(prev, Head(queue[t]))
    BY FoundIs DEF Published
  <1> HIDE DEF prev, found
  <1>1. PICK ev \in Event :
             /\ queue[t] # <<>> /\ Head(queue[t]) = DomainEvent(t, ev)
             /\ \/ Recalls(prev, ev) /\ ~Published(t) /\ last' = last
                \/ ~Recalls(prev, ev) /\ Published(t) /\ last' = [last EXCEPT ![t] = Publish(last[t], t, ev)]
    <2>1. PICK ev \in Event :
                /\ queue[t] # <<>> /\ Head(queue[t]) = DomainEvent(t, ev)
                /\ \A x \in ActorState : Unchanged(x, Head(queue[t])) <=> Recalls(x, ev)
                /\ OnStream(t, Head(queue[t])) => last' = [last EXCEPT ![t] = Publish(last[t], t, ev)]
      BY <1>2, <1>4, WithEvent
    <2> QED
      BY <1>3, <1>8, <1>9, <2>1
  <1>6. Head(queue[t]) = queue[t][1]
    BY <1>1, <1>5, TakeFirst
  <1>7. /\ queue'[t] = Tail(queue[t])
        /\ \A u \in Tags : u # t => queue'[u] = queue[u]
    BY <1>3, <1>4 DEF Total
  <1>10. CASE ~Recalls(prev, ev)
    <2>1. last'[t] = Publish(last[t], t, ev) /\ \A u \in Tags : u # t => last'[u] = last[u]
      BY <1>1, <1>4, <1>10 DEF Total
    <2> QED
      BY <1>1, <1>3, <1>6, <1>7, <1>10, <2>1
  <1>11. CASE Recalls(prev, ev)
    <2>1. last' = last
      BY <1>1, <1>11
    <2>2. ev.type \in ChangeTypes /\ Has(prev, ev.type)
      BY <1>8, <1>11, EventReads, RecallsSame
    <2>3. PICK b \in Event, n \in Ages : RecordIs(last[t], t, ev.type, b, n) /\ Recalls(prev, b)
      BY <1>8, <2>2 DEF Knows
    <2>4. b.type = ev.type
      BY <2>3 DEF RecordIs
    <2>5. Same(ev, b)
      BY <1>8, <1>11, <2>3, <2>4, RecallsSame
    <2>6. Repeats(DomainEvent(t, ev), DomainEvent(t, b))
      BY <2>4, <2>5, RepeatsSame
    <2>7. /\ last[t][ev.type] # {}
          /\ \A x \in last[t][ev.type] : unmarshal(x.data) = DomainEvent(t, b)
      <3> DEFINE d == marshal(DomainEvent(t, b))
      <3>1. unmarshal(d) = DomainEvent(t, b)
        BY RecordBack
      <3>2. last[t][ev.type] = {[data |-> d, age |-> n]}
        BY <2>3 DEF RecordIs, Some
      <3> HIDE DEF d
      <3> QED
        BY <3>1, <3>2
    <2>8. \A x \in last[t][ev.type] : Repeats(queue[t][1], unmarshal(x.data))
      BY <1>1, <1>6, <2>6, <2>7
    <2> QED
      BY <1>1, <1>3, <1>6, <1>7, <1>11, <2>1, <2>7, <2>8
  <1> QED
    BY <1>10, <1>11

\* What publishing does to the records.
LEMMA PublishReads ==
    ASSUME NEW t, NEW l, DOMAIN l = ChangeTypes, NEW ev \in Event
    PROVE  /\ \A k \in ChangeTypes : k # ev.type => Publish(l, t, ev)[k] = l[k]
           /\ \A x \in Publish(l, t, ev)[ev.type] :
                x.age = 0 /\ unmarshal(x.data) = DomainEvent(t, ev)
  <1>1. ev.type \in ChangeTypes
    BY EventReads
  <1>2. Publish(l, t, ev)[ev.type] = {[data |-> marshal(DomainEvent(t, ev)), age |-> 0]}
    BY <1>1 DEF Publish, Some
  <1>3. \A k \in ChangeTypes : k # ev.type => Publish(l, t, ev)[k] = l[k]
    BY DEF Publish
  <1> QED
    BY <1>2, <1>3, RecordBack

-----------------------------------------------------------------------------
(* What the simulators leave behind in the core, whatever they ran and     *)
(* wherever they stopped.                                                  *)

\* The invariant holds when the core starts.
LEMMA CoreInit == PipeInit => CoreInv
  <1> SUFFICES ASSUME PipeInit PROVE CoreInv
    OBVIOUS
  <1>1. PipeInv
    BY PipeInitInv
  <1>2. ASSUME NEW t \in Tags PROVE Clean(states[t], queue[t], last[t], spoke[t])
    <2> DEFINE none == <<>>
    <2>1. /\ states[t] = ZeroTagState /\ queue[t] = none /\ spoke[t] = {}
          /\ \A k \in ChangeTypes : last[t][k] = Nil
      BY DEF PipeInit, Fresh
    <2>2. Len(none) = 0
      OBVIOUS
    <2> HIDE DEF none
    <2> QED
      BY <2>1, <2>2 DEF Clean, Nil
  <1>3. Untroubled
    BY DEF PipeInit, Untroubled, UpToDate
  <1> QED
    BY <1>1, <1>2, <1>3 DEF CoreInv

\* What is behind stays the same when the memories do.
LEMMA UntroubledStays ==
    ASSUME CoreInv, UNCHANGED memVars
    PROVE  Untroubled'
  BY DEF CoreInv, Untroubled, memVars

\* Nothing happens in the core.
LEMMA CoreStays ==
    ASSUME CoreInv, UNCHANGED pipeVars
    PROVE  CoreInv'
  <1>1. UNCHANGED memVars /\ UNCHANGED <<states, queue, view, spoke>>
    BY DEF pipeVars
  <1>2. UNCHANGED <<cache, kv, owed, down, last, behind>>
    BY <1>1 DEF memVars
  <1>3. PipeInv'
    BY <1>1, <1>2 DEF CoreInv, PipeInv, Total
  <1>4. Untroubled'
    BY <1>1, UntroubledStays
  <1> QED
    BY <1>1, <1>2, <1>3, <1>4 DEF CoreInv

\* A datagram of the simulator.
LEMMA CoreDatagram ==
    ASSUME CoreInv, NEW t \in Tags, NEW msg \in Packets, ReadDatagram(t, msg)
    PROVE  CoreInv'
  <1>1. msg \in Datagram
    BY PacketCases
  <1>2. PipeInv /\ PipeInv'
    BY <1>1, ReadDatagramStep DEF CoreInv
  <1> DEFINE evs == deriveEvents(states[t], msg)
             new == nextTagState(states[t], msg)
  <1>3. /\ last' = last /\ states'[t] = new
        /\ queue'[t] = queue[t] \o Sent(t, evs) /\ spoke'[t] = spoke[t] \cup TypesOf(evs)
        /\ \A u \in Tags : u # t => /\ states'[u] = states[u] /\ queue'[u] = queue[u]
                                    /\ spoke'[u] = spoke[u]
    BY <1>1, <1>2, DatagramDoes
  <1>4. Clean(new, queue[t] \o Sent(t, evs), last[t], spoke[t] \cup TypesOf(evs))
    <2>1. CorePipe(t, states[t], queue[t], last[t], view[t], spoke[t])
      BY CoreTag
    <2>2. Clean(states[t], queue[t], last[t], spoke[t])
      BY CoreTag
    <2> QED
      BY <2>1, <2>2, CleanDatagram
  <1> HIDE DEF evs, new
  <1>5. ASSUME NEW u \in Tags PROVE Clean(states'[u], queue'[u], last'[u], spoke'[u])
    <2>1. CASE u = t
      BY <1>3, <1>4, <2>1
    <2>2. CASE u # t
      BY <1>3, <2>2 DEF CoreInv
    <2> QED
      BY <2>1, <2>2
  <1>6. Untroubled'
    BY UntroubledStays DEF ReadDatagram
  <1> QED
    BY <1>2, <1>5, <1>6 DEF CoreInv

\* A round of the watchdog.
LEMMA CoreSweep ==
    ASSUME CoreInv, Sweep
    PROVE  CoreInv'
  <1>1. PipeInv /\ PipeInv'
    BY SweepStep DEF CoreInv
  <1>2. ASSUME NEW t \in Tags PROVE Clean(states'[t], queue'[t], last'[t], spoke'[t])
    <2> DEFINE evs == watchdogEvents(states[t])
               new == watchdogState(states[t])
    <2>1. /\ last' = last /\ states'[t] = new
          /\ queue'[t] = queue[t] \o Sent(t, evs) /\ spoke'[t] = spoke[t] \cup TypesOf(evs)
      BY <1>1, SweepDoes
    <2>2. CorePipe(t, states[t], queue[t], last[t], view[t], spoke[t])
      BY CoreTag
    <2>3. Clean(states[t], queue[t], last[t], spoke[t])
      BY CoreTag
    <2>4. Clean(new, queue[t] \o Sent(t, evs), last[t], spoke[t] \cup TypesOf(evs))
      BY <2>2, <2>3, CleanSweep
    <2> HIDE DEF evs, new
    <2> QED
      BY <2>1, <2>4
  <1>3. Untroubled'
    BY UntroubledStays DEF Sweep
  <1> QED
    BY <1>1, <1>2, <1>3 DEF CoreInv

\* Time.
LEMMA CoreTick ==
    ASSUME CoreInv, Tick
    PROVE  CoreInv'
  <1>1. PipeInv /\ PipeInv'
    BY TickStep DEF CoreInv
  <1>2. ASSUME NEW t \in Tags PROVE Clean(states'[t], queue'[t], last'[t], spoke'[t])
    <2>1. states'[t] = Elapse(states[t]) /\ UNCHANGED <<queue, last, spoke>>
      BY TickDoes
    <2>2. states[t] \in tagState
      BY CoreTag DEF CorePipe
    <2>3. Clean(states[t], queue[t], last[t], spoke[t])
      BY DEF CoreInv
    <2>4. Clean(Elapse(states[t]), queue[t], last[t], spoke[t])
      BY <2>2, <2>3, CleanElapse
    <2> QED
      BY <2>1, <2>4
  <1>3. Untroubled'
    BY UntroubledStays DEF Tick
  <1> QED
    BY <1>1, <1>2, <1>3 DEF CoreInv

\* A Write leaves an entry to be put, or nothing.
LEMMA WriteUntroubled ==
    ASSUME CoreInv, NEW t \in Tags, Write(t)
    PROVE  Untroubled'
  <1>1. /\ PipeInv /\ Doubt(t) = {} /\ Total(behind)
        /\ \A u \in Tags : behind[u].cache = {} /\ (u \notin owed => behind[u].kv = {})
    BY CoreTag DEF CoreInv, Untroubled, PipeInv
  <1> DEFINE found == getActorState(t)
             e == Head(queue[t])
             x == behind[t]
  <1>2. /\ owed = {}
        /\ \/ /\ behind' = [behind EXCEPT ![t].cache = {}] /\ owed' = owed
           \/ /\ owed' = {t}
              /\ behind' = [behind EXCEPT ![t] = [cache |-> {} \ {e.type}, kv |-> x.kv \cup {e.type}]]
    BY <1>1 DEF Write, WriteWith, HasEvent
  <1>3. behind[t] \in Behind
    BY <1>1, TagOf
  <1>4. CASE behind' = [behind EXCEPT ![t].cache = {}] /\ owed' = owed
    <2>1. \A u \in Tags : behind'[u].cache = {} /\ behind'[u].kv = behind[u].kv
      BY <1>1, <1>3, <1>4 DEF Total, Behind
    <2> QED
      BY <1>1, <1>2, <1>4, <2>1 DEF Untroubled
  <1> HIDE DEF e, x
  <1>5. CASE /\ owed' = {t}
             /\ behind' = [behind EXCEPT ![t] = [cache |-> {} \ {e.type}, kv |-> x.kv \cup {e.type}]]
    <2>1. /\ behind'[t].cache = {} /\ \A u \in Tags : u # t => behind'[u] = behind[u]
      BY <1>1, <1>5 DEF Total
    <2> QED
      BY <1>1, <1>2, <1>5, <2>1 DEF Untroubled
  <1> QED
    BY <1>2, <1>4, <1>5

\* A Write.
LEMMA CoreWrite ==
    ASSUME CoreInv, NEW t \in Tags, Write(t)
    PROVE  CoreInv'
  <1>1. PipeInv /\ PipeInv'
    BY WriteStep DEF CoreInv
  <1>2. PICK ev \in Event :
             /\ queue[t] # <<>> /\ queue[t][1] = DomainEvent(t, ev)
             /\ queue'[t] = Tail(queue[t]) /\ states' = states /\ spoke' = spoke
             /\ \A u \in Tags : u # t => queue'[u] = queue[u] /\ last'[u] = last[u]
             /\ \/ Published(t) /\ last'[t] = Publish(last[t], t, ev)
                \/ /\ ~Published(t) /\ last'[t] = last[t] /\ last[t][ev.type] # {}
                   /\ \A x \in last[t][ev.type] : Repeats(queue[t][1], unmarshal(x.data))
    BY WriteDoes
  <1>3. queue[t] \in Seq(OfTag(t)) /\ DOMAIN last[t] = ChangeTypes
    BY CoreTag
  <1>4. queue[t][1].type = ev.type /\ ev.type \in ChangeTypes
    BY <1>2, EventReads
  <1>5. Clean(states[t], queue[t], last[t], spoke[t])
    BY DEF CoreInv
  <1> DEFINE l == last[t]
             n == last'[t]
             q == queue[t]
  <1>6. /\ \A k \in ChangeTypes : k # ev.type => n[k] = l[k]
        /\ \A x \in n[ev.type] : x.age = 0 /\ Repeats(q[1], unmarshal(x.data))
    <2>1. CASE n = Publish(l, t, ev)
      <3>1. /\ \A k \in ChangeTypes : k # ev.type => n[k] = l[k]
            /\ \A x \in n[ev.type] : x.age = 0 /\ unmarshal(x.data) = DomainEvent(t, ev)
        <4>1. DOMAIN l = ChangeTypes
          BY <1>3
        <4> HIDE DEF l, n, q
        <4> DEFINE p == Publish(l, t, ev)
        <4>2. /\ \A k \in ChangeTypes : k # ev.type => p[k] = l[k]
              /\ \A x \in p[ev.type] : x.age = 0 /\ unmarshal(x.data) = DomainEvent(t, ev)
          BY ONLY <4>1, PublishReads
        <4>3. n = p
          BY <2>1
        <4> HIDE DEF p
        <4> QED
          BY <4>2, <4>3
      <3>2. Repeats(DomainEvent(t, ev), DomainEvent(t, ev))
        BY DEF Repeats
      <3> QED
        BY <1>2, <3>1, <3>2
    <2>2. CASE n = l /\ \A x \in l[ev.type] : Repeats(q[1], unmarshal(x.data))
      <3>1. \A x \in l[ev.type] : x.age = 0
        BY <1>4, <1>5 DEF Clean
      <3> QED
        BY <2>2, <3>1
    <2> QED
      BY <1>2, <2>1, <2>2
  <1>7. \A i \in 1 .. Len(q) : q[i].type \in ChangeTypes
    <2> SUFFICES ASSUME NEW i \in 1 .. Len(q) PROVE q[i].type \in ChangeTypes
      OBVIOUS
    <2>1. q[i] \in OfTag(t)
      BY <1>3
    <2> QED
      BY <2>1, EventReads DEF OfTag
  <1>8. Clean(states[t], Tail(q), n, spoke[t])
    <2>1. q # <<>> /\ q[1].type = ev.type /\ q \in Seq(OfTag(t)) /\ Clean(states[t], q, l, spoke[t])
      BY <1>2, <1>3, <1>4, <1>5
    <2> HIDE DEF l, n, q
    <2> QED
      BY <1>6, <1>7, <2>1, CleanTake
  <1>9. ASSUME NEW u \in Tags PROVE Clean(states'[u], queue'[u], last'[u], spoke'[u])
    <2>1. CASE u = t
      BY <1>2, <1>8, <2>1
    <2>2. CASE u # t
      BY <1>2, <2>2 DEF CoreInv
    <2> QED
      BY <2>1, <2>2
  <1>10. Untroubled'
    BY WriteUntroubled
  <1> QED
    BY <1>1, <1>9, <1>10 DEF CoreInv

\* The put that a Write still owes changes nothing of that.
LEMMA PersistDoes ==
    ASSUME NEW t \in Tags, CorePersists(t)
    PROVE  /\ Persist(t) /\ UNCHANGED <<states, queue, last, spoke>>
           /\ UNCHANGED <<scenario, validate, starts, fresh>>
           /\ UNCHANGED <<sim, pos, phase, step, joined, feed, ch, excused, heard>>
  BY DEF CorePersists, Persist, netVars, simVars

LEMMA CorePersist ==
    ASSUME CoreInv, NEW t \in Tags, Persist(t)
    PROVE  CoreInv'
  <1>1. PipeInv /\ PipeInv'
    BY WriteStep DEF CoreInv
  <1>2. /\ Total(behind) /\ behind[t] \in Behind /\ owed \in {{}} \cup {{u} : u \in Tags}
        /\ \A u \in Tags : behind[u].cache = {} /\ (u \notin owed => behind[u].kv = {})
    BY <1>1, TagOf DEF CoreInv, Untroubled, PipeInv
  <1>3. /\ t \in owed /\ owed' = {} /\ behind' = [behind EXCEPT ![t].kv = behind[t].cache]
        /\ UNCHANGED <<states, queue, last, spoke>>
    BY DEF Persist
  <1>4. behind'[t].cache = {} /\ behind'[t].kv = {} /\ \A u \in Tags : u # t => behind'[u] = behind[u]
    BY <1>2, <1>3 DEF Total, Behind
  <1>5. \A u \in Tags : u # t => u \notin owed
    BY <1>2, <1>3
  <1>6. Untroubled'
    BY <1>2, <1>4, <1>5 DEF Untroubled
  <1>7. \A u \in Tags : Clean(states'[u], queue'[u], last'[u], spoke'[u])
    BY <1>3 DEF CoreInv
  <1> QED
    BY <1>1, <1>6, <1>7 DEF CoreInv

-----------------------------------------------------------------------------
(* The simulator's own state.                                              *)

SimTypes ==
    /\ scenario \in Scenarios /\ validate \in BOOLEAN
    /\ sim \in {"idle", "running", "passed", "failed", "stopped", "error"}
    /\ Total(pos) /\ \A t \in Tags : pos[t] \in 1 .. Length(scenario, validate) + 1
    /\ IF Validating THEN phase \in 1 .. Phases /\ step \in 1 .. CheckCount(scenario)
                     ELSE phase = 1 /\ step = 1
    /\ feed \in Seq(Messages) /\ ch \in Seq(Messages) /\ Len(ch) <= Buffer
    /\ joined \in BOOLEAN /\ excused \in BOOLEAN

\* What there is outside of a validation that has subscribed.
Idle ==
    /\ sim # "running" => ~joined /\ \A t \in Tags : pos[t] = 1
    /\ ~Validating => ~joined
    /\ ~joined => phase = 1 /\ step = 1 /\ feed = <<>> /\ ch = <<>>
    /\ sim = "running" /\ Validating /\ ~joined /\ ~excused => \A t \in Tags : pos[t] = 1

SimInv == CoreInv /\ SimTypes /\ Idle

\* The channel has room for one event.
LEMMA BufferIs == Buffer \in Nat /\ Buffer >= 1
  <1>1. Buffer \in Nat /\ Buffer # 0
    BY Order, Zenon
  <1> QED
    BY <1>1

\* What the constants have to do with it.
LEMMA Scenario ==
    ASSUME SimTypes
    PROVE  /\ scenario \in Kinds /\ (Validating => scenario \in Kinds \ {"stress"})
           /\ Length(scenario, validate) \in Nat /\ Length(scenario, validate) >= 1
           /\ Phases \in Nat /\ Phases >= 1 /\ Phases <= Len(TagOrder)
  <1>1. scenario \in Kinds /\ validate \in BOOLEAN
    BY Order DEF SimTypes, Kinds
  <1>2. Validating => scenario # "stress"
    BY DEF Validating
  <1>3. Len(TagOrder) \in Nat /\ Len(TagOrder) >= 1
    BY OrderReads
  <1>4. Phases \in Nat /\ Phases >= 1 /\ Phases <= Len(TagOrder)
    BY <1>3 DEF Phases
  <1> QED
    BY <1>1, <1>2, <1>4, LengthType

\* The simulator ends.
LEMMA EndKeeps ==
    ASSUME SimTypes, UNCHANGED <<scenario, validate>>, excused' \in BOOLEAN,
           NEW how \in {"passed", "failed", "stopped", "error"}, End(how)
    PROVE  SimTypes' /\ Idle'
  <1> DEFINE none == <<>>
  <1>1. /\ sim' = how /\ pos' = [t \in Tags |-> 1] /\ phase' = 1 /\ step' = 1
        /\ joined' = FALSE /\ feed' = none /\ ch' = none
    BY DEF End
  <1>2. none \in Seq(Messages) /\ Len(none) = 0 /\ none = <<>>
    OBVIOUS
  <1> HIDE DEF none
  <1>3. /\ Phases >= 1 /\ Phases \in Nat /\ (Validating => scenario \in Kinds \ {"stress"})
        /\ Length(scenario, validate) \in Nat
    BY Scenario
  <1>4. Validating' = Validating /\ Phases' = Phases
    BY DEF Validating, Phases
  <1>5. Validating => CheckCount(scenario) \in Nat /\ CheckCount(scenario) >= 1
    BY <1>3, CountType
  <1>6. Buffer >= 0
    BY BufferIs
  <1>7. Total(pos') /\ \A t \in Tags : pos'[t] = 1 /\ pos'[t] \in 1 .. Length(scenario, validate) + 1
    BY <1>1, <1>3 DEF Total
  <1>8. SimTypes'
    <2>1. IF Validating' THEN phase' \in 1 .. Phases' /\ step' \in 1 .. CheckCount(scenario')
                         ELSE phase' = 1 /\ step' = 1
      BY <1>1, <1>3, <1>4, <1>5
    <2> QED
      BY <1>1, <1>2, <1>6, <1>7, <2>1 DEF SimTypes
  <1>9. Idle'
    BY <1>1, <1>2, <1>7 DEF Idle
  <1> QED
    BY <1>8, <1>9

\* A sender goes on.
LEMMA AdvanceKeeps ==
    ASSUME SimTypes, NEW t \in Tags, pos[t] <= Length(scenario, validate), Advance(t)
    PROVE  /\ Total(pos') /\ \A u \in Tags : u # t => pos'[u] = pos[u]
           /\ pos'[t] \in 1 .. Length(scenario, validate) + 1
           /\ Validating => pos'[t] = pos[t] + 1
  <1>1. Total(pos) /\ pos[t] \in 1 .. Length(scenario, validate) + 1
    BY DEF SimTypes
  <1>2. Length(scenario, validate) \in Nat /\ Length(scenario, validate) >= 1
    BY Scenario
  <1> DEFINE x == IF ~Validating /\ pos[t] = Len(Program) THEN 1 ELSE pos[t] + 1
  <1>3. x \in 1 .. Length(scenario, validate) + 1 /\ (Validating => x = pos[t] + 1)
    BY <1>1, <1>2
  <1>4. pos' = [pos EXCEPT ![t] = x]
    BY DEF Advance
  <1> HIDE DEF x
  <1> QED
    BY <1>1, <1>3, <1>4 DEF Total

\* Nothing changes that a step of the core does not change.
LEMMA CoreStepKeeps ==
    ASSUME SimTypes, Idle, UNCHANGED <<scenario, validate, sim, pos, phase, step, joined, ch>>,
           excused' \in BOOLEAN, excused => excused', feed' \in Seq(Messages),
           ~joined => feed' = feed
    PROVE  SimTypes' /\ Idle'
  <1>1. SimTypes'
    BY DEF SimTypes, Validating, Phases, Total
  <1>2. Idle'
    BY DEF Idle, SimTypes, Validating
  <1> QED
    BY <1>1, <1>2

\* A simulator starts.
LEMMA StartKeeps ==
    ASSUME SimInv, NEW sc \in Scenarios, NEW v \in BOOLEAN, Start(sc, v)
    PROVE  SimTypes' /\ Idle'
  <1>1. /\ sim # "running" /\ sim' = "running" /\ scenario' = sc /\ validate' = v /\ excused' = FALSE
        /\ pos' = pos /\ phase' = phase /\ step' = step /\ joined' = joined /\ feed' = feed /\ ch' = ch
    BY DEF Start, runVars
  <1>2. /\ Total(pos) /\ \A t \in Tags : pos[t] = 1
        /\ ~joined /\ joined \in BOOLEAN /\ phase = 1 /\ step = 1 /\ feed = <<>> /\ ch = <<>>
    BY <1>1 DEF SimInv, Idle, SimTypes
  <1>3. sc \in Kinds /\ Length(sc, v) \in Nat /\ Length(sc, v) >= 1
    BY Order, LengthType DEF Kinds
  <1>4. Validating' => scenario' \in Kinds \ {"stress"}
    BY <1>1, <1>3 DEF Validating
  <1>5. Validating' => CheckCount(scenario') \in Nat /\ CheckCount(scenario') >= 1
    BY <1>4, CountType
  <1>6. Phases' \in Nat /\ Phases' >= 1
    BY OrderReads DEF Phases
  <1>7. SimTypes'
    <2>1. IF Validating' THEN phase' \in 1 .. Phases' /\ step' \in 1 .. CheckCount(scenario')
                         ELSE phase' = 1 /\ step' = 1
      BY <1>1, <1>2, <1>5, <1>6
    <2>2. Total(pos') /\ \A t \in Tags : pos'[t] \in 1 .. Length(scenario', validate') + 1
      BY <1>1, <1>2, <1>3
    <2>3. feed' \in Seq(Messages) /\ ch' \in Seq(Messages) /\ Len(ch') <= Buffer
      BY <1>1 DEF SimInv, SimTypes
    <2> QED
      BY <1>1, <1>2, <2>1, <2>2, <2>3 DEF SimTypes
  <1>8. Idle'
    BY <1>1, <1>2 DEF Idle
  <1> QED
    BY <1>7, <1>8

\* The subscription begins.
LEMMA JoinKeeps ==
    ASSUME SimInv, Join
    PROVE  SimTypes' /\ Idle'
  <1>1. /\ sim = "running" /\ Validating /\ joined' = TRUE
        /\ feed' \in {SnapshotSeq("ZONE") \o SnapshotSeq("PRESENCE"),
                      SnapshotSeq("PRESENCE") \o SnapshotSeq("ZONE")}
        /\ UNCHANGED <<scenario, validate, sim, pos, phase, step, ch, excused>>
    BY DEF Join, netVars
  <1> DEFINE a == SnapshotSeq("ZONE")
             b == SnapshotSeq("PRESENCE")
  <1>2. a \in Seq(Messages) /\ b \in Seq(Messages)
    BY SnapshotSeqReads DEF SimInv, CoreInv, ChangeTypes
  <1>3. feed' \in {a \o b, b \o a}
    BY <1>1
  <1> HIDE DEF a, b
  <1>4. a \o b \in Seq(Messages) /\ b \o a \in Seq(Messages)
    BY <1>2
  <1>5. feed' \in Seq(Messages)
    BY <1>3, <1>4
  <1>6. SimTypes'
    BY <1>1, <1>5 DEF SimInv, SimTypes, Validating, Phases, Total
  <1>7. Idle'
    BY <1>1 DEF SimInv, Idle, Validating
  <1> QED
    BY <1>6, <1>7

\* A sender goes on, whether its datagram arrives or not.
LEMMA SenderKeeps ==
    ASSUME SimTypes, Idle, NEW t \in Tags, sim = "running", pos[t] <= Length(scenario, validate),
           Advance(t), UNCHANGED <<scenario, validate, sim, phase, step, joined, feed, ch>>,
           excused' \in BOOLEAN, Validating /\ ~joined => excused'
    PROVE  SimTypes' /\ Idle'
  <1>1. /\ Total(pos') /\ \A u \in Tags : u # t => pos'[u] = pos[u]
        /\ pos'[t] \in 1 .. Length(scenario, validate) + 1
    BY AdvanceKeeps
  <1>2. \A u \in Tags : pos'[u] \in 1 .. Length(scenario', validate') + 1
    <2> SUFFICES ASSUME NEW u \in Tags PROVE pos'[u] \in 1 .. Length(scenario, validate) + 1
      OBVIOUS
    <2>1. pos[u] \in 1 .. Length(scenario, validate) + 1
      BY DEF SimTypes
    <2> QED
      BY <1>1, <2>1
  <1>3. Validating' = Validating /\ Phases' = Phases
    BY DEF Validating, Phases
  <1>4. SimTypes'
    BY <1>1, <1>2, <1>3 DEF SimTypes
  <1>5. Idle'
    BY <1>3 DEF Idle
  <1> QED
    BY <1>4, <1>5

\* In a scenario whose steps are at hand.
LEMMA SendingReads ==
    ASSUME SimTypes, NEW t \in Tags, pos[t] <= Len(Program)
    PROVE  /\ Len(Program) = Length(scenario, validate) /\ pos[t] \in 1 .. Length(scenario, validate)
           /\ Program[pos[t]] = StepAt(scenario, pos[t])
           /\ Program[pos[t]] # Silence => Program[pos[t]] \in Packets
           /\ Program[pos[t]] = Silence <=> scenario = "offline" /\ pos[t] = 4
  <1>1. scenario \in Kinds /\ validate \in BOOLEAN
    BY Scenario DEF SimTypes
  <1>2. /\ Len(Program) = Length(scenario, validate)
        /\ \A i \in 1 .. Length(scenario, validate) : Program[i] = StepAt(scenario, i)
    BY <1>1, ProgramIs
  <1>3. pos[t] \in 1 .. Length(scenario, validate)
    <2>1. pos[t] \in 1 .. Length(scenario, validate) + 1
      BY DEF SimTypes
    <2>2. Length(scenario, validate) \in Nat
      BY Scenario
    <2> QED
      BY <1>2, <2>1, <2>2
  <1> QED
    BY <1>1, <1>2, <1>3, StepCases

\* An event is received.
LEMMA ReceiveKeeps ==
    ASSUME SimInv, NEW i \in DOMAIN feed, Receive(i)
    PROVE  SimTypes' /\ Idle'
  <1>1. /\ feed' = RemoveAt(feed, i)
        /\ ch' = IF Len(ch) < Buffer THEN Append(ch, feed[i]) ELSE ch
        /\ excused' = (excused \/ i > 1 \/ Len(ch) = Buffer)
        /\ UNCHANGED <<scenario, validate, sim, pos, phase, step, joined>>
    BY DEF Receive, netVars
  <1>2. feed \in Seq(Messages) /\ ch \in Seq(Messages) /\ Len(ch) <= Buffer
    BY DEF SimInv, SimTypes
  <1>3. i \in 1 .. Len(feed) /\ feed[i] \in Messages /\ feed # <<>> /\ Len(ch) \in Nat
    BY <1>2
  <1>4. feed' \in Seq(Messages)
    BY <1>1, <1>2, <1>3, RemoveAtReads
  <1>5. ch' \in Seq(Messages) /\ Len(ch') <= Buffer
    <2>1. Buffer \in Nat
      BY BufferIs
    <2> DEFINE m == feed[i]
    <2>2. m \in Messages /\ ch' = IF Len(ch) < Buffer THEN Append(ch, m) ELSE ch
      BY <1>1, <1>3
    <2> HIDE DEF m
    <2>3. Append(ch, m) \in Seq(Messages) /\ Len(Append(ch, m)) = Len(ch) + 1
      BY <1>2, <2>2, AppendSeq
    <2> QED
      BY <1>2, <1>3, <2>1, <2>2, <2>3
  <1>6. joined
    BY <1>3 DEF SimInv, Idle
  <1>7. SimTypes'
    BY <1>1, <1>4, <1>5 DEF SimInv, SimTypes, Validating, Phases, Total
  <1>8. Idle'
    BY <1>1, <1>6 DEF SimInv, Idle, Validating
  <1> QED
    BY <1>7, <1>8

\* waitForCheck takes a message.
LEMMA CheckKeeps ==
    ASSUME SimInv, waitForCheck
    PROVE  SimTypes' /\ Idle'
  <1> DEFINE matched == Matches(Checks(TagOrder[phase])[step], Head(ch))
  <1>1. /\ Checking /\ ch # <<>>
        /\ IF matched /\ LastCheck
             THEN End("passed")
             ELSE /\ ch' = Tail(ch) /\ UNCHANGED <<sim, pos, joined, feed>>
                  /\ IF matched THEN NextCheck ELSE UNCHANGED <<phase, step>>
        /\ excused' = (excused \/ (~matched /\ ForLater(Head(ch))))
        /\ UNCHANGED <<scenario, validate>>
    BY DEF waitForCheck, netVars
  <1>2. Validating /\ sim = "running" /\ joined /\ SimTypes /\ Idle
    BY <1>1 DEF Checking, SimInv, Idle
  <1>3. excused' \in BOOLEAN
    BY <1>1
  <1> HIDE DEF matched
  <1>4. CASE matched /\ LastCheck
    BY <1>1, <1>2, <1>3, <1>4, EndKeeps
  <1>5. CASE ~(matched /\ LastCheck)
    <2>1. Tail(ch) \in Seq(Messages) /\ Len(Tail(ch)) <= Buffer
      <3>1. ch \in Seq(Messages) /\ Len(ch) <= Buffer /\ ch # <<>> /\ Buffer \in Nat
        BY <1>1, <1>2, BufferIs DEF SimTypes
      <3> QED
        BY <3>1, TakeFirst
    <2>2. /\ Phases \in Nat /\ phase \in 1 .. Phases /\ step \in 1 .. CheckCount(scenario)
          /\ scenario \in Kinds \ {"stress"}
      BY <1>2, Scenario DEF SimTypes
    <2>3. CheckCount(scenario) \in Nat /\ CheckCount(scenario) >= 1
      BY <2>2, CountType
    <2>4. Len(Checks(TagOrder[phase])) = CheckCount(scenario)
      BY <2>2, ChecksAre
    <2>5. Validating' = Validating /\ Phases' = Phases
      BY <1>1 DEF Validating, Phases
    <2>6. phase' \in 1 .. Phases /\ step' \in 1 .. CheckCount(scenario)
      <3>1. CASE ~matched
        BY <1>1, <2>2, <3>1
      <3>2. CASE matched
        <4>1. NextCheck /\ ~LastCheck
          BY <1>1, <1>5, <3>2
        <4>2. CASE step < CheckCount(scenario)
          BY <2>2, <2>3, <2>4, <4>1, <4>2 DEF NextCheck
        <4>3. CASE ~(step < CheckCount(scenario))
          <5>1. step = CheckCount(scenario)
            BY <2>2, <2>3, <4>3
          <5>2. phase # Phases
            BY <2>4, <4>1, <5>1 DEF LastCheck
          <5>3. step' = 1 /\ phase' = phase + 1
            BY <2>4, <4>1, <4>3 DEF NextCheck
          <5> QED
            BY <2>2, <2>3, <5>2, <5>3
        <4> QED
          BY <4>2, <4>3
      <3> QED
        BY <3>1, <3>2
    <2>7. ch' = Tail(ch) /\ UNCHANGED <<sim, pos, joined, feed>>
      BY <1>1, <1>5
    <2>8. SimTypes'
      BY <1>1, <1>2, <1>3, <2>1, <2>5, <2>6, <2>7 DEF SimTypes, Total
    <2>9. Idle'
      BY <1>1, <1>2, <2>5, <2>7 DEF Idle
    <2> QED
      BY <2>8, <2>9
  <1> QED
    BY <1>4, <1>5

-----------------------------------------------------------------------------
(* Every step keeps the invariant.                                         *)

\* The invariant holds at the beginning.
LEMMA InitKeeps == SimInit => SimInv
  <1> SUFFICES ASSUME SimInit PROVE SimInv
    OBVIOUS
  <1> DEFINE none == <<>>
  <1>1. /\ PipeInit /\ scenario \in Scenarios /\ validate \in BOOLEAN
        /\ sim = "idle" /\ pos = [t \in Tags |-> 1] /\ phase = 1 /\ step = 1
        /\ joined = FALSE /\ feed = none /\ ch = none /\ excused = FALSE
    BY DEF SimInit
  <1>2. none \in Seq(Messages) /\ Len(none) = 0 /\ none = <<>>
    OBVIOUS
  <1> HIDE DEF none
  <1>3. CoreInv
    BY <1>1, CoreInit
  <1>4. scenario \in Kinds /\ (Validating => scenario \in Kinds \ {"stress"})
    BY <1>1, Order DEF Kinds, Validating
  <1>5. /\ Length(scenario, validate) \in Nat /\ Length(scenario, validate) >= 1
        /\ Phases \in Nat /\ Phases >= 1
        /\ Validating => CheckCount(scenario) \in Nat /\ CheckCount(scenario) >= 1
    BY <1>1, <1>4, LengthType, CountType, OrderReads DEF Phases
  <1>6. Total(pos) /\ \A t \in Tags : pos[t] = 1 /\ pos[t] \in 1 .. Length(scenario, validate) + 1
    BY <1>1, <1>5 DEF Total
  <1>7. Buffer >= 0
    BY BufferIs
  <1>8. SimTypes
    <2>1. IF Validating THEN phase \in 1 .. Phases /\ step \in 1 .. CheckCount(scenario)
                        ELSE phase = 1 /\ step = 1
      BY <1>1, <1>5
    <2> QED
      BY <1>1, <1>2, <1>6, <1>7, <2>1 DEF SimTypes
  <1>9. Idle
    BY <1>1, <1>2, <1>6 DEF Idle
  <1> QED
    BY <1>3, <1>8, <1>9 DEF SimInv

\* A datagram that arrives.
LEMMA EmitKeeps ==
    ASSUME SimInv, NEW t \in Tags, Emit(t)
    PROVE  /\ SimInv' /\ Program[pos[t]] \in Packets
           /\ ReadDatagram(t, Program[pos[t]])
  <1>1. /\ sim = "running" /\ pos[t] <= Len(Program) /\ Program[pos[t]] # Silence
        /\ ReadDatagram(t, Program[pos[t]]) /\ Advance(t)
        /\ excused' = (excused \/ (Validating /\ ~joined))
        /\ UNCHANGED <<scenario, validate, sim, phase, step, joined, feed, ch>>
    BY DEF Emit, Sending, netVars
  <1>2. SimTypes /\ Idle /\ CoreInv
    BY DEF SimInv
  <1>3. Program[pos[t]] \in Packets /\ pos[t] <= Length(scenario, validate)
    BY <1>1, <1>2, SendingReads
  <1>4. CoreInv'
    BY <1>1, <1>2, <1>3, CoreDatagram
  <1>5. SimTypes' /\ Idle'
    BY <1>1, <1>2, <1>3, SenderKeeps
  <1> QED
    BY <1>1, <1>3, <1>4, <1>5 DEF SimInv

\* One that does not.
LEMMA EmitLostKeeps ==
    ASSUME SimInv, NEW t \in Tags, EmitLost(t)
    PROVE  SimInv'
  <1>1. /\ sim = "running" /\ pos[t] <= Len(Program) /\ Advance(t) /\ excused' = TRUE
        /\ UNCHANGED <<scenario, validate, sim, phase, step, joined, feed, ch>>
        /\ UNCHANGED pipeVars
    BY DEF EmitLost, Sending, netVars
  <1>2. SimTypes /\ Idle /\ CoreInv
    BY DEF SimInv
  <1>3. pos[t] <= Length(scenario, validate)
    BY <1>1, <1>2, SendingReads
  <1>4. CoreInv'
    BY <1>1, <1>2, CoreStays
  <1>5. SimTypes' /\ Idle'
    BY <1>1, <1>2, <1>3, SenderKeeps
  <1> QED
    BY <1>4, <1>5 DEF SimInv

\* The end of a silence.
LEMMA ResumeKeeps ==
    ASSUME SimInv, NEW t \in Tags, Resume(t)
    PROVE  SimInv'
  <1>1. /\ sim = "running" /\ pos[t] <= Len(Program) /\ Program[pos[t]] = Silence /\ Advance(t)
        /\ UNCHANGED <<scenario, validate, sim, phase, step, joined, feed, ch, excused>>
        /\ UNCHANGED pipeVars
    BY DEF Resume, netVars
  <1>2. SimTypes /\ Idle /\ CoreInv
    BY DEF SimInv
  <1>3. pos[t] <= Length(scenario, validate) /\ pos[t] = 4
    BY <1>1, <1>2, SendingReads
  <1>4. CoreInv'
    BY <1>1, <1>2, CoreStays
  <1>5. excused' \in BOOLEAN /\ (Validating /\ ~joined => excused')
    BY <1>1, <1>2, <1>3 DEF Idle, SimTypes
  <1>6. SimTypes' /\ Idle'
    BY <1>1, <1>2, <1>3, <1>5, SenderKeeps
  <1> QED
    BY <1>4, <1>6 DEF SimInv

\* A Write, and what the consumer pushes.
LEMMA CoreWritesKeeps ==
    ASSUME SimInv, NEW t \in Tags, CoreWrites(t)
    PROVE  SimInv'
  <1>1. /\ Write(t)
        /\ feed' = IF joined /\ Published(t)
                     THEN Append(feed, domainEventToPb(unmarshal(marshal(Head(queue[t])))))
                     ELSE feed
        /\ UNCHANGED <<scenario, validate, sim, pos, phase, step, joined, ch, excused>>
    BY DEF CoreWrites, netVars
  <1>2. SimTypes /\ Idle /\ CoreInv /\ PipeInv
    BY DEF SimInv, CoreInv
  <1>3. CoreInv'
    BY <1>1, <1>2, CoreWrite
  <1>4. PICK ev \in Event : Head(queue[t]) = DomainEvent(t, ev)
    BY <1>1, <1>2, WriteDoes
  <1> DEFINE m == domainEventToPb(unmarshal(marshal(Head(queue[t]))))
  <1>5. m = domainEventToPb(DomainEvent(t, ev))
    BY <1>4, RecordBack
  <1>6. m \in Messages
    BY <1>5 DEF Messages
  <1>7. feed' = IF joined /\ Published(t) THEN Append(feed, m) ELSE feed
    BY <1>1
  <1> HIDE DEF m
  <1>8. feed \in Seq(Messages) /\ Append(feed, m) \in Seq(Messages)
    BY <1>2, <1>6 DEF SimTypes
  <1>9. feed' \in Seq(Messages) /\ (~joined => feed' = feed)
    BY <1>7, <1>8
  <1>10. excused' \in BOOLEAN
    BY <1>1, <1>2 DEF SimTypes
  <1>11. SimTypes' /\ Idle'
    BY <1>1, <1>2, <1>9, <1>10, CoreStepKeeps
  <1> QED
    BY <1>3, <1>11 DEF SimInv

\* Every step.
LEMMA NextKeeps ==
    ASSUME SimInv, [SimNext]_allVars
    PROVE  SimInv'
  <1>0. SimTypes /\ Idle /\ CoreInv
    BY DEF SimInv
  <1>1. ASSUME NEW sc \in Scenarios, NEW v \in BOOLEAN, Start(sc, v) PROVE SimInv'
    <2>1. UNCHANGED pipeVars
      BY <1>1 DEF Start
    <2> QED
      BY <1>0, <1>1, <2>1, StartKeeps, CoreStays DEF SimInv
  <1>2. CASE SubscribeFails
    <2>1. UNCHANGED pipeVars /\ UNCHANGED <<scenario, validate>> /\ excused' = excused /\ End("error")
      BY <1>2 DEF SubscribeFails, netVars
    <2>2. excused' \in BOOLEAN
      BY <1>0, <2>1 DEF SimTypes
    <2> QED
      BY <1>0, <2>1, <2>2, EndKeeps, CoreStays DEF SimInv
  <1>3. CASE Join
    <2>1. UNCHANGED pipeVars
      BY <1>3 DEF Join
    <2> QED
      BY <1>0, <1>3, <2>1, JoinKeeps, CoreStays DEF SimInv
  <1>4. CASE waitForCheck
    <2>1. UNCHANGED pipeVars
      BY <1>4 DEF waitForCheck
    <2> QED
      BY <1>0, <1>4, <2>1, CheckKeeps, CoreStays DEF SimInv
  <1>5. CASE Timeout
    <2>1. UNCHANGED pipeVars /\ UNCHANGED <<scenario, validate>> /\ excused' = excused /\ End("failed")
      BY <1>5 DEF Timeout, netVars
    <2>2. excused' \in BOOLEAN
      BY <1>0, <2>1 DEF SimTypes
    <2> QED
      BY <1>0, <2>1, <2>2, EndKeeps, CoreStays DEF SimInv
  <1>6. CASE StreamCloses
    <2>1. UNCHANGED pipeVars /\ UNCHANGED <<scenario, validate>> /\ excused' = TRUE /\ End("failed")
      BY <1>6 DEF StreamCloses, netVars
    <2> QED
      BY <1>0, <2>1, EndKeeps, CoreStays DEF SimInv
  <1>7. CASE Interrupt
    <2> DEFINE how == IF Validating THEN "failed" ELSE "stopped"
    <2>1. UNCHANGED pipeVars /\ UNCHANGED <<scenario, validate>> /\ excused' = TRUE /\ End(how)
      BY <1>7 DEF Interrupt, netVars
    <2>2. how \in {"passed", "failed", "stopped", "error"}
      OBVIOUS
    <2> HIDE DEF how
    <2> QED
      BY <1>0, <2>1, <2>2, EndKeeps, CoreStays DEF SimInv
  <1>8. ASSUME NEW i \in DOMAIN feed, Receive(i) PROVE SimInv'
    <2>1. UNCHANGED pipeVars
      BY <1>8 DEF Receive
    <2> QED
      BY <1>0, <1>8, <2>1, ReceiveKeeps, CoreStays DEF SimInv
  <1>9. ASSUME NEW t \in Tags, Emit(t) \/ EmitLost(t) \/ Resume(t) \/ CoreWrites(t) PROVE SimInv'
    BY <1>9, EmitKeeps, EmitLostKeeps, ResumeKeeps, CoreWritesKeeps
  <1>10. CASE TimePasses
    <2>1. /\ Tick /\ UNCHANGED <<scenario, validate, sim, pos, phase, step, joined, feed, ch, excused>>
      BY <1>10 DEF TimePasses, netVars, simVars
    <2>2. excused' \in BOOLEAN /\ feed' \in Seq(Messages)
      BY <1>0, <2>1 DEF SimTypes
    <2> QED
      BY <1>0, <2>1, <2>2, CoreTick, CoreStepKeeps DEF SimInv
  <1>11. CASE WatchdogSweep
    <2>1. /\ Sweep /\ UNCHANGED <<scenario, validate, sim, pos, phase, step, joined, feed, ch, excused>>
      BY <1>11 DEF WatchdogSweep, netVars
    <2>2. excused' \in BOOLEAN /\ feed' \in Seq(Messages)
      BY <1>0, <2>1 DEF SimTypes
    <2> QED
      BY <1>0, <2>1, <2>2, CoreSweep, CoreStepKeeps DEF SimInv
  <1>12. CASE UNCHANGED allVars
    <2>1. UNCHANGED pipeVars
          /\ UNCHANGED <<scenario, validate, sim, pos, phase, step, joined, feed, ch, excused>>
      BY <1>12 DEF allVars, netVars, simVars
    <2>2. excused' \in BOOLEAN /\ feed' \in Seq(Messages)
      BY <1>0, <2>1 DEF SimTypes
    <2> QED
      BY <1>0, <2>1, <2>2, CoreStays, CoreStepKeeps DEF SimInv
  <1>13. ASSUME NEW t \in Tags, CorePersists(t) PROVE SimInv'
    <2>1. /\ Persist(t)
          /\ UNCHANGED <<scenario, validate, sim, pos, phase, step, joined, feed, ch, excused>>
      BY <1>13, PersistDoes
    <2>2. excused' \in BOOLEAN /\ feed' \in Seq(Messages)
      BY <1>0, <2>1 DEF SimTypes
    <2> QED
      BY <1>0, <2>1, <2>2, CorePersist, CoreStepKeeps DEF SimInv
  <1> QED
    BY <1>1, <1>2, <1>3, <1>4, <1>5, <1>6, <1>7, <1>8, <1>9, <1>10, <1>11, <1>12, <1>13 DEF SimNext

\* The invariant: what the core keeps whatever datagrams arrive, what
\* simulators in particular leave in it, and what there is of a simulator that
\* does not run or has not subscribed.
THEOREM SimInductive == SimSpec => []SimInv
  <1>1. SimInit => SimInv
    BY InitKeeps
  <1>2. SimInv /\ [SimNext]_allVars => SimInv'
    BY NextKeeps
  <1> QED
    BY <1>1, <1>2, PTL DEF SimSpec

\* The end-to-end test keeps to its types: a sender is at one of the steps of
\* its scenario, the validation at one of its checks, and the channel of
\* received events does not outgrow its capacity.
THEOREM SimTypeCorrect == SimSpec => []SimTypeOK
  <1>1. SimInv => SimTypeOK
    <2> SUFFICES ASSUME SimInv PROVE SimTypeOK
      OBVIOUS
    <2>1. SimTypes
      BY DEF SimInv
    <2>2. /\ scenario \in Kinds /\ validate \in BOOLEAN /\ (Validating => scenario \in Kinds \ {"stress"})
          /\ Phases \in Nat /\ Phases >= 1 /\ Phases <= Len(TagOrder)
      BY <2>1, Scenario DEF SimTypes
    <2>3. Len(Program) = Length(scenario, validate)
      BY <2>2, ProgramIs
    <2>4. Validating => Len(Checks(TagOrder[phase])) = CheckCount(scenario)
      BY <2>2, ChecksAre
    <2>5. pos \in [Tags -> 1 .. Len(Program) + 1]
      <3>1. pos = [t \in Tags |-> pos[t]] /\ \A t \in Tags : pos[t] \in 1 .. Len(Program) + 1
        BY <2>1, <2>3 DEF SimTypes, Total
      <3> QED
        BY <3>1
    <2>6. Len(TagOrder) \in Nat /\ Len(TagOrder) >= 1
      BY OrderReads
    <2>7. /\ phase \in 1 .. Len(TagOrder)
          /\ IF Validating THEN phase <= Phases /\ step \in 1 .. Len(Checks(TagOrder[phase]))
                           ELSE phase = 1 /\ step = 1
      BY <2>1, <2>2, <2>4, <2>6 DEF SimTypes
    <2> QED
      BY <2>1, <2>5, <2>7 DEF SimTypes, SimTypeOK
  <1> QED
    BY <1>1, SimInductive, PTL

\* To the core of Pipeline.tla, the simulators are an environment like any
\* other: whatever they send, lose or interrupt, the core makes steps of its
\* own specification only, so that everything that is proved of it holds beside
\* them.
THEOREM SimulatorRefinesPipeline == SimSpec => PipeSpec
  <1>1. SimInit => PipeInit
    BY DEF SimInit
  <1>2. SimInv /\ [SimNext]_allVars => [PipeNext]_pipeVars
    <2> SUFFICES ASSUME SimInv, [SimNext]_allVars PROVE [PipeNext]_pipeVars
      OBVIOUS
    <2>1. ASSUME NEW t \in Tags, Emit(t) PROVE PipeNext
      <3>1. Program[pos[t]] \in Packets /\ ReadDatagram(t, Program[pos[t]])
        BY <2>1, EmitKeeps
      <3>2. Program[pos[t]] \in Datagram
        BY <3>1, PacketCases
      <3> QED
        BY <3>1, <3>2 DEF PipeNext
    <2>2. ASSUME NEW t \in Tags, CoreWrites(t) \/ CorePersists(t) PROVE PipeNext
      BY <2>2 DEF CoreWrites, CorePersists, PipeNext
    <2>3. CASE TimePasses \/ WatchdogSweep
      BY <2>3 DEF TimePasses, WatchdogSweep, PipeNext
    <2>4. ASSUME NEW t \in Tags, EmitLost(t) \/ Resume(t) PROVE UNCHANGED pipeVars
      BY <2>4 DEF EmitLost, Resume
    <2>5. ASSUME NEW sc \in Scenarios, NEW v \in BOOLEAN, Start(sc, v) PROVE UNCHANGED pipeVars
      BY <2>5 DEF Start
    <2>6. ASSUME NEW i \in DOMAIN feed, Receive(i) PROVE UNCHANGED pipeVars
      BY <2>6 DEF Receive
    <2>7. CASE SubscribeFails \/ Join \/ waitForCheck \/ Timeout \/ StreamCloses \/ Interrupt
      BY <2>7 DEF SubscribeFails, Join, waitForCheck, Timeout, StreamCloses, Interrupt
    <2>8. CASE UNCHANGED allVars
      BY <2>8 DEF allVars
    <2> QED
      BY <2>1, <2>2, <2>3, <2>4, <2>5, <2>6, <2>7, <2>8 DEF SimNext
  <1> QED
    BY <1>1, <1>2, SimInductive, PTL DEF SimSpec, PipeSpec

-----------------------------------------------------------------------------
(* What a validation waits for is on its way.                              *)

CheckList(sc, t) == [i \in 1 .. CheckCount(sc) |-> CheckAt(sc, t, i)]

\* The tag is where every scenario begins.
AtFirst(st) == isLocationType(st.lastLocationType) /\ st.lastZoneIds = {ZoneOrder[1]}

\* How many checks what the sender has sent before its step p must satisfy; a
\* tag that is already at the first zone has been announced there.
Due(sc, p, st) ==
    IF p = 1 THEN (IF AtFirst(st) THEN 1 ELSE 0)
    ELSE CASE sc = "walk" -> p - 1
           [] sc = "offline" -> IF p = 6 THEN 3 ELSE IF p = 5 \/ ~st.online THEN 2 ELSE 1
           [] sc = "lost" -> IF p = 4 THEN 4 ELSE p - 1

\* What the adapter remembers when the sender is at its step p > 1.
OnCourse(sc, p, st) ==
    /\ sc = "walk" => isLocationType(st.lastLocationType) /\ st.lastZoneIds = {ZoneOrder[p - 1]}
    /\ sc = "offline" /\ p < 6 => AtFirst(st) /\ (p = 5 => ~st.online)
    /\ sc = "lost" /\ p = 2 => AtFirst(st) /\ st.online /\ st.silence = 0
    /\ sc = "lost" /\ p = 3 => st.locationLost

\* From the check lo on, t's validation finds what is due among the messages u
\* and, behind them, the events of the channel q.
Ahead(sc, t, p, st, lo, u, q, l) ==
    /\ p > 1 => OnCourse(sc, p, st)
    /\ Lined(CheckList(sc, t), lo, Due(sc, p, st), u, q, l, Len(u) + Len(q))

\* The checks an event satisfies.
LEMMA EventMatches ==
    ASSUME NEW t, NEW ev \in Event, NEW e, e = domainEventToPb(DomainEvent(t, ev))
    PROVE  /\ ev.type = "ZONE" => Matches(zoneCheck(t, Nil), e)
           /\ ev.type = "ZONE" => Matches(zoneCheck(t, Some(ev.zones)), e)
           /\ ev.type = "PRESENCE" => Matches(presenceCheck(t, ev.presence), e)
  <1>1. /\ ev.type = "ZONE" => ShowsZones(e, t, ev.zones, ev.movement)
        /\ ev.type = "PRESENCE" => ShowsPresence(e, t, ev.presence)
    BY ClientReads
  <1>2. ASSUME ev.type = "ZONE" PROVE Matches(zoneCheck(t, Nil), e)
    BY <1>1, <1>2 DEF ShowsZones, zoneCheck, Matches, Nil
  <1>3. ASSUME ev.type = "ZONE" PROVE Matches(zoneCheck(t, Some(ev.zones)), e)
    BY <1>1, <1>3 DEF ShowsZones, zoneCheck, Matches, Nil, Some
  <1>4. ASSUME ev.type = "PRESENCE" PROVE Matches(presenceCheck(t, ev.presence), e)
    BY <1>1, <1>4 DEF ShowsPresence, presenceCheck, Matches, Nil, Some
  <1> QED
    BY <1>2, <1>3, <1>4

\* One more check is satisfied, by an event that is sent.
LEMMA MoreAhead ==
    ASSUME NEW t, NEW q \in Seq(OfTag(t)), NEW l, NEW v, NEW sp \in SUBSET ChangeTypes,
           Reported(t, q, l, v, sp),
           \A k \in ChangeTypes \ sp : l[k] = Nil /\ \A i \in 1 .. Len(q) : q[i].type # k,
           NEW evs \in Seq(Event), NEW cs, NEW lo \in Nat, NEW hi \in Nat,
           NEW S, NEW u \in Seq(S), NEW n \in Nat, NEW m \in 1 .. Len(evs), n < m,
           Lined(cs, lo, hi, u, q \o Sent(t, evs), l, Len(u) + Len(q) + n),
           \A i \in 1 .. m - 1 : evs[i].type # evs[m].type,
           ~Says(evs[m], evs[m].type, v),
           Matches(cs[hi + 1], domainEventToPb(DomainEvent(t, evs[m])))
    PROVE  Lined(cs, lo, hi + 1, u, q \o Sent(t, evs), l, Len(u) + Len(q) + m)
  <1> DEFINE r == q \o Sent(t, evs)
  <1>1. Renews(r, l, Len(q) + m)
    BY SendRenews
  <1>2. /\ Len(q) \in Nat /\ Len(evs) \in Nat /\ Len(r) = Len(q) + Len(evs)
        /\ r[Len(q) + m] = DomainEvent(t, evs[m])
    BY SentConcat, SMTT(30)
  <1>3. Lined(cs, lo, hi, u, r, l, Len(u) + Len(q) + n) /\ Len(u) \in Nat
    OBVIOUS
  <1> HIDE DEF r
  <1> DEFINE a == Len(u)
             b == Len(q)
             p == a + b + m
  <1>4. /\ p - a = b + m /\ p - a \in 1 .. Len(r) /\ p \in Nat /\ a + b + n \in Nat /\ p > a + b + n
        /\ a \in Nat /\ b \in Nat
    BY <1>2, <1>3
  <1>5. Coming(cs[hi + 1], u, r, l, p)
    <2>1. /\ p - Len(u) \in 1 .. Len(r)
          /\ r[p - Len(u)] = DomainEvent(t, evs[m]) /\ Renews(r, l, p - Len(u))
      BY <1>1, <1>2, <1>4
    <2> HIDE DEF a, b, p
    <2> QED
      BY <2>1 DEF Coming
  <1>6. Lined(cs, lo, hi, u, r, l, a + b + n)
    BY <1>3
  <1>7. a + b + m = p
    OBVIOUS
  <1> HIDE DEF a, b, p
  <1>8. Lined(cs, lo, hi + 1, u, r, l, p)
    BY <1>4, <1>5, <1>6, LinedExtend
  <1> QED
    BY <1>7, <1>8 DEF r, a, b

Validated == {"walk", "offline", "lost"}

\* The checks of each scenario.
LEMMA CheckListReads ==
    ASSUME NEW sc \in Validated, NEW t
    PROVE  /\ CheckCount(sc) \in Nat /\ CheckCount(sc) >= 1
           /\ \A i \in 1 .. CheckCount(sc) :
                CheckList(sc, t)[i] = CheckAt(sc, t, i) /\ CheckList(sc, t)[i].tag = t
           /\ sc = "walk" => /\ CheckCount(sc) = Len(ZoneOrder)
                             /\ \A i \in 1 .. Len(ZoneOrder) :
                                  CheckList(sc, t)[i] = zoneCheck(t, Some({ZoneOrder[i]}))
           /\ sc = "offline" => /\ CheckCount(sc) = 3
                                /\ CheckList(sc, t)[1] = zoneCheck(t, Nil)
                                /\ CheckList(sc, t)[2] = presenceCheck(t, "INACTIVE")
                                /\ CheckList(sc, t)[3] = presenceCheck(t, "ACTIVE")
           /\ sc = "lost" => /\ CheckCount(sc) = 4
                             /\ CheckList(sc, t)[1] = zoneCheck(t, Some({ZoneOrder[1]}))
                             /\ CheckList(sc, t)[2] = presenceCheck(t, "INACTIVE")
                             /\ CheckList(sc, t)[3] = presenceCheck(t, "ACTIVE")
                             /\ CheckList(sc, t)[4] = zoneCheck(t, Nil)
  <1>1. CheckCount(sc) \in Nat /\ CheckCount(sc) >= 1
    BY CountType DEF Validated, Kinds
  <1>2. \A i \in 1 .. CheckCount(sc) : CheckList(sc, t)[i] = CheckAt(sc, t, i)
    BY DEF CheckList
  <1>3. /\ zoneCheck(t, Nil).tag = t /\ \A Z : zoneCheck(t, Some(Z)).tag = t
        /\ presenceCheck(t, "INACTIVE").tag = t /\ presenceCheck(t, "ACTIVE").tag = t
    BY DEF zoneCheck, presenceCheck
  <1>4. \A i \in 1 .. CheckCount(sc) : CheckAt(sc, t, i).tag = t
    BY <1>3 DEF CheckAt, Validated
  <1>5. sc = "walk" => /\ CheckCount(sc) = Len(ZoneOrder)
                       /\ \A i \in 1 .. Len(ZoneOrder) :
                            CheckList(sc, t)[i] = zoneCheck(t, Some({ZoneOrder[i]}))
    BY <1>2 DEF CheckCount, CheckAt
  <1>6. sc = "offline" => /\ CheckCount(sc) = 3 /\ CheckAt(sc, t, 1) = zoneCheck(t, Nil)
                          /\ CheckAt(sc, t, 2) = presenceCheck(t, "INACTIVE")
                          /\ CheckAt(sc, t, 3) = presenceCheck(t, "ACTIVE")
    BY DEF CheckCount, CheckAt
  <1>7. sc = "lost" => /\ CheckCount(sc) = 4
                       /\ CheckAt(sc, t, 1) = zoneCheck(t, Some({ZoneOrder[1]}))
                       /\ CheckAt(sc, t, 2) = presenceCheck(t, "INACTIVE")
                       /\ CheckAt(sc, t, 3) = presenceCheck(t, "ACTIVE")
                       /\ CheckAt(sc, t, 4) = zoneCheck(t, Nil)
    BY DEF CheckCount, CheckAt
  <1> QED
    BY <1>1, <1>2, <1>4, <1>5, <1>6, <1>7

\* Every scenario begins with the first zone.
LEMMA FirstCheck ==
    ASSUME NEW sc \in Validated, NEW t
    PROVE  CheckList(sc, t)[1] \in {zoneCheck(t, Nil), zoneCheck(t, Some({ZoneOrder[1]}))}
  <1>1. 1 \in 1 .. CheckCount(sc) /\ CheckList(sc, t)[1] = CheckAt(sc, t, 1)
    <2>1. CheckCount(sc) \in Nat /\ CheckCount(sc) >= 1
      BY CountType DEF Validated, Kinds
    <2> QED
      BY <2>1 DEF CheckList
  <1> DEFINE a == zoneCheck(t, Nil)
             b == zoneCheck(t, Some({ZoneOrder[1]}))
  <1>2. CheckAt(sc, t, 1) = a \/ CheckAt(sc, t, 1) = b
    BY DEF CheckAt, Validated
  <1> HIDE DEF a, b
  <1>3. CheckList(sc, t)[1] \in {a, b}
    BY <1>1, <1>2
  <1> QED
    BY <1>3 DEF a, b

\* An event that puts the tag there satisfies it.
LEMMA FirstMatches ==
    ASSUME NEW sc \in Validated, NEW t, NEW ev \in Event, ev.type = "ZONE", ev.zones = {ZoneOrder[1]}
    PROVE  Matches(CheckList(sc, t)[1], domainEventToPb(DomainEvent(t, ev)))
  <1> DEFINE e == domainEventToPb(DomainEvent(t, ev))
             a == zoneCheck(t, Nil)
             b == zoneCheck(t, Some({ZoneOrder[1]}))
  <1>1. Matches(a, e) /\ Matches(b, e)
    BY EventMatches
  <1>2. CheckList(sc, t)[1] \in {a, b}
    BY FirstCheck
  <1> HIDE DEF a, b, e
  <1>3. Matches(CheckList(sc, t)[1], e)
    BY <1>1, <1>2
  <1> QED
    BY <1>3 DEF e

\* What the proofs about a tag start from.
LEMMA AheadGiven ==
    ASSUME NEW t, NEW st, NEW q, NEW l, NEW v, NEW sp,
           CorePipe(t, st, q, l, v, sp), Clean(st, q, l, sp)
    PROVE  /\ st \in tagState /\ v \in View /\ sp \in SUBSET ChangeTypes /\ TagInv(st, v, FALSE)
           /\ q \in Seq(OfTag(t)) /\ Reported(t, q, l, v, sp)
           /\ \A k \in ChangeTypes \ sp : l[k] = Nil /\ \A i \in 1 .. Len(q) : q[i].type # k
  BY DEF CorePipe, Clean

\* What a datagram sends does not take away what was due, as long as nothing
\* more is.
LEMMA SameAhead ==
    ASSUME NEW t, NEW q \in Seq(OfTag(t)), NEW evs \in Seq(Event), NEW cs, NEW l,
           NEW lo \in Nat, NEW hi \in Nat, NEW high \in Nat, high <= hi,
           NEW S, NEW u \in Seq(S), Lined(cs, lo, hi, u, q, l, Len(u) + Len(q))
    PROVE  /\ Lined(cs, lo, high, u, q \o Sent(t, evs), l, Len(u) + Len(q) + 0)
           /\ Lined(cs, lo, high, u, q \o Sent(t, evs), l, Len(u) + Len(q \o Sent(t, evs)))
  <1> DEFINE s == Sent(t, evs)
             D == OfTag(t)
  <1>1. /\ Len(q) \in Nat /\ Len(evs) \in Nat /\ Len(q \o s) = Len(q) + Len(evs)
    BY SentConcat
  <1>2. s \in Seq(D)
    <2>1. DOMAIN evs = 1 .. Len(evs) /\ Len(evs) \in Nat /\ \A i \in 1 .. Len(evs) : evs[i] \in Event
      OBVIOUS
    <2> QED
      BY <2>1 DEF Sent, OfTag
  <1>3. q \in Seq(D) /\ Len(u) \in Nat
    OBVIOUS
  <1> HIDE DEF s, D
  <1>4. Lined(cs, lo, hi, u, q \o s, l, Len(u) + Len(q))
    BY <1>2, <1>3, LinedSend
  <1> DEFINE r == q \o s
  <1>5. Lined(cs, lo, hi, u, r, l, Len(u) + Len(q)) /\ Len(r) = Len(q) + Len(evs)
    BY <1>1, <1>4
  <1> HIDE DEF r
  <1>6. Lined(cs, lo, high, u, r, l, Len(u) + Len(q))
    <2> DEFINE n == Len(u) + Len(q)
    <2>1. Lined(cs, lo, hi, u, r, l, n)
      BY <1>5
    <2> HIDE DEF n
    <2>2. lo <= lo
      OBVIOUS
    <2>3. Lined(cs, lo, high, u, r, l, n)
      BY <2>1, <2>2, LinedFewer
    <2> QED
      BY <2>3 DEF n
  <1> DEFINE n == Len(u) + Len(q)
             m == Len(u) + Len(r)
  <1>7. n \in Nat /\ m \in Nat /\ n <= m /\ n + 0 = n
    BY <1>1, <1>3, <1>5
  <1>8. Lined(cs, lo, high, u, r, l, n)
    BY <1>6
  <1> HIDE DEF n
  <1>9. n = Len(u) + Len(q)
    BY DEF n
  <1> HIDE DEF m
  <1>10. Lined(cs, lo, high, u, r, l, m)
    BY <1>7, <1>8, LinedLater
  <1>11. Len(u) + Len(q) + 0 = n /\ m = Len(u) + Len(r)
    BY <1>7, <1>9 DEF m
  <1> QED
    BY <1>8, <1>10, <1>11 DEF r, s

\* What is due is due among all that is on its way.
LEMMA AllAhead ==
    ASSUME NEW t, NEW q \in Seq(OfTag(t)), NEW evs \in Seq(Event), NEW cs, NEW l,
           NEW lo \in Nat, NEW hi \in Nat, NEW S, NEW u \in Seq(S), NEW m \in 1 .. Len(evs),
           Lined(cs, lo, hi, u, q \o Sent(t, evs), l, Len(u) + Len(q) + m)
    PROVE  Lined(cs, lo, hi, u, q \o Sent(t, evs), l, Len(u) + Len(q \o Sent(t, evs)))
  <1> DEFINE r == q \o Sent(t, evs)
             a == Len(u) + Len(q) + m
             b == Len(u) + Len(r)
  <1>1. Len(q) \in Nat /\ Len(evs) \in Nat /\ Len(r) = Len(q) + Len(evs)
    BY SentConcat
  <1>2. Len(u) \in Nat /\ Lined(cs, lo, hi, u, r, l, a)
    OBVIOUS
  <1> HIDE DEF r
  <1>3. a \in Nat /\ b \in Nat /\ a <= b
    BY <1>1, <1>2
  <1> HIDE DEF a, b
  <1>4. Lined(cs, lo, hi, u, r, l, b)
    BY <1>2, <1>3, LinedLater
  <1> QED
    BY <1>4 DEF r, b

\* A snapshot that is due ends what a datagram sends.
LEMMA PositionZone ==
    ASSUME NEW st \in tagState, NEW Z \in SUBSET Zones,
           NEW evs, evs = deriveEvents(st, positionPkt(Z)), SnapshotDue(st, positionPkt(Z))
    PROVE  /\ evs \in Seq(Event)
           /\ \A i \in 1 .. Len(evs) : evs[i].type = "ZONE" => i = Len(evs)
           /\ Len(evs) > 0 /\ evs[Len(evs)].type = "ZONE" /\ evs[Len(evs)].zones = Z
  BY PositionEvents

\* A tag that is back is announced as ACTIVE first of all.
LEMMA PositionActive ==
    ASSUME NEW st \in tagState, NEW Z \in SUBSET Zones,
           NEW evs, evs = deriveEvents(st, positionPkt(Z)),
           WasOffline(st) \/ LocationRestored(st, positionPkt(Z))
    PROVE  /\ evs \in Seq(Event) /\ Len(evs) > 0
           /\ evs[1].type = "PRESENCE" /\ evs[1].presence = "ACTIVE"
           /\ SnapshotDue(st, positionPkt(Z)) => Len(evs) > 1
  BY PositionEvents

\* A datagram from another zone: the snapshot satisfies one more check.
LEMMA ZoneAhead ==
    ASSUME NEW t, NEW st, NEW q, NEW l, NEW v, NEW sp,
           CorePipe(t, st, q, l, v, sp), Clean(st, q, l, sp), NEW z \in Zones,
           ~(isLocationType(st.lastLocationType) /\ st.lastZoneIds = {z}),
           NEW cs, NEW lo \in Nat, NEW hi \in Nat, NEW S, NEW u \in Seq(S),
           Lined(cs, lo, hi, u, q, l, Len(u) + Len(q)),
           \A ev \in Event : ev.type = "ZONE" /\ ev.zones = {z} =>
               Matches(cs[hi + 1], domainEventToPb(DomainEvent(t, ev))),
           NEW evs, evs = deriveEvents(st, positionPkt({z}))
    PROVE  Lined(cs, lo, hi + 1, u, q \o Sent(t, evs), l, Len(u) + Len(q \o Sent(t, evs)))
  <1>1. /\ st \in tagState /\ v \in View /\ sp \in SUBSET ChangeTypes /\ TagInv(st, v, FALSE)
        /\ q \in Seq(OfTag(t)) /\ Reported(t, q, l, v, sp)
        /\ \A k \in ChangeTypes \ sp : l[k] = Nil /\ \A i \in 1 .. Len(q) : q[i].type # k
    BY DEF CorePipe, Clean
  <1> DEFINE Z == {z}
             m == Len(evs)
  <1>2. Z \in SUBSET Zones /\ Z # {}
    OBVIOUS
  <1>3. ~(isLocationType(st.lastLocationType) /\ st.lastZoneIds = Z) /\ evs = deriveEvents(st, positionPkt(Z))
    OBVIOUS
  <1>4. \A ev \in Event : ev.type = "ZONE" /\ ev.zones = Z =>
               Matches(cs[hi + 1], domainEventToPb(DomainEvent(t, ev)))
    OBVIOUS
  <1> HIDE DEF Z
  <1>5. SnapshotDue(st, positionPkt(Z)) /\ v.zones # Z
    BY <1>1, <1>2, <1>3, NewZones
  <1>6. /\ evs \in Seq(Event)
        /\ \A i \in 1 .. Len(evs) : evs[i].type = "ZONE" => i = Len(evs)
        /\ Len(evs) > 0 /\ evs[Len(evs)].type = "ZONE" /\ evs[Len(evs)].zones = Z
    <2>1. st \in tagState /\ Z \in SUBSET Zones
      BY <1>1, <1>2
    <2>2. evs = deriveEvents(st, positionPkt(Z)) /\ SnapshotDue(st, positionPkt(Z))
      BY <1>3, <1>5
    <2> QED
      BY ONLY <2>1, <2>2, PositionZone
  <1>7. m \in 1 .. Len(evs) /\ 0 < m /\ 0 \in Nat
    BY <1>6
  <1>8. \A i \in 1 .. m - 1 : evs[i].type # evs[m].type
    <2>1. \A i \in 1 .. m - 1 : i \in 1 .. Len(evs) /\ i # Len(evs)
      BY <1>7
    <2> QED
      BY <1>6, <2>1
  <1>9. evs[m] \in Event /\ evs[m].type = "ZONE" /\ evs[m].zones = Z
    BY <1>6, <1>7
  <1>10. ~Says(evs[m], evs[m].type, v)
    BY <1>5, <1>9 DEF Says
  <1>11. Matches(cs[hi + 1], domainEventToPb(DomainEvent(t, evs[m])))
    BY <1>4, <1>9
  <1>12. Lined(cs, lo, hi, u, q \o Sent(t, evs), l, Len(u) + Len(q) + 0)
    BY <1>1, <1>6, SameAhead
  <1> HIDE DEF m
  <1>13. Lined(cs, lo, hi + 1, u, q \o Sent(t, evs), l, Len(u) + Len(q) + m)
    BY <1>1, <1>6, <1>7, <1>8, <1>10, <1>11, <1>12, MoreAhead
  <1>14. hi + 1 \in Nat
    OBVIOUS
  <1> QED
    BY <1>1, <1>6, <1>7, <1>13, <1>14, AllAhead

\* The first datagram of a scenario.
LEMMA BeginAhead ==
    ASSUME NEW sc \in Validated, NEW t, NEW st, NEW q, NEW l, NEW v, NEW sp,
           CorePipe(t, st, q, l, v, sp), Clean(st, q, l, sp),
           NEW lo \in Nat, NEW S, NEW u \in Seq(S), Ahead(sc, t, 1, st, lo, u, q, l),
           NEW evs, evs = deriveEvents(st, positionPkt({ZoneOrder[1]}))
    PROVE  Lined(CheckList(sc, t), lo, 1, u, q \o Sent(t, evs), l, Len(u) + Len(q \o Sent(t, evs)))
  <1> DEFINE z == ZoneOrder[1]
             cs == CheckList(sc, t)
             due == IF AtFirst(st) THEN 1 ELSE 0
  <1>1. z \in Zones
    BY OrderReads
  <1>2. Lined(cs, lo, due, u, q, l, Len(u) + Len(q))
    BY DEF Ahead, Due
  <1>3. \A ev \in Event : ev.type = "ZONE" /\ ev.zones = {z} =>
               Matches(cs[1], domainEventToPb(DomainEvent(t, ev)))
    BY FirstMatches
  <1>4. AtFirst(st) <=> isLocationType(st.lastLocationType) /\ st.lastZoneIds = {z}
    BY DEF AtFirst
  <1>5. evs = deriveEvents(st, positionPkt({z}))
    OBVIOUS
  <1> HIDE DEF z, cs
  <1>6. CASE AtFirst(st)
    <2>1. q \in Seq(OfTag(t)) /\ st \in tagState
      BY AheadGiven
    <2>2. evs \in Seq(Event)
      BY <1>1, <1>5, <2>1, PositionEvents
    <2>3. due = 1 /\ 1 \in Nat /\ 1 <= 1
      BY <1>6
    <2>4. Lined(cs, lo, 1, u, q, l, Len(u) + Len(q))
      BY <1>2, <2>3
    <2>5. Lined(cs, lo, 1, u, q \o Sent(t, evs), l, Len(u) + Len(q \o Sent(t, evs)))
      BY <2>1, <2>2, <2>3, <2>4, SameAhead
    <2> QED
      BY <2>5 DEF cs
  <1>7. CASE ~AtFirst(st)
    <2>1. due = 0 /\ 0 \in Nat /\ 0 + 1 = 1
      BY <1>7
    <2> DEFINE none == 0
    <2>2. Lined(cs, lo, none, u, q, l, Len(u) + Len(q)) /\ none \in Nat /\ none + 1 = 1
      BY <1>2, <2>1
    <2> HIDE DEF none
    <2>3. Lined(cs, lo, none + 1, u, q \o Sent(t, evs), l, Len(u) + Len(q \o Sent(t, evs)))
      BY <1>1, <1>3, <1>4, <1>5, <1>7, <2>2, ZoneAhead
    <2> QED
      BY <2>2, <2>3 DEF cs
  <1> QED
    BY <1>6, <1>7

\* A tag that is back: ACTIVE satisfies one more check.
LEMMA BackAhead ==
    ASSUME NEW t, NEW st, NEW q, NEW l, NEW v, NEW sp,
           CorePipe(t, st, q, l, v, sp), Clean(st, q, l, sp), NEW Z \in SUBSET Zones,
           WasOffline(st) \/ LocationRestored(st, positionPkt(Z)), v.presence = "INACTIVE",
           NEW cs, NEW lo \in Nat, NEW hi \in Nat, NEW S, NEW u \in Seq(S),
           Lined(cs, lo, hi, u, q, l, Len(u) + Len(q)), cs[hi + 1] = presenceCheck(t, "ACTIVE"),
           NEW evs, evs = deriveEvents(st, positionPkt(Z))
    PROVE  /\ evs \in Seq(Event) /\ 1 \in 1 .. Len(evs)
           /\ evs[1].type = "PRESENCE"
           /\ SnapshotDue(st, positionPkt(Z)) => Len(evs) > 1
           /\ Lined(cs, lo, hi + 1, u, q \o Sent(t, evs), l, Len(u) + Len(q) + 1)
  <1>1. /\ st \in tagState /\ v \in View /\ sp \in SUBSET ChangeTypes /\ TagInv(st, v, FALSE)
        /\ q \in Seq(OfTag(t)) /\ Reported(t, q, l, v, sp)
        /\ \A k \in ChangeTypes \ sp : l[k] = Nil /\ \A i \in 1 .. Len(q) : q[i].type # k
    BY DEF CorePipe, Clean
  <1>2. /\ evs \in Seq(Event) /\ Len(evs) > 0
        /\ evs[1].type = "PRESENCE" /\ evs[1].presence = "ACTIVE"
        /\ SnapshotDue(st, positionPkt(Z)) => Len(evs) > 1
    BY <1>1, PositionActive
  <1> DEFINE m == 1
  <1>3. m \in 1 .. Len(evs) /\ 0 < m /\ 0 \in Nat /\ 1 .. m - 1 = {}
    BY <1>2
  <1>4. evs[m] \in Event /\ evs[m].type = "PRESENCE" /\ evs[m].presence = "ACTIVE"
    BY <1>2, <1>3
  <1> HIDE DEF m
  <1>5. ~Says(evs[m], evs[m].type, v)
    BY <1>4 DEF Says
  <1>6. Matches(cs[hi + 1], domainEventToPb(DomainEvent(t, evs[m])))
    <2>1. Matches(presenceCheck(t, evs[m].presence), domainEventToPb(DomainEvent(t, evs[m])))
      BY <1>4, EventMatches
    <2> QED
      BY <1>4, <2>1
  <1>7. Lined(cs, lo, hi, u, q \o Sent(t, evs), l, Len(u) + Len(q) + 0)
    BY <1>1, <1>2, SameAhead
  <1>8. \A i \in 1 .. m - 1 : evs[i].type # evs[m].type
    BY <1>3
  <1>9. Lined(cs, lo, hi + 1, u, q \o Sent(t, evs), l, Len(u) + Len(q) + m)
    BY <1>1, <1>2, <1>3, <1>5, <1>6, <1>7, <1>8, MoreAhead
  <1> QED
    BY <1>2, <1>3, <1>9 DEF m

\* The location is lost: INACTIVE satisfies one more check.
LEMMA LocationAhead ==
    ASSUME NEW t, NEW st, NEW q, NEW l, NEW v, NEW sp,
           CorePipe(t, st, q, l, v, sp), Clean(st, q, l, sp),
           isLocationType(st.lastLocationType), st.online,
           NEW cs, NEW lo \in Nat, NEW hi \in Nat, NEW S, NEW u \in Seq(S),
           Lined(cs, lo, hi, u, q, l, Len(u) + Len(q)), cs[hi + 1] = presenceCheck(t, "INACTIVE"),
           NEW evs, evs = deriveEvents(st, noLocationPkt)
    PROVE  Lined(cs, lo, hi + 1, u, q \o Sent(t, evs), l, Len(u) + Len(q \o Sent(t, evs)))
  <1>1. /\ st \in tagState /\ v \in View /\ sp \in SUBSET ChangeTypes /\ TagInv(st, v, FALSE)
        /\ q \in Seq(OfTag(t)) /\ Reported(t, q, l, v, sp)
        /\ \A k \in ChangeTypes \ sp : l[k] = Nil /\ \A i \in 1 .. Len(q) : q[i].type # k
    BY DEF CorePipe, Clean
  <1>2. LocationLost(st, noLocationPkt) /\ ~WasOffline(st) /\ v.presence # "INACTIVE"
    BY <1>1, NoLocationReads DEF LocationLost, WasOffline, hadHistory, isLocationType, TagInv
  <1>3. /\ evs \in Seq(Event) /\ Len(evs) > 0
        /\ evs[Len(evs)].type = "PRESENCE" /\ evs[Len(evs)].presence = "INACTIVE"
        /\ \A i \in 1 .. Len(evs) : evs[i].type = "PRESENCE" => i = Len(evs)
    BY <1>1, <1>2, NoLocationEvents
  <1> DEFINE m == Len(evs)
  <1>4. m \in 1 .. Len(evs) /\ 0 < m /\ 0 \in Nat /\ \A i \in 1 .. m - 1 : i \in 1 .. Len(evs) /\ i # Len(evs)
    BY <1>3
  <1>5. evs[m] \in Event /\ evs[m].type = "PRESENCE" /\ evs[m].presence = "INACTIVE"
    BY <1>3, <1>4
  <1>6. \A i \in 1 .. m - 1 : evs[i].type # evs[m].type
    BY <1>3, <1>4, <1>5
  <1> HIDE DEF m
  <1>7. ~Says(evs[m], evs[m].type, v)
    BY <1>2, <1>5 DEF Says
  <1>8. Matches(cs[hi + 1], domainEventToPb(DomainEvent(t, evs[m])))
    <2>1. Matches(presenceCheck(t, evs[m].presence), domainEventToPb(DomainEvent(t, evs[m])))
      BY <1>5, EventMatches
    <2> QED
      BY <1>5, <2>1
  <1>9. Lined(cs, lo, hi, u, q \o Sent(t, evs), l, Len(u) + Len(q) + 0)
    BY <1>1, <1>3, SameAhead
  <1>10. Lined(cs, lo, hi + 1, u, q \o Sent(t, evs), l, Len(u) + Len(q) + m)
    BY <1>1, <1>3, <1>4, <1>6, <1>7, <1>8, <1>9, MoreAhead
  <1>11. hi + 1 \in Nat
    OBVIOUS
  <1> QED
    BY <1>1, <1>3, <1>4, <1>10, <1>11, AllAhead

\* The watchdog reports a silence: so does its INACTIVE.
LEMMA OverdueAhead ==
    ASSUME NEW t, NEW st, NEW q, NEW l, NEW v, NEW sp,
           CorePipe(t, st, q, l, v, sp), Clean(st, q, l, sp), Overdue(st),
           NEW cs, NEW lo \in Nat, NEW hi \in Nat, NEW S, NEW u \in Seq(S),
           Lined(cs, lo, hi, u, q, l, Len(u) + Len(q)), cs[hi + 1] = presenceCheck(t, "INACTIVE"),
           NEW evs, evs = watchdogEvents(st)
    PROVE  Lined(cs, lo, hi + 1, u, q \o Sent(t, evs), l, Len(u) + Len(q \o Sent(t, evs)))
  <1>1. /\ st \in tagState /\ v \in View /\ sp \in SUBSET ChangeTypes /\ TagInv(st, v, FALSE)
        /\ q \in Seq(OfTag(t)) /\ Reported(t, q, l, v, sp)
        /\ \A k \in ChangeTypes \ sp : l[k] = Nil /\ \A i \in 1 .. Len(q) : q[i].type # k
    BY DEF CorePipe, Clean
  <1>2. ~WasOffline(st) /\ ~st.locationLost /\ v.presence # "INACTIVE"
    BY <1>1 DEF Overdue, WasOffline, TagInv
  <1>3. /\ evs \in Seq(Event) /\ Len(evs) > 0
        /\ evs[1].type = "PRESENCE" /\ evs[1].presence = "INACTIVE"
    BY <1>1, SweepEvents
  <1> DEFINE m == 1
  <1>4. m \in 1 .. Len(evs) /\ 0 < m /\ 0 \in Nat /\ 1 .. m - 1 = {}
    BY <1>3
  <1>5. evs[m] \in Event /\ evs[m].type = "PRESENCE" /\ evs[m].presence = "INACTIVE"
    BY <1>3, <1>4
  <1> HIDE DEF m
  <1>6. \A i \in 1 .. m - 1 : evs[i].type # evs[m].type
    BY <1>4
  <1>7. ~Says(evs[m], evs[m].type, v)
    BY <1>2, <1>5 DEF Says
  <1>8. Matches(cs[hi + 1], domainEventToPb(DomainEvent(t, evs[m])))
    <2>1. Matches(presenceCheck(t, evs[m].presence), domainEventToPb(DomainEvent(t, evs[m])))
      BY <1>5, EventMatches
    <2> QED
      BY <1>5, <2>1
  <1>9. Lined(cs, lo, hi, u, q \o Sent(t, evs), l, Len(u) + Len(q) + 0)
    BY <1>1, <1>3, SameAhead
  <1>10. Lined(cs, lo, hi + 1, u, q \o Sent(t, evs), l, Len(u) + Len(q) + m)
    BY <1>1, <1>3, <1>4, <1>6, <1>7, <1>8, <1>9, MoreAhead
  <1>11. hi + 1 \in Nat
    OBVIOUS
  <1> QED
    BY <1>1, <1>3, <1>4, <1>10, <1>11, AllAhead

\* Two zones one after the other in a walk differ.
ZonesDiffer == \A i \in 1 .. Len(ZoneOrder) - 1 : ZoneOrder[i] # ZoneOrder[i + 1]

\* The state a datagram leaves.
LEMMA PositionState ==
    ASSUME NEW st, NEW z \in Zones, NEW new, new = nextTagState(st, positionPkt({z}))
    PROVE  /\ new.online /\ new.silence = 0 /\ isLocationType(new.lastLocationType)
           /\ new.lastZoneIds = {z}
  <1> DEFINE Z == {z}
             msg == positionPkt(Z)
  <1>1. Z \in SUBSET Zones /\ new = nextTagState(st, msg)
    OBVIOUS
  <1> HIDE DEF Z
  <1>2. msg.type = "position" /\ msg.age = 0 /\ normaliseZones(msg.zones) = Z
    BY <1>1, PositionReads
  <1> HIDE DEF msg
  <1>3. /\ new.online /\ new.silence = 0 /\ isLocationType(new.lastLocationType)
        /\ new.lastZoneIds = Z
    BY <1>1, <1>2 DEF nextTagState, isLocationType
  <1> QED
    BY <1>3 DEF Z

\* The next datagram of a walk.
LEMMA WalkAhead ==
    ASSUME ZonesDiffer,
           NEW t, NEW st, NEW q, NEW l, NEW v, NEW sp,
           CorePipe(t, st, q, l, v, sp), Clean(st, q, l, sp),
           NEW lo \in Nat, NEW S, NEW u \in Seq(S), NEW p \in 1 .. Len(ZoneOrder),
           Ahead("walk", t, p, st, lo, u, q, l),
           NEW msg, msg = positionPkt({ZoneOrder[p]}), NEW evs, evs = deriveEvents(st, msg)
    PROVE  Ahead("walk", t, p + 1, nextTagState(st, msg), lo, u, q \o Sent(t, evs), l)
  <1> DEFINE z == ZoneOrder[p]
             cs == CheckList("walk", t)
             new == nextTagState(st, msg)
  <1>1. z \in Zones /\ Len(ZoneOrder) \in Nat /\ p \in Nat
    BY OrderReads
  <1>2. isLocationType(new.lastLocationType) /\ new.lastZoneIds = {z}
    BY <1>1, PositionState
  <1>3. OnCourse("walk", p + 1, new)
    <2>1. (p + 1) - 1 = p
      OBVIOUS
    <2> HIDE DEF new
    <2> QED
      BY <1>2, <2>1 DEF OnCourse
  <1>4. Due("walk", p + 1, new) = p
    BY <1>1 DEF Due
  <1>5. evs = deriveEvents(st, positionPkt({z}))
    OBVIOUS
  <1>6. Lined(cs, lo, p, u, q \o Sent(t, evs), l, Len(u) + Len(q \o Sent(t, evs)))
    <2>1. CASE p = 1
      <3>1. "walk" \in Validated
        BY DEF Validated
      <3>2. Ahead("walk", t, 1, st, lo, u, q, l) /\ evs = deriveEvents(st, positionPkt({ZoneOrder[1]}))
        BY <1>5, <2>1
      <3>3. Lined(CheckList("walk", t), lo, 1, u, q \o Sent(t, evs), l, Len(u) + Len(q \o Sent(t, evs)))
        BY <3>1, <3>2, BeginAhead
      <3> QED
        BY <2>1, <3>3
    <2>2. CASE p # 1
      <3> DEFINE h == p - 1
      <3>1. h \in Nat /\ h + 1 = p /\ p > 1 /\ h \in 1 .. Len(ZoneOrder) - 1
        BY <1>1, <2>2
      <3>2. isLocationType(st.lastLocationType) /\ st.lastZoneIds = {ZoneOrder[h]}
        BY <3>1 DEF Ahead, OnCourse
      <3>3. ZoneOrder[h] # ZoneOrder[h + 1]
        BY <3>1 DEF ZonesDiffer
      <3>4. ~(isLocationType(st.lastLocationType) /\ st.lastZoneIds = {z})
        BY <3>1, <3>2, <3>3
      <3>5. Due("walk", p, st) = h
        BY <2>2 DEF Due
      <3>6. Lined(cs, lo, h, u, q, l, Len(u) + Len(q))
        BY <3>5 DEF Ahead
      <3>7. \A ev \in Event : ev.type = "ZONE" /\ ev.zones = {z} =>
                 Matches(cs[h + 1], domainEventToPb(DomainEvent(t, ev)))
        <4>1. cs[p] = zoneCheck(t, Some({z}))
          <5>1. "walk" \in Validated
            BY DEF Validated
          <5> QED
            BY <5>1, CheckListReads
        <4> HIDE DEF z, cs, h
        <4> QED
          BY <3>1, <4>1, EventMatches
      <3> HIDE DEF h, cs, z
      <3>8. Lined(cs, lo, h + 1, u, q \o Sent(t, evs), l, Len(u) + Len(q \o Sent(t, evs)))
        BY <1>1, <1>5, <3>1, <3>4, <3>6, <3>7, ZoneAhead
      <3> QED
        BY <3>1, <3>8
    <2> QED
      BY <2>1, <2>2
  <1> HIDE DEF new
  <1> QED
    BY <1>3, <1>4, <1>6 DEF Ahead, new

\* The next datagram of offline.
LEMMA OfflineAhead ==
    ASSUME NEW t, NEW st, NEW q, NEW l, NEW v, NEW sp,
           CorePipe(t, st, q, l, v, sp), Clean(st, q, l, sp),
           NEW lo \in Nat, NEW S, NEW u \in Seq(S), NEW p \in {1, 2, 3, 5},
           Ahead("offline", t, p, st, lo, u, q, l),
           NEW msg, msg = positionPkt({ZoneOrder[1]}), NEW evs, evs = deriveEvents(st, msg)
    PROVE  Ahead("offline", t, p + 1, nextTagState(st, msg), lo, u, q \o Sent(t, evs), l)
  <1> DEFINE z == ZoneOrder[1]
             Z == {z}
             cs == CheckList("offline", t)
             new == nextTagState(st, msg)
             due == Due("offline", p + 1, new)
  <1>1. z \in Zones /\ Z \in SUBSET Zones
    BY OrderReads
  <1>2. new.online /\ isLocationType(new.lastLocationType) /\ new.lastZoneIds = {z}
    BY <1>1, PositionState
  <1>3. AtFirst(new)
    BY <1>2 DEF AtFirst
  <1>4. OnCourse("offline", p + 1, new)
    BY <1>3 DEF OnCourse
  <1>5. "offline" \in Validated
    BY DEF Validated
  <1>6. /\ st \in tagState /\ TagInv(st, v, FALSE) /\ q \in Seq(OfTag(t))
    BY DEF CorePipe
  <1>7. evs = deriveEvents(st, positionPkt(Z))
    OBVIOUS
  <1>8. Lined(cs, lo, due, u, q \o Sent(t, evs), l, Len(u) + Len(q \o Sent(t, evs)))
    <2>1. CASE p = 1
      <3>1. due = 1
        BY <1>2, <2>1 DEF Due
      <3>2. Ahead("offline", t, 1, st, lo, u, q, l)
        BY <2>1
      <3>3. Lined(CheckList("offline", t), lo, 1, u, q \o Sent(t, evs), l, Len(u) + Len(q \o Sent(t, evs)))
        BY <1>5, <3>2, BeginAhead
      <3> QED
        BY <3>1, <3>3
    <2>2. CASE p \in {2, 3}
      <3> DEFINE hi == Due("offline", p, st)
      <3>1. due = 1
        BY <1>2, <2>2 DEF Due
      <3>2. hi \in {1, 2}
        BY <2>2 DEF Due
      <3>3. Lined(cs, lo, hi, u, q, l, Len(u) + Len(q))
        BY DEF Ahead
      <3>4. evs \in Seq(Event)
        BY <1>1, <1>6, PositionEvents
      <3> HIDE DEF hi, cs, due
      <3> DEFINE one == 1
      <3>5. hi \in Nat /\ one \in Nat /\ one <= hi
        BY <3>2
      <3> HIDE DEF one
      <3>6. Lined(cs, lo, one, u, q \o Sent(t, evs), l, Len(u) + Len(q \o Sent(t, evs)))
        BY <1>6, <3>3, <3>4, <3>5, SameAhead
      <3> QED
        BY <3>1, <3>6 DEF one
    <2>3. CASE p = 5
      <3> DEFINE hi == 2
      <3>1. due = hi + 1 /\ Due("offline", p, st) = hi /\ hi \in Nat /\ hi + 1 \in Nat
        BY <1>2, <2>3 DEF Due
      <3>2. Lined(cs, lo, hi, u, q, l, Len(u) + Len(q))
        BY <3>1 DEF Ahead
      <3>3. cs[hi + 1] = presenceCheck(t, "ACTIVE")
        BY <1>5, CheckListReads
      <3>4. isLocationType(st.lastLocationType) /\ ~st.online
        BY <2>3 DEF Ahead, OnCourse, AtFirst
      <3>5. WasOffline(st) /\ v.presence = "INACTIVE"
        BY <1>6, <3>4 DEF WasOffline, hadHistory, isLocationType, TagInv
      <3> HIDE DEF hi, cs, due, Z
      <3>6. /\ evs \in Seq(Event) /\ 1 \in 1 .. Len(evs)
            /\ Lined(cs, lo, hi + 1, u, q \o Sent(t, evs), l, Len(u) + Len(q) + 1)
        BY <1>1, <1>7, <3>1, <3>2, <3>3, <3>5, BackAhead
      <3>7. Lined(cs, lo, hi + 1, u, q \o Sent(t, evs), l, Len(u) + Len(q \o Sent(t, evs)))
        BY <1>6, <3>1, <3>6, AllAhead
      <3> QED
        BY <3>1, <3>7
    <2> QED
      BY <2>1, <2>2, <2>3
  <1> HIDE DEF new, due
  <1> QED
    BY <1>4, <1>8 DEF Ahead, new, due

\* The next datagram of lost.
LEMMA LostAhead ==
    ASSUME NEW t, NEW st, NEW q, NEW l, NEW v, NEW sp,
           CorePipe(t, st, q, l, v, sp), Clean(st, q, l, sp),
           NEW lo \in Nat, NEW S, NEW u \in Seq(S), NEW p \in {1, 2, 3},
           Ahead("lost", t, p, st, lo, u, q, l),
           NEW msg, msg = IF p = 2 THEN noLocationPkt ELSE positionPkt({ZoneOrder[1]}),
           NEW evs, evs = deriveEvents(st, msg)
    PROVE  Ahead("lost", t, p + 1, nextTagState(st, msg), lo, u, q \o Sent(t, evs), l)
  <1> DEFINE z == ZoneOrder[1]
             Z == {z}
             cs == CheckList("lost", t)
             new == nextTagState(st, msg)
             due == Due("lost", p + 1, new)
  <1>1. z \in Zones /\ Z \in SUBSET Zones /\ Z # {}
    BY OrderReads
  <1>2. "lost" \in Validated
    BY DEF Validated
  <1>3. /\ st \in tagState /\ TagInv(st, v, FALSE) /\ q \in Seq(OfTag(t))
    BY DEF CorePipe
  <1>4. /\ cs[2] = presenceCheck(t, "INACTIVE") /\ cs[3] = presenceCheck(t, "ACTIVE")
        /\ cs[4] = zoneCheck(t, Nil)
    BY <1>2, CheckListReads
  <1>5. CASE p = 1
    <2>1. msg = positionPkt(Z) /\ due = 1 /\ p + 1 = 2
      BY <1>5 DEF Due
    <2>2. new.online /\ new.silence = 0 /\ isLocationType(new.lastLocationType) /\ new.lastZoneIds = {z}
      BY <1>1, <2>1, PositionState
    <2>3. OnCourse("lost", p + 1, new)
      <3> HIDE DEF new
      <3>1. AtFirst(new)
        BY <2>2 DEF AtFirst
      <3> QED
        BY <2>1, <2>2, <3>1 DEF OnCourse
    <2>4. Ahead("lost", t, 1, st, lo, u, q, l) /\ evs = deriveEvents(st, positionPkt({ZoneOrder[1]}))
      BY <1>5, <2>1
    <2>5. Lined(CheckList("lost", t), lo, 1, u, q \o Sent(t, evs), l, Len(u) + Len(q \o Sent(t, evs)))
      BY <1>2, <2>4, BeginAhead
    <2>6. Lined(cs, lo, due, u, q \o Sent(t, evs), l, Len(u) + Len(q \o Sent(t, evs)))
      BY <2>1, <2>5
    <2> HIDE DEF new, due
    <2> QED
      BY <2>3, <2>6 DEF Ahead, new, due
  <1>6. CASE p = 2
    <2> DEFINE hi == 1
    <2>1. msg = noLocationPkt /\ due = hi + 1 /\ Due("lost", p, st) = hi /\ hi \in Nat /\ p + 1 = 3
      BY <1>6 DEF Due
    <2>2. isLocationType(st.lastLocationType) /\ st.online
      BY <1>6 DEF Ahead, OnCourse, AtFirst
    <2>3. new.locationLost
      <3>1. LocationLost(st, noLocationPkt)
        BY <2>2, NoLocationReads DEF LocationLost, hadHistory, isLocationType
      <3> QED
        BY <2>1, <3>1 DEF nextTagState, lostAfter
    <2>4. OnCourse("lost", p + 1, new)
      BY <2>1, <2>3 DEF OnCourse
    <2>5. Lined(cs, lo, hi, u, q, l, Len(u) + Len(q))
      BY <2>1 DEF Ahead
    <2>6. cs[hi + 1] = presenceCheck(t, "INACTIVE") /\ evs = deriveEvents(st, noLocationPkt)
      BY <1>4, <2>1
    <2> HIDE DEF hi, cs, due
    <2>7. Lined(cs, lo, hi + 1, u, q \o Sent(t, evs), l, Len(u) + Len(q \o Sent(t, evs)))
      BY <2>1, <2>2, <2>5, <2>6, LocationAhead
    <2>8. Lined(cs, lo, due, u, q \o Sent(t, evs), l, Len(u) + Len(q \o Sent(t, evs)))
      BY <2>1, <2>7
    <2> HIDE DEF new
    <2> QED
      BY <2>4, <2>8 DEF Ahead, new, due, cs
  <1>7. CASE p = 3
    <2> DEFINE hi == 2
               hj == 3
    <2>1. /\ msg = positionPkt(Z) /\ due = 4 /\ Due("lost", p, st) = hi /\ p + 1 = 4
          /\ hi \in Nat /\ hj \in Nat /\ hj + 1 = 4 /\ hj = hi + 1 /\ hj + 1 \in Nat
      BY <1>7 DEF Due
    <2>2. OnCourse("lost", p + 1, new)
      BY <2>1 DEF OnCourse
    <2>3. Lined(cs, lo, hi, u, q, l, Len(u) + Len(q))
      BY <2>1 DEF Ahead
    <2>4. st.locationLost
      BY <1>7 DEF Ahead, OnCourse
    <2>5. /\ hadHistory(st) /\ ~isLocationType(st.lastLocationType) /\ v.presence = "INACTIVE"
      BY <1>3, <2>4 DEF TagInv
    <2>6. LocationRestored(st, positionPkt(Z))
      <3> HIDE DEF Z
      <3>1. positionPkt(Z).type = "position"
        BY <1>1, PositionReads
      <3> QED
        BY <2>5, <3>1 DEF LocationRestored, isLocationType
    <2>7. cs[hi + 1] = presenceCheck(t, "ACTIVE") /\ cs[hj + 1] = zoneCheck(t, Nil)
      BY <1>4
    <2>8. evs = deriveEvents(st, positionPkt(Z))
      BY <2>1
    <2> HIDE DEF hi, hj, cs, due, Z
    <2>9. SnapshotDue(st, positionPkt(Z)) /\ v.zones # Z
      BY <1>1, <1>3, <2>5, NewZones
    <2>10. /\ evs \in Seq(Event) /\ Len(evs) > 1
           /\ Lined(cs, lo, hi + 1, u, q \o Sent(t, evs), l, Len(u) + Len(q) + 1)
      BY <1>1, <2>1, <2>3, <2>5, <2>6, <2>7, <2>8, <2>9, BackAhead
    <2>11. Lined(cs, lo, hj, u, q \o Sent(t, evs), l, Len(u) + Len(q) + 1)
      BY <2>1, <2>10
    <2>12. /\ \A i \in 1 .. Len(evs) : evs[i].type = "ZONE" => i = Len(evs)
           /\ evs[Len(evs)].type = "ZONE" /\ evs[Len(evs)].zones = Z
      <3>1. st \in tagState /\ Z \in SUBSET Zones /\ SnapshotDue(st, positionPkt(Z))
        BY <1>1, <1>3, <2>9
      <3> QED
        BY ONLY <2>8, <3>1, PositionZone
    <2> DEFINE m == Len(evs)
               one == 1
    <2>13. /\ m \in 1 .. Len(evs) /\ one < m /\ one \in Nat
           /\ \A i \in 1 .. m - 1 : i \in 1 .. Len(evs) /\ i # Len(evs)
      BY <2>10
    <2>14. evs[m] \in Event /\ evs[m].type = "ZONE" /\ evs[m].zones = Z
      BY <2>10, <2>12, <2>13
    <2>15. \A i \in 1 .. m - 1 : evs[i].type # evs[m].type
      BY <2>12, <2>13, <2>14
    <2> HIDE DEF m, one
    <2>16. ~Says(evs[m], evs[m].type, v)
      BY <2>9, <2>14 DEF Says
    <2>17. Matches(cs[hj + 1], domainEventToPb(DomainEvent(t, evs[m])))
      BY <2>7, <2>14, EventMatches
    <2>18. /\ sp \in SUBSET ChangeTypes /\ Reported(t, q, l, v, sp)
           /\ \A k \in ChangeTypes \ sp : l[k] = Nil /\ \A i \in 1 .. Len(q) : q[i].type # k
      BY DEF CorePipe, Clean
    <2>19. Lined(cs, lo, hj, u, q \o Sent(t, evs), l, Len(u) + Len(q) + one)
      BY <2>11 DEF one
    <2>20. Lined(cs, lo, hj + 1, u, q \o Sent(t, evs), l, Len(u) + Len(q) + m)
      BY <1>3, <2>1, <2>10, <2>13, <2>15, <2>16, <2>17, <2>18, <2>19, MoreAhead
    <2>21. Lined(cs, lo, hj + 1, u, q \o Sent(t, evs), l, Len(u) + Len(q \o Sent(t, evs)))
      BY <1>3, <2>1, <2>10, <2>13, <2>20, AllAhead
    <2>22. Lined(cs, lo, due, u, q \o Sent(t, evs), l, Len(u) + Len(q \o Sent(t, evs)))
      BY <2>1, <2>21
    <2> HIDE DEF new
    <2> QED
      BY <2>2, <2>22 DEF Ahead, new, due, cs
  <1> QED
    BY <1>5, <1>6, <1>7

\* The end of a silence: the watchdog has reported it.
LEMMA SilenceAhead ==
    ASSUME NEW t, NEW st, NEW q, NEW v, TagInv(st, v, FALSE), NEW l, NEW lo, NEW u,
           Ahead("offline", t, 4, st, lo, u, q, l),
           hadHistory(st) => st.silence >= OfflineThreshold /\ ~Overdue(st)
    PROVE  Ahead("offline", t, 5, st, lo, u, q, l)
  <1>1. AtFirst(st)
    BY DEF Ahead, OnCourse
  <1>2. ~st.locationLost /\ ~st.online
    BY <1>1 DEF AtFirst, isLocationType, hadHistory, TagInv, Overdue
  <1>3. Due("offline", 4, st) = 2 /\ Due("offline", 5, st) = 2
    BY <1>2 DEF Due
  <1>4. OnCourse("offline", 5, st)
    BY <1>1, <1>2 DEF OnCourse
  <1> QED
    BY <1>3, <1>4 DEF Ahead

\* Time passes while nothing is to be sent.
LEMMA ElapseAhead ==
    ASSUME NEW sc \in Validated, NEW t, NEW p, NEW st \in tagState, NEW lo, NEW u, NEW q, NEW l,
           Ahead(sc, t, p, st, lo, u, q, l), ~(sc = "lost" /\ p = 2)
    PROVE  Ahead(sc, t, p, Elapse(st), lo, u, q, l)
  <1> DEFINE new == Elapse(st)
  <1>1. /\ new.lastLocationType = st.lastLocationType /\ new.lastZoneIds = st.lastZoneIds
        /\ new.online = st.online /\ new.locationLost = st.locationLost
    BY DEF Elapse, tagState
  <1> HIDE DEF new
  <1>2. AtFirst(new) = AtFirst(st)
    BY <1>1 DEF AtFirst
  <1>3. Due(sc, p, new) = Due(sc, p, st)
    BY <1>1, <1>2 DEF Due
  <1>4. p > 1 /\ OnCourse(sc, p, st) => OnCourse(sc, p, new)
    BY <1>1, <1>2 DEF OnCourse
  <1> QED
    BY <1>3, <1>4 DEF Ahead, new

\* A round of the watchdog.
LEMMA SweepAhead ==
    ASSUME NEW t, NEW st, NEW q, NEW l, NEW v, NEW sp,
           CorePipe(t, st, q, l, v, sp), Clean(st, q, l, sp), NEW sc \in Validated,
           NEW lo \in Nat, NEW S, NEW u \in Seq(S), NEW p \in Nat,
           \/ sc = "walk" /\ p <= Len(ZoneOrder) + 1
           \/ sc = "offline" /\ p <= 6
           \/ sc = "lost" /\ p <= 4,
           Ahead(sc, t, p, st, lo, u, q, l),
           p >= 1, NEW evs, evs = watchdogEvents(st)
    PROVE  Ahead(sc, t, p, watchdogState(st), lo, u, q \o Sent(t, evs), l)
  <1> DEFINE new == watchdogState(st)
             cs == CheckList(sc, t)
             hi == Due(sc, p, st)
             high == Due(sc, p, new)
  <1>1. /\ st \in tagState /\ q \in Seq(OfTag(t))
    BY DEF CorePipe
  <1>2. /\ new.lastLocationType = st.lastLocationType /\ new.lastZoneIds = st.lastZoneIds
        /\ new.locationLost = st.locationLost /\ new.silence = st.silence
        /\ new.online = (st.online /\ ~Overdue(st))
    BY <1>1 DEF watchdogState, tagState
  <1> HIDE DEF new
  <1>3. AtFirst(new) = AtFirst(st)
    BY <1>2 DEF AtFirst
  <1>4. evs \in Seq(Event)
    BY <1>1, SweepEvents
  <1>5. Lined(cs, lo, hi, u, q, l, Len(u) + Len(q))
    BY DEF Ahead
  <1>6. p > 1 => OnCourse(sc, p, new)
    <2>1. p > 1 => OnCourse(sc, p, st)
      BY DEF Ahead
    <2>2. st.silence = 0 => ~Overdue(st)
      <3>1. OfflineThreshold \in Nat \ {0}
        BY DeriveAssumption
      <3> QED
        BY <3>1 DEF Overdue
    <2> QED
      BY <1>2, <1>3, <2>1, <2>2 DEF OnCourse
  <1>7. hi \in Nat /\ high \in Nat
    <2>1. p - 1 \in Nat
      OBVIOUS
    <2> QED
      BY <2>1 DEF Due, Validated
  <1>8. CASE high = hi
    <2> HIDE DEF hi, cs, high
    <2>1. hi <= hi
      BY <1>7
    <2>2. Lined(cs, lo, hi, u, q \o Sent(t, evs), l, Len(u) + Len(q \o Sent(t, evs)))
      BY <1>1, <1>4, <1>5, <1>7, <2>1, SameAhead
    <2> QED
      BY <1>6, <1>8, <2>2 DEF Ahead, new, high, cs
  <1>9. CASE high # hi
    <2>1. sc = "offline" /\ hi = 1 /\ high = 2 /\ Overdue(st)
      BY <1>2, <1>3, <1>9 DEF Due, Validated
    <2>2. cs[hi + 1] = presenceCheck(t, "INACTIVE")
      <3>1. hi + 1 = 2
        BY <2>1
      <3>2. cs[2] = presenceCheck(t, "INACTIVE")
        BY <2>1, CheckListReads
      <3> QED
        BY <3>1, <3>2
    <2>3. high = hi + 1
      BY <2>1
    <2> HIDE DEF hi, cs, high
    <2>4. Lined(cs, lo, hi + 1, u, q \o Sent(t, evs), l, Len(u) + Len(q \o Sent(t, evs)))
      BY <1>5, <1>7, <2>1, <2>2, OverdueAhead
    <2> QED
      BY <1>6, <2>3, <2>4 DEF Ahead, new, high, cs
  <1> QED
    BY <1>8, <1>9

-----------------------------------------------------------------------------
(* A message goes from what is under way to the channel, or is taken out.  *)

\* Concatenation, element by element.
LEMMA ConcatReads ==
    ASSUME NEW S, NEW a \in Seq(S), NEW b \in Seq(S)
    PROVE  /\ a \o b \in Seq(S) /\ Len(a) \in Nat /\ Len(b) \in Nat
           /\ Len(a \o b) = Len(a) + Len(b)
           /\ \A i \in 1 .. Len(a) : (a \o b)[i] = a[i]
           /\ \A i \in 1 .. Len(b) : (a \o b)[Len(a) + i] = b[i]
  OBVIOUS

\* Taken out of the channel.
LEMMA TailOfConcat ==
    ASSUME NEW S, NEW a \in Seq(S), a # <<>>, NEW b \in Seq(S)
    PROVE  /\ a \o b \in Seq(S) /\ a \o b # <<>> /\ (a \o b)[1] = Head(a)
           /\ Tail(a \o b) = Tail(a) \o b
  <1>1. /\ Len(a) \in Nat /\ Len(a) >= 1 /\ Head(a) = a[1] /\ Tail(a) \in Seq(S) /\ Len(b) \in Nat
        /\ Len(Tail(a)) = Len(a) - 1 /\ \A i \in 1 .. Len(a) - 1 : Tail(a)[i] = a[i + 1]
    OBVIOUS
  <1> DEFINE r == a \o b
             d == Tail(a)
  <1>0. d \in Seq(S) /\ Len(d) = Len(a) - 1 /\ \A i \in 1 .. Len(a) - 1 : d[i] = a[i + 1]
    BY <1>1
  <1>9. d = Tail(a)
    OBVIOUS
  <1>2. /\ r \in Seq(S) /\ Len(r) = Len(a) + Len(b)
        /\ \A i \in 1 .. Len(a) : r[i] = a[i]
        /\ \A i \in 1 .. Len(b) : r[Len(a) + i] = b[i]
    BY ConcatReads
  <1> HIDE DEF r, d
  <1> DEFINE s == d \o b
  <1>3. /\ s \in Seq(S) /\ Len(s) = Len(d) + Len(b)
        /\ \A i \in 1 .. Len(d) : s[i] = d[i]
        /\ \A i \in 1 .. Len(b) : s[Len(d) + i] = b[i]
    <2>1. d \in Seq(S) /\ b \in Seq(S)
      BY <1>0
    <2> QED
      BY ONLY <2>1, ConcatReads
  <1> HIDE DEF s
  <1>4. r # <<>> /\ r[1] = a[1]
    BY <1>1, <1>2
  <1>5. Tail(r) \in Seq(S) /\ Len(Tail(r)) = Len(r) - 1 /\ \A i \in 1 .. Len(r) - 1 : Tail(r)[i] = r[i + 1]
    BY <1>2, <1>4, TakeFirst
  <1> DEFINE x == Tail(r)
  <1>6. x \in Seq(S) /\ Len(x) = Len(s)
    BY <1>0, <1>1, <1>2, <1>3, <1>5
  <1>a. \A i \in 1 .. Len(r) - 1 : x[i] = r[i + 1]
    BY <1>5
  <1> HIDE DEF x
  <1>7. ASSUME NEW i \in 1 .. Len(x) PROVE x[i] = s[i]
    <2>1. x[i] = r[i + 1] /\ i \in Nat /\ i >= 1 /\ i <= Len(a) - 1 + Len(b)
      BY <1>0, <1>1, <1>2, <1>3, <1>6, <1>a
    <2>2. CASE i <= Len(a) - 1
      <3>1. i \in 1 .. Len(a) - 1 /\ i + 1 \in 1 .. Len(a) /\ i \in 1 .. Len(d)
        BY <1>0, <1>1, <2>1, <2>2
      <3>2. r[i + 1] = a[i + 1]
        BY <1>2, <3>1
      <3>3. s[i] = d[i] /\ d[i] = a[i + 1]
        BY <1>0, <1>3, <3>1
      <3> QED
        BY <2>1, <3>2, <3>3
    <2>3. CASE i > Len(a) - 1
      <3> DEFINE j == i - (Len(a) - 1)
      <3>1. j \in 1 .. Len(b) /\ i + 1 = Len(a) + j /\ i = Len(d) + j
        BY <1>0, <1>1, <2>1, <2>3
      <3> HIDE DEF j
      <3>2. r[i + 1] = b[j]
        BY <1>2, <3>1
      <3>3. s[i] = b[j]
        BY <1>3, <3>1
      <3> QED
        BY <2>1, <3>2, <3>3
    <2> QED
      BY <1>1, <2>1, <2>2, <2>3
  <1>8. x = s
    BY <1>3, <1>6, <1>7, SeqEqual
  <1> QED
    BY <1>1, <1>2, <1>4, <1>8, <1>9 DEF r, s, x

\* Received into the channel.
LEMMA MoveOfConcat ==
    ASSUME NEW S, NEW a \in Seq(S), NEW b \in Seq(S), b # <<>>
    PROVE  Append(a, b[1]) \o Tail(b) = a \o b
  <1>1. b[1] \in S /\ Tail(b) \in Seq(S)
    BY TakeFirst
  <1> DEFINE e == b[1]
             one == <<e>>
             d == Tail(b)
  <1>2. one \in Seq(S) /\ Len(one) = 1 /\ one[1] = e
    BY <1>1
  <1>3. Append(a, e) = a \o one
    BY <1>1, AppendIsConcat
  <1>4. b = one \o d
    <2>1. /\ Len(b) \in Nat /\ Len(b) >= 1 /\ Len(d) = Len(b) - 1 /\ d \in Seq(S)
          /\ \A i \in 1 .. Len(b) - 1 : d[i] = b[i + 1]
      OBVIOUS
    <2>0. e = b[1]
      OBVIOUS
    <2> HIDE DEF d, one, e
    <2> DEFINE r == one \o d
    <2>2. /\ r \in Seq(S) /\ Len(r) = 1 + Len(d)
          /\ \A i \in 1 .. 1 : r[i] = one[i]
          /\ \A i \in 1 .. Len(d) : r[1 + i] = d[i]
      <3>1. /\ r \in Seq(S) /\ Len(r) = Len(one) + Len(d)
            /\ \A i \in 1 .. Len(one) : r[i] = one[i]
            /\ \A i \in 1 .. Len(d) : r[Len(one) + i] = d[i]
        <4>1. one \in Seq(S) /\ d \in Seq(S)
          BY <1>2, <2>1
        <4> QED
          BY ONLY <4>1, ConcatReads
      <3> HIDE DEF r
      <3> QED
        BY <1>2, <3>1
    <2> HIDE DEF r
    <2>3. ASSUME NEW i \in 1 .. Len(b) PROVE b[i] = r[i]
      <3>1. CASE i = 1
        BY <1>2, <2>0, <2>2, <3>1
      <3>2. CASE i # 1
        <4> DEFINE j == i - 1
        <4>1. j \in 1 .. Len(d) /\ j \in 1 .. Len(b) - 1 /\ i = 1 + j /\ i = j + 1
          BY <2>1, <3>2
        <4> HIDE DEF j
        <4> QED
          BY <2>1, <2>2, <4>1
      <3> QED
        BY <3>1, <3>2
    <2>4. Len(b) = Len(r)
      BY <2>1, <2>2
    <2>5. b = r
      BY <2>2, <2>3, <2>4, SeqEqual
    <2> QED
      BY <2>5 DEF r
  <1> HIDE DEF e, one, d
  <1>5. (a \o one) \o d = a \o (one \o d)
    BY <1>1, <1>2, ConcatAssociative, SMTT(30) DEF d
  <1> QED
    BY <1>3, <1>4, <1>5 DEF e, d

\* Pushed by the core.
LEMMA AppendToConcat ==
    ASSUME NEW S, NEW a \in Seq(S), NEW b \in Seq(S), NEW e \in S
    PROVE  a \o Append(b, e) = Append(a \o b, e)
  <1> DEFINE one == <<e>>
  <1>1. one \in Seq(S) /\ Append(b, e) = b \o one
    BY AppendIsConcat
  <1>2. a \o b \in Seq(S)
    BY ConcatReads
  <1>3. Append(a \o b, e) = (a \o b) \o one
    BY <1>2, AppendIsConcat
  <1> HIDE DEF one
  <1>4. (a \o b) \o one = a \o (b \o one)
    BY <1>1, ConcatAssociative
  <1> QED
    BY <1>1, <1>3, <1>4

-----------------------------------------------------------------------------
(* A validation that nothing outside of the core has disturbed is never    *)
(* left waiting for an event that does not come.                           *)

Awaiting == sim = "running" /\ Validating /\ joined /\ ~excused

\* The check of the n-th tag that is waited for first.
FirstOf(n) == IF n = phase THEN step ELSE 1

\* A tag after the one that is validated has not sent anything, and what is due
\* to the n-th is on its way.
Waited(n) ==
    /\ n > phase => pos[TagOrder[n]] = 1
    /\ Ahead(scenario, TagOrder[n], pos[TagOrder[n]], states[TagOrder[n]], FirstOf(n),
             ch \o feed, queue[TagOrder[n]], last[TagOrder[n]])

Expected == Awaiting => \A n \in phase .. Phases : Waited(n)

\* What the invariant says of a tag that is waited for.
LEMMA WaitedGiven ==
    ASSUME SimInv, sim = "running", Validating, NEW n \in phase .. Phases, NEW t, t = TagOrder[n]
    PROVE  /\ t \in Tags /\ n \in Nat /\ phase \in Nat /\ phase >= 1 /\ n >= phase /\ n <= Phases
           /\ Phases \in Nat /\ Phases <= Len(TagOrder) /\ n \in 1 .. Len(TagOrder)
           /\ scenario \in Validated /\ CheckCount(scenario) \in Nat
           /\ CorePipe(t, states[t], queue[t], last[t], view[t], spoke[t])
           /\ Clean(states[t], queue[t], last[t], spoke[t])
           /\ ch \in Seq(Messages) /\ feed \in Seq(Messages) /\ ch \o feed \in Seq(Messages)
           /\ FirstOf(n) \in Nat /\ FirstOf(n) >= 1 /\ FirstOf(n) <= CheckCount(scenario)
           /\ pos[t] \in Nat /\ pos[t] >= 1
           /\ scenario = "walk" => pos[t] <= Len(ZoneOrder) + 1
           /\ scenario = "offline" => pos[t] <= 6
           /\ scenario = "lost" => pos[t] <= 4
           /\ queue[t] \in Seq(OfTag(t))
  <1>1. SimTypes /\ CoreInv /\ PipeInv
    BY DEF SimInv, CoreInv
  <1>2. /\ scenario \in Kinds \ {"stress"} /\ Phases \in Nat /\ Phases >= 1 /\ Phases <= Len(TagOrder)
    BY <1>1, Scenario
  <1>3. /\ phase \in 1 .. Phases /\ step \in 1 .. CheckCount(scenario)
        /\ feed \in Seq(Messages) /\ ch \in Seq(Messages)
        /\ \A u \in Tags : pos[u] \in 1 .. Length(scenario, validate) + 1
    BY <1>1 DEF SimTypes
  <1>4. scenario \in Validated /\ validate = TRUE
    <2>1. validate = TRUE
      BY <1>1 DEF SimTypes, Validating
    <2> QED
      BY <1>2, <2>1 DEF Kinds, Validated
  <1>5. CheckCount(scenario) \in Nat /\ CheckCount(scenario) >= 1
    BY <1>2, CountType
  <1>6. n \in Nat /\ phase \in Nat /\ phase >= 1 /\ n >= phase /\ n <= Phases
    BY <1>2, <1>3
  <1>7. Len(TagOrder) \in Nat /\ n \in 1 .. Len(TagOrder) /\ t \in Tags
    <2>1. Len(TagOrder) \in Nat /\ \A i \in 1 .. Len(TagOrder) : TagOrder[i] \in Tags
      BY OrderReads
    <2>2. n \in 1 .. Len(TagOrder)
      BY <1>2, <1>6, <2>1
    <2> QED
      BY <2>1, <2>2
  <1>8. /\ CorePipe(t, states[t], queue[t], last[t], view[t], spoke[t])
        /\ Clean(states[t], queue[t], last[t], spoke[t])
    BY <1>1, <1>7, CoreTag
  <1>9. queue[t] \in Seq(OfTag(t))
    BY <1>8 DEF CorePipe
  <1>10. ch \o feed \in Seq(Messages)
    BY <1>3
  <1>11. FirstOf(n) \in Nat /\ FirstOf(n) >= 1 /\ FirstOf(n) <= CheckCount(scenario)
    BY <1>3, <1>5 DEF FirstOf
  <1>12. /\ pos[t] \in Nat /\ pos[t] >= 1
         /\ scenario = "walk" => pos[t] <= Len(ZoneOrder) + 1
         /\ scenario = "offline" => pos[t] <= 6
         /\ scenario = "lost" => pos[t] <= 4
    <2>0. Len(ZoneOrder) \in Nat
      BY OrderReads
    <2>1. pos[t] \in 1 .. Length(scenario, validate) + 1
      BY <1>3, <1>7
    <2>2. CASE scenario = "walk"
      BY <2>0, <2>1, <2>2 DEF Length
    <2>3. CASE scenario = "offline"
      <3>1. Length(scenario, validate) = 5
        BY <1>4, <2>3 DEF Length
      <3> QED
        BY <2>1, <2>3, <3>1
    <2>4. CASE scenario = "lost"
      <3>1. Length(scenario, validate) = 3
        BY <1>4, <2>4 DEF Length
      <3> QED
        BY <2>1, <2>4, <3>1
    <2> QED
      BY <1>4, <2>2, <2>3, <2>4 DEF Validated
  <1> QED
    BY <1>2, <1>3, <1>4, <1>5, <1>6, <1>7, <1>8, <1>9, <1>10, <1>11, <1>12

\* What has to be shown of a step.
LEMMA ExpectedLater ==
    ASSUME Awaiting' =>
             \A n \in phase' .. Phases' :
               /\ n > phase' => pos'[TagOrder[n]] = 1
               /\ Ahead(scenario', TagOrder[n], pos'[TagOrder[n]], states'[TagOrder[n]],
                        IF n = phase' THEN step' ELSE 1, ch' \o feed',
                        queue'[TagOrder[n]], last'[TagOrder[n]])
    PROVE  Expected'
  BY DEF Expected, Waited, FirstOf, Awaiting

\* Nothing that matters changes.
LEMMA ExpectedStays ==
    ASSUME Expected, UNCHANGED <<scenario, validate, sim, pos, phase, step, joined, feed, ch, excused>>,
           UNCHANGED <<states, queue, last>>
    PROVE  Expected'
  <1>1. /\ scenario' = scenario /\ validate' = validate /\ sim' = sim /\ pos' = pos /\ phase' = phase
        /\ step' = step /\ joined' = joined /\ feed' = feed /\ ch' = ch /\ excused' = excused
        /\ states' = states /\ queue' = queue /\ last' = last
    OBVIOUS
  <1>2. Phases' = Phases /\ (Awaiting' => Awaiting)
    BY <1>1 DEF Phases, Awaiting, Validating
  <1>3. ASSUME Awaiting', NEW n \in phase' .. Phases'
        PROVE  /\ n > phase' => pos'[TagOrder[n]] = 1
               /\ Ahead(scenario', TagOrder[n], pos'[TagOrder[n]], states'[TagOrder[n]],
                        IF n = phase' THEN step' ELSE 1, ch' \o feed',
                        queue'[TagOrder[n]], last'[TagOrder[n]])
    <2>1. Waited(n)
      BY <1>1, <1>2, <1>3 DEF Expected
    <2> QED
      BY <1>1, <2>1 DEF Waited, FirstOf
  <1> QED
    BY <1>3, ExpectedLater

\* The next datagram of a scenario.
LEMMA MessageAhead ==
    ASSUME ZonesDiffer, NEW sc \in Validated,
           NEW t, NEW st, NEW q, NEW l, NEW v, NEW sp,
           CorePipe(t, st, q, l, v, sp), Clean(st, q, l, sp),
           NEW lo \in Nat, NEW S, NEW u \in Seq(S), NEW p \in 1 .. Length(sc, TRUE),
           StepAt(sc, p) # Silence, Ahead(sc, t, p, st, lo, u, q, l),
           NEW msg, msg = StepAt(sc, p), NEW evs, evs = deriveEvents(st, msg)
    PROVE  Ahead(sc, t, p + 1, nextTagState(st, msg), lo, u, q \o Sent(t, evs), l)
  <1>1. CASE sc = "walk"
    <2>1. p \in 1 .. Len(ZoneOrder) /\ msg = positionPkt({ZoneOrder[p]})
      BY <1>1 DEF Length, StepAt
    <2>2. Ahead("walk", t, p, st, lo, u, q, l)
      BY <1>1
    <2>3. Ahead("walk", t, p + 1, nextTagState(st, msg), lo, u, q \o Sent(t, evs), l)
      BY <2>1, <2>2, WalkAhead
    <2> QED
      BY <1>1, <2>3
  <1>2. CASE sc = "offline"
    <2>0. Length(sc, TRUE) = 5
      BY <1>2 DEF Length
    <2>1. p \in 1 .. 5 /\ p # 4
      BY <1>2, <2>0 DEF StepAt
    <2>2. p \in {1, 2, 3, 5} /\ msg = positionPkt({ZoneOrder[1]})
      BY <1>2, <2>1 DEF StepAt
    <2>3. Ahead("offline", t, p, st, lo, u, q, l)
      BY <1>2
    <2>4. Ahead("offline", t, p + 1, nextTagState(st, msg), lo, u, q \o Sent(t, evs), l)
      BY <2>2, <2>3, OfflineAhead
    <2> QED
      BY <1>2, <2>4
  <1>3. CASE sc = "lost"
    <2>0. Length(sc, TRUE) = 3
      BY <1>3 DEF Length
    <2>2. p \in {1, 2, 3} /\ msg = IF p = 2 THEN noLocationPkt ELSE positionPkt({ZoneOrder[1]})
      <3>1. p \in {1, 2, 3}
        <4>1. p \in 1 .. 3
          BY <2>0
        <4> QED
          BY ONLY <4>1
      <3>2. StepAt("lost", p) = IF p = 2 THEN noLocationPkt ELSE positionPkt({ZoneOrder[1]})
        BY DEF StepAt
      <3> QED
        BY <1>3, <3>1, <3>2
    <2>3. Ahead("lost", t, p, st, lo, u, q, l)
      BY <1>3
    <2>4. Ahead("lost", t, p + 1, nextTagState(st, msg), lo, u, q \o Sent(t, evs), l)
      BY <2>2, <2>3, LostAhead
    <2> QED
      BY <1>3, <2>4
  <1> QED
    BY <1>1, <1>2, <1>3 DEF Validated

\* A datagram that arrives.
LEMMA EmitExpected ==
    ASSUME ZonesDiffer, SimInv, Expected, NEW t \in Tags, Emit(t)
    PROVE  Expected'
  <1>1. /\ sim = "running" /\ t \in Senders /\ pos[t] <= Len(Program) /\ Program[pos[t]] # Silence
        /\ ReadDatagram(t, Program[pos[t]]) /\ Advance(t)
        /\ excused' = (excused \/ (Validating /\ ~joined))
        /\ scenario' = scenario /\ validate' = validate /\ sim' = sim /\ phase' = phase
        /\ step' = step /\ joined' = joined /\ feed' = feed /\ ch' = ch
    BY DEF Emit, Sending, netVars
  <1>2. SimTypes /\ PipeInv
    BY DEF SimInv, CoreInv
  <1>3. Program[pos[t]] \in Packets /\ Program[pos[t]] = StepAt(scenario, pos[t])
        /\ pos[t] \in 1 .. Length(scenario, validate) /\ Program[pos[t]] \in Datagram
    <2>1. Program[pos[t]] \in Packets /\ Program[pos[t]] = StepAt(scenario, pos[t])
          /\ pos[t] \in 1 .. Length(scenario, validate)
      BY <1>1, <1>2, SendingReads
    <2> QED
      BY <2>1, PacketCases
  <1> DEFINE msg == Program[pos[t]]
             evs == deriveEvents(states[t], msg)
  <1>4. /\ last' = last
        /\ states'[t] = nextTagState(states[t], msg)
        /\ queue'[t] = queue[t] \o Sent(t, evs)
        /\ \A u \in Tags : u # t => states'[u] = states[u] /\ queue'[u] = queue[u]
    BY <1>1, <1>2, <1>3, DatagramDoes, ZenonT(30)
  <1>5. /\ \A u \in Tags : u # t => pos'[u] = pos[u]
        /\ Validating => pos'[t] = pos[t] + 1
    <2>1. pos[t] <= Length(scenario, validate)
      BY <1>2, <1>3, Scenario
    <2> QED
      BY <1>1, <1>2, <2>1, AdvanceKeeps
  <1> HIDE DEF msg, evs
  <1>6. ASSUME Awaiting', NEW n \in phase' .. Phases'
        PROVE  /\ n > phase' => pos'[TagOrder[n]] = 1
               /\ Ahead(scenario', TagOrder[n], pos'[TagOrder[n]], states'[TagOrder[n]],
                        IF n = phase' THEN step' ELSE 1, ch' \o feed',
                        queue'[TagOrder[n]], last'[TagOrder[n]])
    <2>1. Awaiting /\ Phases' = Phases /\ Validating /\ validate = TRUE
      BY <1>1, <1>2, <1>6 DEF Awaiting, Phases, Validating, SimTypes
    <2>2. n \in phase .. Phases /\ Waited(n)
      BY <1>1, <2>1, <1>6 DEF Expected
    <2> DEFINE u == TagOrder[n]
    <2>3. /\ u \in Tags /\ n \in Nat /\ phase \in Nat /\ phase >= 1 /\ n >= phase /\ n <= Phases
          /\ Phases \in Nat /\ Phases <= Len(TagOrder) /\ n \in 1 .. Len(TagOrder)
          /\ scenario \in Validated
          /\ CorePipe(u, states[u], queue[u], last[u], view[u], spoke[u])
          /\ Clean(states[u], queue[u], last[u], spoke[u])
          /\ ch \o feed \in Seq(Messages) /\ FirstOf(n) \in Nat
      BY <1>1, <2>1, <2>2, WaitedGiven
    <2>4. /\ n > phase => pos[u] = 1
          /\ Ahead(scenario, u, pos[u], states[u], FirstOf(n), ch \o feed, queue[u], last[u])
      BY <2>2 DEF Waited
    <2>5. t = TagOrder[phase] /\ phase \in 1 .. Len(TagOrder)
      BY <1>1, <2>1, <2>3 DEF Senders
    <2> SUFFICES /\ n > phase => pos'[u] = 1
                 /\ Ahead(scenario, u, pos'[u], states'[u], FirstOf(n), ch \o feed, queue'[u], last[u])
      BY <1>1, <1>4 DEF FirstOf
    <2>6. CASE n = phase
      <3>1. u = t
        BY <2>5, <2>6
      <3> HIDE DEF u
      <3>2. /\ scenario \in Validated
            /\ CorePipe(t, states[t], queue[t], last[t], view[t], spoke[t])
            /\ Clean(states[t], queue[t], last[t], spoke[t])
            /\ ch \o feed \in Seq(Messages) /\ FirstOf(n) \in Nat
            /\ pos[t] \in 1 .. Length(scenario, TRUE) /\ StepAt(scenario, pos[t]) # Silence
            /\ Ahead(scenario, t, pos[t], states[t], FirstOf(n), ch \o feed, queue[t], last[t])
            /\ msg = StepAt(scenario, pos[t]) /\ evs = deriveEvents(states[t], msg)
        BY <1>1, <1>3, <2>1, <2>3, <2>4, <3>1 DEF msg, evs
      <3>3. Ahead(scenario, t, pos[t] + 1, nextTagState(states[t], msg), FirstOf(n), ch \o feed,
                  queue[t] \o Sent(t, evs), last[t])
        BY ONLY ZonesDiffer, <3>2, MessageAhead
      <3>4. pos'[t] = pos[t] + 1
        BY <1>5, <2>1
      <3>5. ~(n > phase)
        BY <2>3, <2>6
      <3> QED
        BY <1>4, <3>1, <3>3, <3>4, <3>5
    <2>7. CASE n > phase
      <3>1. u # t
        BY <2>3, <2>5, <2>7, OrderReads
      <3> HIDE DEF u
      <3> QED
        BY <1>4, <1>5, <2>3, <2>4, <2>7, <3>1
    <2> QED
      BY <2>3, <2>6, <2>7
  <1> QED
    BY <1>6, ExpectedLater

\* The end of a silence.
LEMMA ResumeExpected ==
    ASSUME SimInv, Expected, NEW t \in Tags, Resume(t)
    PROVE  Expected'
  <1>1. /\ sim = "running" /\ t \in Senders /\ pos[t] <= Len(Program) /\ Program[pos[t]] = Silence
        /\ hadHistory(states[t]) => states[t].silence >= OfflineThreshold /\ ~Overdue(states[t])
        /\ Advance(t)
        /\ scenario' = scenario /\ validate' = validate /\ sim' = sim /\ phase' = phase
        /\ step' = step /\ joined' = joined /\ feed' = feed /\ ch' = ch /\ excused' = excused
        /\ states' = states /\ queue' = queue /\ last' = last
    BY DEF Resume, netVars, pipeVars, memVars
  <1>2. SimTypes /\ PipeInv
    BY DEF SimInv, CoreInv
  <1>3. scenario = "offline" /\ pos[t] = 4 /\ pos[t] <= Length(scenario, validate)
    <2>1. pos[t] \in 1 .. Length(scenario, validate) /\ scenario = "offline" /\ pos[t] = 4
      BY <1>1, <1>2, SendingReads
    <2> QED
      BY <1>2, <2>1, Scenario
  <1>5. /\ \A u \in Tags : u # t => pos'[u] = pos[u]
        /\ Validating => pos'[t] = pos[t] + 1
    BY <1>1, <1>2, <1>3, AdvanceKeeps
  <1>6. ASSUME Awaiting', NEW n \in phase' .. Phases'
        PROVE  /\ n > phase' => pos'[TagOrder[n]] = 1
               /\ Ahead(scenario', TagOrder[n], pos'[TagOrder[n]], states'[TagOrder[n]],
                        IF n = phase' THEN step' ELSE 1, ch' \o feed',
                        queue'[TagOrder[n]], last'[TagOrder[n]])
    <2>1. Awaiting /\ Phases' = Phases /\ Validating
      BY <1>1, <1>6 DEF Awaiting, Phases, Validating
    <2>2. n \in phase .. Phases /\ Waited(n)
      BY <1>1, <2>1, <1>6 DEF Expected
    <2> DEFINE u == TagOrder[n]
    <2>3. /\ u \in Tags /\ n \in Nat /\ phase \in Nat /\ phase >= 1 /\ n >= phase /\ n <= Phases
          /\ Phases \in Nat /\ Phases <= Len(TagOrder) /\ n \in 1 .. Len(TagOrder)
          /\ CorePipe(u, states[u], queue[u], last[u], view[u], spoke[u])
      BY <1>1, <2>1, <2>2, WaitedGiven
    <2>4. /\ n > phase => pos[u] = 1
          /\ Ahead(scenario, u, pos[u], states[u], FirstOf(n), ch \o feed, queue[u], last[u])
      BY <2>2 DEF Waited
    <2>5. t = TagOrder[phase] /\ phase \in 1 .. Len(TagOrder)
      BY <1>1, <2>1, <2>3 DEF Senders
    <2> SUFFICES /\ n > phase => pos'[u] = 1
                 /\ Ahead(scenario, u, pos'[u], states[u], FirstOf(n), ch \o feed, queue[u], last[u])
      BY <1>1 DEF FirstOf
    <2>6. CASE n = phase
      <3>1. u = t
        BY <2>5, <2>6
      <3> HIDE DEF u
      <3>2. /\ TagInv(states[t], view[t], FALSE)
            /\ Ahead("offline", t, 4, states[t], FirstOf(n), ch \o feed, queue[t], last[t])
            /\ hadHistory(states[t]) => states[t].silence >= OfflineThreshold /\ ~Overdue(states[t])
        BY <1>1, <1>3, <2>3, <2>4, <3>1 DEF CorePipe
      <3>3. Ahead("offline", t, 5, states[t], FirstOf(n), ch \o feed, queue[t], last[t])
        BY ONLY <3>2, SilenceAhead
      <3>4. pos'[t] = 5
        BY <1>3, <1>5, <2>1
      <3>5. ~(n > phase)
        BY <2>3, <2>6
      <3> QED
        BY <1>3, <3>1, <3>3, <3>4, <3>5
    <2>7. CASE n > phase
      <3>1. u # t
        BY <2>3, <2>5, <2>7, OrderReads
      <3> HIDE DEF u
      <3> QED
        BY <1>5, <2>3, <2>4, <2>7, <3>1
    <2> QED
      BY <2>3, <2>6, <2>7
  <1> QED
    BY <1>6, ExpectedLater

\* Time.
LEMMA TimeExpected ==
    ASSUME SimInv, Expected, TimePasses
    PROVE  Expected'
  <1>1. /\ \A t \in Tags : ~Sending(t)
        /\ Tick
        /\ scenario' = scenario /\ validate' = validate /\ sim' = sim /\ phase' = phase /\ pos' = pos
        /\ step' = step /\ joined' = joined /\ feed' = feed /\ ch' = ch /\ excused' = excused
    BY DEF TimePasses, netVars, simVars
  <1>2. SimTypes /\ PipeInv
    BY DEF SimInv, CoreInv
  <1>3. /\ \A t \in Tags : states'[t] = Elapse(states[t])
        /\ queue' = queue /\ last' = last
    BY <1>1, TickDoes
  <1>6. ASSUME Awaiting', NEW n \in phase' .. Phases'
        PROVE  /\ n > phase' => pos'[TagOrder[n]] = 1
               /\ Ahead(scenario', TagOrder[n], pos'[TagOrder[n]], states'[TagOrder[n]],
                        IF n = phase' THEN step' ELSE 1, ch' \o feed',
                        queue'[TagOrder[n]], last'[TagOrder[n]])
    <2>1. Awaiting /\ Phases' = Phases /\ Validating /\ sim = "running"
      BY <1>1, <1>6 DEF Awaiting, Phases, Validating
    <2>2. n \in phase .. Phases /\ Waited(n)
      BY <1>1, <2>1, <1>6 DEF Expected
    <2> DEFINE u == TagOrder[n]
    <2>3. /\ u \in Tags /\ n \in Nat /\ phase \in Nat /\ phase >= 1 /\ n >= phase /\ n <= Phases
          /\ scenario \in Validated
          /\ CorePipe(u, states[u], queue[u], last[u], view[u], spoke[u])
      BY <1>1, <2>1, <2>2, WaitedGiven
    <2>4. /\ n > phase => pos[u] = 1
          /\ Ahead(scenario, u, pos[u], states[u], FirstOf(n), ch \o feed, queue[u], last[u])
      BY <2>2 DEF Waited
    <2> SUFFICES Ahead(scenario, u, pos[u], Elapse(states[u]), FirstOf(n), ch \o feed, queue[u], last[u])
      BY <1>1, <1>3, <2>3, <2>4 DEF FirstOf
    <2>5. ~(scenario = "lost" /\ pos[u] = 2)
      <3> SUFFICES ASSUME scenario = "lost", pos[u] = 2 PROVE FALSE
        OBVIOUS
      <3>1. n = phase
        BY <2>3, <2>4
      <3>2. u \in Senders
        BY <2>1, <3>1 DEF Senders
      <3>3. scenario \in Kinds /\ validate = TRUE
        BY <1>2, <2>1, Scenario DEF SimTypes, Validating
      <3>4. Length(scenario, validate) = 3
        BY <3>3 DEF Length
      <3>5. Len(Program) = 3 /\ Program[2] = StepAt(scenario, 2)
        <4>1. /\ Len(Program) = Length(scenario, validate)
              /\ \A i \in 1 .. Length(scenario, validate) : Program[i] = StepAt(scenario, i)
          BY <3>3, ProgramIs
        <4> QED
          BY <3>4, <4>1
      <3>6. StepAt(scenario, 2) # Silence
        <4>1. 2 \in 1 .. Length(scenario, validate)
          BY <3>4
        <4> QED
          BY <3>3, <4>1, StepCases
      <3>7. Sending(u)
        BY <2>1, <3>2, <3>5, <3>6 DEF Sending
      <3> QED
        BY <1>1, <2>3, <3>7
    <2> HIDE DEF u
    <2>6. /\ scenario \in Validated /\ states[u] \in tagState
          /\ Ahead(scenario, u, pos[u], states[u], FirstOf(n), ch \o feed, queue[u], last[u])
          /\ ~(scenario = "lost" /\ pos[u] = 2)
      BY <2>3, <2>4, <2>5 DEF CorePipe
    <2> QED
      BY ONLY <2>6, ElapseAhead
  <1> QED
    BY <1>6, ExpectedLater

\* A round of the watchdog.
LEMMA SweepExpected ==
    ASSUME SimInv, Expected, WatchdogSweep
    PROVE  Expected'
  <1>1. /\ Sweep
        /\ scenario' = scenario /\ validate' = validate /\ sim' = sim /\ phase' = phase /\ pos' = pos
        /\ step' = step /\ joined' = joined /\ feed' = feed /\ ch' = ch /\ excused' = excused
    BY DEF WatchdogSweep, netVars
  <1>2. SimTypes /\ PipeInv
    BY DEF SimInv, CoreInv
  <1>3. /\ last' = last
        /\ \A t \in Tags : /\ states'[t] = watchdogState(states[t])
                           /\ queue'[t] = queue[t] \o Sent(t, watchdogEvents(states[t]))
    BY <1>1, <1>2, SweepDoes
  <1>6. ASSUME Awaiting', NEW n \in phase' .. Phases'
        PROVE  /\ n > phase' => pos'[TagOrder[n]] = 1
               /\ Ahead(scenario', TagOrder[n], pos'[TagOrder[n]], states'[TagOrder[n]],
                        IF n = phase' THEN step' ELSE 1, ch' \o feed',
                        queue'[TagOrder[n]], last'[TagOrder[n]])
    <2>1. Awaiting /\ Phases' = Phases /\ Validating /\ sim = "running"
      BY <1>1, <1>6 DEF Awaiting, Phases, Validating
    <2>2. n \in phase .. Phases /\ Waited(n)
      BY <1>1, <2>1, <1>6 DEF Expected
    <2> DEFINE u == TagOrder[n]
               evs == watchdogEvents(states[u])
    <2>3. /\ u \in Tags /\ scenario \in Validated
          /\ CorePipe(u, states[u], queue[u], last[u], view[u], spoke[u])
          /\ Clean(states[u], queue[u], last[u], spoke[u])
          /\ ch \o feed \in Seq(Messages) /\ FirstOf(n) \in Nat
          /\ pos[u] \in Nat /\ pos[u] >= 1
          /\ scenario = "walk" => pos[u] <= Len(ZoneOrder) + 1
          /\ scenario = "offline" => pos[u] <= 6
          /\ scenario = "lost" => pos[u] <= 4
      BY <1>1, <2>1, <2>2, WaitedGiven
    <2>4. /\ n > phase => pos[u] = 1
          /\ Ahead(scenario, u, pos[u], states[u], FirstOf(n), ch \o feed, queue[u], last[u])
      BY <2>2 DEF Waited
    <2> SUFFICES Ahead(scenario, u, pos[u], watchdogState(states[u]), FirstOf(n), ch \o feed,
                       queue[u] \o Sent(u, evs), last[u])
      BY <1>1, <1>3, <2>3, <2>4 DEF FirstOf
    <2>6. \/ scenario = "walk" /\ pos[u] <= Len(ZoneOrder) + 1
          \/ scenario = "offline" /\ pos[u] <= 6
          \/ scenario = "lost" /\ pos[u] <= 4
      <3>1. scenario = "walk" \/ scenario = "offline" \/ scenario = "lost"
        BY <2>3 DEF Validated
      <3> HIDE DEF u
      <3> QED
        BY <2>3, <3>1
    <2>7. evs = watchdogEvents(states[u])
      OBVIOUS
    <2> HIDE DEF u, evs
    <2>5. /\ CorePipe(u, states[u], queue[u], last[u], view[u], spoke[u])
          /\ Clean(states[u], queue[u], last[u], spoke[u]) /\ scenario \in Validated
          /\ FirstOf(n) \in Nat /\ ch \o feed \in Seq(Messages) /\ pos[u] \in Nat
          /\ \/ scenario = "walk" /\ pos[u] <= Len(ZoneOrder) + 1
             \/ scenario = "offline" /\ pos[u] <= 6
             \/ scenario = "lost" /\ pos[u] <= 4
          /\ Ahead(scenario, u, pos[u], states[u], FirstOf(n), ch \o feed, queue[u], last[u])
          /\ pos[u] >= 1 /\ evs = watchdogEvents(states[u])
      BY <2>3, <2>4, <2>6, <2>7
    <2> QED
      BY ONLY <2>5, SweepAhead
  <1> QED
    BY <1>6, ExpectedLater

\* What is due is a number of checks.
LEMMA DueType ==
    ASSUME NEW sc \in Validated, NEW p \in Nat, p >= 1, NEW st
    PROVE  Due(sc, p, st) \in Nat
  <1>1. CASE sc = "walk"
    BY <1>1 DEF Due
  <1>2. CASE sc = "offline"
    BY <1>2 DEF Due
  <1>3. CASE sc = "lost"
    BY <1>3 DEF Due
  <1> QED
    BY <1>1, <1>2, <1>3 DEF Validated

\* The core pushes an event of another tag.
LEMMA OtherAhead ==
    ASSUME NEW sc \in Validated, NEW t, NEW st, NEW p \in Nat, p >= 1, NEW lo \in Nat,
           NEW S, NEW u \in Seq(S), NEW D, NEW q \in Seq(D), NEW l,
           Ahead(sc, t, p, st, lo, u, q, l), NEW e \in S
    PROVE  Ahead(sc, t, p, st, lo, Append(u, e), q, l)
  <1> DEFINE cs == CheckList(sc, t)
             hi == Due(sc, p, st)
  <1>1. hi \in Nat
    BY DueType
  <1>2. Lined(cs, lo, hi, u, q, l, Len(u) + Len(q)) /\ (p > 1 => OnCourse(sc, p, st))
    BY DEF Ahead
  <1> HIDE DEF cs, hi
  <1>3. Lined(cs, lo, hi, Append(u, e), q, l, Len(Append(u, e)) + Len(q))
    BY <1>1, <1>2, LinedOther
  <1> QED
    BY <1>2, <1>3 DEF Ahead, cs, hi

\* Write publishes an event of this one.
LEMMA PublishAhead ==
    ASSUME NEW sc \in Validated, NEW t \in Tags, NEW st, NEW p \in Nat, p >= 1, NEW lo \in Nat,
           NEW u \in Seq(Messages), NEW q \in Seq(OfTag(t)), NEW l, DOMAIN l = ChangeTypes,
           Ahead(sc, t, p, st, lo, u, q, l),
           NEW ev \in Event, q # <<>>, q[1] = DomainEvent(t, ev)
    PROVE  Ahead(sc, t, p, st, lo, Append(u, domainEventToPb(DomainEvent(t, ev))), Tail(q),
                 Publish(l, t, ev))
  <1> DEFINE cs == CheckList(sc, t)
             hi == Due(sc, p, st)
             k == Publish(l, t, ev)
             e == domainEventToPb(DomainEvent(t, ev))
             v == Append(u, e)
  <1>1. hi \in Nat
    BY DueType
  <1>2. Lined(cs, lo, hi, u, q, l, Len(u) + Len(q)) /\ (p > 1 => OnCourse(sc, p, st))
    BY DEF Ahead
  <1>3. e \in Messages
    BY DEF Messages
  <1>4. /\ \A i \in ChangeTypes : i # ev.type => k[i] = l[i]
        /\ \A x \in k[ev.type] : x.age = 0 /\ unmarshal(x.data) = DomainEvent(t, ev)
    BY PublishReads, ZenonT(30)
  <1>5. q[1].type = ev.type
    BY EventReads
  <1>6. \A i \in 1 .. Len(q) : q[i].type \in ChangeTypes
    <2> SUFFICES ASSUME NEW i \in 1 .. Len(q) PROVE q[i].type \in ChangeTypes
      OBVIOUS
    <2>1. q[i] \in OfTag(t)
      OBVIOUS
    <2> QED
      BY <2>1, EventReads DEF OfTag
  <1>7. Repeats(DomainEvent(t, ev), DomainEvent(t, ev))
    BY DEF Repeats
  <1>8. e = domainEventToPb(q[1]) /\ v = Append(u, domainEventToPb(q[1]))
    OBVIOUS
  <1> HIDE DEF cs, hi, k, e, v
  <1>9. /\ \A i \in 2 .. Len(q) : q[i].type # q[1].type => k[q[i].type] = l[q[i].type]
        /\ \A x \in k[q[1].type] : Repeats(q[1], unmarshal(x.data))
    BY <1>4, <1>5, <1>6, <1>7
  <1>10. Lined(cs, lo, hi, v, Tail(q), k, Len(v) + Len(Tail(q)))
    <2> DEFINE w == Append(u, domainEventToPb(q[1]))
    <2>1. domainEventToPb(q[1]) \in Messages
      BY <1>3, <1>8
    <2>2. Lined(cs, lo, hi, w, Tail(q), k, Len(w) + Len(Tail(q)))
      BY <1>1, <1>2, <1>9, <2>1, LinedPublish
    <2>3. v = w
      BY <1>8
    <2> HIDE DEF w
    <2> QED
      BY <2>2, <2>3
  <1>11. Ahead(sc, t, p, st, lo, v, Tail(q), k)
    BY <1>2, <1>10 DEF Ahead, cs, hi
  <1> QED
    BY <1>11 DEF v, e, k

\* Write suppresses it.
LEMMA SuppressAhead ==
    ASSUME NEW sc \in Validated, NEW t \in Tags, NEW st, NEW p \in Nat, p >= 1, NEW lo \in Nat,
           NEW u \in Seq(Messages), NEW q \in Seq(OfTag(t)), NEW l,
           Ahead(sc, t, p, st, lo, u, q, l),
           NEW ev \in Event, q # <<>>, q[1] = DomainEvent(t, ev), l[ev.type] # {},
           \A x \in l[ev.type] : Repeats(q[1], unmarshal(x.data))
    PROVE  Ahead(sc, t, p, st, lo, u, Tail(q), l)
  <1> DEFINE cs == CheckList(sc, t)
             hi == Due(sc, p, st)
  <1>1. hi \in Nat
    BY DueType
  <1>2. Lined(cs, lo, hi, u, q, l, Len(u) + Len(q)) /\ (p > 1 => OnCourse(sc, p, st))
    BY DEF Ahead
  <1>3. q[1].type = ev.type
    BY EventReads
  <1> HIDE DEF cs, hi
  <1>4. l[q[1].type] # {} /\ \A x \in l[q[1].type] : Repeats(q[1], unmarshal(x.data))
    BY <1>3
  <1>5. Lined(cs, lo, hi, u, Tail(q), l, Len(u) + Len(Tail(q)))
    BY <1>1, <1>2, <1>4, LinedSuppress
  <1> QED
    BY <1>2, <1>5 DEF Ahead, cs, hi

\* A Write, and what the consumer pushes.
LEMMA WriteExpected ==
    ASSUME SimInv, Expected, NEW t \in Tags, CoreWrites(t)
    PROVE  Expected'
  <1>1. /\ Write(t)
        /\ feed' = IF joined /\ Published(t)
                     THEN Append(feed, domainEventToPb(unmarshal(marshal(Head(queue[t])))))
                     ELSE feed
        /\ scenario' = scenario /\ validate' = validate /\ sim' = sim /\ phase' = phase /\ pos' = pos
        /\ step' = step /\ joined' = joined /\ ch' = ch /\ excused' = excused
    BY DEF CoreWrites, netVars
  <1>2. SimTypes /\ CoreInv /\ PipeInv
    BY DEF SimInv, CoreInv
  <1>3. PICK ev \in Event :
             /\ queue[t] # <<>> /\ queue[t][1] = DomainEvent(t, ev) /\ Head(queue[t]) = DomainEvent(t, ev)
             /\ queue'[t] = Tail(queue[t]) /\ states' = states
             /\ \A u \in Tags : u # t => queue'[u] = queue[u] /\ last'[u] = last[u]
             /\ \/ Published(t) /\ last'[t] = Publish(last[t], t, ev)
                \/ /\ ~Published(t) /\ last'[t] = last[t] /\ last[t][ev.type] # {}
                   /\ \A x \in last[t][ev.type] : Repeats(queue[t][1], unmarshal(x.data))
    BY <1>1, <1>2, WriteDoes
  <1> DEFINE e == domainEventToPb(DomainEvent(t, ev))
  <1>4. feed' = IF joined /\ Published(t) THEN Append(feed, e) ELSE feed
    <2>1. unmarshal(marshal(Head(queue[t]))) = DomainEvent(t, ev)
      BY <1>3, RecordBack
    <2> QED
      BY <1>1, <2>1
  <1>5. e \in Messages
    BY DEF Messages
  <1>6. ASSUME Awaiting', NEW n \in phase' .. Phases'
        PROVE  /\ n > phase' => pos'[TagOrder[n]] = 1
               /\ Ahead(scenario', TagOrder[n], pos'[TagOrder[n]], states'[TagOrder[n]],
                        IF n = phase' THEN step' ELSE 1, ch' \o feed',
                        queue'[TagOrder[n]], last'[TagOrder[n]])
    <2>1. Awaiting /\ Phases' = Phases /\ Validating /\ sim = "running" /\ joined
      BY <1>1, <1>6 DEF Awaiting, Phases, Validating
    <2>2. n \in phase .. Phases /\ Waited(n)
      BY <1>1, <2>1, <1>6 DEF Expected
    <2> DEFINE u == TagOrder[n]
               s == ch \o feed
    <2>3. /\ u \in Tags /\ scenario \in Validated
          /\ CorePipe(u, states[u], queue[u], last[u], view[u], spoke[u])
          /\ ch \in Seq(Messages) /\ feed \in Seq(Messages)
          /\ ch \o feed \in Seq(Messages) /\ FirstOf(n) \in Nat
          /\ pos[u] \in Nat /\ pos[u] >= 1 /\ queue[u] \in Seq(OfTag(u))
      BY <1>1, <2>1, <2>2, WaitedGiven
    <2>4. /\ n > phase => pos[u] = 1
          /\ Ahead(scenario, u, pos[u], states[u], FirstOf(n), s, queue[u], last[u])
      BY <2>2 DEF Waited
    <2>5. ch' \o feed' = IF Published(t) THEN Append(s, e) ELSE s
      <3>1. ch \in Seq(Messages) /\ feed \in Seq(Messages) /\ e \in Messages
        BY <1>5, <2>3
      <3>2. ch \o Append(feed, e) = Append(ch \o feed, e)
        BY ONLY <3>1, AppendToConcat
      <3> QED
        BY <1>1, <1>4, <2>1, <3>2
    <2>6. s \in Seq(Messages)
      BY <2>3
    <2> HIDE DEF u, s, e
    <2> SUFFICES Ahead(scenario, u, pos[u], states[u], FirstOf(n), ch' \o feed', queue'[u], last'[u])
      BY <1>1, <1>3, <2>3, <2>4 DEF FirstOf, u
    <2>7. CASE u = t /\ Published(t)
      <3>1. /\ scenario \in Validated /\ t \in Tags /\ pos[t] \in Nat /\ pos[t] >= 1 /\ FirstOf(n) \in Nat
            /\ s \in Seq(Messages) /\ queue[t] \in Seq(OfTag(t)) /\ DOMAIN last[t] = ChangeTypes
            /\ Ahead(scenario, t, pos[t], states[t], FirstOf(n), s, queue[t], last[t])
            /\ ev \in Event /\ queue[t] # <<>> /\ queue[t][1] = DomainEvent(t, ev)
        BY <1>3, <2>3, <2>4, <2>6, <2>7 DEF CorePipe
      <3>2. Ahead(scenario, t, pos[t], states[t], FirstOf(n),
                  Append(s, domainEventToPb(DomainEvent(t, ev))), Tail(queue[t]),
                  Publish(last[t], t, ev))
        BY ONLY <3>1, PublishAhead
      <3> QED
        BY <1>3, <2>5, <2>7, <3>2 DEF e
    <2>8. CASE u = t /\ ~Published(t)
      <3>1. /\ scenario \in Validated /\ t \in Tags /\ pos[t] \in Nat /\ pos[t] >= 1 /\ FirstOf(n) \in Nat
            /\ s \in Seq(Messages) /\ queue[t] \in Seq(OfTag(t))
            /\ Ahead(scenario, t, pos[t], states[t], FirstOf(n), s, queue[t], last[t])
            /\ ev \in Event /\ queue[t] # <<>> /\ queue[t][1] = DomainEvent(t, ev)
            /\ last[t][ev.type] # {}
            /\ \A x \in last[t][ev.type] : Repeats(queue[t][1], unmarshal(x.data))
        BY <1>3, <2>3, <2>4, <2>6, <2>8
      <3>2. Ahead(scenario, t, pos[t], states[t], FirstOf(n), s, Tail(queue[t]), last[t])
        BY ONLY <3>1, SuppressAhead
      <3> QED
        BY <1>3, <2>5, <2>8, <3>2
    <2>9. CASE u # t /\ Published(t)
      <3>1. /\ scenario \in Validated /\ pos[u] \in Nat /\ pos[u] >= 1 /\ FirstOf(n) \in Nat
            /\ s \in Seq(Messages) /\ queue[u] \in Seq(OfTag(u))
            /\ Ahead(scenario, u, pos[u], states[u], FirstOf(n), s, queue[u], last[u])
            /\ e \in Messages
        BY <1>5, <2>3, <2>4, <2>6
      <3>2. Ahead(scenario, u, pos[u], states[u], FirstOf(n), Append(s, e), queue[u], last[u])
        BY ONLY <3>1, OtherAhead
      <3> QED
        BY <1>3, <2>3, <2>5, <2>9, <3>2
    <2>10. CASE u # t /\ ~Published(t)
      BY <1>3, <2>3, <2>4, <2>5, <2>10
    <2> QED
      BY <2>7, <2>8, <2>9, <2>10
  <1> QED
    BY <1>6, ExpectedLater

\* The simulator receives an event.
LEMMA ReceiveExpected ==
    ASSUME SimInv, Expected, NEW i \in DOMAIN feed, Receive(i)
    PROVE  Expected'
  <1>1. /\ feed' = RemoveAt(feed, i)
        /\ ch' = IF Len(ch) < Buffer THEN Append(ch, feed[i]) ELSE ch
        /\ excused' = (excused \/ i > 1 \/ Len(ch) = Buffer)
        /\ scenario' = scenario /\ validate' = validate /\ sim' = sim /\ phase' = phase /\ pos' = pos
        /\ step' = step /\ joined' = joined
        /\ states' = states /\ queue' = queue /\ last' = last
    BY DEF Receive, netVars, pipeVars, memVars
  <1>2. feed \in Seq(Messages) /\ ch \in Seq(Messages) /\ Len(ch) <= Buffer
    BY DEF SimInv, SimTypes
  <1>3. i \in 1 .. Len(feed) /\ feed # <<>> /\ Len(ch) \in Nat /\ Len(feed) \in Nat
    BY <1>2
  <1>4. ASSUME Awaiting' PROVE ch' \o feed' = ch \o feed
    <2>1. ~(i > 1) /\ Len(ch) # Buffer
      BY <1>1, <1>4 DEF Awaiting
    <2>2. i = 1 /\ Len(ch) < Buffer
      BY <1>2, <1>3, <2>1, BufferIs
    <2>3. feed' = Tail(feed)
      BY <1>1, <1>2, <1>3, <2>2, RemoveAtReads
    <2>4. ch' = Append(ch, feed[1])
      BY <1>1, <2>2
    <2>5. Append(ch, feed[1]) \o Tail(feed) = ch \o feed
      BY <1>2, <1>3, MoveOfConcat
    <2> QED
      BY <2>3, <2>4, <2>5
  <1>6. ASSUME Awaiting', NEW n \in phase' .. Phases'
        PROVE  /\ n > phase' => pos'[TagOrder[n]] = 1
               /\ Ahead(scenario', TagOrder[n], pos'[TagOrder[n]], states'[TagOrder[n]],
                        IF n = phase' THEN step' ELSE 1, ch' \o feed',
                        queue'[TagOrder[n]], last'[TagOrder[n]])
    <2>1. Awaiting /\ Phases' = Phases
      BY <1>1, <1>6 DEF Awaiting, Phases, Validating
    <2>2. Waited(n)
      BY <1>1, <2>1, <1>6 DEF Expected
    <2>3. ch' \o feed' = ch \o feed
      BY <1>4, <1>6
    <2> QED
      BY <1>1, <2>2, <2>3 DEF Waited, FirstOf
  <1> QED
    BY <1>6, ExpectedLater

\* The check at hand is satisfied, or a message is passed over.
LEMMA TakeAhead ==
    ASSUME NEW sc \in Validated, NEW t, NEW st, NEW p \in Nat, p >= 1, NEW lo \in Nat,
           NEW low \in {lo, lo + 1},
           NEW S, NEW a \in Seq(S), a # <<>>, NEW D, NEW q \in Seq(D), NEW l,
           Ahead(sc, t, p, st, lo, a, q, l),
           low = lo => ~Matches(CheckList(sc, t)[lo], a[1])
    PROVE  Ahead(sc, t, p, st, low, Tail(a), q, l)
  <1> DEFINE cs == CheckList(sc, t)
             hi == Due(sc, p, st)
  <1>1. hi \in Nat
    BY DueType
  <1>2. Lined(cs, lo, hi, a, q, l, Len(a) + Len(q)) /\ (p > 1 => OnCourse(sc, p, st))
    BY DEF Ahead
  <1>3. low = lo => ~Matches(cs[lo], a[1])
    OBVIOUS
  <1> HIDE DEF cs, hi
  <1>4. Lined(cs, low, hi, Tail(a), q, l, Len(Tail(a)) + Len(q))
    BY <1>1, <1>2, <1>3, LinedTake
  <1> QED
    BY <1>2, <1>4 DEF Ahead, cs, hi

\* What satisfies a check of one tag satisfies none of another.
LEMMA OtherTag ==
    ASSUME NEW sc \in Validated, NEW t, NEW u, u # t, NEW m,
           NEW i \in 1 .. CheckCount(sc), NEW j \in 1 .. CheckCount(sc),
           Matches(CheckList(sc, t)[i], m)
    PROVE  m.actor.id = t /\ ~Matches(CheckList(sc, u)[j], m)
  <1>1. CheckList(sc, t)[i].tag = t /\ CheckList(sc, u)[j].tag = u
    BY CheckListReads
  <1> QED
    BY <1>1 DEF Matches

\* waitForCheck takes a message.
LEMMA CheckExpected ==
    ASSUME SimInv, Expected, waitForCheck
    PROVE  Expected'
  <1> DEFINE matched == Matches(Checks(TagOrder[phase])[step], Head(ch))
  <1>1. /\ Checking /\ ch # <<>>
        /\ IF matched /\ LastCheck
             THEN End("passed")
             ELSE /\ ch' = Tail(ch) /\ UNCHANGED <<sim, pos, joined, feed>>
                  /\ IF matched THEN NextCheck ELSE UNCHANGED <<phase, step>>
        /\ excused' = (excused \/ (~matched /\ ForLater(Head(ch))))
        /\ scenario' = scenario /\ validate' = validate
        /\ states' = states /\ queue' = queue /\ last' = last
    BY DEF waitForCheck, netVars, pipeVars, memVars
  <1>2. Validating /\ sim = "running" /\ joined /\ SimTypes
    BY <1>1 DEF Checking, SimInv, Idle
  <1>3. CASE matched /\ LastCheck
    BY <1>1, <1>3 DEF End, Expected, Awaiting
  <1>4. CASE ~(matched /\ LastCheck)
    <2>1. ch' = Tail(ch) /\ sim' = sim /\ pos' = pos /\ joined' = joined /\ feed' = feed
          /\ (matched => NextCheck) /\ (~matched => phase' = phase /\ step' = step)
      BY <1>1, <1>4
    <2>2. /\ Phases \in Nat /\ phase \in 1 .. Phases /\ step \in 1 .. CheckCount(scenario)
          /\ scenario \in Kinds \ {"stress"}
      BY <1>2, Scenario DEF SimTypes
    <2>3. CheckCount(scenario) \in Nat /\ CheckCount(scenario) >= 1
      BY <2>2, CountType
    <2>4. /\ Len(Checks(TagOrder[phase])) = CheckCount(scenario)
          /\ Checks(TagOrder[phase])[step] = CheckList(scenario, TagOrder[phase])[step]
      BY <2>2, ChecksAre DEF CheckList
    <2>5. Phases' = Phases
      BY <1>1 DEF Phases
    <2>6. Head(ch) = ch[1] /\ matched = Matches(CheckList(scenario, TagOrder[phase])[step], Head(ch))
      BY <2>4, <1>1
    <2> HIDE DEF matched
    <2>7. /\ ~matched => phase' = phase /\ step' = step
          /\ matched /\ step < CheckCount(scenario) => phase' = phase /\ step' = step + 1
          /\ matched /\ ~(step < CheckCount(scenario)) => phase' = phase + 1 /\ step' = 1
      BY <2>1, <2>4 DEF NextCheck
    <2>8. ASSUME Awaiting', NEW n \in phase' .. Phases'
          PROVE  /\ n > phase' => pos'[TagOrder[n]] = 1
                 /\ Ahead(scenario', TagOrder[n], pos'[TagOrder[n]], states'[TagOrder[n]],
                          IF n = phase' THEN step' ELSE 1, ch' \o feed',
                          queue'[TagOrder[n]], last'[TagOrder[n]])
      <3>1. Awaiting /\ (~matched => ~ForLater(Head(ch)))
        BY <1>1, <1>2, <2>8 DEF Awaiting
      <3>2. n \in phase .. Phases
        BY <2>2, <2>5, <2>7, <2>8
      <3>3. Waited(n)
        BY <3>1, <3>2 DEF Expected
      <3> DEFINE u == TagOrder[n]
                 a == ch \o feed
                 low == IF n = phase' THEN step' ELSE 1
                 m == Head(ch)
      <3>4. /\ u \in Tags /\ n \in Nat /\ phase \in Nat /\ phase >= 1 /\ n >= phase /\ n <= Phases
            /\ Phases \in Nat /\ Phases <= Len(TagOrder) /\ n \in 1 .. Len(TagOrder)
            /\ scenario \in Validated
            /\ ch \in Seq(Messages) /\ feed \in Seq(Messages)
            /\ FirstOf(n) \in Nat /\ FirstOf(n) >= 1 /\ FirstOf(n) <= CheckCount(scenario)
            /\ pos[u] \in Nat /\ pos[u] >= 1 /\ queue[u] \in Seq(OfTag(u))
        BY <1>2, <3>2, WaitedGiven
      <3>5. /\ n > phase => pos[u] = 1
            /\ Ahead(scenario, u, pos[u], states[u], FirstOf(n), a, queue[u], last[u])
        BY <3>3 DEF Waited
      <3>6. a \in Seq(Messages) /\ a # <<>> /\ a[1] = m /\ Tail(a) = Tail(ch) \o feed
        BY <1>1, <3>4, TailOfConcat, ZenonT(30)
      <3>7. n > phase => u # TagOrder[phase] /\ (~matched => m.actor.id # u)
        <4> SUFFICES ASSUME n > phase PROVE u # TagOrder[phase] /\ (~matched => m.actor.id # u)
          OBVIOUS
        <4>1. phase \in 1 .. Len(TagOrder) /\ n # phase
          BY <3>4
        <4>2. u # TagOrder[phase]
          BY <3>4, <4>1, OrderReads
        <4>3. ASSUME ~matched PROVE m.actor.id # u
          <5>1. scenario = "walk"
            BY <3>4 DEF Phases
          <5>2. n \in phase + 1 .. Phases
            BY <3>4
          <5> QED
            BY <3>1, <4>3, <5>1, <5>2 DEF ForLater
        <4> QED
          BY <4>2, <4>3
      <3>8. /\ low \in {FirstOf(n), FirstOf(n) + 1}
            /\ low = FirstOf(n) => ~Matches(CheckList(scenario, u)[FirstOf(n)], m)
        <4> DEFINE lo == FirstOf(n)
        <4>1. CASE n = phase
          <5>1. lo = step /\ step \in Nat
            BY <2>2, <2>3, <4>1 DEF FirstOf
          <5>2. phase' = phase
            BY <2>2, <2>7, <2>8, <4>1
          <5>3. low = step'
            BY <4>1, <5>2
          <5>4. matched => step' = step + 1
            BY <2>2, <2>7, <5>2
          <5>5. ~matched => step' = step
            BY <2>7
          <5>6. CASE matched
            BY <5>1, <5>3, <5>4, <5>6
          <5>7. CASE ~matched
            <6>1. ~Matches(CheckList(scenario, u)[step], m)
              BY <2>6, <4>1, <5>7
            <6> QED
              BY <5>1, <5>3, <5>5, <5>7, <6>1
          <5> QED
            BY <5>6, <5>7
        <4>2. CASE n > phase
          <5>1. lo = 1
            BY <3>4, <4>2 DEF FirstOf
          <5>2. low = 1
            BY <2>2, <2>7, <3>4, <4>2
          <5>3. ~Matches(CheckList(scenario, u)[1], m)
            <6>1. 1 \in 1 .. CheckCount(scenario)
              BY <2>3
            <6>2. CASE matched
              <7>1. Matches(CheckList(scenario, TagOrder[phase])[step], m)
                BY <2>6, <6>2
              <7> QED
                BY <2>2, <3>4, <3>7, <4>2, <6>1, <7>1, OtherTag
            <6>3. CASE ~matched
              <7>1. CheckList(scenario, u)[1].tag = u /\ m.actor.id # u
                BY <3>4, <3>7, <4>2, <6>1, <6>3, CheckListReads
              <7> QED
                BY <7>1 DEF Matches
            <6> QED
              BY <6>2, <6>3
          <5> QED
            BY <5>1, <5>2, <5>3
        <4> QED
          BY <3>4, <4>1, <4>2
      <3>9. Ahead(scenario, u, pos[u], states[u], low, Tail(a), queue[u], last[u])
        <4>1. /\ scenario \in Validated /\ pos[u] \in Nat /\ pos[u] >= 1 /\ FirstOf(n) \in Nat
              /\ low \in {FirstOf(n), FirstOf(n) + 1}
              /\ a \in Seq(Messages) /\ a # <<>> /\ queue[u] \in Seq(OfTag(u))
              /\ Ahead(scenario, u, pos[u], states[u], FirstOf(n), a, queue[u], last[u])
              /\ low = FirstOf(n) => ~Matches(CheckList(scenario, u)[FirstOf(n)], a[1])
          BY <3>4, <3>5, <3>6, <3>8
        <4> HIDE DEF u, a, low, m
        <4> QED
          BY ONLY <4>1, TakeAhead
      <3>10. n > phase' => n > phase
        BY <2>2, <2>7, <3>4
      <3> QED
        BY <1>1, <2>1, <3>5, <3>6, <3>9, <3>10
    <2> QED
      BY <2>8, ExpectedLater
  <1> QED
    BY <1>3, <1>4

\* A tag that is at the first zone has been announced there: its snapshot, or
\* an event that waits, satisfies the first check.
LEMMA JoinAhead ==
    ASSUME NEW sc \in Validated, NEW t, NEW st, NEW q, NEW l, NEW v, NEW sp,
           CorePipe(t, st, q, l, v, sp), Clean(st, q, l, sp),
           NEW u \in Seq(Messages),
           \A m \in ToClient(Live(l["ZONE"])) : \E i \in 1 .. Len(u) : u[i] = m
    PROVE  Ahead(sc, t, 1, st, 1, u, q, l)
  <1> DEFINE cs == CheckList(sc, t)
             n == Len(u) + Len(q)
  <1>1. /\ st \in tagState /\ v \in View /\ sp \in SUBSET ChangeTypes /\ TagInv(st, v, FALSE)
        /\ q \in Seq(OfTag(t)) /\ Reported(t, q, l, v, sp)
        /\ v.zones # {} => "ZONE" \in sp
        /\ Records(t, l)
    BY DEF CorePipe
  <1>2. Len(u) \in Nat /\ Len(q) \in Nat /\ n \in Nat
    BY <1>1
  <1>3. \A ev \in Event : ev.type = "ZONE" /\ ev.zones = {ZoneOrder[1]} =>
               Matches(cs[1], domainEventToPb(DomainEvent(t, ev)))
    BY FirstMatches
  <1> HIDE DEF cs, n
  <1>4. CASE ~AtFirst(st)
    <2>1. Due(sc, 1, st) = 0
      BY <1>4 DEF Due
    <2>2. Lined(cs, 1, 0, u, q, l, n)
      BY LinedEmpty
    <2> QED
      BY <2>1, <2>2 DEF Ahead, cs, n
  <1>5. CASE AtFirst(st)
    <2>1. Due(sc, 1, st) = 1
      BY <1>5 DEF Due
    <2>2. v.zones = {ZoneOrder[1]} /\ "ZONE" \in sp
      BY <1>1, <1>5 DEF AtFirst, TagInv
    <2>3. PICK i \in 0 .. Len(q), ev \in Event :
            /\ ev.type = "ZONE" /\ Says(ev, "ZONE", v)
            /\ IF i = 0 THEN \E a \in Ages : RecordIs(l, t, "ZONE", ev, a) ELSE q[i] = DomainEvent(t, ev)
      BY <1>1, <2>2 DEF Reported
    <2> DEFINE e == domainEventToPb(DomainEvent(t, ev))
    <2>4. Matches(cs[1], e) /\ ev.type = "ZONE"
      BY <1>3, <2>2, <2>3 DEF Says
    <2>5. \E p \in 1 .. n : Coming(cs[1], u, q, l, p)
      <3>1. CASE i = 0
        <4>1. PICK a \in Ages : RecordIs(l, t, "ZONE", ev, a)
          BY <2>3, <3>1
        <4> DEFINE d == marshal(DomainEvent(t, ev))
        <4>2. unmarshal(d) = DomainEvent(t, ev)
          BY RecordBack
        <4>3. l["ZONE"] = Some([data |-> d, age |-> a])
          BY <4>1 DEF RecordIs
        <4> HIDE DEF d
        <4>4. a = 0
          <5> DEFINE x == [data |-> d, age |-> a]
          <5>1. x.age = a /\ x \in l["ZONE"]
            BY <4>3 DEF Some
          <5>2. \A y \in l["ZONE"] : y.age = 0
            BY DEF Clean, ChangeTypes
          <5> HIDE DEF x
          <5> QED
            BY <5>1, <5>2
        <4>5. Live(l["ZONE"]) = {[data |-> d, age |-> a]}
          <5>1. a \in Nat /\ a <= MaxAge /\ MaxAge \in Nat
            BY <4>4, AgeBounds
          <5>2. Live(Some([data |-> d, age |-> a])) = Some([data |-> d, age |-> a])
            BY <5>1, LiveOne
          <5> QED
            BY <4>3, <5>2 DEF Some
        <4>6. e \in ToClient(Live(l["ZONE"]))
          BY <4>2, <4>5 DEF ToClient
        <4>7. PICK j \in 1 .. Len(u) : u[j] = e
          BY <4>6
        <4>8. Coming(cs[1], u, q, l, j)
          BY <2>4, <4>7 DEF Coming
        <4>9. j \in 1 .. n
          BY <1>2 DEF n
        <4> QED
          BY <4>8, <4>9
      <3>2. CASE i # 0
        <4>1. i \in 1 .. Len(q) /\ q[i] = DomainEvent(t, ev)
          BY <1>2, <2>3, <3>2
        <4>2. q[i].type = "ZONE"
          BY <2>3, <4>1, EventReads
        <4>3. Renews(q, l, i)
          BY <4>1, <4>2 DEF Clean
        <4> DEFINE p == Len(u) + i
        <4>4. p \in 1 .. n /\ p - Len(u) = i
          BY <1>2, <4>1 DEF n
        <4>5. Matches(cs[1], domainEventToPb(q[i]))
          BY <2>4, <4>1
        <4> HIDE DEF p
        <4>6. Coming(cs[1], u, q, l, p)
          BY <4>1, <4>3, <4>4, <4>5 DEF Coming
        <4> QED
          BY <4>4, <4>6
      <3> QED
        BY <3>1, <3>2
    <2>6. PICK p \in 1 .. n : Coming(cs[1], u, q, l, p)
      BY <2>5
    <2> DEFINE none == 0
    <2>7. none \in Nat /\ none + 1 = 1 /\ Lined(cs, 1, none, u, q, l, none) /\ p > none /\ p \in Nat /\ p <= n
      <3>1. Lined(cs, 1, 0, u, q, l, 0)
        BY LinedEmpty
      <3> QED
        BY <1>2, <3>1
    <2> HIDE DEF none
    <2>8. 1 <= none + 1 => Coming(cs[none + 1], u, q, l, p)
      BY <2>6, <2>7
    <2>9. Lined(cs, 1, none + 1, u, q, l, p)
      BY <2>7, <2>8, LinedExtend
    <2>10. Lined(cs, 1, 1, u, q, l, p)
      BY <2>7, <2>9
    <2>11. Lined(cs, 1, 1, u, q, l, n)
      BY <1>2, <2>7, <2>10, LinedLater
    <2> QED
      BY <2>1, <2>11 DEF Ahead, cs, n
  <1> QED
    BY <1>4, <1>5

\* The subscription begins.
LEMMA JoinExpected ==
    ASSUME SimInv, Join
    PROVE  Expected'
  <1>1. /\ sim = "running" /\ Validating /\ ~joined
        /\ feed' \in {SnapshotSeq("ZONE") \o SnapshotSeq("PRESENCE"),
                      SnapshotSeq("PRESENCE") \o SnapshotSeq("ZONE")}
        /\ scenario' = scenario /\ validate' = validate /\ sim' = sim /\ phase' = phase /\ pos' = pos
        /\ step' = step /\ ch' = ch /\ excused' = excused
        /\ states' = states /\ queue' = queue /\ last' = last
    BY DEF Join, netVars, pipeVars, memVars
  <1>2. SimTypes /\ Idle /\ PipeInv
    BY DEF SimInv, CoreInv
  <1>3. phase = 1 /\ step = 1 /\ ch = <<>> /\ (~excused => \A t \in Tags : pos[t] = 1)
    BY <1>1, <1>2 DEF Idle
  <1> DEFINE a == SnapshotSeq("ZONE")
             d == SnapshotSeq("PRESENCE")
  <1>4. /\ a \in Seq(Messages) /\ d \in Seq(Messages)
        /\ \A t \in Tags : \A m \in SnapshotOf(t, "ZONE") : \E i \in 1 .. Len(a) : a[i] = m
    BY <1>2, SnapshotSeqReads DEF ChangeTypes
  <1>5. feed' \in {a \o d, d \o a}
    BY <1>1
  <1> HIDE DEF a, d
  <1> DEFINE r == a \o d
             s == d \o a
  <1>6. /\ r \in Seq(Messages) /\ Len(r) = Len(a) + Len(d) /\ Len(a) \in Nat /\ Len(d) \in Nat
        /\ \A i \in 1 .. Len(a) : r[i] = a[i]
    BY ONLY <1>4, ConcatReads
  <1>7. /\ s \in Seq(Messages) /\ Len(s) = Len(d) + Len(a)
        /\ \A i \in 1 .. Len(a) : s[Len(d) + i] = a[i]
    BY ONLY <1>4, ConcatReads
  <1>8. feed' = r \/ feed' = s
    BY <1>5
  <1> HIDE DEF r, s
  <1>9. /\ feed' \in Seq(Messages)
        /\ \A t \in Tags : \A m \in SnapshotOf(t, "ZONE") : \E i \in 1 .. Len(feed') : feed'[i] = m
    <2>1. feed' \in Seq(Messages)
      BY <1>6, <1>7, <1>8
    <2>2. ASSUME NEW t \in Tags, NEW m \in SnapshotOf(t, "ZONE")
          PROVE  \E i \in 1 .. Len(feed') : feed'[i] = m
      <3>1. PICK i \in 1 .. Len(a) : a[i] = m
        BY <1>4
      <3>2. CASE feed' = r
        <4>1. i \in 1 .. Len(r) /\ r[i] = m
          BY <1>6, <3>1
        <4> QED
          BY <3>2, <4>1
      <3>3. CASE feed' = s
        <4>1. Len(d) + i \in 1 .. Len(s) /\ s[Len(d) + i] = m
          BY <1>6, <1>7, <3>1
        <4> QED
          BY <3>3, <4>1
      <3> QED
        BY <1>8, <3>2, <3>3
    <2> QED
      BY <2>1, <2>2
  <1>10. ch' \o feed' = feed'
    <2> DEFINE f == feed'
    <2>1. f \in Seq(Messages)
      BY <1>9
    <2> HIDE DEF f
    <2>2. <<>> \o f = f
      BY ONLY <2>1, ConcatEmptySeq
    <2> QED
      BY <1>1, <1>3, <2>2 DEF f
  <1>11. ASSUME Awaiting', NEW n \in phase' .. Phases'
         PROVE  /\ n > phase' => pos'[TagOrder[n]] = 1
                /\ Ahead(scenario', TagOrder[n], pos'[TagOrder[n]], states'[TagOrder[n]],
                         IF n = phase' THEN step' ELSE 1, ch' \o feed',
                         queue'[TagOrder[n]], last'[TagOrder[n]])
    <2>1. ~excused /\ Phases' = Phases
      BY <1>1, <1>11 DEF Awaiting, Phases
    <2>2. n \in phase .. Phases
      BY <1>1, <2>1, <1>11
    <2> DEFINE u == TagOrder[n]
    <2>3. /\ u \in Tags /\ scenario \in Validated
          /\ CorePipe(u, states[u], queue[u], last[u], view[u], spoke[u])
          /\ Clean(states[u], queue[u], last[u], spoke[u])
      BY <1>1, <2>2, WaitedGiven
    <2>4. pos[u] = 1 /\ (IF n = phase' THEN step' ELSE 1) = 1
      BY <1>1, <1>3, <2>1, <2>3
    <2> DEFINE f == feed'
    <2>5. /\ scenario \in Validated
          /\ CorePipe(u, states[u], queue[u], last[u], view[u], spoke[u])
          /\ Clean(states[u], queue[u], last[u], spoke[u])
          /\ f \in Seq(Messages)
          /\ \A m \in ToClient(Live(last[u]["ZONE"])) : \E i \in 1 .. Len(f) : f[i] = m
      BY <1>9, <2>3 DEF SnapshotOf
    <2> HIDE DEF u, f
    <2>6. Ahead(scenario, u, 1, states[u], 1, f, queue[u], last[u])
      BY ONLY <2>5, JoinAhead
    <2> QED
      BY <1>1, <1>10, <2>4, <2>6 DEF u, f
  <1> QED
    BY <1>11, ExpectedLater

\* With nothing under way, a validation that has sent all has no check left.
LEMMA NothingAhead ==
    ASSUME NEW sc \in Validated, NEW t, NEW st, NEW p, p = Length(sc, TRUE) + 1,
           NEW lo \in Nat, lo <= CheckCount(sc), NEW l,
           NEW u, NEW q, Len(u) = 0, Len(q) = 0, Ahead(sc, t, p, st, lo, u, q, l)
    PROVE  FALSE
  <1>1. Due(sc, p, st) = CheckCount(sc) /\ CheckCount(sc) \in Nat
    <2>0. Len(ZoneOrder) \in Nat /\ Len(ZoneOrder) >= 1
      BY OrderReads
    <2>1. CASE sc = "walk"
      BY <2>0, <2>1 DEF Length, Due, CheckCount
    <2>2. CASE sc = "offline"
      <3>1. p = 6
        BY <2>2 DEF Length
      <3>2. Due("offline", 6, st) = 3 /\ CheckCount("offline") = 3
        BY DEF Due, CheckCount
      <3>3. CheckCount(sc) = 3
        BY <2>2, <3>2
      <3>4. Due(sc, p, st) = 3
        BY ONLY <2>2, <3>1, <3>2
      <3> QED
        BY ONLY <3>3, <3>4
    <2>3. CASE sc = "lost"
      <3>1. p = 4
        BY <2>3 DEF Length
      <3>2. Due("lost", 4, st) = 4 /\ CheckCount("lost") = 4
        BY DEF Due, CheckCount
      <3>3. CheckCount(sc) = 4
        BY <2>3, <3>2
      <3>4. Due(sc, p, st) = 4
        BY ONLY <2>3, <3>1, <3>2
      <3> QED
        BY ONLY <3>3, <3>4
    <2> QED
      BY <2>1, <2>2, <2>3 DEF Validated
  <1> DEFINE hi == CheckCount(sc)
             cs == CheckList(sc, t)
  <1>2. Lined(cs, lo, hi, u, q, l, 0)
    <2>1. Len(u) + Len(q) = 0
      OBVIOUS
    <2>2. Lined(CheckList(sc, t), lo, Due(sc, p, st), u, q, l, Len(u) + Len(q))
      BY DEF Ahead
    <2> QED
      BY <1>1, <2>1, <2>2
  <1>3. hi \in Nat /\ lo <= hi
    BY <1>1
  <1> HIDE DEF hi, cs
  <1>4. PICK f \in [lo .. hi -> 1 .. 0] : TRUE
    BY <1>2 DEF Lined
  <1>5. lo \in lo .. hi
    BY <1>3
  <1>6. f[lo] \in 1 .. 0
    BY <1>4, <1>5
  <1> QED
    BY <1>6

\* So its timer does not fire.
LEMMA TimeoutExcused ==
    ASSUME SimInv, Expected, Timeout
    PROVE  excused
  <1> SUFFICES ASSUME ~excused PROVE FALSE
    BY DEF SimInv, SimTypes
  <1>1. /\ sim = "running" /\ Validating /\ joined
        /\ pos[TagOrder[phase]] > Len(Program) /\ feed = <<>> /\ ch = <<>>
        /\ \A t \in Tags : queue[t] = <<>>
    BY DEF Timeout, Checking, Still
  <1>2. SimTypes
    BY DEF SimInv
  <1>3. phase \in phase .. Phases
    BY <1>1, <1>2, Scenario DEF SimTypes
  <1> DEFINE t == TagOrder[phase]
             u == ch \o feed
  <1>4. /\ t \in Tags /\ scenario \in Validated /\ FirstOf(phase) \in Nat
        /\ FirstOf(phase) <= CheckCount(scenario)
    BY <1>1, <1>3, WaitedGiven
  <1>5. Ahead(scenario, t, pos[t], states[t], FirstOf(phase), u, queue[t], last[t])
    BY <1>1, <1>3 DEF Expected, Awaiting, Waited
  <1>6. pos[t] = Length(scenario, TRUE) + 1
    <2>1. validate = TRUE /\ pos[t] \in 1 .. Length(scenario, validate) + 1
      BY <1>1, <1>2, <1>4 DEF SimTypes, Validating
    <2>2. scenario \in Kinds /\ Length(scenario, validate) \in Nat
      BY <1>2, Scenario
    <2>3. Len(Program) = Length(scenario, validate)
      BY <2>1, <2>2, ProgramIs
    <2> DEFINE x == pos[t]
               y == Length(scenario, validate)
    <2>4. x > y /\ x \in 1 .. y + 1 /\ y \in Nat
      BY <1>1, <2>1, <2>2, <2>3
    <2> HIDE DEF x, y
    <2>5. x = y + 1
      BY ONLY <2>4
    <2> QED
      BY <2>1, <2>5 DEF x, y
  <1>7. Len(u) = 0 /\ Len(queue[t]) = 0
    BY <1>1, <1>4
  <1> HIDE DEF t, u
  <1> QED
    BY <1>4, <1>5, <1>6, <1>7, NothingAhead

\* Every step.
LEMMA NextExpected ==
    ASSUME ZonesDiffer, SimInv, Expected, [SimNext]_allVars
    PROVE  Expected'
  <1>1. ASSUME NEW sc \in Scenarios, NEW v \in BOOLEAN, Start(sc, v) PROVE Expected'
    BY <1>1 DEF Start, runVars, SimInv, Idle, Expected, Awaiting
  <1>2. CASE SubscribeFails
    BY <1>2 DEF SubscribeFails, End, Expected, Awaiting
  <1>3. CASE Join
    BY <1>3, JoinExpected
  <1>4. CASE waitForCheck
    BY <1>4, CheckExpected
  <1>5. CASE Timeout
    BY <1>5 DEF Timeout, End, Expected, Awaiting
  <1>6. CASE StreamCloses
    BY <1>6 DEF StreamCloses, End, Expected, Awaiting
  <1>7. CASE Interrupt
    BY <1>7 DEF Interrupt, End, Expected, Awaiting
  <1>8. ASSUME NEW i \in DOMAIN feed, Receive(i) PROVE Expected'
    BY <1>8, ReceiveExpected
  <1>9. ASSUME NEW t \in Tags, Emit(t) PROVE Expected'
    BY <1>9, EmitExpected
  <1>10. ASSUME NEW t \in Tags, EmitLost(t) PROVE Expected'
    BY <1>10 DEF EmitLost, Expected, Awaiting
  <1>11. ASSUME NEW t \in Tags, Resume(t) PROVE Expected'
    BY <1>11, ResumeExpected
  <1>12. ASSUME NEW t \in Tags, CoreWrites(t) PROVE Expected'
    BY <1>12, WriteExpected
  <1>13. CASE TimePasses
    BY <1>13, TimeExpected
  <1>14. CASE WatchdogSweep
    BY <1>14, SweepExpected
  <1>15. CASE UNCHANGED allVars
    BY <1>15, ExpectedStays DEF allVars, pipeVars, memVars, netVars, simVars
  <1>16. ASSUME NEW t \in Tags, CorePersists(t) PROVE Expected'
    BY <1>16, PersistDoes, ExpectedStays
  <1> QED
    BY <1>1, <1>2, <1>3, <1>4, <1>5, <1>6, <1>7, <1>8, <1>9, <1>10, <1>11, <1>12, <1>13, <1>14, <1>15,
       <1>16
       DEF SimNext

\* A validation that fails.
LEMMA NextExcused ==
    ASSUME SimInv, Expected, FailureHasReason, [SimNext]_allVars
    PROVE  FailureHasReason'
  <1>1. ASSUME NEW sc \in Scenarios, NEW v \in BOOLEAN, Start(sc, v) PROVE FailureHasReason'
    BY <1>1 DEF Start, FailureHasReason
  <1>2. CASE SubscribeFails
    BY <1>2 DEF SubscribeFails, End, FailureHasReason
  <1>3. CASE Join
    BY <1>3 DEF Join, FailureHasReason
  <1>4. CASE waitForCheck
    BY <1>4 DEF waitForCheck, Checking, End, FailureHasReason
  <1>5. CASE Timeout
    BY <1>5, TimeoutExcused DEF Timeout, FailureHasReason
  <1>6. CASE StreamCloses
    BY <1>6 DEF StreamCloses, FailureHasReason
  <1>7. CASE Interrupt
    BY <1>7 DEF Interrupt, FailureHasReason
  <1>8. ASSUME NEW i \in DOMAIN feed, Receive(i) PROVE FailureHasReason'
    BY <1>8 DEF Receive, FailureHasReason
  <1>9. ASSUME NEW t \in Tags, Emit(t) PROVE FailureHasReason'
    BY <1>9 DEF Emit, Sending, FailureHasReason
  <1>10. ASSUME NEW t \in Tags, EmitLost(t) PROVE FailureHasReason'
    BY <1>10 DEF EmitLost, FailureHasReason
  <1>11. ASSUME NEW t \in Tags, Resume(t) PROVE FailureHasReason'
    BY <1>11 DEF Resume, FailureHasReason
  <1>12. ASSUME NEW t \in Tags, CoreWrites(t) PROVE FailureHasReason'
    BY <1>12 DEF CoreWrites, FailureHasReason
  <1>13. CASE TimePasses
    BY <1>13 DEF TimePasses, simVars, FailureHasReason
  <1>14. CASE WatchdogSweep
    BY <1>14 DEF WatchdogSweep, FailureHasReason
  <1>15. CASE UNCHANGED allVars
    BY <1>15 DEF allVars, simVars, FailureHasReason
  <1>16. ASSUME NEW t \in Tags, CorePersists(t) PROVE FailureHasReason'
    BY <1>16, PersistDoes DEF FailureHasReason
  <1> QED
    BY <1>1, <1>2, <1>3, <1>4, <1>5, <1>6, <1>7, <1>8, <1>9, <1>10, <1>11, <1>12, <1>13, <1>14, <1>15,
       <1>16
       DEF SimNext

\* A validation fails only when something outside of the core has gone wrong,
\* for any tags, zones and scenarios, whatever simulators ran before: what it
\* still waits for is always on its way. The zones of a walk must differ from
\* one to the next, as the core is silent about a tag that stays where it is.
THEOREM FailureExplained == ZonesDiffer => (SimSpec => []FailureHasReason)
  <1> SUFFICES ASSUME ZonesDiffer PROVE SimSpec => []FailureHasReason
    OBVIOUS
  <1>1. SimInit => SimInv
    BY InitKeeps
  <1>2. SimInit => Expected /\ FailureHasReason
    BY DEF SimInit, Expected, Awaiting, FailureHasReason
  <1>3. SimInv /\ [SimNext]_allVars => SimInv'
    BY NextKeeps
  <1>4. SimInv /\ Expected /\ FailureHasReason /\ [SimNext]_allVars => Expected' /\ FailureHasReason'
    BY NextExpected, NextExcused
  <1> QED
    BY <1>1, <1>2, <1>3, <1>4, PTL DEF SimSpec

-----------------------------------------------------------------------------
(* What satisfies a check of a validation comes from what it was to test.  *)

\* m tells of t what a check of its presence waits for.
Told(t, pt, m) == Matches(presenceCheck(t, pt), m)

\* If m satisfies a check that stands for a datagram or a silence of t, that
\* datagram or silence is among the steps H.
Vouched(sc, t, H, m) ==
    /\ sc = "walk" =>
         \A i \in 1 .. Len(ZoneOrder) : Matches(zoneCheck(t, Some({ZoneOrder[i]})), m) => i \in H
    /\ sc = "offline" => (Told(t, "ACTIVE", m) => 4 \in H /\ 5 \in H /\ (1 \in H \/ 2 \in H \/ 3 \in H))
    /\ sc = "lost" => (Told(t, "ACTIVE", m) => 2 \in H /\ 3 \in H)

\* What the adapter remembers when the sender is at its step p comes from the
\* steps H.
Sound(sc, p, st, H) ==
    /\ sc = "offline" =>
         /\ hadHistory(st) => isLocationType(st.lastLocationType)
         /\ hadHistory(st) /\ p <= 5 => 1 \in H \/ 2 \in H \/ 3 \in H
         /\ hadHistory(st) /\ p <= 3 => st.online /\ st.silence = 0
         /\ WasOffline(st) /\ p <= 5 => 4 \in H
         /\ hadHistory(st) /\ p = 5 => ~Overdue(st)
    /\ sc = "lost" =>
         /\ hadHistory(st) /\ p <= 3 => st.online /\ st.silence = 0
         /\ hadHistory(st) /\ ~isLocationType(st.lastLocationType) => 2 \in H
         /\ hadHistory(st) /\ p <= 2 => p = 2 /\ isLocationType(st.lastLocationType) /\ 1 \in H

\* Somewhere in the messages s, t is told to be pt.
Tells(t, pt, s) == \E i \in 1 .. Len(s) : Told(t, pt, s[i])

\* In s, t does not come back after it has gone.
StaysGone(t, s) ==
    \A i, j \in 1 .. Len(s) : i < j /\ Told(t, "INACTIVE", s[i]) => ~Told(t, "ACTIVE", s[j])

\* lost, when the first datagram has not arrived: a location that was never
\* there is not lost, so t is never told to be back after it has gone; c has
\* been received, f is on its way, w waits in the core and R is stored.
NeverBack(t, p, c, f, w, R, k) ==
    /\ p <= 3 => /\ k < 3 /\ ~Tells(t, "INACTIVE", c) /\ ~Tells(t, "INACTIVE", f)
                 /\ ~Tells(t, "INACTIVE", w) /\ \A m \in R : ~Told(t, "INACTIVE", m)
    /\ StaysGone(t, c) /\ StaysGone(t, f) /\ StaysGone(t, w)
    /\ Tells(t, "INACTIVE", c) => ~Tells(t, "ACTIVE", f)
    /\ Tells(t, "INACTIVE", c) => ~Tells(t, "ACTIVE", w)
    /\ Tells(t, "INACTIVE", f) => ~Tells(t, "ACTIVE", w)
    /\ (\E m \in R : Told(t, "INACTIVE", m)) => ~Tells(t, "ACTIVE", w)
    /\ k >= 3 => ~Tells(t, "ACTIVE", c) /\ ~Tells(t, "ACTIVE", f) /\ ~Tells(t, "ACTIVE", w)

\* All of what t's checks may be satisfied by is vouched for.
Proper(sc, t, p, st, H, c, f, w, R, k) ==
    /\ Sound(sc, p, st, H)
    /\ \A i \in 1 .. Len(c) : Vouched(sc, t, H, c[i])
    /\ \A i \in 1 .. Len(f) : Vouched(sc, t, H, f[i])
    /\ \A i \in 1 .. Len(w) : Vouched(sc, t, H, w[i])
    /\ \A m \in R : Vouched(sc, t, H, m)
    /\ sc = "lost" /\ 1 \notin H => NeverBack(t, p, c, f, w, R, k)
    /\ sc = "lost" /\ k = 4 => 1 \in H /\ 2 \in H /\ 3 \in H

\* The events of a channel as messages, and the messages of the records.
Outgoing(q) == [i \in 1 .. Len(q) |-> domainEventToPb(q[i])]
Recorded(l) == UNION {ToClient(l[k]) : k \in ChangeTypes}


\* The checks an event satisfies, and no other.
LEMMA EventTells ==
    ASSUME NEW u, NEW ev \in Event, NEW e, e = domainEventToPb(DomainEvent(u, ev)), NEW t
    PROVE  /\ e.actor.id = u
           /\ \A Z : Matches(zoneCheck(t, Some(Z)), e) => ev.type = "ZONE" /\ u = t /\ ev.zones = Z
           /\ \A pt \in Presences : Told(t, pt, e) => ev.type = "PRESENCE" /\ u = t /\ ev.presence = pt
  <1>1. /\ ev.type = "ZONE" => ShowsZones(e, u, ev.zones, ev.movement)
        /\ ev.type = "PRESENCE" => ShowsPresence(e, u, ev.presence)
    BY ClientReads
  <1>2. ev.type \in {"ZONE", "PRESENCE"} /\ ev.presence \in {"ACTIVE", "INACTIVE"}
    BY DEF Event, Presences
  <1>3. e.actor.id = u
    BY <1>1, <1>2 DEF ShowsZones, ShowsPresence
  <1>4. ASSUME NEW Z, Matches(zoneCheck(t, Some(Z)), e)
        PROVE  ev.type = "ZONE" /\ u = t /\ ev.zones = Z
    <2>1. e.type = "EVENT_TYPE_ZONE" /\ e.actor.id = t /\ ZonesOf(e) = Z
      BY <1>4 DEF Matches, zoneCheck, Some
    <2>2. ev.type = "ZONE"
      BY <1>1, <1>2, <2>1 DEF ShowsPresence
    <2> QED
      BY <1>1, <1>3, <2>1, <2>2 DEF ShowsZones
  <1>5. ASSUME NEW pt \in Presences, Told(t, pt, e)
        PROVE  ev.type = "PRESENCE" /\ u = t /\ ev.presence = pt
    <2>1. e.type = "EVENT_TYPE_PRESENCE" /\ e.actor.id = t /\ e.state.presence = PbPresence[pt]
      BY <1>5 DEF Told, Matches, presenceCheck, Some
    <2>2. ev.type = "PRESENCE"
      BY <1>1, <1>2, <2>1 DEF ShowsZones
    <2>3. PbPresence[ev.presence] = PbPresence[pt]
      BY <1>1, <2>1, <2>2 DEF ShowsPresence
    <2>4. ev.presence = pt
      BY <1>2, <1>5, <2>3 DEF PbPresence, Presences
    <2> QED
      BY <1>3, <2>1, <2>2, <2>4
  <1> QED
    BY <1>3, <1>4, <1>5

\* A tag is told what its presence event says.
LEMMA PresenceTold ==
    ASSUME NEW t, NEW ev \in Event, NEW pt \in Presences,
           Told(t, pt, domainEventToPb(DomainEvent(t, ev)))
    PROVE  ev.type = "PRESENCE" /\ ev.presence = pt
  <1> DEFINE e == domainEventToPb(DomainEvent(t, ev))
  <1>1. e = domainEventToPb(DomainEvent(t, ev)) /\ Told(t, pt, e)
    OBVIOUS
  <1> HIDE DEF e
  <1>2. \A pr \in Presences : Told(t, pr, e) => ev.type = "PRESENCE" /\ t = t /\ ev.presence = pr
    BY <1>1, EventTells
  <1> QED
    BY <1>1, <1>2

\* Nothing tells that a tag is both back and gone.
LEMMA ToldOne ==
    ASSUME NEW t, NEW m, Told(t, "INACTIVE", m)
    PROVE  ~Told(t, "ACTIVE", m)
  <1>1. PbPresence["ACTIVE"] # PbPresence["INACTIVE"]
    BY DEF PbPresence
  <1> QED
    BY <1>1 DEF Told, Matches, presenceCheck, Some

\* More steps vouch for more.
LEMMA VouchedMore ==
    ASSUME NEW sc, NEW t, NEW H, NEW h, H \subseteq h, NEW m, Vouched(sc, t, H, m)
    PROVE  Vouched(sc, t, h, m)
  BY DEF Vouched

\* Events wait that are vouched for, and the sender and the adapter go on.
LEMMA ProperSend ==
    ASSUME NEW sc, NEW t, NEW p \in Nat, NEW st, NEW H, NEW c, NEW f, NEW w, NEW R, NEW k \in Nat,
           Proper(sc, t, p, st, H, c, f, w, R, k),
           NEW h, H \subseteq h, NEW r \in Nat, p <= r, NEW new, Sound(sc, r, new, h),
           NEW x, Len(w) \in Nat, Len(x) \in Nat, Len(w) <= Len(x),
           \A i \in 1 .. Len(w) : x[i] = w[i],
           \A i \in Len(w) + 1 .. Len(x) : Vouched(sc, t, h, x[i]),
           sc = "lost" /\ 1 \notin h =>
             /\ r <= 3 => \A i \in Len(w) + 1 .. Len(x) : ~Told(t, "INACTIVE", x[i])
             /\ \/ \A i \in Len(w) + 1 .. Len(x) : ~Told(t, "ACTIVE", x[i])
                \/ p <= 3 /\ \A i \in Len(w) + 1 .. Len(x) : ~Told(t, "INACTIVE", x[i])
    PROVE  Proper(sc, t, r, new, h, c, f, x, R, k)
  <1>1. \A i \in 1 .. Len(x) : i \in 1 .. Len(w) \/ i \in Len(w) + 1 .. Len(x)
    OBVIOUS
  <1>2. /\ \A i \in 1 .. Len(c) : Vouched(sc, t, h, c[i])
        /\ \A i \in 1 .. Len(f) : Vouched(sc, t, h, f[i])
        /\ \A m \in R : Vouched(sc, t, h, m)
    BY VouchedMore DEF Proper
  <1>3. \A i \in 1 .. Len(x) : Vouched(sc, t, h, x[i])
    BY <1>1, VouchedMore DEF Proper
  <1>4. sc = "lost" /\ k = 4 => 1 \in h /\ 2 \in h /\ 3 \in h
    BY DEF Proper
  <1>5. ASSUME sc = "lost", 1 \notin h PROVE NeverBack(t, r, c, f, x, R, k)
    <2>1. NeverBack(t, p, c, f, w, R, k)
      BY <1>5 DEF Proper
    <2>2. /\ p <= 3 => /\ k < 3 /\ ~Tells(t, "INACTIVE", c) /\ ~Tells(t, "INACTIVE", f)
                       /\ ~Tells(t, "INACTIVE", w) /\ \A m \in R : ~Told(t, "INACTIVE", m)
          /\ StaysGone(t, c) /\ StaysGone(t, f) /\ StaysGone(t, w)
          /\ Tells(t, "INACTIVE", c) => ~Tells(t, "ACTIVE", f)
          /\ Tells(t, "INACTIVE", c) => ~Tells(t, "ACTIVE", w)
          /\ Tells(t, "INACTIVE", f) => ~Tells(t, "ACTIVE", w)
          /\ (\E m \in R : Told(t, "INACTIVE", m)) => ~Tells(t, "ACTIVE", w)
          /\ k >= 3 => ~Tells(t, "ACTIVE", c) /\ ~Tells(t, "ACTIVE", f) /\ ~Tells(t, "ACTIVE", w)
      BY <2>1 DEF NeverBack
    <2>3. r <= 3 => p <= 3 /\ ~Tells(t, "INACTIVE", x)
      <3> SUFFICES ASSUME r <= 3, NEW i \in 1 .. Len(x) PROVE p <= 3 /\ ~Told(t, "INACTIVE", x[i])
        BY DEF Tells
      <3>1. p <= 3
        OBVIOUS
      <3>2. CASE i \in 1 .. Len(w)
        BY <2>2, <3>1, <3>2 DEF Tells
      <3>3. CASE i \in Len(w) + 1 .. Len(x)
        BY <1>5, <3>1, <3>3
      <3> QED
        BY <1>1, <3>1, <3>2, <3>3
    <2>4. CASE \A i \in Len(w) + 1 .. Len(x) : ~Told(t, "ACTIVE", x[i])
      <3>1. Tells(t, "ACTIVE", x) => Tells(t, "ACTIVE", w)
        BY <1>1, <2>4 DEF Tells
      <3>2. StaysGone(t, x)
        <4> SUFFICES ASSUME NEW i \in 1 .. Len(x), NEW j \in 1 .. Len(x), i < j,
                            Told(t, "INACTIVE", x[i]), Told(t, "ACTIVE", x[j])
                     PROVE  FALSE
          BY DEF StaysGone
        <4>1. j \in 1 .. Len(w)
          BY <1>1, <2>4
        <4>2. i \in 1 .. Len(w)
          BY <4>1
        <4> QED
          BY <2>2, <4>1, <4>2 DEF StaysGone
      <3> QED
        BY <2>2, <2>3, <3>1, <3>2 DEF NeverBack
    <2>5. CASE p <= 3 /\ \A i \in Len(w) + 1 .. Len(x) : ~Told(t, "INACTIVE", x[i])
      <3>1. ~Tells(t, "INACTIVE", x)
        BY <1>1, <2>2, <2>5 DEF Tells
      <3>2. StaysGone(t, x)
        BY <3>1 DEF StaysGone, Tells
      <3>3. ~(k >= 3)
        BY <2>2, <2>5
      <3> QED
        BY <2>2, <2>3, <2>5, <3>1, <3>2, <3>3 DEF NeverBack
    <2> QED
      BY <1>5, <2>4, <2>5
  <1> QED
    BY <1>2, <1>3, <1>4, <1>5 DEF Proper

\* Write publishes the first event that waits, or suppresses it.
LEMMA ProperPublish ==
    ASSUME NEW sc, NEW t, NEW p, NEW st, NEW H, NEW c, NEW f, NEW w, NEW R, NEW k \in Nat,
           Proper(sc, t, p, st, H, c, f, w, R, k),
           Len(w) \in Nat, Len(w) >= 1, Len(f) \in Nat,
           NEW x, Len(x) = Len(w) - 1, \A i \in 1 .. Len(x) : x[i] = w[i + 1],
           NEW g, \/ Len(g) = Len(f)
                  \/ Len(g) = Len(f) + 1 /\ g[Len(f) + 1] = w[1],
           \A i \in 1 .. Len(f) : g[i] = f[i],
           NEW Q, \A m \in Q : m \in R \/ m = w[1]
    PROVE  Proper(sc, t, p, st, H, c, g, x, Q, k)
  <1>1. /\ 1 \in 1 .. Len(w)
        /\ \A i \in 1 .. Len(x) : i + 1 \in 1 .. Len(w) /\ 1 < i + 1 /\ x[i] = w[i + 1]
    OBVIOUS
  <1>2. \A i \in 1 .. Len(g) : \/ i \in 1 .. Len(f) /\ g[i] = f[i]
                               \/ i = Len(f) + 1 /\ g[i] = w[1]
    OBVIOUS
  <1>3. /\ \A i \in 1 .. Len(c) : Vouched(sc, t, H, c[i])
        /\ \A i \in 1 .. Len(f) : Vouched(sc, t, H, f[i])
        /\ \A i \in 1 .. Len(w) : Vouched(sc, t, H, w[i])
        /\ \A m \in R : Vouched(sc, t, H, m)
        /\ Sound(sc, p, st, H) /\ (sc = "lost" /\ k = 4 => 1 \in H /\ 2 \in H /\ 3 \in H)
    BY DEF Proper
  <1>4. /\ \A i \in 1 .. Len(g) : Vouched(sc, t, H, g[i])
        /\ \A i \in 1 .. Len(x) : Vouched(sc, t, H, x[i])
        /\ \A m \in Q : Vouched(sc, t, H, m)
    BY <1>1, <1>2, <1>3
  <1>5. ASSUME sc = "lost", 1 \notin H PROVE NeverBack(t, p, c, g, x, Q, k)
    <2>1. NeverBack(t, p, c, f, w, R, k)
      BY <1>5 DEF Proper
    <2>2. /\ p <= 3 => /\ k < 3 /\ ~Tells(t, "INACTIVE", c) /\ ~Tells(t, "INACTIVE", f)
                       /\ ~Tells(t, "INACTIVE", w) /\ \A m \in R : ~Told(t, "INACTIVE", m)
          /\ StaysGone(t, c) /\ StaysGone(t, f) /\ StaysGone(t, w)
          /\ Tells(t, "INACTIVE", c) => ~Tells(t, "ACTIVE", f)
          /\ Tells(t, "INACTIVE", c) => ~Tells(t, "ACTIVE", w)
          /\ Tells(t, "INACTIVE", f) => ~Tells(t, "ACTIVE", w)
          /\ (\E m \in R : Told(t, "INACTIVE", m)) => ~Tells(t, "ACTIVE", w)
          /\ k >= 3 => ~Tells(t, "ACTIVE", c) /\ ~Tells(t, "ACTIVE", f) /\ ~Tells(t, "ACTIVE", w)
      BY <2>1 DEF NeverBack
    <2>3. \A pt : /\ Tells(t, pt, x) => Tells(t, pt, w)
                  /\ Tells(t, pt, g) => Tells(t, pt, f) \/ Told(t, pt, w[1])
                  /\ Told(t, pt, w[1]) => Tells(t, pt, w)
      BY <1>1, <1>2 DEF Tells
    <2>4. Told(t, "INACTIVE", w[1]) => ~Tells(t, "ACTIVE", x)
      <3> SUFFICES ASSUME Told(t, "INACTIVE", w[1]), NEW i \in 1 .. Len(x), Told(t, "ACTIVE", x[i])
                   PROVE  FALSE
        BY DEF Tells
      <3> QED
        BY <1>1, <2>2 DEF StaysGone
    <2>5. StaysGone(t, x)
      <3> SUFFICES ASSUME NEW i \in 1 .. Len(x), NEW j \in 1 .. Len(x), i < j,
                          Told(t, "INACTIVE", x[i]), Told(t, "ACTIVE", x[j])
                   PROVE  FALSE
        BY DEF StaysGone
      <3>1. i + 1 < j + 1
        OBVIOUS
      <3> QED
        BY <1>1, <2>2, <3>1 DEF StaysGone
    <2>6. StaysGone(t, g)
      <3> SUFFICES ASSUME NEW i \in 1 .. Len(g), NEW j \in 1 .. Len(g), i < j,
                          Told(t, "INACTIVE", g[i]), Told(t, "ACTIVE", g[j])
                   PROVE  FALSE
        BY DEF StaysGone
      <3>1. i \in 1 .. Len(f) /\ g[i] = f[i]
        BY <1>2
      <3>2. CASE j \in 1 .. Len(f) /\ g[j] = f[j]
        BY <2>2, <3>1, <3>2 DEF StaysGone
      <3>3. CASE g[j] = w[1]
        BY <1>1, <2>2, <3>1, <3>3 DEF Tells
      <3> QED
        BY <1>2, <3>2, <3>3
    <2>7. p <= 3 => /\ k < 3 /\ ~Tells(t, "INACTIVE", c) /\ ~Tells(t, "INACTIVE", g)
                    /\ ~Tells(t, "INACTIVE", x) /\ \A m \in Q : ~Told(t, "INACTIVE", m)
      BY <2>2, <2>3
    <2>8. /\ Tells(t, "INACTIVE", c) => ~Tells(t, "ACTIVE", g)
          /\ Tells(t, "INACTIVE", c) => ~Tells(t, "ACTIVE", x)
          /\ Tells(t, "INACTIVE", g) => ~Tells(t, "ACTIVE", x)
          /\ (\E m \in Q : Told(t, "INACTIVE", m)) => ~Tells(t, "ACTIVE", x)
          /\ k >= 3 => ~Tells(t, "ACTIVE", c) /\ ~Tells(t, "ACTIVE", g) /\ ~Tells(t, "ACTIVE", x)
      BY <2>2, <2>3, <2>4
    <2> QED
      BY <2>2, <2>5, <2>6, <2>7, <2>8 DEF NeverBack
  <1> QED
    BY <1>3, <1>4, <1>5 DEF Proper

\* A message of another tag says nothing of this one.
LEMMA OfOthers ==
    ASSUME NEW sc, NEW t, NEW H, NEW m, m.actor.id # t
    PROVE  Vouched(sc, t, H, m) /\ \A pt : ~Told(t, pt, m)
  <1>1. \A pt : ~Told(t, pt, m)
    BY DEF Told, Matches, presenceCheck
  <1>2. \A i \in 1 .. Len(ZoneOrder) : ~Matches(zoneCheck(t, Some({ZoneOrder[i]})), m)
    BY DEF Matches, zoneCheck
  <1> QED
    BY <1>1, <1>2 DEF Vouched

\* The core pushes a message of another tag.
LEMMA ProperOther ==
    ASSUME NEW sc, NEW t, NEW p, NEW st, NEW H, NEW c, NEW f, NEW w, NEW R, NEW k \in Nat,
           Proper(sc, t, p, st, H, c, f, w, R, k), Len(f) \in Nat,
           NEW g, Len(g) = Len(f) + 1, \A i \in 1 .. Len(f) : g[i] = f[i],
           g[Len(f) + 1].actor.id # t
    PROVE  Proper(sc, t, p, st, H, c, g, w, R, k)
  <1> DEFINE m == g[Len(f) + 1]
  <1>1. \A i \in 1 .. Len(g) : \/ i \in 1 .. Len(f) /\ g[i] = f[i]
                               \/ i = Len(f) + 1 /\ g[i] = m
    OBVIOUS
  <1>2. Vouched(sc, t, H, m) /\ \A pt : ~Told(t, pt, m)
    BY OfOthers
  <1> HIDE DEF m
  <1>3. \A i \in 1 .. Len(g) : Vouched(sc, t, H, g[i])
    BY <1>1, <1>2 DEF Proper
  <1>4. \A pt : Tells(t, pt, g) => Tells(t, pt, f)
    BY <1>1, <1>2 DEF Tells
  <1>5. ASSUME StaysGone(t, f) PROVE StaysGone(t, g)
    <2> SUFFICES ASSUME NEW i \in 1 .. Len(g), NEW j \in 1 .. Len(g), i < j,
                        Told(t, "INACTIVE", g[i]), Told(t, "ACTIVE", g[j])
                 PROVE  FALSE
      BY DEF StaysGone
    <2>1. i \in 1 .. Len(f) /\ g[i] = f[i] /\ j \in 1 .. Len(f) /\ g[j] = f[j]
      BY <1>1, <1>2
    <2> QED
      BY <1>5, <2>1 DEF StaysGone
  <1>6. NeverBack(t, p, c, f, w, R, k) => NeverBack(t, p, c, g, w, R, k)
    BY <1>4, <1>5 DEF NeverBack
  <1> QED
    BY <1>3, <1>6 DEF Proper

\* The i-th message of f has been received into c, or dropped.
Received(c, f, i, b, g) ==
    /\ i \in 1 .. Len(f) /\ \A j \in 1 .. i - 1 : f[j].type # f[i].type
    /\ Len(g) = Len(f) - 1 /\ \A j \in 1 .. i - 1 : g[j] = f[j]
    /\ \A j \in i .. Len(f) - 1 : g[j] = f[j + 1]
    /\ \A j \in 1 .. Len(c) : b[j] = c[j]
    /\ \/ Len(b) = Len(c)
       \/ Len(b) = Len(c) + 1 /\ b[Len(c) + 1] = f[i]

\* The simulator receives the i-th message, or drops it.
LEMMA ProperReceive ==
    ASSUME NEW sc, NEW t, NEW p, NEW st, NEW H, NEW c, NEW f, NEW w, NEW R, NEW k \in Nat,
           Proper(sc, t, p, st, H, c, f, w, R, k), Len(f) \in Nat, Len(c) \in Nat,
           NEW i, NEW b, NEW g, Received(c, f, i, b, g)
    PROVE  Proper(sc, t, p, st, H, b, g, w, R, k)
  <1>0. /\ i \in 1 .. Len(f) /\ \A j \in 1 .. i - 1 : f[j].type # f[i].type
        /\ Len(g) = Len(f) - 1 /\ \A j \in 1 .. i - 1 : g[j] = f[j]
        /\ \A j \in i .. Len(f) - 1 : g[j] = f[j + 1]
        /\ \A j \in 1 .. Len(c) : b[j] = c[j]
        /\ \/ Len(b) = Len(c)
           \/ Len(b) = Len(c) + 1 /\ b[Len(c) + 1] = f[i]
    BY DEF Received
  <1> USE <1>0
  <1>1. \A j \in 1 .. Len(g) : \/ j \in 1 .. Len(f) /\ j < i /\ g[j] = f[j]
                               \/ j + 1 \in 1 .. Len(f) /\ i <= j /\ i < j + 1 /\ g[j] = f[j + 1]
    OBVIOUS
  <1>2. \A j \in 1 .. Len(b) : \/ j \in 1 .. Len(c) /\ b[j] = c[j]
                               \/ j = Len(c) + 1 /\ b[j] = f[i]
    OBVIOUS
  <1>3. /\ \A j \in 1 .. Len(c) : Vouched(sc, t, H, c[j])
        /\ \A j \in 1 .. Len(f) : Vouched(sc, t, H, f[j])
    BY DEF Proper
  <1>4. /\ \A j \in 1 .. Len(b) : Vouched(sc, t, H, b[j])
        /\ \A j \in 1 .. Len(g) : Vouched(sc, t, H, g[j])
    BY <1>1, <1>2, <1>3
  <1>5. ASSUME sc = "lost", 1 \notin H PROVE NeverBack(t, p, b, g, w, R, k)
    <2>1. NeverBack(t, p, c, f, w, R, k)
      BY <1>5 DEF Proper
    <2>2. /\ p <= 3 => /\ k < 3 /\ ~Tells(t, "INACTIVE", c) /\ ~Tells(t, "INACTIVE", f)
                       /\ ~Tells(t, "INACTIVE", w) /\ \A m \in R : ~Told(t, "INACTIVE", m)
          /\ StaysGone(t, c) /\ StaysGone(t, f) /\ StaysGone(t, w)
          /\ Tells(t, "INACTIVE", c) => ~Tells(t, "ACTIVE", f)
          /\ Tells(t, "INACTIVE", c) => ~Tells(t, "ACTIVE", w)
          /\ Tells(t, "INACTIVE", f) => ~Tells(t, "ACTIVE", w)
          /\ (\E m \in R : Told(t, "INACTIVE", m)) => ~Tells(t, "ACTIVE", w)
          /\ k >= 3 => ~Tells(t, "ACTIVE", c) /\ ~Tells(t, "ACTIVE", f) /\ ~Tells(t, "ACTIVE", w)
      BY <2>1 DEF NeverBack
    <2>3. \A pt : /\ Tells(t, pt, g) => Tells(t, pt, f)
                  /\ Tells(t, pt, b) => Tells(t, pt, c) \/ Told(t, pt, f[i])
                  /\ Told(t, pt, f[i]) => Tells(t, pt, f)
      BY <1>1, <1>2 DEF Tells
    <2>4. Told(t, "INACTIVE", f[i]) => ~Tells(t, "ACTIVE", g)
      <3> SUFFICES ASSUME Told(t, "INACTIVE", f[i]), NEW j \in 1 .. Len(g), Told(t, "ACTIVE", g[j])
                   PROVE  FALSE
        BY DEF Tells
      <3>1. CASE j < i /\ g[j] = f[j]
        <4>1. f[j].type = "EVENT_TYPE_PRESENCE" /\ f[i].type = "EVENT_TYPE_PRESENCE"
          BY <3>1 DEF Told, Matches, presenceCheck
        <4>2. j \in 1 .. i - 1
          BY <3>1
        <4> QED
          BY <4>1, <4>2
      <3>2. CASE j + 1 \in 1 .. Len(f) /\ i < j + 1 /\ g[j] = f[j + 1]
        BY <2>2, <3>2 DEF StaysGone
      <3> QED
        BY <1>1, <3>1, <3>2
    <2>5. StaysGone(t, b)
      <3> SUFFICES ASSUME NEW m \in 1 .. Len(b), NEW n \in 1 .. Len(b), m < n,
                          Told(t, "INACTIVE", b[m]), Told(t, "ACTIVE", b[n])
                   PROVE  FALSE
        BY DEF StaysGone
      <3>1. m \in 1 .. Len(c) /\ b[m] = c[m]
        BY <1>2
      <3>2. CASE n \in 1 .. Len(c) /\ b[n] = c[n]
        BY <2>2, <3>1, <3>2 DEF StaysGone
      <3>3. CASE b[n] = f[i]
        BY <2>2, <3>1, <3>3 DEF Tells
      <3> QED
        BY <1>2, <3>2, <3>3
    <2>6. StaysGone(t, g)
      <3> SUFFICES ASSUME NEW m \in 1 .. Len(g), NEW n \in 1 .. Len(g), m < n,
                          Told(t, "INACTIVE", g[m]), Told(t, "ACTIVE", g[n])
                   PROVE  FALSE
        BY DEF StaysGone
      <3>1. PICK x \in 1 .. Len(f) : g[m] = f[x] /\ ((x = m /\ m < i) \/ (x = m + 1 /\ i <= m))
        BY <1>1
      <3>2. PICK y \in 1 .. Len(f) : g[n] = f[y] /\ ((y = n /\ n < i) \/ (y = n + 1 /\ i <= n))
        BY <1>1
      <3>3. x < y
        BY <3>1, <3>2
      <3> QED
        BY <2>2, <3>1, <3>2, <3>3 DEF StaysGone
    <2>7. p <= 3 => /\ k < 3 /\ ~Tells(t, "INACTIVE", b) /\ ~Tells(t, "INACTIVE", g)
                    /\ ~Tells(t, "INACTIVE", w) /\ \A m \in R : ~Told(t, "INACTIVE", m)
      BY <2>2, <2>3
    <2>8. /\ Tells(t, "INACTIVE", b) => ~Tells(t, "ACTIVE", g)
          /\ Tells(t, "INACTIVE", b) => ~Tells(t, "ACTIVE", w)
          /\ Tells(t, "INACTIVE", g) => ~Tells(t, "ACTIVE", w)
          /\ k >= 3 => ~Tells(t, "ACTIVE", b) /\ ~Tells(t, "ACTIVE", g) /\ ~Tells(t, "ACTIVE", w)
      BY <2>2, <2>3, <2>4
    <2> QED
      BY <2>2, <2>5, <2>6, <2>7, <2>8 DEF NeverBack
  <1> QED
    BY <1>4, <1>5 DEF Proper

\* waitForCheck takes a message, and goes on to the next check if it satisfies
\* this one.
LEMMA ProperTake ==
    ASSUME NEW sc, NEW t, NEW p, NEW st, NEW H, NEW c, NEW f, NEW w, NEW R, NEW k \in Nat,
           Proper(sc, t, p, st, H, c, f, w, R, k), Len(c) \in Nat, Len(c) >= 1,
           NEW b, Len(b) = Len(c) - 1, \A i \in 1 .. Len(b) : b[i] = c[i + 1],
           NEW n \in Nat,
           sc = "lost" => \/ n = k
                          \/ n = k + 1 /\ k < 4 /\ (k = 2 => Told(t, "INACTIVE", c[1]))
                                       /\ (k = 3 => Told(t, "ACTIVE", c[1]))
    PROVE  Proper(sc, t, p, st, H, b, f, w, R, n)
  <1>1. /\ 1 \in 1 .. Len(c)
        /\ \A i \in 1 .. Len(b) : i + 1 \in 1 .. Len(c) /\ 1 < i + 1 /\ b[i] = c[i + 1]
    OBVIOUS
  <1>2. \A i \in 1 .. Len(b) : Vouched(sc, t, H, b[i])
    BY <1>1 DEF Proper
  <1>3. ASSUME sc = "lost", 1 \notin H
        PROVE  NeverBack(t, p, b, f, w, R, n) /\ n # 4
    <2>1. NeverBack(t, p, c, f, w, R, k) /\ k # 4
      BY <1>3 DEF Proper
    <2>2. /\ p <= 3 => /\ k < 3 /\ ~Tells(t, "INACTIVE", c) /\ ~Tells(t, "INACTIVE", f)
                       /\ ~Tells(t, "INACTIVE", w) /\ \A m \in R : ~Told(t, "INACTIVE", m)
          /\ StaysGone(t, c) /\ StaysGone(t, f) /\ StaysGone(t, w)
          /\ Tells(t, "INACTIVE", c) => ~Tells(t, "ACTIVE", f)
          /\ Tells(t, "INACTIVE", c) => ~Tells(t, "ACTIVE", w)
          /\ Tells(t, "INACTIVE", f) => ~Tells(t, "ACTIVE", w)
          /\ (\E m \in R : Told(t, "INACTIVE", m)) => ~Tells(t, "ACTIVE", w)
          /\ k >= 3 => ~Tells(t, "ACTIVE", c) /\ ~Tells(t, "ACTIVE", f) /\ ~Tells(t, "ACTIVE", w)
      BY <2>1 DEF NeverBack
    <2>3. \A pt : /\ Tells(t, pt, b) => Tells(t, pt, c)
                  /\ Told(t, pt, c[1]) => Tells(t, pt, c)
      BY <1>1 DEF Tells
    <2>4. Told(t, "INACTIVE", c[1]) => ~Tells(t, "ACTIVE", b)
      BY <1>1, <2>2 DEF Tells, StaysGone
    <2>5. StaysGone(t, b)
      <3> SUFFICES ASSUME NEW i \in 1 .. Len(b), NEW j \in 1 .. Len(b), i < j,
                          Told(t, "INACTIVE", b[i]), Told(t, "ACTIVE", b[j])
                   PROVE  FALSE
        BY DEF StaysGone
      <3>1. i + 1 < j + 1
        OBVIOUS
      <3> QED
        BY <1>1, <2>2, <3>1 DEF StaysGone
    <2>6. ~(n = k + 1 /\ k = 3)
      BY <1>3, <2>2, <2>3
    <2>7. n # 4
      BY <1>3, <2>1, <2>6
    <2>8. n >= 3 => ~Tells(t, "ACTIVE", b) /\ ~Tells(t, "ACTIVE", f) /\ ~Tells(t, "ACTIVE", w)
      <3>1. CASE k >= 3
        BY <2>2, <2>3, <3>1
      <3>2. CASE ~(k >= 3) /\ n >= 3
        <4>1. n = k + 1 /\ k = 2
          BY <1>3, <3>2
        <4>2. Told(t, "INACTIVE", c[1])
          BY <1>3, <4>1
        <4> QED
          BY <2>2, <2>3, <2>4, <4>2
      <3> QED
        BY <3>1, <3>2
    <2>9. p <= 3 => n < 3
      <3> SUFFICES ASSUME p <= 3, n >= 3 PROVE FALSE
        OBVIOUS
      <3>1. k < 3
        BY <2>2
      <3>2. n = k + 1 /\ k = 2
        BY <1>3, <3>1
      <3> QED
        BY <1>3, <2>2, <2>3, <3>2
    <2>10. p <= 3 => /\ ~Tells(t, "INACTIVE", b) /\ ~Tells(t, "INACTIVE", f)
                     /\ ~Tells(t, "INACTIVE", w) /\ \A m \in R : ~Told(t, "INACTIVE", m)
      BY <2>2, <2>3
    <2>11. /\ Tells(t, "INACTIVE", b) => ~Tells(t, "ACTIVE", f)
           /\ Tells(t, "INACTIVE", b) => ~Tells(t, "ACTIVE", w)
      BY <2>2, <2>3
    <2> QED
      BY <2>2, <2>5, <2>7, <2>8, <2>9, <2>10, <2>11 DEF NeverBack
  <1>4. ASSUME sc = "lost", n = 4 PROVE 1 \in H /\ 2 \in H /\ 3 \in H
    <2>1. 1 \in H
      BY <1>3, <1>4
    <2>2. CASE n = k
      BY <1>4, <2>2 DEF Proper
    <2>3. CASE n # k
      <3>1. Told(t, "ACTIVE", c[1])
        BY <1>4, <2>3
      <3>2. Vouched(sc, t, H, c[1])
        BY <1>1 DEF Proper
      <3> QED
        BY <1>4, <2>1, <3>1, <3>2 DEF Vouched
    <2> QED
      BY <2>2, <2>3
  <1> QED
    BY <1>2, <1>3, <1>4 DEF Proper

\* The subscription begins: what is stored of the tag is under way.
LEMMA ProperJoin ==
    ASSUME NEW sc, NEW t, NEW p, NEW st, NEW H, NEW c, NEW f, NEW w, NEW R, NEW k \in Nat, k < 3,
           Proper(sc, t, p, st, H, c, f, w, R, k), Len(c) = 0,
           \A m, n \in R : m.type = n.type => m = n,
           NEW g, \A i \in 1 .. Len(g) : g[i] \in R \/ g[i].actor.id # t
    PROVE  Proper(sc, t, p, st, H, c, g, w, R, k)
  <1>1. \A i \in 1 .. Len(g) : \A pt : Told(t, pt, g[i]) => g[i] \in R
    BY OfOthers
  <1>2. \A i \in 1 .. Len(g) : Vouched(sc, t, H, g[i])
    BY OfOthers DEF Proper
  <1>3. ASSUME NEW m \in R, NEW n \in R, Told(t, "INACTIVE", m), Told(t, "ACTIVE", n)
        PROVE  FALSE
    <2>1. m.type = "EVENT_TYPE_PRESENCE" /\ n.type = "EVENT_TYPE_PRESENCE"
      BY <1>3 DEF Told, Matches, presenceCheck
    <2>2. m = n
      BY <2>1
    <2> QED
      BY <1>3, <2>2, ToldOne
  <1>4. StaysGone(t, g)
    BY <1>1, <1>3 DEF StaysGone
  <1>5. Tells(t, "INACTIVE", g) => \E m \in R : Told(t, "INACTIVE", m)
    BY <1>1 DEF Tells
  <1>6. ~Tells(t, "INACTIVE", c)
    BY DEF Tells
  <1>7. NeverBack(t, p, c, f, w, R, k) => NeverBack(t, p, c, g, w, R, k)
    BY <1>4, <1>5, <1>6 DEF NeverBack
  <1> QED
    BY <1>2, <1>7 DEF Proper

\* A simulator starts against a core that has never heard of the tag.
LEMMA ProperStart ==
    ASSUME NEW sc, NEW t, NEW st, ~hadHistory(st), NEW c, NEW f, NEW w,
           Len(c) = 0, Len(f) = 0, Len(w) = 0
    PROVE  Proper(sc, t, 1, st, {}, c, f, w, {}, 1)
  <1>1. Sound(sc, 1, st, {})
    BY DEF Sound, WasOffline
  <1>2. \A pt : ~Tells(t, pt, c) /\ ~Tells(t, pt, f) /\ ~Tells(t, pt, w)
    BY DEF Tells
  <1>3. StaysGone(t, c) /\ StaysGone(t, f) /\ StaysGone(t, w)
    BY DEF StaysGone
  <1>4. NeverBack(t, 1, c, f, w, {}, 1)
    BY <1>2, <1>3 DEF NeverBack
  <1> QED
    BY <1>1, <1>4 DEF Proper

-----------------------------------------------------------------------------
(* What a tag is told comes from the steps of its sender.                  *)

\* What ProperSend asks of the events a step sends.
Honest(sc, t, p, r, new, h, evs) ==
    /\ Sound(sc, r, new, h)
    /\ \A i \in 1 .. Len(evs) : Vouched(sc, t, h, domainEventToPb(DomainEvent(t, evs[i])))
    /\ sc = "lost" /\ 1 \notin h =>
         /\ r <= 3 => \A i \in 1 .. Len(evs) : ~(evs[i].type = "PRESENCE" /\ evs[i].presence = "INACTIVE")
         /\ \/ \A i \in 1 .. Len(evs) : ~(evs[i].type = "PRESENCE" /\ evs[i].presence = "ACTIVE")
            \/ /\ p <= 3
               /\ \A i \in 1 .. Len(evs) : ~(evs[i].type = "PRESENCE" /\ evs[i].presence = "INACTIVE")

\* Such events keep what is proper.
LEMMA ProperEvents ==
    ASSUME NEW sc, NEW t, NEW p \in Nat, NEW st, NEW H, NEW c, NEW f, NEW q \in Seq(OfTag(t)), NEW R,
           NEW k \in Nat, Proper(sc, t, p, st, H, c, f, Outgoing(q), R, k),
           NEW h, H \subseteq h, NEW r \in Nat, p <= r, NEW new,
           NEW evs \in Seq(Event), Honest(sc, t, p, r, new, h, evs)
    PROVE  Proper(sc, t, r, new, h, c, f, Outgoing(q \o Sent(t, evs)), R, k)
  <1> DEFINE w == Outgoing(q)
             s == Sent(t, evs)
             x == Outgoing(q \o s)
  <1>1. /\ s \in Seq(OfTag(t)) /\ Len(s) = Len(evs) /\ Len(evs) \in Nat /\ Len(q) \in Nat
        /\ \A i \in 1 .. Len(evs) : s[i] = DomainEvent(t, evs[i])
    <2>1. Len(evs) \in Nat /\ DOMAIN evs = 1 .. Len(evs) /\ \A i \in 1 .. Len(evs) : evs[i] \in Event
      OBVIOUS
    <2>2. s = [i \in 1 .. Len(evs) |-> DomainEvent(t, evs[i])]
      BY <2>1 DEF Sent
    <2>3. \A i \in 1 .. Len(evs) : DomainEvent(t, evs[i]) \in OfTag(t)
      BY <2>1 DEF OfTag
    <2> QED
      BY <2>1, <2>2, <2>3
  <1> HIDE DEF s
  <1>2. /\ Len(q \o s) = Len(q) + Len(s)
        /\ \A i \in 1 .. Len(q) : (q \o s)[i] = q[i]
        /\ \A i \in 1 .. Len(s) : (q \o s)[Len(q) + i] = s[i]
    <2>1. q \in Seq(OfTag(t)) /\ s \in Seq(OfTag(t))
      BY <1>1
    <2> QED
      BY ONLY <2>1, ConcatReads
  <1> DEFINE e == q \o s
  <1>3. /\ Len(e) = Len(q) + Len(evs) /\ \A i \in 1 .. Len(q) : e[i] = q[i]
        /\ \A i \in 1 .. Len(evs) : e[Len(q) + i] = DomainEvent(t, evs[i])
    BY <1>1, <1>2
  <1> HIDE DEF e
  <1>4. /\ Len(w) = Len(q) /\ \A i \in 1 .. Len(q) : w[i] = domainEventToPb(q[i])
    BY <1>1 DEF Outgoing
  <1>5. x = Outgoing(e)
    BY DEF e
  <1> HIDE DEF w, x
  <1>6. /\ Len(x) = Len(e) /\ \A i \in 1 .. Len(e) : x[i] = domainEventToPb(e[i])
    BY <1>1, <1>3, <1>5 DEF Outgoing
  <1>7. \A i \in 1 .. Len(w) : x[i] = w[i]
    BY <1>1, <1>3, <1>4, <1>6
  <1>8. \A i \in Len(w) + 1 .. Len(x) : /\ i - Len(q) \in 1 .. Len(evs)
                                        /\ x[i] = domainEventToPb(DomainEvent(t, evs[i - Len(q)]))
    <2> SUFFICES ASSUME NEW i \in Len(w) + 1 .. Len(x)
                 PROVE  /\ i - Len(q) \in 1 .. Len(evs)
                        /\ x[i] = domainEventToPb(DomainEvent(t, evs[i - Len(q)]))
      OBVIOUS
    <2>1. i - Len(q) \in 1 .. Len(evs) /\ i \in 1 .. Len(e) /\ Len(q) + (i - Len(q)) = i
      BY <1>1, <1>3, <1>4, <1>6
    <2> QED
      BY <1>3, <1>6, <2>1
  <1>9. \A pt \in Presences : \A i \in Len(w) + 1 .. Len(x) :
          Told(t, pt, x[i]) => /\ evs[i - Len(q)].type = "PRESENCE"
                               /\ evs[i - Len(q)].presence = pt
    <2> SUFFICES ASSUME NEW pt \in Presences, NEW i \in Len(w) + 1 .. Len(x), Told(t, pt, x[i])
                 PROVE  evs[i - Len(q)].type = "PRESENCE" /\ evs[i - Len(q)].presence = pt
      OBVIOUS
    <2> DEFINE ev == evs[i - Len(q)]
               m == x[i]
    <2>1. ev \in Event /\ m = domainEventToPb(DomainEvent(t, ev))
      BY <1>8
    <2>3. Told(t, pt, domainEventToPb(DomainEvent(t, ev)))
      BY <2>1
    <2> HIDE DEF ev, m
    <2>2. ev.type = "PRESENCE" /\ ev.presence = pt
      BY <2>1, <2>3, PresenceTold
    <2> QED
      BY <2>2 DEF ev
  <1>10. {"ACTIVE", "INACTIVE"} \subseteq Presences
    BY DEF Presences
  <1>11. /\ Sound(sc, r, new, h)
         /\ \A i \in 1 .. Len(evs) : Vouched(sc, t, h, domainEventToPb(DomainEvent(t, evs[i])))
    BY DEF Honest
  <1>12. \A i \in Len(w) + 1 .. Len(x) : Vouched(sc, t, h, x[i])
    BY <1>8, <1>11
  <1>13. sc = "lost" /\ 1 \notin h =>
           /\ r <= 3 => \A i \in Len(w) + 1 .. Len(x) : ~Told(t, "INACTIVE", x[i])
           /\ \/ \A i \in Len(w) + 1 .. Len(x) : ~Told(t, "ACTIVE", x[i])
              \/ p <= 3 /\ \A i \in Len(w) + 1 .. Len(x) : ~Told(t, "INACTIVE", x[i])
    <2> SUFFICES ASSUME sc = "lost", 1 \notin h
                 PROVE  /\ r <= 3 => \A i \in Len(w) + 1 .. Len(x) : ~Told(t, "INACTIVE", x[i])
                        /\ \/ \A i \in Len(w) + 1 .. Len(x) : ~Told(t, "ACTIVE", x[i])
                           \/ p <= 3 /\ \A i \in Len(w) + 1 .. Len(x) : ~Told(t, "INACTIVE", x[i])
      OBVIOUS
    <2>1. /\ r <= 3 => \A i \in 1 .. Len(evs) : ~(evs[i].type = "PRESENCE" /\ evs[i].presence = "INACTIVE")
          /\ \/ \A i \in 1 .. Len(evs) : ~(evs[i].type = "PRESENCE" /\ evs[i].presence = "ACTIVE")
             \/ /\ p <= 3
                /\ \A i \in 1 .. Len(evs) : ~(evs[i].type = "PRESENCE" /\ evs[i].presence = "INACTIVE")
      BY DEF Honest
    <2> QED
      BY <1>8, <1>9, <1>10, <2>1, ZenonT(30)
  <1>14. Proper(sc, t, p, st, H, c, f, w, R, k)
    BY DEF w
  <1>15. Len(w) \in Nat /\ Len(x) \in Nat /\ Len(w) <= Len(x)
    BY <1>1, <1>3, <1>4, <1>6
  <1>16. Proper(sc, t, r, new, h, c, f, x, R, k)
    BY <1>7, <1>11, <1>12, <1>13, <1>14, <1>15, ProperSend
  <1> QED
    BY <1>16 DEF x, s

\* A zone event tells of the zones it has.
LEMMA ZoneTold ==
    ASSUME NEW t, NEW ev \in Event, NEW Z,
           Matches(zoneCheck(t, Some(Z)), domainEventToPb(DomainEvent(t, ev)))
    PROVE  ev.type = "ZONE" /\ ev.zones = Z
  <1> DEFINE e == domainEventToPb(DomainEvent(t, ev))
  <1>1. e = domainEventToPb(DomainEvent(t, ev)) /\ Matches(zoneCheck(t, Some(Z)), e)
    OBVIOUS
  <1> HIDE DEF e
  <1>2. \A Y : Matches(zoneCheck(t, Some(Y)), e) => ev.type = "ZONE" /\ t = t /\ ev.zones = Y
    BY <1>1, EventTells
  <1> QED
    BY <1>1, <1>2

\* Outside of a walk the checks of zones vouch for nothing.
LEMMA PresenceVouched ==
    ASSUME NEW sc, sc \in {"offline", "lost"}, NEW t, NEW h, NEW ev \in Event,
           ev.type = "PRESENCE" /\ ev.presence = "ACTIVE" =>
             /\ sc = "offline" => 4 \in h /\ 5 \in h /\ (1 \in h \/ 2 \in h \/ 3 \in h)
             /\ sc = "lost" => 2 \in h /\ 3 \in h
    PROVE  Vouched(sc, t, h, domainEventToPb(DomainEvent(t, ev)))
  <1> DEFINE e == domainEventToPb(DomainEvent(t, ev))
  <1>1. Told(t, "ACTIVE", e) => ev.type = "PRESENCE" /\ ev.presence = "ACTIVE"
    BY PresenceTold DEF Presences
  <1> HIDE DEF e
  <1>2. Vouched(sc, t, h, e)
    BY <1>1 DEF Vouched
  <1> QED
    BY <1>2 DEF e

\* The events of a position, and when there are some.
LEMMA PositionOnly ==
    ASSUME NEW st \in tagState, NEW Z \in SUBSET Zones,
           NEW evs, evs = deriveEvents(st, positionPkt(Z))
    PROVE  /\ evs \in Seq(Event)
           /\ \A i \in 1 .. Len(evs) :
                /\ evs[i].type = "ZONE" => evs[i].zones = Z
                /\ evs[i].type = "PRESENCE" => /\ evs[i].presence = "ACTIVE"
                                               /\ \/ WasOffline(st)
                                                  \/ LocationRestored(st, positionPkt(Z))
  <1>1. /\ evs \in Seq(Event)
        /\ \A i \in 1 .. Len(evs) :
             \/ /\ evs[i].type = "PRESENCE" /\ evs[i].presence = "ACTIVE"
                /\ WasOffline(st) \/ LocationRestored(st, positionPkt(Z))
             \/ evs[i].type = "ZONE" /\ evs[i].zones = Z
    BY PositionEvents
  <1>2. ASSUME NEW i \in 1 .. Len(evs)
        PROVE  /\ evs[i].type = "ZONE" => evs[i].zones = Z
               /\ evs[i].type = "PRESENCE" => /\ evs[i].presence = "ACTIVE"
                                              /\ \/ WasOffline(st)
                                                 \/ LocationRestored(st, positionPkt(Z))
    BY <1>1
  <1> QED
    BY <1>1, <1>2

\* The zone of a step of a walk is that of no other step.
LEMMA WalkHonest ==
    ASSUME IsInjective(ZoneOrder), NEW t, NEW p \in 1 .. Len(ZoneOrder), NEW st \in tagState,
           NEW evs, evs = deriveEvents(st, positionPkt({ZoneOrder[p]})), NEW h, p \in h,
           NEW r, NEW new
    PROVE  Honest("walk", t, p, r, new, h, evs)
  <1> DEFINE Z == {ZoneOrder[p]}
  <1>1. Z \in SUBSET Zones
    BY OrderReads
  <1>2. Sound("walk", r, new, h)
    BY DEF Sound
  <1>3. evs = deriveEvents(st, positionPkt(Z))
    OBVIOUS
  <1> HIDE DEF Z
  <1>0. st \in tagState
    OBVIOUS
  <1>4. /\ evs \in Seq(Event)
        /\ \A i \in 1 .. Len(evs) :
             /\ evs[i].type = "ZONE" => evs[i].zones = Z
             /\ evs[i].type = "PRESENCE" => /\ evs[i].presence = "ACTIVE"
                                            /\ \/ WasOffline(st)
                                               \/ LocationRestored(st, positionPkt(Z))
    BY ONLY <1>0, <1>1, <1>3, PositionOnly
  <1>5. ASSUME NEW i \in 1 .. Len(evs)
        PROVE  Vouched("walk", t, h, domainEventToPb(DomainEvent(t, evs[i])))
    <2> DEFINE e == domainEventToPb(DomainEvent(t, evs[i]))
    <2>1. ASSUME NEW j \in 1 .. Len(ZoneOrder), Matches(zoneCheck(t, Some({ZoneOrder[j]})), e)
          PROVE  j \in h
      <3>1. evs[i] \in Event
        BY <1>4
      <3>2. evs[i].type = "ZONE" /\ evs[i].zones = {ZoneOrder[j]}
        BY <2>1, <3>1, ZoneTold
      <3>3. {ZoneOrder[j]} = {ZoneOrder[p]}
        BY <1>4, <3>2 DEF Z
      <3>4. ZoneOrder[j] = ZoneOrder[p]
        BY <3>3
      <3>5. j \in DOMAIN ZoneOrder /\ p \in DOMAIN ZoneOrder
        BY OrderReads
      <3>6. j = p
        BY <3>4, <3>5 DEF IsInjective
      <3> QED
        BY <3>6
    <2> HIDE DEF e
    <2>2. Vouched("walk", t, h, e)
      BY <2>1 DEF Vouched
    <2> QED
      BY <2>2 DEF e
  <1> QED
    BY <1>2, <1>5 DEF Honest

\* A tag is back after its silence only.
LEMMA OfflineHonest ==
    ASSUME NEW t, NEW p \in {1, 2, 3, 5}, NEW st \in tagState, NEW H, Sound("offline", p, st, H),
           NEW z \in Zones, NEW evs, evs = deriveEvents(st, positionPkt({z})),
           NEW new, new = nextTagState(st, positionPkt({z})), NEW h, h = H \cup {p}
    PROVE  Honest("offline", t, p, p + 1, new, h, evs)
  <1> DEFINE Z == {z}
             msg == positionPkt({z})
  <1>1. Z \in SUBSET Zones
    OBVIOUS
  <1>2. new.online /\ new.silence = 0 /\ isLocationType(new.lastLocationType)
    BY PositionState
  <1>3. /\ hadHistory(st) => isLocationType(st.lastLocationType)
        /\ hadHistory(st) => 1 \in H \/ 2 \in H \/ 3 \in H
        /\ hadHistory(st) /\ p <= 3 => st.online
        /\ WasOffline(st) => 4 \in H
    BY DEF Sound
  <1>4. /\ evs \in Seq(Event)
        /\ \A i \in 1 .. Len(evs) : evs[i].type = "PRESENCE" /\ evs[i].presence = "ACTIVE"
             => WasOffline(st) \/ LocationRestored(st, msg)
    <2>1. evs = deriveEvents(st, positionPkt(Z))
      OBVIOUS
    <2> HIDE DEF Z
    <2>0. st \in tagState
      OBVIOUS
    <2>2. /\ evs \in Seq(Event)
          /\ \A i \in 1 .. Len(evs) :
               /\ evs[i].type = "ZONE" => evs[i].zones = Z
               /\ evs[i].type = "PRESENCE" => /\ evs[i].presence = "ACTIVE"
                                              /\ \/ WasOffline(st)
                                                 \/ LocationRestored(st, positionPkt(Z))
      BY ONLY <1>1, <2>0, <2>1, PositionOnly
    <2> QED
      BY <2>2 DEF Z
  <1>5. ~LocationRestored(st, msg)
    BY <1>3 DEF LocationRestored
  <1> HIDE DEF msg
  <1>6. WasOffline(st) => p = 5 /\ 4 \in H /\ (1 \in H \/ 2 \in H \/ 3 \in H)
    BY <1>3 DEF WasOffline
  <1>7. ASSUME NEW i \in 1 .. Len(evs)
        PROVE  Vouched("offline", t, h, domainEventToPb(DomainEvent(t, evs[i])))
    <2>1. evs[i] \in Event
      BY <1>4
    <2>2. evs[i].type = "PRESENCE" /\ evs[i].presence = "ACTIVE" =>
            4 \in h /\ 5 \in h /\ (1 \in h \/ 2 \in h \/ 3 \in h)
      BY <1>4, <1>5, <1>6
    <2> QED
      BY <2>1, <2>2, PresenceVouched
  <1>8. Sound("offline", p + 1, new, h)
    <2>1. hadHistory(new) /\ p + 1 <= 5 => 1 \in h \/ 2 \in h \/ 3 \in h
      OBVIOUS
    <2>2. ~WasOffline(new) /\ p + 1 # 5
      BY <1>2 DEF WasOffline
    <2> QED
      BY <1>2, <2>1, <2>2 DEF Sound
  <1> QED
    BY <1>7, <1>8 DEF Honest

\* A tag is lost only after it was there, and is back after it was lost.
LEMMA LostHonest ==
    ASSUME NEW t, NEW p \in {1, 3}, NEW st \in tagState, NEW H, Sound("lost", p, st, H),
           NEW z \in Zones, NEW evs, evs = deriveEvents(st, positionPkt({z})),
           NEW new, new = nextTagState(st, positionPkt({z})), NEW h, h = H \cup {p}
    PROVE  Honest("lost", t, p, p + 1, new, h, evs)
  <1> DEFINE Z == {z}
             msg == positionPkt({z})
  <1>1. Z \in SUBSET Zones
    OBVIOUS
  <1>2. new.online /\ new.silence = 0 /\ isLocationType(new.lastLocationType)
    BY PositionState
  <1>3. /\ hadHistory(st) => st.online
        /\ hadHistory(st) /\ ~isLocationType(st.lastLocationType) => 2 \in H
        /\ p = 1 => ~hadHistory(st)
    BY DEF Sound
  <1>4. /\ evs \in Seq(Event)
        /\ \A i \in 1 .. Len(evs) : evs[i].type = "PRESENCE"
             => evs[i].presence = "ACTIVE" /\ (WasOffline(st) \/ LocationRestored(st, msg))
    <2>1. evs = deriveEvents(st, positionPkt(Z))
      OBVIOUS
    <2> HIDE DEF Z
    <2>0. st \in tagState
      OBVIOUS
    <2>2. /\ evs \in Seq(Event)
          /\ \A i \in 1 .. Len(evs) :
               /\ evs[i].type = "ZONE" => evs[i].zones = Z
               /\ evs[i].type = "PRESENCE" => /\ evs[i].presence = "ACTIVE"
                                              /\ \/ WasOffline(st)
                                                 \/ LocationRestored(st, positionPkt(Z))
      BY ONLY <1>1, <2>0, <2>1, PositionOnly
    <2> QED
      BY <2>2 DEF Z
  <1>5. /\ ~WasOffline(st)
        /\ LocationRestored(st, msg) => hadHistory(st) /\ 2 \in H
    BY <1>3 DEF LocationRestored, WasOffline
  <1> HIDE DEF msg
  <1>6. ASSUME NEW i \in 1 .. Len(evs)
        PROVE  Vouched("lost", t, h, domainEventToPb(DomainEvent(t, evs[i])))
    <2>1. evs[i] \in Event
      BY <1>4
    <2>2. evs[i].type = "PRESENCE" /\ evs[i].presence = "ACTIVE" => 2 \in h /\ 3 \in h
      BY <1>3, <1>4, <1>5
    <2> QED
      BY <2>1, <2>2, PresenceVouched
  <1>7. Sound("lost", p + 1, new, h)
    <2>1. p + 1 <= 2 => p + 1 = 2 /\ 1 \in h
      OBVIOUS
    <2> QED
      BY <1>2, <2>1 DEF Sound
  <1>8. \A i \in 1 .. Len(evs) : ~(evs[i].type = "PRESENCE" /\ evs[i].presence = "INACTIVE")
    BY <1>4
  <1>9. p <= 3
    OBVIOUS
  <1> QED
    BY <1>6, <1>7, <1>8, <1>9 DEF Honest

\* A location that was not there is not lost, and the tag was not offline.
LEMMA NoLocationHonest ==
    ASSUME NEW t, NEW st \in tagState, NEW H, Sound("lost", 2, st, H),
           NEW evs, evs = deriveEvents(st, noLocationPkt),
           NEW new, new = nextTagState(st, noLocationPkt), NEW h, h = H \cup {2}
    PROVE  Honest("lost", t, 2, 3, new, h, evs)
  <1>1. /\ hadHistory(st) => st.online /\ isLocationType(st.lastLocationType) /\ 1 \in H
    BY DEF Sound
  <1>2. ~WasOffline(st) /\ (LocationLost(st, noLocationPkt) => 1 \in h)
    BY <1>1 DEF WasOffline, LocationLost
  <1>3. /\ evs \in Seq(Event)
        /\ \A i \in 1 .. Len(evs) :
             \/ evs[i].type = "PRESENCE" /\ evs[i].presence = "ACTIVE" /\ WasOffline(st)
             \/ evs[i].type = "ZONE"
             \/ /\ evs[i].type = "PRESENCE" /\ evs[i].presence = "INACTIVE"
                /\ LocationLost(st, noLocationPkt)
    BY NoLocationEvents
  <1>4. \A i \in 1 .. Len(evs) :
          /\ ~(evs[i].type = "PRESENCE" /\ evs[i].presence = "ACTIVE")
          /\ evs[i].type = "PRESENCE" /\ evs[i].presence = "INACTIVE" => 1 \in h
    BY <1>2, <1>3
  <1>5. ASSUME NEW i \in 1 .. Len(evs)
        PROVE  Vouched("lost", t, h, domainEventToPb(DomainEvent(t, evs[i])))
    <2>1. evs[i] \in Event
      BY <1>3
    <2> QED
      BY <1>4, <2>1, PresenceVouched
  <1>6. new.online /\ new.silence = 0
    BY NoLocationReads DEF nextTagState
  <1>7. Sound("lost", 3, new, h)
    BY <1>6 DEF Sound
  <1>8. 1 \notin h => \A i \in 1 .. Len(evs) : ~(evs[i].type = "PRESENCE" /\ evs[i].presence = "INACTIVE")
    BY <1>4
  <1> DEFINE p == 2
             r == 3
  <1>9. p <= 3 /\ Sound("lost", r, new, h)
    BY <1>7
  <1> HIDE DEF p, r
  <1>10. Honest("lost", t, p, r, new, h, evs)
    BY <1>5, <1>8, <1>9 DEF Honest
  <1> QED
    BY <1>10 DEF p, r

\* The watchdog reports no tag that was just heard of, and a silence is one step
\* of offline.
LEMMA SweepHonest ==
    ASSUME NEW sc \in Kinds \ {"stress"}, NEW t, NEW p \in Nat, NEW st \in tagState, NEW v \in View,
           TagInv(st, v, FALSE), NEW H, Sound(sc, p, st, H),
           NEW evs, evs = watchdogEvents(st), NEW new, new = watchdogState(st),
           NEW h, H \subseteq h, sc = "offline" /\ p = 4 /\ Overdue(st) => 4 \in h
    PROVE  Honest(sc, t, p, p, new, h, evs)
  <1>1. /\ evs \in Seq(Event) /\ (~Overdue(st) => Len(evs) = 0)
        /\ \A i \in 1 .. Len(evs) : evs[i].type = "PRESENCE" /\ evs[i].presence = "INACTIVE"
    BY SweepEvents
  <1>2. /\ new.online = (st.online /\ ~Overdue(st)) /\ new.silence = st.silence
        /\ new.lastLocationType = st.lastLocationType /\ new.locationLost = st.locationLost
    BY DEF watchdogState, tagState
  <1>3. OfflineThreshold \in Nat \ {0}
    BY DeriveAssumption
  <1>4. Overdue(st) => hadHistory(st) /\ st.silence # 0
    <2>1. Overdue(st) => st.online /\ st.silence # 0
      BY <1>3 DEF Overdue
    <2>2. st.online => hadHistory(st)
      BY DEF TagInv
    <2> QED
      BY <2>1, <2>2
  <1>5. ~Overdue(st) => new = st
    BY DEF watchdogState, tagState
  <1>6. ASSUME sc = "offline" PROVE Sound(sc, p, new, h) /\ (p <= 3 => ~Overdue(st))
    <2>1. /\ hadHistory(st) => isLocationType(st.lastLocationType)
          /\ hadHistory(st) /\ p <= 5 => 1 \in H \/ 2 \in H \/ 3 \in H
          /\ hadHistory(st) /\ p <= 3 => st.online /\ st.silence = 0
          /\ WasOffline(st) /\ p <= 5 => 4 \in H
          /\ hadHistory(st) /\ p = 5 => ~Overdue(st)
      BY <1>6 DEF Sound
    <2>2. p <= 3 => ~Overdue(st)
      BY <1>4, <2>1
    <2>3. CASE Overdue(st)
      <3>3. hadHistory(st) /\ hadHistory(new)
        BY <1>2, <1>4, <2>3 DEF hadHistory
      <3>4. p # 5 /\ ~(p <= 3)
        BY <2>1, <2>2, <2>3, <3>3
      <3>1. hadHistory(st) /\ hadHistory(new) /\ (p <= 5 => p = 4)
        BY <3>3, <3>4
      <3>2. p = 4 => 4 \in h
        BY <1>6, <2>3
      <3> QED
        BY <1>2, <1>6, <2>1, <2>2, <3>1, <3>2 DEF Sound
    <2>4. CASE ~Overdue(st)
      BY <1>5, <1>6, <2>1, <2>4 DEF Sound
    <2> QED
      BY <2>2, <2>3, <2>4
  <1>7. ASSUME sc = "lost" PROVE Sound(sc, p, new, h) /\ (p <= 3 => ~Overdue(st))
    <2>1. /\ hadHistory(st) /\ p <= 3 => st.online /\ st.silence = 0
          /\ hadHistory(st) /\ ~isLocationType(st.lastLocationType) => 2 \in H
          /\ hadHistory(st) /\ p <= 2 => p = 2 /\ isLocationType(st.lastLocationType) /\ 1 \in H
      BY <1>7 DEF Sound
    <2>2. p <= 3 => ~Overdue(st)
      BY <1>4, <2>1
    <2>3. CASE Overdue(st)
      <3>1. hadHistory(new) = hadHistory(st) /\ ~(p <= 3)
        BY <1>2, <2>2, <2>3 DEF hadHistory
      <3> QED
        BY <1>2, <1>7, <2>1, <2>2, <3>1 DEF Sound
    <2>4. CASE ~Overdue(st)
      BY <1>5, <1>7, <2>1, <2>4 DEF Sound
    <2> QED
      BY <2>2, <2>3, <2>4
  <1>8. sc = "walk" => Sound(sc, p, new, h)
    BY DEF Sound
  <1>9. sc \in {"walk", "offline", "lost"}
    BY DEF Kinds
  <1>10. ASSUME NEW i \in 1 .. Len(evs)
         PROVE  Vouched(sc, t, h, domainEventToPb(DomainEvent(t, evs[i])))
    <2>1. evs[i] \in Event /\ evs[i].type = "PRESENCE" /\ evs[i].presence = "INACTIVE"
      BY <1>1
    <2>2. CASE sc \in {"offline", "lost"}
      BY <2>1, <2>2, PresenceVouched
    <2>3. CASE sc = "walk"
      <3> DEFINE e == domainEventToPb(DomainEvent(t, evs[i]))
      <3>1. \A j \in 1 .. Len(ZoneOrder) : ~Matches(zoneCheck(t, Some({ZoneOrder[j]})), e)
        BY <2>1, ZoneTold
      <3> HIDE DEF e
      <3>2. Vouched(sc, t, h, e)
        BY <2>3, <3>1 DEF Vouched
      <3> QED
        BY <3>2 DEF e
    <2> QED
      BY <1>9, <2>2, <2>3
  <1>11. Sound(sc, p, new, h)
    BY <1>6, <1>7, <1>8, <1>9
  <1>12. sc = "lost" /\ p <= 3 => \A i \in 1 .. Len(evs) : FALSE
    BY <1>1, <1>7
  <1>13. \A i \in 1 .. Len(evs) : ~(evs[i].type = "PRESENCE" /\ evs[i].presence = "ACTIVE")
    BY <1>1
  <1> QED
    BY <1>10, <1>11, <1>12, <1>13 DEF Honest

\* Time passes only when nothing is to be sent.
LEMMA ElapseSound ==
    ASSUME NEW sc, NEW p \in Nat, NEW st \in tagState, NEW H, Sound(sc, p, st, H),
           p > 3, sc = "offline" => p # 5
    PROVE  Sound(sc, p, Elapse(st), H)
  <1> DEFINE new == Elapse(st)
  <1>1. new.online = st.online /\ new.lastLocationType = st.lastLocationType
    BY DEF Elapse, tagState
  <1> HIDE DEF new
  <1>2. hadHistory(new) = hadHistory(st) /\ WasOffline(new) = WasOffline(st)
    BY <1>1 DEF hadHistory, WasOffline
  <1>3. Sound(sc, p, new, H)
    BY <1>1, <1>2 DEF Sound
  <1> QED
    BY <1>3 DEF new

\* A datagram does not arrive, or a silence is over.
LEMMA LaterSound ==
    ASSUME NEW sc, NEW p \in Nat, NEW st, NEW H, Sound(sc, p, st, H), p >= 1,
           sc = "offline" /\ p = 4 /\ hadHistory(st) => ~Overdue(st)
    PROVE  Sound(sc, p + 1, st, H)
  <1>1. ASSUME sc = "offline" PROVE Sound(sc, p + 1, st, H)
    BY <1>1 DEF Sound
  <1>2. ASSUME sc = "lost" PROVE Sound(sc, p + 1, st, H)
    BY <1>2 DEF Sound
  <1> QED
    BY <1>1, <1>2 DEF Sound

\* With no event sent.
LEMMA ProperLater ==
    ASSUME NEW sc, NEW t, NEW p \in Nat, NEW st, NEW H, NEW c, NEW f, NEW w, NEW R, NEW k \in Nat,
           Len(w) \in Nat, Proper(sc, t, p, st, H, c, f, w, R, k),
           NEW r \in Nat, p <= r, NEW new, Sound(sc, r, new, H)
    PROVE  Proper(sc, t, r, new, H, c, f, w, R, k)
  <1>1. Len(w) + 1 .. Len(w) = {} /\ Len(w) <= Len(w) /\ H \subseteq H
    OBVIOUS
  <1> QED
    BY <1>1, ProperSend

\* The next datagram of a scenario.
LEMMA MessageHonest ==
    ASSUME IsInjective(ZoneOrder), NEW sc \in Validated, NEW t, NEW st \in tagState,
           NEW p \in 1 .. Length(sc, TRUE), StepAt(sc, p) # Silence,
           NEW H, Sound(sc, p, st, H), NEW h, h = H \cup {p},
           NEW msg, msg = StepAt(sc, p), NEW evs, evs = deriveEvents(st, msg)
    PROVE  Honest(sc, t, p, p + 1, nextTagState(st, msg), h, evs)
  <1> DEFINE new == nextTagState(st, msg)
  <1>0. new = nextTagState(st, msg) /\ p \in h
    OBVIOUS
  <1> HIDE DEF new
  <1>1. CASE sc = "walk"
    <2>1. p \in 1 .. Len(ZoneOrder) /\ msg = positionPkt({ZoneOrder[p]})
      BY <1>1 DEF Length, StepAt
    <2> DEFINE r == p + 1
    <2> HIDE DEF r
    <2>2. /\ IsInjective(ZoneOrder) /\ p \in 1 .. Len(ZoneOrder) /\ st \in tagState
          /\ evs = deriveEvents(st, positionPkt({ZoneOrder[p]})) /\ p \in h
      BY <1>0, <2>1
    <2>3. Honest("walk", t, p, r, new, h, evs)
      BY ONLY <2>2, WalkHonest
    <2> QED
      BY <1>0, <1>1, <2>3 DEF r
  <1>2. CASE sc = "offline"
    <2>0. Length(sc, TRUE) = 5
      BY <1>2 DEF Length
    <2>1. p \in 1 .. 5 /\ p # 4
      BY <1>2, <2>0 DEF StepAt
    <2> DEFINE z == ZoneOrder[1]
    <2>2. p \in {1, 2, 3, 5} /\ msg = positionPkt({z}) /\ z \in Zones
      BY <1>2, <2>1, OrderReads DEF StepAt
    <2> HIDE DEF z
    <2>3. /\ p \in {1, 2, 3, 5} /\ st \in tagState /\ Sound("offline", p, st, H) /\ z \in Zones
          /\ evs = deriveEvents(st, positionPkt({z})) /\ new = nextTagState(st, positionPkt({z}))
          /\ h = H \cup {p}
      BY <1>0, <1>2, <2>2
    <2>4. Honest("offline", t, p, p + 1, new, h, evs)
      BY ONLY <2>3, OfflineHonest
    <2> QED
      BY <1>0, <1>2, <2>4
  <1>3. CASE sc = "lost"
    <2>0. Length(sc, TRUE) = 3
      BY <1>3 DEF Length
    <2>1. p \in {1, 2, 3}
      <3>1. p \in 1 .. 3
        BY <2>0
      <3> QED
        BY ONLY <3>1
    <2> DEFINE z == ZoneOrder[1]
    <2>2. msg = (IF p = 2 THEN noLocationPkt ELSE positionPkt({z})) /\ z \in Zones
      BY <1>3, <2>1, OrderReads DEF StepAt
    <2> HIDE DEF z
    <2>3. CASE p = 2
      <3>1. /\ st \in tagState /\ Sound("lost", 2, st, H)
            /\ evs = deriveEvents(st, noLocationPkt) /\ new = nextTagState(st, noLocationPkt)
            /\ h = H \cup {2}
        BY <1>0, <1>3, <2>2, <2>3
      <3>2. Honest("lost", t, 2, 3, new, h, evs)
        BY ONLY <3>1, NoLocationHonest
      <3>3. p = 2 /\ p + 1 = 3
        BY <2>3
      <3> QED
        BY ONLY <1>0, <1>3, <3>2, <3>3
    <2>4. CASE p # 2
      <3>1. /\ p \in {1, 3} /\ st \in tagState /\ Sound("lost", p, st, H) /\ z \in Zones
            /\ evs = deriveEvents(st, positionPkt({z})) /\ new = nextTagState(st, positionPkt({z}))
            /\ h = H \cup {p}
        BY <1>0, <1>3, <2>1, <2>2, <2>4
      <3>2. Honest("lost", t, p, p + 1, new, h, evs)
        BY ONLY <3>1, LostHonest
      <3> QED
        BY <1>0, <1>3, <3>2
    <2> QED
      BY <2>3, <2>4
  <1> QED
    BY <1>1, <1>2, <1>3 DEF Validated

\* What is stored of a tag is of this tag, and there is one message of a type.
LEMMA RecordedReads ==
    ASSUME NEW t, NEW l, Records(t, l)
    PROVE  /\ \A m \in Recorded(l) : m.actor.id = t
           /\ \A m, n \in Recorded(l) : m.type = n.type => m = n
           /\ \A k \in ChangeTypes : ToClient(Live(l[k])) \subseteq ToClient(l[k])
  <1>1. ASSUME NEW k \in ChangeTypes
        PROVE  \/ ToClient(l[k]) = {}
               \/ \E ev \in Event : ev.type = k /\ ToClient(l[k]) = {domainEventToPb(DomainEvent(t, ev))}
    <2>1. CASE l[k] = Nil
      BY <2>1 DEF ToClient, Nil
    <2>2. CASE l[k] # Nil
      <3>1. PICK ev \in Event, n \in Ages : RecordIs(l, t, k, ev, n)
        BY <2>2 DEF Records
      <3> DEFINE d == marshal(DomainEvent(t, ev))
      <3>2. unmarshal(d) = DomainEvent(t, ev)
        BY RecordBack
      <3>3. l[k] = Some([data |-> d, age |-> n]) /\ ev.type = k
        BY <3>1 DEF RecordIs
      <3> HIDE DEF d
      <3>4. ToClient(l[k]) = {domainEventToPb(unmarshal(d))}
        BY <3>3 DEF ToClient, Some
      <3> QED
        BY <3>2, <3>3, <3>4
    <2> QED
      BY <2>1, <2>2
  <1>2. ASSUME NEW k \in ChangeTypes, NEW m \in ToClient(l[k])
        PROVE  /\ m.actor.id = t /\ ToClient(l[k]) = {m}
               /\ m.type = IF k = "ZONE" THEN "EVENT_TYPE_ZONE" ELSE "EVENT_TYPE_PRESENCE"
    <2>1. PICK ev \in Event : ev.type = k /\ ToClient(l[k]) = {domainEventToPb(DomainEvent(t, ev))}
      BY <1>1, <1>2
    <2>2. m = domainEventToPb(DomainEvent(t, ev))
      BY <2>1
    <2>3. /\ ev.type = "ZONE" => ShowsZones(m, t, ev.zones, ev.movement)
          /\ ev.type = "PRESENCE" => ShowsPresence(m, t, ev.presence)
      BY <2>2, ClientReads
    <2>4. k = "ZONE" \/ k = "PRESENCE"
      BY DEF ChangeTypes
    <2> QED
      BY <2>1, <2>2, <2>3, <2>4 DEF ShowsZones, ShowsPresence
  <1>3. \A m \in Recorded(l) : \E k \in ChangeTypes : m \in ToClient(l[k])
    BY DEF Recorded
  <1>4. ASSUME NEW m \in Recorded(l), NEW n \in Recorded(l), m.type = n.type PROVE m = n
    <2>1. PICK k \in ChangeTypes : m \in ToClient(l[k])
      BY <1>3
    <2>2. PICK j \in ChangeTypes : n \in ToClient(l[j])
      BY <1>3
    <2>3. k = j
      <3>1. k \in {"ZONE", "PRESENCE"} /\ j \in {"ZONE", "PRESENCE"}
        BY DEF ChangeTypes
      <3> QED
        BY <1>2, <1>4, <2>1, <2>2, <3>1
    <2>4. ToClient(l[k]) = {m} /\ ToClient(l[k]) = {n}
      BY <1>2, <2>1, <2>2, <2>3
    <2> QED
      BY <2>4
  <1>5. \A k \in ChangeTypes : ToClient(Live(l[k])) \subseteq ToClient(l[k])
    BY DEF ToClient, Live
  <1> QED
    BY <1>2, <1>3, <1>4, <1>5

\* What is stored after an event has been published.
LEMMA RecordedMore ==
    ASSUME NEW t, NEW l, DOMAIN l = ChangeTypes, NEW ev \in Event
    PROVE  \A m \in Recorded(Publish(l, t, ev)) :
             m \in Recorded(l) \/ m = domainEventToPb(DomainEvent(t, ev))
  <1> DEFINE n == Publish(l, t, ev)
             e == domainEventToPb(DomainEvent(t, ev))
  <1>1. /\ \A k \in ChangeTypes : k # ev.type => n[k] = l[k]
        /\ \A x \in n[ev.type] : x.age = 0 /\ unmarshal(x.data) = DomainEvent(t, ev)
    BY PublishReads
  <1> HIDE DEF n
  <1>2. ASSUME NEW m \in Recorded(n) PROVE m \in Recorded(l) \/ m = e
    <2>1. PICK k \in ChangeTypes : m \in ToClient(n[k])
      BY <1>2 DEF Recorded
    <2>2. CASE k # ev.type
      BY <1>1, <2>1, <2>2 DEF Recorded
    <2>3. CASE k = ev.type
      BY <1>1, <2>1, <2>3 DEF ToClient
    <2> QED
      BY <2>2, <2>3
  <1> QED
    BY <1>2 DEF n

-----------------------------------------------------------------------------
(* A validation against a core that had never heard of the tags.           *)

Testing == sim = "running" /\ Validating /\ fresh

\* The tags it is about.
Concerned == IF scenario = "walk" THEN Tags ELSE {TagOrder[1]}

\* What the checks of a walk that are behind have shown.
Shown ==
    /\ \A n \in 1 .. phase - 1 : \A i \in 1 .. Len(ZoneOrder) : i \in heard[TagOrder[n]]
    /\ \A i \in 1 .. step - 1 : i \in heard[TagOrder[phase]]

ProperFor(t) ==
    Proper(scenario, t, pos[t], states[t], heard[t], ch, feed, Outgoing(queue[t]),
           Recorded(last[t]), step)

Tested == Testing => (\A t \in Concerned : ProperFor(t)) /\ (scenario = "walk" => Shown)

\* What the invariant says of a tag it is about.
LEMMA TestedGiven ==
    ASSUME SimInv, Testing, NEW t \in Concerned
    PROVE  /\ scenario \in Validated /\ validate = TRUE /\ t \in Tags
           /\ phase \in Nat /\ phase >= 1 /\ phase <= Phases /\ Phases \in Nat /\ Phases <= Len(TagOrder)
           /\ step \in Nat /\ step >= 1 /\ step <= CheckCount(scenario) /\ CheckCount(scenario) \in Nat
           /\ pos[t] \in Nat /\ pos[t] >= 1
           /\ scenario # "walk" => phase = 1 /\ t = TagOrder[1] /\ Senders = {t}
           /\ CorePipe(t, states[t], queue[t], last[t], view[t], spoke[t])
           /\ states[t] \in tagState /\ TagInv(states[t], view[t], FALSE)
           /\ queue[t] \in Seq(OfTag(t)) /\ Len(queue[t]) \in Nat /\ Len(Outgoing(queue[t])) = Len(queue[t])
           /\ Records(t, last[t]) /\ DOMAIN last[t] = ChangeTypes
           /\ ch \in Seq(Messages) /\ feed \in Seq(Messages) /\ Len(ch) \in Nat /\ Len(feed) \in Nat
           /\ PipeInv /\ SimTypes /\ Idle
  <1>1. SimTypes /\ Idle /\ CoreInv /\ PipeInv
    BY DEF SimInv, CoreInv
  <1>2. /\ sim = "running" /\ Validating /\ validate = TRUE /\ scenario \in Kinds \ {"stress"}
        /\ Phases \in Nat /\ Phases <= Len(TagOrder)
    BY <1>1, Scenario DEF Testing, Validating, SimTypes
  <1>3. CheckCount(scenario) \in Nat
    BY <1>2, CountType
  <1>4. /\ phase \in Nat /\ phase >= 1 /\ phase <= Phases
        /\ step \in Nat /\ step >= 1 /\ step <= CheckCount(scenario)
        /\ ch \in Seq(Messages) /\ feed \in Seq(Messages) /\ Len(ch) \in Nat /\ Len(feed) \in Nat
    <2>1. phase \in 1 .. Phases /\ step \in 1 .. CheckCount(scenario)
          /\ ch \in Seq(Messages) /\ feed \in Seq(Messages)
      BY <1>1, <1>2 DEF SimTypes
    <2> QED
      BY <1>2, <1>3, <2>1
  <1>5. t \in Tags
    BY OrderReads DEF Concerned
  <1>6. pos[t] \in Nat /\ pos[t] >= 1
    BY <1>1, <1>5 DEF SimTypes
  <1>7. scenario # "walk" => phase = 1 /\ t = TagOrder[1] /\ Senders = {t}
    <2> SUFFICES ASSUME scenario # "walk" PROVE phase = 1 /\ t = TagOrder[1] /\ Senders = {t}
      OBVIOUS
    <2>1. Phases = 1 /\ t = TagOrder[1]
      BY DEF Phases, Concerned
    <2>2. phase = 1
      BY <1>4, <2>1
    <2> QED
      BY <1>2, <2>1, <2>2 DEF Senders
  <1>8. CorePipe(t, states[t], queue[t], last[t], view[t], spoke[t])
    BY <1>1, <1>5, CoreTag
  <1>9. /\ states[t] \in tagState /\ TagInv(states[t], view[t], FALSE) /\ queue[t] \in Seq(OfTag(t))
        /\ Records(t, last[t]) /\ DOMAIN last[t] = ChangeTypes
    BY <1>8 DEF CorePipe
  <1>10. Len(queue[t]) \in Nat /\ Len(Outgoing(queue[t])) = Len(queue[t])
    <2> DEFINE q == queue[t]
    <2>1. Len(q) \in Nat
      BY <1>9
    <2> HIDE DEF q
    <2>2. Len(Outgoing(q)) = Len(q)
      BY <2>1 DEF Outgoing
    <2> QED
      BY <2>1, <2>2 DEF q
  <1>11. scenario \in Validated
    BY <1>2 DEF Validated, Kinds
  <1> QED
    BY <1>1, <1>2, <1>3, <1>4, <1>5, <1>6, <1>7, <1>8, <1>9, <1>10, <1>11

\* What has to be shown of a step.
LEMMA TestedLater ==
    ASSUME Testing' =>
             /\ \A t \in Concerned' :
                  Proper(scenario', t, pos'[t], states'[t], heard'[t], ch', feed', Outgoing(queue'[t]),
                         Recorded(last'[t]), step')
             /\ scenario' = "walk" =>
                  /\ \A n \in 1 .. phase' - 1 : \A i \in 1 .. Len(ZoneOrder) : i \in heard'[TagOrder[n]]
                  /\ \A i \in 1 .. step' - 1 : i \in heard'[TagOrder[phase']]
    PROVE  Tested'
  BY DEF Tested, ProperFor, Shown

\* And of one that leaves the checks alone.
LEMMA TestedOn ==
    ASSUME SimInv, Tested, UNCHANGED <<scenario, validate, sim, phase, step, fresh>>,
           Testing => \A t \in Tags : heard[t] \subseteq heard'[t],
           Testing => \A t \in Concerned :
             Proper(scenario, t, pos'[t], states'[t], heard'[t], ch', feed', Outgoing(queue'[t]),
                    Recorded(last'[t]), step)
    PROVE  Tested'
  <1>1. /\ scenario' = scenario /\ phase' = phase /\ step' = step
        /\ Testing' = Testing /\ Concerned' = Concerned
    BY DEF Testing, Validating, Concerned
  <1>2. ASSUME Testing, scenario = "walk"
        PROVE  /\ \A n \in 1 .. phase - 1 : \A i \in 1 .. Len(ZoneOrder) : i \in heard'[TagOrder[n]]
               /\ \A i \in 1 .. step - 1 : i \in heard'[TagOrder[phase]]
    <2>1. Shown
      BY <1>2 DEF Tested
    <2>2. /\ phase \in Nat /\ phase >= 1 /\ phase <= Len(TagOrder) /\ Len(TagOrder) \in Nat
          /\ \A n \in 1 .. Len(TagOrder) : TagOrder[n] \in Tags
      <3>1. SimTypes
        BY DEF SimInv
      <3>2. Phases \in Nat /\ Phases <= Len(TagOrder) /\ phase \in 1 .. Phases
        BY <1>2, <3>1, Scenario DEF SimTypes, Testing
      <3> QED
        BY <3>2, OrderReads
    <2>3. \A n \in 1 .. phase : heard[TagOrder[n]] \subseteq heard'[TagOrder[n]]
      BY <1>2, <2>2
    <2>4. phase \in 1 .. phase /\ \A n \in 1 .. phase - 1 : n \in 1 .. phase
      BY <2>2
    <2> QED
      BY <2>1, <2>3, <2>4 DEF Shown
  <1> QED
    BY <1>1, <1>2, TestedLater

\* Nothing that matters changes.
LEMMA TestedStays ==
    ASSUME SimInv, Tested, UNCHANGED <<scenario, validate, sim, pos, phase, step, feed, ch, fresh, heard>>,
           UNCHANGED <<states, queue, last>>
    PROVE  Tested'
  <1>1. ASSUME Testing, NEW t \in Concerned
        PROVE  Proper(scenario, t, pos'[t], states'[t], heard'[t], ch', feed', Outgoing(queue'[t]),
                      Recorded(last'[t]), step)
    BY <1>1 DEF Tested, ProperFor
  <1> QED
    BY <1>1, TestedOn

\* What is heard is not forgotten.
LEMMA HearReads ==
    ASSUME NEW tags, Hear(tags), NEW t \in Tags
    PROVE  /\ heard[t] \subseteq heard'[t]
           /\ Testing /\ t \in tags => heard'[t] = heard[t] \cup {pos[t]}
           /\ t \notin tags => heard'[t] = heard[t]
  BY DEF Hear, Testing

\* A datagram that arrives.
LEMMA EmitTested ==
    ASSUME IsInjective(ZoneOrder), SimInv, Tested, NEW t \in Tags, Emit(t)
    PROVE  Tested'
  <1>1. /\ sim = "running" /\ t \in Senders /\ pos[t] <= Len(Program) /\ Program[pos[t]] # Silence
        /\ ReadDatagram(t, Program[pos[t]]) /\ Advance(t) /\ Hear({t})
        /\ UNCHANGED <<scenario, validate, sim, phase, step, fresh>> /\ feed' = feed /\ ch' = ch
    BY DEF Emit, Sending, netVars
  <1>2. SimTypes /\ PipeInv
    BY DEF SimInv, CoreInv
  <1>3. Program[pos[t]] \in Packets /\ Program[pos[t]] = StepAt(scenario, pos[t])
        /\ pos[t] \in 1 .. Length(scenario, validate) /\ Program[pos[t]] \in Datagram
    <2>1. Program[pos[t]] \in Packets /\ Program[pos[t]] = StepAt(scenario, pos[t])
          /\ pos[t] \in 1 .. Length(scenario, validate)
      BY <1>1, <1>2, SendingReads
    <2> QED
      BY <2>1, PacketCases
  <1> DEFINE msg == Program[pos[t]]
             evs == deriveEvents(states[t], msg)
  <1>4. /\ last' = last
        /\ states'[t] = nextTagState(states[t], msg)
        /\ queue'[t] = queue[t] \o Sent(t, evs)
        /\ \A u \in Tags : u # t => states'[u] = states[u] /\ queue'[u] = queue[u]
    BY <1>1, <1>2, <1>3, DatagramDoes
  <1>5. /\ \A u \in Tags : u # t => pos'[u] = pos[u]
        /\ Validating => pos'[t] = pos[t] + 1
    <2>1. pos[t] <= Length(scenario, validate)
      BY <1>2, <1>3, Scenario
    <2> QED
      BY <1>1, <1>2, <2>1, AdvanceKeeps
  <1>6. msg = StepAt(scenario, pos[t]) /\ evs = deriveEvents(states[t], msg) /\ msg # Silence
        /\ msg \in Datagram
    BY <1>1, <1>3
  <1> HIDE DEF msg, evs
  <1>7. \A u \in Tags : heard[u] \subseteq heard'[u]
    BY <1>1, HearReads
  <1>8. ASSUME Testing, NEW u \in Concerned
        PROVE  Proper(scenario, u, pos'[u], states'[u], heard'[u], ch', feed', Outgoing(queue'[u]),
                      Recorded(last'[u]), step)
    <2>1. Proper(scenario, u, pos[u], states[u], heard[u], ch, feed, Outgoing(queue[u]),
                 Recorded(last[u]), step)
      BY <1>8 DEF Tested, ProperFor
    <2>2. /\ scenario \in Validated /\ validate = TRUE /\ u \in Tags /\ step \in Nat
          /\ pos[u] \in Nat /\ pos[u] >= 1 /\ states[u] \in tagState /\ queue[u] \in Seq(OfTag(u))
      BY <1>8, TestedGiven
    <2>3. CASE u # t
      <3>1. heard'[u] = heard[u]
        <4>1. u \notin {t}
          BY <2>3
        <4> QED
          BY <1>1, <2>2, <4>1, HearReads
      <3> QED
        BY <1>1, <1>4, <1>5, <2>1, <2>2, <2>3, <3>1
    <2>4. CASE u = t
      <3> DEFINE p == pos[t]
                 st == states[t]
                 new == nextTagState(st, msg)
                 H == heard[t]
                 h == H \cup {p}
                 q == queue[t]
                 R == Recorded(last[t])
                 r == p + 1
      <3>1. heard'[t] = h /\ pos'[t] = r
        <4>1. t \in {t} /\ Validating
          BY <1>8 DEF Testing
        <4> QED
          BY <1>1, <1>5, <1>8, <4>1, HearReads
      <3>2. Proper(scenario, t, p, st, H, ch, feed, Outgoing(q), R, step)
        BY <2>1, <2>4
      <3>3. Sound(scenario, p, st, H)
        BY <3>2 DEF Proper
      <3>4. /\ IsInjective(ZoneOrder) /\ scenario \in Validated /\ st \in tagState
            /\ p \in 1 .. Length(scenario, TRUE) /\ StepAt(scenario, p) # Silence
            /\ Sound(scenario, p, st, H) /\ h = H \cup {p}
            /\ msg = StepAt(scenario, p) /\ evs = deriveEvents(st, msg)
        BY <1>3, <1>6, <2>2, <2>4, <3>3
      <3>5. /\ p \in Nat /\ q \in Seq(OfTag(t)) /\ step \in Nat /\ H \subseteq h /\ r \in Nat /\ p <= r
            /\ evs \in Seq(Event) /\ r = p + 1 /\ new = nextTagState(st, msg)
        <4>1. evs \in Seq(Event)
          <5>1. view[t] \in View
            BY <1>8, <2>4, TestedGiven DEF CorePipe
          <5> QED
            BY <1>6, <2>2, <2>4, <5>1, DeriveView
        <4> QED
          BY <2>2, <2>4, <4>1
      <3>6. /\ states'[t] = new /\ queue'[t] = q \o Sent(t, evs) /\ Recorded(last'[t]) = R
        BY <1>4
      <3> HIDE DEF p, st, new, H, h, q, R, r
      <3>7. Honest(scenario, t, p, p + 1, nextTagState(st, msg), h, evs)
        BY ONLY <3>4, MessageHonest
      <3>8. Honest(scenario, t, p, r, new, h, evs)
        BY <3>5, <3>7
      <3>9. Proper(scenario, t, r, new, h, ch, feed, Outgoing(q \o Sent(t, evs)), R, step)
        BY ONLY <3>2, <3>5, <3>8, ProperEvents
      <3> QED
        BY <1>1, <2>4, <3>1, <3>6, <3>9
    <2> QED
      BY <2>3, <2>4
  <1> QED
    BY <1>1, <1>7, <1>8, TestedOn

\* A datagram that is lost.
LEMMA EmitLostTested ==
    ASSUME SimInv, Tested, NEW t \in Tags, EmitLost(t)
    PROVE  Tested'
  <1>1. /\ pos[t] <= Len(Program) /\ Program[pos[t]] # Silence /\ Advance(t)
        /\ UNCHANGED <<scenario, validate, sim, phase, step, fresh>> /\ feed' = feed /\ ch' = ch
        /\ states' = states /\ queue' = queue /\ last' = last /\ heard' = heard
    BY DEF EmitLost, Sending, netVars, pipeVars, memVars
  <1>2. SimTypes
    BY DEF SimInv
  <1>3. ~(scenario = "offline" /\ pos[t] = 4) /\ pos[t] <= Length(scenario, validate)
    <2>1. /\ pos[t] \in 1 .. Length(scenario, validate)
          /\ Program[pos[t]] = Silence <=> scenario = "offline" /\ pos[t] = 4
      BY <1>1, <1>2, SendingReads
    <2> QED
      BY <1>1, <1>2, <2>1, Scenario
  <1>4. /\ \A u \in Tags : u # t => pos'[u] = pos[u]
        /\ Validating => pos'[t] = pos[t] + 1
    BY <1>1, <1>2, <1>3, AdvanceKeeps
  <1>5. ASSUME Testing, NEW u \in Concerned
        PROVE  Proper(scenario, u, pos'[u], states'[u], heard'[u], ch', feed', Outgoing(queue'[u]),
                      Recorded(last'[u]), step)
    <2> DEFINE p == pos[u]
               r == pos'[u]
               st == states[u]
               H == heard[u]
               w == Outgoing(queue[u])
               R == Recorded(last[u])
    <2>1. Proper(scenario, u, p, st, H, ch, feed, w, R, step)
      BY <1>5 DEF Tested, ProperFor
    <2>2. u \in Tags /\ p \in Nat /\ p >= 1 /\ Len(w) \in Nat /\ step \in Nat
      BY <1>5, TestedGiven
    <2>3. Sound(scenario, p, st, H)
      BY <2>1 DEF Proper
    <2>4. r = p \/ (r = p + 1 /\ ~(scenario = "offline" /\ p = 4))
      BY <1>3, <1>4, <1>5, <2>2 DEF Testing
    <2> HIDE DEF p, r, st, H, w, R
    <2>5. Sound(scenario, r, st, H) /\ r \in Nat /\ p <= r
      <3>1. CASE r = p
        BY <2>2, <2>3, <3>1
      <3>2. CASE r = p + 1 /\ ~(scenario = "offline" /\ p = 4)
        <4>1. Sound(scenario, p + 1, st, H)
          BY <2>2, <2>3, <3>2, LaterSound
        <4> QED
          BY <2>2, <3>2, <4>1
      <3> QED
        BY <2>4, <3>1, <3>2
    <2>6. Proper(scenario, u, r, st, H, ch, feed, w, R, step)
      BY ONLY <2>1, <2>2, <2>5, ProperLater
    <2> QED
      BY <1>1, <2>6 DEF p, r, st, H, w, R
  <1> QED
    BY <1>1, <1>5, TestedOn

\* The end of a silence.
LEMMA ResumeTested ==
    ASSUME SimInv, Tested, NEW t \in Tags, Resume(t)
    PROVE  Tested'
  <1>1. /\ pos[t] <= Len(Program) /\ Program[pos[t]] = Silence /\ Advance(t)
        /\ hadHistory(states[t]) => states[t].silence >= OfflineThreshold /\ ~Overdue(states[t])
        /\ UNCHANGED <<scenario, validate, sim, phase, step, fresh>> /\ feed' = feed /\ ch' = ch
        /\ states' = states /\ queue' = queue /\ last' = last /\ heard' = heard
    BY DEF Resume, netVars, pipeVars, memVars
  <1>2. SimTypes
    BY DEF SimInv
  <1>3. pos[t] <= Length(scenario, validate)
    <2>1. pos[t] \in 1 .. Length(scenario, validate)
      BY <1>1, <1>2, SendingReads
    <2> QED
      BY <1>2, <2>1, Scenario
  <1>4. /\ \A u \in Tags : u # t => pos'[u] = pos[u]
        /\ Validating => pos'[t] = pos[t] + 1
    BY <1>1, <1>2, <1>3, AdvanceKeeps
  <1>5. ASSUME Testing, NEW u \in Concerned
        PROVE  Proper(scenario, u, pos'[u], states'[u], heard'[u], ch', feed', Outgoing(queue'[u]),
                      Recorded(last'[u]), step)
    <2> DEFINE p == pos[u]
               r == pos'[u]
               st == states[u]
               H == heard[u]
               w == Outgoing(queue[u])
               R == Recorded(last[u])
    <2>1. Proper(scenario, u, p, st, H, ch, feed, w, R, step)
      BY <1>5 DEF Tested, ProperFor
    <2>2. u \in Tags /\ p \in Nat /\ p >= 1 /\ Len(w) \in Nat /\ step \in Nat
      BY <1>5, TestedGiven
    <2>3. Sound(scenario, p, st, H)
      BY <2>1 DEF Proper
    <2>4. r = p \/ (r = p + 1 /\ (hadHistory(st) => ~Overdue(st)))
      BY <1>1, <1>4, <1>5, <2>2 DEF Testing
    <2> HIDE DEF p, r, st, H, w, R
    <2>5. Sound(scenario, r, st, H) /\ r \in Nat /\ p <= r
      <3>1. CASE r = p
        BY <2>2, <2>3, <3>1
      <3>2. CASE r = p + 1 /\ (hadHistory(st) => ~Overdue(st))
        <4>1. Sound(scenario, p + 1, st, H)
          BY <2>2, <2>3, <3>2, LaterSound
        <4> QED
          BY <2>2, <3>2, <4>1
      <3> QED
        BY <2>4, <3>1, <3>2
    <2>6. Proper(scenario, u, r, st, H, ch, feed, w, R, step)
      BY ONLY <2>1, <2>2, <2>5, ProperLater
    <2> QED
      BY <1>1, <2>6 DEF p, r, st, H, w, R
  <1> QED
    BY <1>1, <1>5, TestedOn

\* Time.
LEMMA TimeTested ==
    ASSUME SimInv, Tested, TimePasses
    PROVE  Tested'
  <1>1. /\ \A t \in Tags : ~Sending(t)
        /\ Tick
        /\ UNCHANGED <<scenario, validate, sim, phase, step, fresh>> /\ feed' = feed /\ ch' = ch
        /\ pos' = pos /\ heard' = heard
    BY DEF TimePasses, netVars, simVars
  <1>2. SimTypes /\ PipeInv
    BY DEF SimInv, CoreInv
  <1>3. /\ \A t \in Tags : states'[t] = Elapse(states[t])
        /\ queue' = queue /\ last' = last
    BY <1>1, TickDoes
  <1>4. ASSUME Testing, NEW u \in Concerned
        PROVE  Proper(scenario, u, pos'[u], states'[u], heard'[u], ch', feed', Outgoing(queue'[u]),
                      Recorded(last'[u]), step)
    <2> DEFINE p == pos[u]
               st == states[u]
               new == Elapse(st)
               H == heard[u]
               w == Outgoing(queue[u])
               R == Recorded(last[u])
    <2>1. Proper(scenario, u, p, st, H, ch, feed, w, R, step)
      BY <1>4 DEF Tested, ProperFor
    <2>2. /\ u \in Tags /\ p \in Nat /\ p >= 1 /\ Len(w) \in Nat /\ step \in Nat /\ st \in tagState
          /\ scenario \in Validated /\ validate = TRUE
      BY <1>4, TestedGiven
    <2>3. Sound(scenario, p, st, H)
      BY <2>1 DEF Proper
    <2>4. scenario # "walk" => p > 3 /\ (scenario = "offline" => p # 5)
      <3> SUFFICES ASSUME scenario # "walk" PROVE p > 3 /\ (scenario = "offline" => p # 5)
        OBVIOUS
      <3>1. ~(p <= Len(Program) /\ Program[p] # Silence)
        <4>1. u \in Senders
          BY <1>4, TestedGiven
        <4> QED
          BY <1>1, <1>4, <2>2, <4>1 DEF Sending, Testing
      <3>2. p <= Len(Program) => scenario = "offline" /\ p = 4
        BY <1>2, <2>2, <3>1, SendingReads
      <3>3. Len(Program) = Length(scenario, TRUE)
        BY <1>2, <2>2, Scenario, ProgramIs
      <3>4. Len(Program) = IF scenario = "offline" THEN 5 ELSE 3
        BY <2>2, <3>3 DEF Length, Validated
      <3> HIDE DEF p
      <3> QED
        BY <2>2, <3>2, <3>4
    <2>5. /\ queue' = queue /\ last' = last /\ states'[u] = new
      BY <1>3, <2>2
    <2>6. new = Elapse(st)
      OBVIOUS
    <2> HIDE DEF p, st, new, H, w, R
    <2>7. Sound(scenario, p, new, H)
      <3>1. CASE scenario = "walk"
        BY <3>1 DEF Sound
      <3>2. CASE scenario # "walk"
        <4>1. /\ p \in Nat /\ st \in tagState /\ Sound(scenario, p, st, H)
              /\ p > 3 /\ (scenario = "offline" => p # 5)
          BY <2>2, <2>3, <2>4, <3>2
        <4>2. Sound(scenario, p, Elapse(st), H)
          BY ONLY <4>1, ElapseSound
        <4> QED
          BY <2>6, <4>2
      <3> QED
        BY <3>1, <3>2
    <2>8. p <= p
      BY <2>2
    <2>9. Proper(scenario, u, p, new, H, ch, feed, w, R, step)
      BY ONLY <2>1, <2>2, <2>7, <2>8, ProperLater
    <2> QED
      BY <1>1, <2>5, <2>9 DEF p, st, H, w, R
  <1> QED
    BY <1>1, <1>4, TestedOn

\* A round of the watchdog.
LEMMA SweepTested ==
    ASSUME SimInv, Tested, WatchdogSweep
    PROVE  Tested'
  <1> DEFINE tags == {t \in Tags : Overdue(states[t]) /\ pos[t] <= Len(Program) /\ Program[pos[t]] = Silence}
  <1>1. /\ Sweep /\ Hear(tags)
        /\ UNCHANGED <<scenario, validate, sim, phase, step, fresh>> /\ feed' = feed /\ ch' = ch
        /\ pos' = pos
    BY DEF WatchdogSweep, netVars
  <1>2. SimTypes /\ PipeInv
    BY DEF SimInv, CoreInv
  <1>3. /\ last' = last
        /\ \A t \in Tags : /\ states'[t] = watchdogState(states[t])
                           /\ queue'[t] = queue[t] \o Sent(t, watchdogEvents(states[t]))
    BY <1>1, <1>2, SweepDoes
  <1>4. \A t \in Tags : t \in tags <=> /\ Overdue(states[t]) /\ pos[t] <= Len(Program)
                                       /\ Program[pos[t]] = Silence
    OBVIOUS
  <1> HIDE DEF tags
  <1>5. \A u \in Tags : heard[u] \subseteq heard'[u]
    BY <1>1, HearReads
  <1>6. ASSUME Testing, NEW u \in Concerned
        PROVE  Proper(scenario, u, pos'[u], states'[u], heard'[u], ch', feed', Outgoing(queue'[u]),
                      Recorded(last'[u]), step)
    <2> DEFINE p == pos[u]
               st == states[u]
               evs == watchdogEvents(st)
               new == watchdogState(st)
               H == heard[u]
               h == heard'[u]
               v == view[u]
               q == queue[u]
               R == Recorded(last[u])
    <2>1. Proper(scenario, u, p, st, H, ch, feed, Outgoing(q), R, step)
      BY <1>6 DEF Tested, ProperFor
    <2>2. /\ u \in Tags /\ p \in Nat /\ p >= 1 /\ step \in Nat /\ st \in tagState
          /\ scenario \in Validated /\ validate = TRUE /\ q \in Seq(OfTag(u)) /\ TagInv(st, v, FALSE)
      BY <1>6, TestedGiven
    <2>3. v \in View
      BY <1>6, TestedGiven DEF CorePipe
    <2>4. Sound(scenario, p, st, H) /\ H \subseteq h
      BY <1>5, <2>1, <2>2 DEF Proper
    <2>5. scenario = "offline" /\ p = 4 /\ Overdue(st) => 4 \in h
      <3> SUFFICES ASSUME scenario = "offline", p = 4, Overdue(st) PROVE 4 \in h
        OBVIOUS
      <3>1. Len(Program) = Length(scenario, TRUE)
        BY <1>2, <2>2, Scenario, ProgramIs
      <3>2. Len(Program) = 5
        BY <3>1 DEF Length
      <3>3. Program[pos[u]] = Silence
        <4>1. SimTypes /\ u \in Tags /\ pos[u] <= Len(Program) /\ pos[u] = 4 /\ scenario = "offline"
          BY <1>2, <2>2, <3>2
        <4>2. Program[pos[u]] = Silence <=> scenario = "offline" /\ pos[u] = 4
          BY ONLY <4>1, SendingReads
        <4> QED
          BY ONLY <4>1, <4>2
      <3>4. u \in tags
        BY <1>4, <2>2, <3>2, <3>3
      <3>5. h = H \cup {p}
        BY <1>1, <1>6, <2>2, <3>4, HearReads
      <3> HIDE DEF p, h
      <3> QED
        BY <3>5
    <2>6. evs = watchdogEvents(st) /\ new = watchdogState(st)
      OBVIOUS
    <2>7. /\ last' = last /\ states'[u] = new /\ queue'[u] = q \o Sent(u, evs) /\ heard'[u] = h
      BY <1>3, <2>2
    <2> HIDE DEF p, st, evs, new, H, h, v, q, R
    <2>8. scenario \in Kinds \ {"stress"}
      BY <2>2 DEF Kinds, Validated
    <2>9. Honest(scenario, u, p, p, new, h, evs)
      BY ONLY <2>2, <2>3, <2>4, <2>5, <2>6, <2>8, SweepHonest
    <2>10. evs \in Seq(Event)
      BY <2>2, <2>3, <2>6, WatchdogKeepsTagInv
    <2>11. p <= p
      BY <2>2
    <2>12. Proper(scenario, u, p, new, h, ch, feed, Outgoing(q \o Sent(u, evs)), R, step)
      BY ONLY <2>1, <2>2, <2>4, <2>9, <2>10, <2>11, ProperEvents
    <2> QED
      BY <1>1, <2>7, <2>12 DEF p, R
  <1> QED
    BY <1>1, <1>5, <1>6, TestedOn

\* The messages of a channel without its first event.
LEMMA OutgoingTail ==
    ASSUME NEW S, NEW q \in Seq(S), q # <<>>
    PROVE  /\ Len(Outgoing(q)) \in Nat /\ Len(Outgoing(q)) >= 1
           /\ Outgoing(q)[1] = domainEventToPb(q[1])
           /\ Len(Outgoing(Tail(q))) = Len(Outgoing(q)) - 1
           /\ \A i \in 1 .. Len(Outgoing(Tail(q))) : Outgoing(Tail(q))[i] = Outgoing(q)[i + 1]
  <1> DEFINE r == Tail(q)
             x == Outgoing(r)
             w == Outgoing(q)
  <1>1. /\ Len(q) \in Nat /\ Len(q) >= 1 /\ r \in Seq(S) /\ Len(r) = Len(q) - 1
        /\ \A i \in 1 .. Len(r) : r[i] = q[i + 1]
    OBVIOUS
  <1> HIDE DEF r
  <1>2. /\ Len(x) = Len(r) /\ \A i \in 1 .. Len(r) : x[i] = domainEventToPb(r[i])
        /\ Len(w) = Len(q) /\ \A i \in 1 .. Len(q) : w[i] = domainEventToPb(q[i])
    BY <1>1 DEF Outgoing
  <1> HIDE DEF x, w
  <1>3. /\ Len(w) \in Nat /\ Len(w) >= 1 /\ 1 \in 1 .. Len(q) /\ Len(x) = Len(w) - 1
        /\ \A i \in 1 .. Len(x) : i + 1 \in 1 .. Len(q)
    BY <1>1, <1>2
  <1>4. w[1] = domainEventToPb(q[1]) /\ \A i \in 1 .. Len(x) : x[i] = w[i + 1]
    BY <1>1, <1>2, <1>3
  <1> QED
    BY <1>3, <1>4 DEF x, w, r

\* A Write of a tag, and what the consumer pushes.
LEMMA ProperWrite ==
    ASSUME NEW sc, NEW t, NEW p, NEW st, NEW H, NEW c, NEW S, NEW f, f \in Seq(S), NEW k \in Nat,
           NEW q, q \in Seq(OfTag(t)), q # <<>>, NEW ev, ev \in Event, q[1] = DomainEvent(t, ev),
           NEW l, DOMAIN l = ChangeTypes, NEW e, e \in S, e = domainEventToPb(DomainEvent(t, ev)),
           Proper(sc, t, p, st, H, c, f, Outgoing(q), Recorded(l), k),
           NEW g, g = f \/ g = Append(f, e), NEW n, n = l \/ n = Publish(l, t, ev)
    PROVE  Proper(sc, t, p, st, H, c, g, Outgoing(Tail(q)), Recorded(n), k)
  <1> DEFINE w == Outgoing(q)
             x == Outgoing(Tail(q))
             R == Recorded(l)
             Q == Recorded(n)
  <1>1. /\ Len(w) \in Nat /\ Len(w) >= 1 /\ w[1] = e
        /\ Len(x) = Len(w) - 1 /\ \A i \in 1 .. Len(x) : x[i] = w[i + 1]
    BY OutgoingTail
  <1>2. \A m \in Q : m \in R \/ m = w[1]
    <2>1. DOMAIN l = ChangeTypes /\ ev \in Event
      OBVIOUS
    <2>2. \A m \in Recorded(Publish(l, t, ev)) : m \in R \/ m = domainEventToPb(DomainEvent(t, ev))
      BY ONLY <2>1, RecordedMore
    <2> QED
      BY <1>1, <2>2
  <1>3. /\ Len(f) \in Nat
        /\ Len(Append(f, e)) = Len(f) + 1 /\ Append(f, e)[Len(f) + 1] = e
        /\ \A i \in 1 .. Len(f) : Append(f, e)[i] = f[i]
    OBVIOUS
  <1> HIDE DEF w, x, R, Q
  <1>4. /\ Len(f) \in Nat
        /\ \/ Len(g) = Len(f)
           \/ Len(g) = Len(f) + 1 /\ g[Len(f) + 1] = w[1]
        /\ \A i \in 1 .. Len(f) : g[i] = f[i]
    BY <1>1, <1>3
  <1>5. Proper(sc, t, p, st, H, c, f, w, R, k) /\ k \in Nat
    BY DEF w, R
  <1>6. Proper(sc, t, p, st, H, c, g, x, Q, k)
    BY ONLY <1>1, <1>2, <1>4, <1>5, ProperPublish
  <1> QED
    BY <1>6 DEF x, Q

\* A Write.
LEMMA WriteTested ==
    ASSUME SimInv, Tested, NEW t \in Tags, CoreWrites(t)
    PROVE  Tested'
  <1>1. /\ Write(t)
        /\ feed' = IF joined /\ Published(t)
                     THEN Append(feed, domainEventToPb(unmarshal(marshal(Head(queue[t])))))
                     ELSE feed
        /\ UNCHANGED <<scenario, validate, sim, phase, step, fresh>> /\ ch' = ch
        /\ pos' = pos /\ heard' = heard
    BY DEF CoreWrites, netVars
  <1>2. SimTypes /\ CoreInv /\ PipeInv
    BY DEF SimInv, CoreInv
  <1>3. PICK ev \in Event :
             /\ queue[t] # <<>> /\ queue[t][1] = DomainEvent(t, ev) /\ Head(queue[t]) = DomainEvent(t, ev)
             /\ queue'[t] = Tail(queue[t]) /\ states' = states
             /\ \A u \in Tags : u # t => queue'[u] = queue[u] /\ last'[u] = last[u]
             /\ \/ Published(t) /\ last'[t] = Publish(last[t], t, ev)
                \/ /\ ~Published(t) /\ last'[t] = last[t] /\ last[t][ev.type] # {}
                   /\ \A x \in last[t][ev.type] : Repeats(queue[t][1], unmarshal(x.data))
    BY <1>1, <1>2, WriteDoes
  <1> DEFINE e == domainEventToPb(DomainEvent(t, ev))
  <1>4. feed' \in {feed, Append(feed, e)}
    <2>1. unmarshal(marshal(Head(queue[t]))) = DomainEvent(t, ev)
      BY <1>3, RecordBack
    <2> QED
      BY <1>1, <2>1
  <1>5. e \in Messages /\ e.actor.id = t
    <2>1. e \in Messages
      BY DEF Messages
    <2>2. e = domainEventToPb(DomainEvent(t, ev)) /\ ev \in Event
      OBVIOUS
    <2> HIDE DEF e
    <2>3. e.actor.id = t
      BY ONLY <2>2, EventTells
    <2> QED
      BY <2>1, <2>3
  <1>6. e = domainEventToPb(DomainEvent(t, ev))
    OBVIOUS
  <1> HIDE DEF e
  <1>7. ASSUME Testing, NEW u \in Concerned
        PROVE  Proper(scenario, u, pos'[u], states'[u], heard'[u], ch', feed', Outgoing(queue'[u]),
                      Recorded(last'[u]), step)
    <2>1. Proper(scenario, u, pos[u], states[u], heard[u], ch, feed, Outgoing(queue[u]),
                 Recorded(last[u]), step)
      BY <1>7 DEF Tested, ProperFor
    <2>2. /\ u \in Tags /\ step \in Nat /\ queue[u] \in Seq(OfTag(u)) /\ DOMAIN last[u] = ChangeTypes
          /\ feed \in Seq(Messages) /\ Len(feed) \in Nat
      BY <1>7, TestedGiven
    <2> DEFINE p == pos[u]
               st == states[u]
               H == heard[u]
               q == queue[u]
               l == last[u]
               g == feed'
    <2>3. CASE u = t
      <3> DEFINE n == last'[u]
      <3>1. /\ feed \in Seq(Messages) /\ step \in Nat /\ q \in Seq(OfTag(t)) /\ q # <<>>
            /\ ev \in Event /\ q[1] = DomainEvent(t, ev) /\ DOMAIN l = ChangeTypes
            /\ e \in Messages /\ e = domainEventToPb(DomainEvent(t, ev))
            /\ Proper(scenario, t, p, st, H, ch, feed, Outgoing(q), Recorded(l), step)
            /\ g = feed \/ g = Append(feed, e)
            /\ n = l \/ n = Publish(l, t, ev)
        BY <1>3, <1>4, <1>5, <1>6, <2>1, <2>2, <2>3
      <3>2. queue'[u] = Tail(q)
        BY <1>3, <2>3
      <3> HIDE DEF p, st, H, q, l, g, n
      <3>3. Proper(scenario, t, p, st, H, ch, g, Outgoing(Tail(q)), Recorded(n), step)
        BY ONLY <3>1, ProperWrite
      <3> QED
        BY <1>1, <1>3, <2>3, <3>2, <3>3 DEF p, st, H, g, n
    <2>4. CASE u # t
      <3> DEFINE w == Outgoing(q)
                 R == Recorded(l)
      <3>1. queue'[u] = queue[u] /\ last'[u] = last[u] /\ states' = states
        BY <1>3, <2>2, <2>4
      <3>2. Proper(scenario, u, p, st, H, ch, feed, w, R, step) /\ step \in Nat
        BY <2>1, <2>2
      <3>3. g = feed \/ (Len(g) = Len(feed) + 1 /\ g[Len(feed) + 1] = e
                         /\ \A i \in 1 .. Len(feed) : g[i] = feed[i])
        <4>1. /\ Len(Append(feed, e)) = Len(feed) + 1 /\ Append(feed, e)[Len(feed) + 1] = e
              /\ \A i \in 1 .. Len(feed) : Append(feed, e)[i] = feed[i]
          BY <1>5, <2>2
        <4> QED
          BY <1>4, <4>1
      <3> HIDE DEF p, st, H, w, R, g
      <3>4. Proper(scenario, u, p, st, H, ch, g, w, R, step)
        <4>1. CASE g = feed
          BY <3>2, <4>1
        <4>2. CASE g # feed
          <5>1. /\ Len(g) = Len(feed) + 1 /\ (\A i \in 1 .. Len(feed) : g[i] = feed[i])
                /\ g[Len(feed) + 1].actor.id # u
            BY <1>5, <2>4, <3>3, <4>2
          <5> QED
            BY ONLY <2>2, <3>2, <5>1, ProperOther
        <4> QED
          BY <4>1, <4>2
      <3> QED
        BY <1>1, <3>1, <3>4 DEF p, st, H, w, R, g
    <2> QED
      BY <2>3, <2>4
  <1> QED
    BY <1>1, <1>7, TestedOn

\* The simulator receives an event, or drops it.
LEMMA ReceiveTested ==
    ASSUME SimInv, Tested, NEW i \in DOMAIN feed, Receive(i)
    PROVE  Tested'
  <1>1. /\ \A j \in 1 .. i - 1 : feed[j].type # feed[i].type
        /\ feed' = RemoveAt(feed, i)
        /\ ch' = IF Len(ch) < Buffer THEN Append(ch, feed[i]) ELSE ch
        /\ UNCHANGED <<scenario, validate, sim, phase, step, fresh>>
        /\ pos' = pos /\ heard' = heard
        /\ states' = states /\ queue' = queue /\ last' = last
    BY DEF Receive, netVars, pipeVars, memVars
  <1>2. ASSUME Testing, NEW u \in Concerned
        PROVE  Proper(scenario, u, pos'[u], states'[u], heard'[u], ch', feed', Outgoing(queue'[u]),
                      Recorded(last'[u]), step)
    <2> DEFINE p == pos[u]
               st == states[u]
               H == heard[u]
               w == Outgoing(queue[u])
               R == Recorded(last[u])
               f == feed
               c == ch
               g == feed'
               b == ch'
               m == feed[i]
    <2>1. Proper(scenario, u, p, st, H, c, f, w, R, step)
      BY <1>2 DEF Tested, ProperFor
    <2>2. /\ step \in Nat /\ c \in Seq(Messages) /\ f \in Seq(Messages)
          /\ Len(c) \in Nat /\ Len(f) \in Nat
      BY <1>2, TestedGiven
    <2>3. i \in 1 .. Len(f) /\ m = f[i] /\ m \in Messages
      BY <2>2
    <2>4. /\ Len(g) = Len(f) - 1
          /\ \A j \in 1 .. i - 1 : g[j] = f[j]
          /\ \A j \in i .. Len(f) - 1 : g[j] = f[j + 1]
      BY <1>1, <2>2, <2>3, RemoveAtReads
    <2>5. b = c \/ b = Append(c, m)
      BY <1>1
    <2>6. \A j \in 1 .. i - 1 : f[j].type # f[i].type
      BY <1>1
    <2> HIDE DEF p, st, H, w, R, f, c, g, b, m
    <2>7. /\ \A j \in 1 .. Len(c) : b[j] = c[j]
          /\ \/ Len(b) = Len(c)
             \/ Len(b) = Len(c) + 1 /\ b[Len(c) + 1] = f[i]
      <3>1. /\ Len(Append(c, m)) = Len(c) + 1 /\ Append(c, m)[Len(c) + 1] = m
            /\ \A j \in 1 .. Len(c) : Append(c, m)[j] = c[j]
        BY <2>2, <2>3
      <3> QED
        BY <2>3, <2>5, <3>1
    <2>8. step \in Nat /\ Len(c) \in Nat /\ Len(f) \in Nat /\ i \in 1 .. Len(f)
      BY <2>2, <2>3
    <2>9. Received(c, f, i, b, g)
      BY ONLY <2>4, <2>6, <2>7, <2>8 DEF Received
    <2>10. Proper(scenario, u, p, st, H, b, g, w, R, step)
      BY ONLY <2>1, <2>8, <2>9, ProperReceive
    <2> QED
      BY <1>1, <2>10 DEF p, st, H, w, R, b, g
  <1> QED
    BY <1>1, <1>2, TestedOn

\* A check of a walk that is satisfied shows its step.
LEMMA WalkShown ==
    ASSUME SimInv, Tested, Testing, scenario = "walk", ch # <<>>,
           Matches(Checks(TagOrder[phase])[step], Head(ch))
    PROVE  /\ \A i \in 1 .. step : i \in heard[TagOrder[phase]]
           /\ \A n \in 1 .. phase - 1 : \A i \in 1 .. Len(ZoneOrder) : i \in heard[TagOrder[n]]
           /\ CheckCount(scenario) = Len(ZoneOrder)
  <1> DEFINE t == TagOrder[phase]
             m == Head(ch)
  <1>1. t \in Tags /\ t \in Concerned
    <2>1. SimTypes
      BY DEF SimInv
    <2>2. phase \in 1 .. Phases /\ Phases \in Nat /\ Phases <= Len(TagOrder)
      BY <2>1, Scenario DEF SimTypes, Testing
    <2>3. phase \in 1 .. Len(TagOrder)
      BY <2>2, OrderReads
    <2>4. t \in Tags
      BY <2>3, OrderReads
    <2> QED
      BY <2>4 DEF Concerned
  <1>2. /\ step \in Nat /\ step >= 1 /\ step <= CheckCount(scenario) /\ scenario \in Validated
        /\ ch \in Seq(Messages)
    BY <1>1, TestedGiven
  <1>3. CheckCount(scenario) = Len(ZoneOrder)
    BY DEF CheckCount
  <1>4. Checks(t)[step] = zoneCheck(t, Some({ZoneOrder[step]}))
    <2>1. scenario \in Kinds /\ scenario # "stress"
      BY DEF Kinds
    <2>2. step \in 1 .. CheckCount(scenario)
      BY <1>2, <1>3, OrderReads
    <2>3. Checks(t)[step] = CheckAt(scenario, t, step)
      BY <2>1, <2>2, ChecksAre
    <2> QED
      BY <2>3 DEF CheckAt
  <1>5. Vouched(scenario, t, heard[t], m)
    <2>1. ProperFor(t)
      BY <1>1 DEF Tested
    <2>2. m = ch[1] /\ 1 \in 1 .. Len(ch)
      BY <1>2
    <2> QED
      BY <2>1, <2>2 DEF ProperFor, Proper
  <1>6. step \in 1 .. Len(ZoneOrder)
    BY <1>2, <1>3, OrderReads
  <1>7. Matches(zoneCheck(t, Some({ZoneOrder[step]})), m)
    BY <1>4
  <1>8. Shown
    BY DEF Tested
  <1> HIDE DEF t, m
  <1>9. step \in heard[t]
    BY <1>5, <1>6, <1>7 DEF Vouched
  <1>10. \A i \in 1 .. step : i \in 1 .. step - 1 \/ i = step
    BY <1>2
  <1> QED
    BY <1>3, <1>8, <1>9, <1>10 DEF Shown, t

\* waitForCheck takes a message, and the validation goes on.
LEMMA CheckTested ==
    ASSUME SimInv, Tested, waitForCheck
    PROVE  Tested'
  <1> DEFINE matched == Matches(Checks(TagOrder[phase])[step], Head(ch))
  <1>1. /\ Checking /\ ch # <<>>
        /\ IF matched /\ LastCheck
             THEN End("passed")
             ELSE /\ ch' = Tail(ch) /\ UNCHANGED <<sim, pos, joined, feed>>
                  /\ IF matched THEN NextCheck ELSE UNCHANGED <<phase, step>>
        /\ scenario' = scenario /\ validate' = validate /\ fresh' = fresh /\ heard' = heard
        /\ states' = states /\ queue' = queue /\ last' = last
    BY DEF waitForCheck, netVars, pipeVars, memVars
  <1>2. CASE matched /\ LastCheck
    BY <1>1, <1>2 DEF End, Tested, Testing
  <1>3. CASE ~(matched /\ LastCheck)
    <2>1. ch' = Tail(ch) /\ sim' = sim /\ pos' = pos /\ feed' = feed
          /\ (matched => NextCheck) /\ (~matched => phase' = phase /\ step' = step)
      BY <1>1, <1>3
    <2>2. Validating /\ sim = "running" /\ SimTypes
      BY <1>1 DEF Checking, SimInv
    <2>3. /\ Phases \in Nat /\ phase \in 1 .. Phases /\ step \in 1 .. CheckCount(scenario)
          /\ scenario \in Kinds \ {"stress"}
      BY <2>2, Scenario DEF SimTypes
    <2>4. /\ Len(Checks(TagOrder[phase])) = CheckCount(scenario)
          /\ Checks(TagOrder[phase])[step] = CheckAt(scenario, TagOrder[phase], step)
      BY <2>3, ChecksAre
    <2>5. CheckCount(scenario) \in Nat
      BY <2>3, CountType
    <2>6. /\ ~matched => phase' = phase /\ step' = step
          /\ matched /\ step < CheckCount(scenario) => phase' = phase /\ step' = step + 1
          /\ matched /\ ~(step < CheckCount(scenario)) =>
               phase' = phase + 1 /\ step' = 1 /\ step = CheckCount(scenario) /\ phase # Phases
      <3> HIDE DEF matched
      <3> QED
        BY <1>3, <2>1, <2>3, <2>4, <2>5 DEF NextCheck, LastCheck
    <2>7. Testing' = Testing /\ Concerned' = Concerned
      BY <1>1, <2>1 DEF Testing, Validating, Concerned
    <2>8. ASSUME Testing, NEW u \in Concerned
          PROVE  Proper(scenario, u, pos[u], states[u], heard[u], ch', feed, Outgoing(queue[u]),
                        Recorded(last[u]), step')
      <3> DEFINE p == pos[u]
                 st == states[u]
                 H == heard[u]
                 w == Outgoing(queue[u])
                 R == Recorded(last[u])
                 c == ch
                 b == ch'
                 k == step
                 n == step'
      <3>1. Proper(scenario, u, p, st, H, c, feed, w, R, k)
        BY <2>8 DEF Tested, ProperFor
      <3>2. /\ k \in Nat /\ c \in Seq(Messages) /\ Len(c) \in Nat
            /\ scenario # "walk" => phase = 1 /\ u = TagOrder[1]
        BY <2>8, TestedGiven
      <3>3. /\ Len(c) >= 1 /\ Len(b) = Len(c) - 1 /\ Head(c) = c[1]
            /\ \A i \in 1 .. Len(b) : b[i] = c[i + 1]
        BY <1>1, <2>1, <3>2
      <3>4. n \in Nat
        BY <2>6, <3>2
      <3>5. scenario = "lost" => \/ n = k
                                 \/ n = k + 1 /\ k < 4 /\ (k = 2 => Told(u, "INACTIVE", c[1]))
                                                       /\ (k = 3 => Told(u, "ACTIVE", c[1]))
        <4> SUFFICES ASSUME scenario = "lost", n # k
                     PROVE  n = k + 1 /\ k < 4 /\ (k = 2 => Told(u, "INACTIVE", c[1]))
                                               /\ (k = 3 => Told(u, "ACTIVE", c[1]))
          OBVIOUS
        <4>1. Phases = 1 /\ phase = 1 /\ u = TagOrder[phase] /\ CheckCount(scenario) = 4
          BY <3>2 DEF Phases, CheckCount
        <4>2. matched /\ n = k + 1 /\ k < 4
          <5> HIDE DEF matched
          <5> QED
            BY <2>6, <4>1
        <4>3. Matches(CheckAt("lost", u, k), c[1])
          BY <2>4, <3>3, <4>1, <4>2
        <4> HIDE DEF k, c, n, matched
        <4>4. k = 2 => CheckAt("lost", u, k) = presenceCheck(u, "INACTIVE")
          BY DEF CheckAt
        <4>5. k = 3 => CheckAt("lost", u, k) = presenceCheck(u, "ACTIVE")
          BY DEF CheckAt
        <4> QED
          BY <4>2, <4>3, <4>4, <4>5 DEF Told
      <3>6. k \in Nat /\ Len(c) \in Nat
        BY <3>2
      <3> HIDE DEF p, st, H, w, R, c, b, k, n, matched
      <3>7. Proper(scenario, u, p, st, H, b, feed, w, R, n)
        BY ONLY <3>1, <3>3, <3>4, <3>5, <3>6, ProperTake
      <3> QED
        BY <3>7 DEF p, st, H, w, R, b, n
    <2>9. ASSUME Testing, scenario = "walk"
          PROVE  /\ \A n \in 1 .. phase' - 1 : \A i \in 1 .. Len(ZoneOrder) : i \in heard[TagOrder[n]]
                 /\ \A i \in 1 .. step' - 1 : i \in heard[TagOrder[phase']]
      <3>1. matched => /\ \A i \in 1 .. step : i \in heard[TagOrder[phase]]
                       /\ \A n \in 1 .. phase - 1 : \A i \in 1 .. Len(ZoneOrder) : i \in heard[TagOrder[n]]
                       /\ CheckCount(scenario) = Len(ZoneOrder)
        BY <1>1, <2>9, WalkShown
      <3>2. Shown
        BY <2>9 DEF Tested
      <3>3. phase \in Nat /\ step \in Nat
        BY <2>3, <2>5
      <3> HIDE DEF matched
      <3>4. CASE ~matched
        BY <2>6, <3>2, <3>4 DEF Shown
      <3>5. CASE matched /\ step < CheckCount(scenario)
        <4>1. phase' = phase /\ step' - 1 = step
          BY <2>6, <3>3, <3>5
        <4> QED
          BY <3>1, <3>5, <4>1
      <3>6. CASE matched /\ ~(step < CheckCount(scenario))
        <4>1. phase' - 1 = phase /\ 1 .. step' - 1 = {} /\ step = Len(ZoneOrder)
          BY <2>6, <3>1, <3>3, <3>6
        <4>2. \A n \in 1 .. phase : n \in 1 .. phase - 1 \/ n = phase
          BY <3>3
        <4> QED
          BY <3>1, <3>6, <4>1, <4>2
      <3> QED
        BY <3>4, <3>5, <3>6
    <2>10. Testing' =>
             /\ \A t \in Concerned' :
                  Proper(scenario', t, pos'[t], states'[t], heard'[t], ch', feed', Outgoing(queue'[t]),
                         Recorded(last'[t]), step')
             /\ scenario' = "walk" =>
                  /\ \A n \in 1 .. phase' - 1 : \A i \in 1 .. Len(ZoneOrder) : i \in heard'[TagOrder[n]]
                  /\ \A i \in 1 .. step' - 1 : i \in heard'[TagOrder[phase']]
      <3> HIDE DEF matched
      <3> QED
        BY <1>1, <2>1, <2>7, <2>8, <2>9
    <2> QED
      BY ONLY <2>10, TestedLater
  <1> QED
    BY <1>2, <1>3

\* The subscription begins.
LEMMA JoinTested ==
    ASSUME SimInv, Tested, Join
    PROVE  Tested'
  <1>1. /\ sim = "running" /\ Validating /\ ~joined
        /\ feed' \in {SnapshotSeq("ZONE") \o SnapshotSeq("PRESENCE"),
                      SnapshotSeq("PRESENCE") \o SnapshotSeq("ZONE")}
        /\ UNCHANGED <<scenario, validate, sim, phase, step, fresh>>
        /\ pos' = pos /\ heard' = heard /\ ch' = ch
        /\ states' = states /\ queue' = queue /\ last' = last
    BY DEF Join, netVars, pipeVars, memVars
  <1>2. SimTypes /\ Idle /\ PipeInv
    BY DEF SimInv, CoreInv
  <1>3. step = 1 /\ ch = <<>>
    BY <1>1, <1>2 DEF Idle
  <1> DEFINE a == SnapshotSeq("ZONE")
             d == SnapshotSeq("PRESENCE")
             Stored(m) == \E t \in Tags : \E k \in ChangeTypes : m \in SnapshotOf(t, k)
  <1>4. /\ a \in Seq(Messages) /\ d \in Seq(Messages)
        /\ \A i \in 1 .. Len(a) : Stored(a[i])
        /\ \A i \in 1 .. Len(d) : Stored(d[i])
    <2>1. "ZONE" \in ChangeTypes /\ "PRESENCE" \in ChangeTypes
      BY DEF ChangeTypes
    <2>2. /\ a \in Seq(Messages) /\ \A i \in 1 .. Len(a) : \E t \in Tags : a[i] \in SnapshotOf(t, "ZONE")
      BY <1>2, <2>1, SnapshotSeqReads
    <2>3. /\ d \in Seq(Messages) /\ \A i \in 1 .. Len(d) : \E t \in Tags : d[i] \in SnapshotOf(t, "PRESENCE")
      BY <1>2, <2>1, SnapshotSeqReads
    <2> HIDE DEF a, d
    <2> QED
      BY <2>1, <2>2, <2>3
  <1>5. feed' \in {a \o d, d \o a}
    BY <1>1
  <1> HIDE DEF a, d, Stored
  <1> DEFINE r == a \o d
             s == d \o a
  <1>6. /\ r \in Seq(Messages) /\ Len(r) = Len(a) + Len(d) /\ Len(a) \in Nat /\ Len(d) \in Nat
        /\ \A i \in 1 .. Len(a) : r[i] = a[i]
        /\ \A i \in 1 .. Len(d) : r[Len(a) + i] = d[i]
    BY ONLY <1>4, ConcatReads
  <1>7. /\ s \in Seq(Messages) /\ Len(s) = Len(d) + Len(a)
        /\ \A i \in 1 .. Len(d) : s[i] = d[i]
        /\ \A i \in 1 .. Len(a) : s[Len(d) + i] = a[i]
    BY ONLY <1>4, ConcatReads
  <1>8. feed' = r \/ feed' = s
    BY <1>5
  <1> HIDE DEF r, s
  <1>9. ASSUME NEW i \in 1 .. Len(r) PROVE Stored(r[i])
    <2>1. CASE i \in 1 .. Len(a)
      BY <1>4, <1>6, <2>1
    <2>2. CASE i \notin 1 .. Len(a)
      <3>1. i - Len(a) \in 1 .. Len(d) /\ Len(a) + (i - Len(a)) = i
        BY <1>6, <2>2
      <3> QED
        BY <1>4, <1>6, <3>1
    <2> QED
      BY <2>1, <2>2
  <1>10. ASSUME NEW i \in 1 .. Len(s) PROVE Stored(s[i])
    <2>1. CASE i \in 1 .. Len(d)
      BY <1>4, <1>7, <2>1
    <2>2. CASE i \notin 1 .. Len(d)
      <3>1. i - Len(d) \in 1 .. Len(a) /\ Len(d) + (i - Len(d)) = i
        BY <1>6, <1>7, <2>2
      <3> QED
        BY <1>4, <1>7, <3>1
    <2> QED
      BY <2>1, <2>2
  <1>11. \A i \in 1 .. Len(feed') : Stored(feed'[i])
    BY <1>8, <1>9, <1>10
  <1>12. ASSUME NEW t \in Tags, NEW k \in ChangeTypes, NEW m \in SnapshotOf(t, k)
         PROVE  m \in Recorded(last[t]) /\ m.actor.id = t
    <2>1. Records(t, last[t])
      BY <1>2, TagOf
    <2> DEFINE l == last[t]
    <2>2. m \in ToClient(Live(l[k]))
      BY <1>12 DEF SnapshotOf
    <2> HIDE DEF l
    <2>3. Records(t, l)
      BY <2>1 DEF l
    <2>4. /\ \A x \in Recorded(l) : x.actor.id = t
          /\ ToClient(Live(l[k])) \subseteq ToClient(l[k])
      BY <2>3, RecordedReads
    <2>5. m \in Recorded(l)
      BY <2>2, <2>4 DEF Recorded
    <2> QED
      BY <2>4, <2>5 DEF l
  <1>13. ASSUME Testing, NEW u \in Concerned
         PROVE  Proper(scenario, u, pos'[u], states'[u], heard'[u], ch', feed', Outgoing(queue'[u]),
                       Recorded(last'[u]), step)
    <2> DEFINE p == pos[u]
               st == states[u]
               H == heard[u]
               w == Outgoing(queue[u])
               R == Recorded(last[u])
               f == feed
               g == feed'
               k == step
    <2>1. Proper(scenario, u, p, st, H, ch, f, w, R, k)
      BY <1>13 DEF Tested, ProperFor
    <2>2. u \in Tags /\ k \in Nat /\ Records(u, last[u])
      BY <1>13, TestedGiven
    <2>3. k < 3 /\ Len(ch) = 0
      BY <1>3
    <2>4. \A m, n \in R : m.type = n.type => m = n
      BY <2>2, RecordedReads
    <2>5. \A i \in 1 .. Len(g) : g[i] \in R \/ g[i].actor.id # u
      <3> SUFFICES ASSUME NEW i \in 1 .. Len(feed') PROVE feed'[i] \in R \/ feed'[i].actor.id # u
        OBVIOUS
      <3>1. PICK t \in Tags, j \in ChangeTypes : feed'[i] \in SnapshotOf(t, j)
        BY <1>11 DEF Stored
      <3>2. feed'[i] \in Recorded(last[t]) /\ feed'[i].actor.id = t
        BY <1>12, <3>1
      <3> QED
        BY <3>2
    <2> HIDE DEF p, st, H, w, R, f, g, k
    <2>6. Proper(scenario, u, p, st, H, ch, g, w, R, k)
      BY ONLY <2>1, <2>2, <2>3, <2>4, <2>5, ProperJoin
    <2> QED
      BY <1>1, <2>6 DEF p, st, H, w, R, g, k
  <1> QED
    BY <1>1, <1>13, TestedOn

\* A simulator starts.
LEMMA StartTested ==
    ASSUME SimInv, NEW sc \in Scenarios, NEW v \in BOOLEAN, Start(sc, v)
    PROVE  Tested'
  <1>1. /\ sim # "running" /\ scenario' = sc
        /\ fresh' = (states = Fresh.state /\ last = [t \in Tags |-> [k \in ChangeTypes |-> Nil]])
        /\ heard' = [t \in Tags |-> {}]
        /\ pos' = pos /\ phase' = phase /\ step' = step /\ feed' = feed /\ ch' = ch
        /\ states' = states /\ queue' = queue /\ last' = last
    BY DEF Start, runVars, pipeVars, memVars
  <1>2. /\ \A t \in Tags : pos[t] = 1
        /\ phase = 1 /\ step = 1 /\ feed = <<>> /\ ch = <<>>
    BY <1>1 DEF SimInv, Idle
  <1>7. ~hadHistory(ZeroTagState)
    BY DEF ZeroTagState, hadHistory
  <1>8. Fresh.state = [t \in Tags |-> ZeroTagState]
    BY DEF Fresh
  <1>9. ASSUME Testing'
        PROVE  states = Fresh.state /\ last = [t \in Tags |-> [k \in ChangeTypes |-> Nil]]
    BY <1>1, <1>9 DEF Testing
  <1>10. ASSUME Testing', NEW u \in Tags
         PROVE  states[u] = ZeroTagState /\ last[u] = [k \in ChangeTypes |-> Nil]
    BY <1>8, <1>9, <1>10
  <1>3. ASSUME Testing', NEW u \in Tags
        PROVE  Proper(scenario', u, pos'[u], states'[u], heard'[u], ch', feed', Outgoing(queue'[u]),
                      Recorded(last'[u]), step')
    <2> DEFINE st == states[u]
               q == queue[u]
               l == last[u]
               H == heard'[u]
               c == ch
               f == feed
               w == Outgoing(q)
               R == Recorded(l)
    <2>1. st = ZeroTagState /\ \A k \in ChangeTypes : l[k] = Nil
      BY <1>3, <1>10
    <2>2. ~hadHistory(st)
      <3> HIDE DEF st
      <3> QED
        BY <1>7, <2>1
    <2>3. Clean(st, q, l, spoke[u]) /\ q \in Seq(OfTag(u))
      BY CoreTag DEF SimInv
    <2>4. Len(q) = 0
      <3> HIDE DEF q, st, l
      <3>1. \A k \in ChangeTypes : \A i \in 1 .. Len(q) : q[i].type # k
        BY <2>2, <2>3 DEF Clean
      <3>2. \A i \in 1 .. Len(q) : q[i].type \in ChangeTypes
        <4> SUFFICES ASSUME NEW i \in 1 .. Len(q) PROVE q[i].type \in ChangeTypes
          OBVIOUS
        <4>1. q[i] \in OfTag(u)
          BY <2>3
        <4> QED
          BY <4>1, EventReads DEF OfTag
      <3>3. Len(q) \in Nat /\ ~(1 \in 1 .. Len(q))
        BY <2>3, <3>1, <3>2
      <3> QED
        BY <3>3
    <2>5. R = {}
      BY <2>1 DEF Recorded, ToClient, Nil
    <2>6. H = {} /\ Len(c) = 0 /\ Len(f) = 0
      BY <1>1, <1>2
    <2>7. Len(w) = 0
      <3> HIDE DEF q
      <3> QED
        BY <2>4 DEF Outgoing
    <2> HIDE DEF st, q, l, H, c, f, w, R
    <2>8. Proper(sc, u, 1, st, {}, c, f, w, {}, 1)
      BY ONLY <2>2, <2>6, <2>7, ProperStart
    <2>9. pos'[u] = 1 /\ step' = 1
      BY <1>1, <1>2
    <2>10. states'[u] = st /\ heard'[u] = H /\ ch' = c /\ feed' = f /\ Outgoing(queue'[u]) = w
           /\ Recorded(last'[u]) = R
      BY <1>1 DEF st, q, l, H, c, f, w, R
    <2> QED
      BY <1>1, <2>5, <2>6, <2>8, <2>9, <2>10
  <1>4. \A u \in Concerned' : u \in Tags
    BY OrderReads DEF Concerned
  <1>5. phase' = 1 /\ step' = 1
    BY <1>1, <1>2
  <1>6. 1 .. phase' - 1 = {} /\ 1 .. step' - 1 = {}
    BY <1>5
  <1> QED
    BY <1>3, <1>4, <1>6, TestedLater

\* Every step.
LEMMA NextTested ==
    ASSUME IsInjective(ZoneOrder), SimInv, Tested, [SimNext]_allVars
    PROVE  Tested'
  <1>1. ASSUME NEW sc \in Scenarios, NEW v \in BOOLEAN, Start(sc, v) PROVE Tested'
    BY <1>1, StartTested
  <1>2. CASE SubscribeFails
    BY <1>2 DEF SubscribeFails, End, Tested, Testing
  <1>3. CASE Join
    BY <1>3, JoinTested
  <1>4. CASE waitForCheck
    BY <1>4, CheckTested
  <1>5. CASE Timeout
    BY <1>5 DEF Timeout, End, Tested, Testing
  <1>6. CASE StreamCloses
    BY <1>6 DEF StreamCloses, End, Tested, Testing
  <1>7. CASE Interrupt
    BY <1>7 DEF Interrupt, End, Tested, Testing
  <1>8. ASSUME NEW i \in DOMAIN feed, Receive(i) PROVE Tested'
    BY <1>8, ReceiveTested
  <1>9. ASSUME NEW t \in Tags, Emit(t) PROVE Tested'
    BY <1>9, EmitTested
  <1>10. ASSUME NEW t \in Tags, EmitLost(t) PROVE Tested'
    BY <1>10, EmitLostTested
  <1>11. ASSUME NEW t \in Tags, Resume(t) PROVE Tested'
    BY <1>11, ResumeTested
  <1>12. ASSUME NEW t \in Tags, CoreWrites(t) PROVE Tested'
    BY <1>12, WriteTested
  <1>13. CASE TimePasses
    BY <1>13, TimeTested
  <1>14. CASE WatchdogSweep
    BY <1>14, SweepTested
  <1>15. CASE UNCHANGED allVars
    BY <1>15, TestedStays DEF allVars, pipeVars, memVars, netVars, simVars
  <1>16. ASSUME NEW t \in Tags, CorePersists(t) PROVE Tested'
    BY <1>16, PersistDoes, TestedStays
  <1> QED
    BY <1>1, <1>2, <1>3, <1>4, <1>5, <1>6, <1>7, <1>8, <1>9, <1>10, <1>11, <1>12, <1>13, <1>14, <1>15,
       <1>16
       DEF SimNext

-----------------------------------------------------------------------------
(* A validation that passes has tested what it says.                       *)

\* What was heard stays, and more may be heard.
LEMMA PassLater ==
    ASSUME PassMeansTested, scenario' = scenario, validate' = validate, fresh' = fresh,
           sim' = "passed" => sim = "passed",
           \A t \in Tags : heard[t] \subseteq heard'[t]
    PROVE  PassMeansTested'
  <1>1. SUFFICES ASSUME sim' = "passed", fresh, NEW t, t \in Concerned PROVE Essential(t)'
    BY DEF PassMeansTested, Concerned
  <1>2. Essential(t)
    BY <1>1 DEF PassMeansTested, Concerned
  <1>3. t \in Tags
    BY <1>1, OrderReads DEF Concerned
  <1>4. DOMAIN Program' = DOMAIN Program
    BY DEF Program, Offline, Lost
  <1>5. heard[t] \subseteq heard'[t]
    BY <1>3
  <1>6. \A x : x \in heard[t] => x \in heard'[t]
    BY <1>5
  <1>7. CASE scenario = "offline"
    BY <1>2, <1>6, <1>7 DEF Essential
  <1>8. CASE scenario # "offline"
    BY <1>2, <1>4, <1>6, <1>8 DEF Essential
  <1> QED
    BY <1>7, <1>8

\* The last check of a validation is satisfied.
LEMMA LastShown ==
    ASSUME SimInv, Tested, Testing, ch # <<>>, LastCheck,
           Matches(Checks(TagOrder[phase])[step], Head(ch)), NEW t, t \in Concerned
    PROVE  Essential(t)
  <1>1. /\ scenario \in Validated /\ validate = TRUE /\ t \in Tags
        /\ scenario # "walk" => phase = 1 /\ t = TagOrder[1]
        /\ step \in Nat /\ step >= 1 /\ step <= CheckCount(scenario)
        /\ ch \in Seq(Messages)
    BY TestedGiven
  <1>2. scenario \in Kinds /\ scenario # "stress"
    BY <1>1 DEF Validated, Kinds
  <1>3. phase = Phases /\ step = CheckCount(scenario)
    BY <1>2, ChecksAre DEF LastCheck
  <1>4. DOMAIN Program = 1 .. Length(scenario, validate)
    BY <1>1, <1>2, ProgramIs
  <1>5. ProperFor(t)
    BY DEF Tested
  <1>6. CASE scenario = "walk"
    <2>1. /\ \A i \in 1 .. step : i \in heard[TagOrder[phase]]
          /\ \A n \in 1 .. phase - 1 : \A i \in 1 .. Len(ZoneOrder) : i \in heard[TagOrder[n]]
          /\ CheckCount(scenario) = Len(ZoneOrder)
      BY <1>6, WalkShown
    <2>2. phase = Len(TagOrder)
      BY <1>3, <1>6 DEF Phases
    <2>3. PICK n \in 1 .. Len(TagOrder) : t = TagOrder[n]
      BY <1>1, OrderReads
    <2>4. n \in 1 .. phase - 1 \/ n = phase
      BY <2>2, <2>3, OrderReads
    <2>5. \A i \in 1 .. Len(ZoneOrder) : i \in heard[t]
      BY <1>3, <2>1, <2>3, <2>4
    <2>6. DOMAIN Program = 1 .. Len(ZoneOrder)
      BY <1>4, <1>6 DEF Length
    <2> QED
      BY <1>6, <2>5, <2>6 DEF Essential
  <1>7. CASE scenario = "offline"
    <2>1. step = 3 /\ t = TagOrder[phase]
      BY <1>1, <1>3, <1>7 DEF CheckCount
    <2>2. Checks(t)[step] = presenceCheck(t, "ACTIVE")
      <3>1. step \in 1 .. CheckCount(scenario)
        BY <1>1, <1>3, <2>1
      <3>2. Checks(t)[step] = CheckAt(scenario, t, step)
        BY <1>2, <3>1, ChecksAre
      <3> QED
        BY <1>7, <2>1, <3>2 DEF CheckAt
    <2>3. Told(t, "ACTIVE", Head(ch))
      BY <2>1, <2>2 DEF Told
    <2>4. Vouched(scenario, t, heard[t], Head(ch))
      <3>1. Head(ch) = ch[1] /\ 1 \in 1 .. Len(ch)
        BY <1>1
      <3> QED
        BY <1>5, <3>1 DEF ProperFor, Proper
    <2>5. 4 \in heard[t] /\ 5 \in heard[t] /\ (1 \in heard[t] \/ 2 \in heard[t] \/ 3 \in heard[t])
      BY <1>7, <2>3, <2>4 DEF Vouched
    <2> QED
      BY <1>7, <2>5 DEF Essential
  <1>8. CASE scenario = "lost"
    <2>1. step = 4
      BY <1>3, <1>8 DEF CheckCount
    <2>2. 1 \in heard[t] /\ 2 \in heard[t] /\ 3 \in heard[t]
      BY <1>5, <1>8, <2>1 DEF ProperFor, Proper
    <2>3. DOMAIN Program = 1 .. 3
      BY <1>1, <1>4, <1>8 DEF Length
    <2>4. \A i \in 1 .. 3 : i = 1 \/ i = 2 \/ i = 3
      OBVIOUS
    <2> QED
      BY <1>8, <2>2, <2>3, <2>4 DEF Essential
  <1> QED
    BY <1>1, <1>6, <1>7, <1>8 DEF Validated

\* A validation that passes.
LEMMA NextPass ==
    ASSUME SimInv, Tested, PassMeansTested, [SimNext]_allVars
    PROVE  PassMeansTested'
  <1>1. ASSUME NEW sc \in Scenarios, NEW v \in BOOLEAN, Start(sc, v) PROVE PassMeansTested'
    BY <1>1 DEF Start, PassMeansTested
  <1>2. CASE SubscribeFails
    BY <1>2 DEF SubscribeFails, End, PassMeansTested
  <1>3. CASE Join
    BY <1>3 DEF Join, PassMeansTested
  <1>4. CASE waitForCheck
    <2> DEFINE matched == Matches(Checks(TagOrder[phase])[step], Head(ch))
    <2>1. /\ sim = "running" /\ Validating /\ ch # <<>>
          /\ (matched /\ LastCheck) \/ sim' = sim
          /\ scenario' = scenario /\ validate' = validate /\ fresh' = fresh /\ heard' = heard
      BY <1>4 DEF waitForCheck, Checking, netVars
    <2>2. CASE matched /\ LastCheck
      <3>1. SUFFICES ASSUME fresh, NEW t, t \in Concerned PROVE Essential(t)'
        BY <2>1 DEF PassMeansTested, Concerned
      <3>2. Testing
        BY <2>1, <3>1 DEF Testing
      <3>3. Essential(t)
        BY <2>1, <2>2, <3>1, <3>2, LastShown
      <3>4. DOMAIN Program' = DOMAIN Program
        BY <2>1 DEF Program, Offline, Lost
      <3> QED
        BY <2>1, <3>3, <3>4 DEF Essential
    <2>3. CASE sim' = sim
      BY <2>1, <2>3 DEF PassMeansTested
    <2> QED
      BY <2>1, <2>2, <2>3
  <1>5. CASE Timeout
    BY <1>5 DEF Timeout, End, PassMeansTested
  <1>6. CASE StreamCloses
    BY <1>6 DEF StreamCloses, End, PassMeansTested
  <1>7. CASE Interrupt
    BY <1>7 DEF Interrupt, End, PassMeansTested
  <1>8. ASSUME NEW i \in DOMAIN feed, Receive(i) PROVE PassMeansTested'
    BY <1>8 DEF Receive, PassMeansTested
  <1>9. ASSUME NEW t \in Tags, Emit(t) PROVE PassMeansTested'
    BY <1>9 DEF Emit, Sending, PassMeansTested
  <1>10. ASSUME NEW t \in Tags, EmitLost(t) PROVE PassMeansTested'
    BY <1>10 DEF EmitLost, Sending, PassMeansTested
  <1>11. ASSUME NEW t \in Tags, Resume(t) PROVE PassMeansTested'
    BY <1>11 DEF Resume, PassMeansTested
  <1>12. ASSUME NEW t \in Tags, CoreWrites(t) PROVE PassMeansTested'
    BY <1>12, PassLater DEF CoreWrites, netVars
  <1>13. CASE TimePasses
    BY <1>13, PassLater DEF TimePasses, netVars, simVars
  <1>14. CASE WatchdogSweep
    BY <1>14, PassLater DEF WatchdogSweep, Hear, netVars
  <1>15. CASE UNCHANGED allVars
    BY <1>15, PassLater DEF allVars, netVars, simVars
  <1>16. ASSUME NEW t \in Tags, CorePersists(t) PROVE PassMeansTested'
    BY <1>16, PersistDoes, PassLater
  <1> QED
    BY <1>1, <1>2, <1>3, <1>4, <1>5, <1>6, <1>7, <1>8, <1>9, <1>10, <1>11, <1>12, <1>13, <1>14, <1>15,
       <1>16
       DEF SimNext

\* A validation that passes on a core that had never heard of the tags has
\* tested what it says, for any tags, zones and scenarios: whatever satisfies a
\* check was caused by the datagram or the silence the check stands for. The
\* zones of a walk differ from each other, so that a zone event tells which of
\* its datagrams it comes from.
THEOREM PassShown == IsInjective(ZoneOrder) => (SimSpec => []PassMeansTested)
  <1> SUFFICES ASSUME IsInjective(ZoneOrder) PROVE SimSpec => []PassMeansTested
    OBVIOUS
  <1>1. SimInit => SimInv
    BY InitKeeps
  <1>2. SimInit => Tested /\ PassMeansTested
    BY DEF SimInit, Tested, Testing, PassMeansTested
  <1>3. SimInv /\ [SimNext]_allVars => SimInv'
    BY NextKeeps
  <1>4. SimInv /\ Tested /\ PassMeansTested /\ [SimNext]_allVars => Tested' /\ PassMeansTested'
    BY NextTested, NextPass
  <1> QED
    BY <1>1, <1>2, <1>3, <1>4, PTL DEF SimSpec
=============================================================================
