---------------------------- MODULE ValueProofs -----------------------------
(***************************************************************************)
(* Theorems about the values of the library.  lib/time/time.c: for every   *)
(* size of a second and of the word, every set of units and every sequence *)
(* of operations.  lib/dnssd/mdns.h: for every message of a kind that is   *)
(* sent, every size of the buffer and every size of the string table.      *)
(***************************************************************************)
EXTENDS Time, MdnsMessage, SequenceTheorems, WellFoundedInduction, TLAPS

Timespecs == [st_sec : Int, st_nsec : Nat]

\* What every operation keeps: at most one whole second of nanoseconds.
Proper(t) == t \in Timespecs /\ t.st_nsec <= Nsec

TypeOK ==
    /\ clock \in Nat
    /\ time \in [Names -> Timespecs]
    /\ exact \in [Names -> Int]

IInv == TypeOK /\ DeadlineExact

-----------------------------------------------------------------------------
\* Division with remainder, as TIME_now and TIME_add use it.
LEMMA DivMod ==
    ASSUME NEW a \in Nat, NEW n \in Nat, n > 0
    PROVE  /\ a \div n \in Nat /\ a % n \in Nat
           /\ a % n < n
           /\ (a \div n) * n + (a % n) = a
<1>1. a \div n \in Int /\ a % n \in 0 .. n - 1 /\ a = n * (a \div n) + (a % n)
  OBVIOUS
<1>2. a \div n >= 0
  OBVIOUS
<1>3. (a \div n) * n = n * (a \div n)
  BY <1>1
<1> QED
  BY <1>1, <1>2, <1>3

\* A number below the modulus stays as it is.
LEMMA SmallMod ==
    ASSUME NEW a \in Nat, NEW n \in Nat, a < n
    PROVE  a % n = a
OBVIOUS

\* The distributive law, for the numbers of seconds.
LEMMA Distribute ==
    ASSUME NEW x \in Int, NEW y \in Int, NEW n \in Int
    PROVE  /\ (x + y) * n = x * n + y * n
           /\ (x - y) * n = x * n - y * n
           /\ (x + 1) * n = x * n + n
           /\ (x - 1) * n = x * n - n
OBVIOUS

\* TIME_plus adds the instants, whatever is carried.
LEMMA PlusExact ==
    ASSUME NEW t, NEW p, Proper(t), Proper(p)
    PROVE  Proper(Plus(t, p)) /\ Instant(Plus(t, p)) = Instant(t) + Instant(p)
<1> DEFINE s == t.st_nsec + p.st_nsec
           q == t.st_sec + p.st_sec
<1>1. /\ t.st_sec \in Int /\ p.st_sec \in Int /\ q \in Int
      /\ t.st_nsec \in Nat /\ p.st_nsec \in Nat /\ s \in Nat
      /\ t.st_nsec <= Nsec /\ p.st_nsec <= Nsec
      /\ Nsec \in Nat /\ Word \in Nat /\ Word > 2 * Nsec
  BY TimeAssumption DEF Proper, Timespecs
<1>2. s % Word = s
  BY <1>1, SmallMod
<1>3. /\ q * Nsec = t.st_sec * Nsec + p.st_sec * Nsec
      /\ (q + 1) * Nsec = q * Nsec + Nsec
  BY <1>1, Distribute
<1>4. t.st_sec * Nsec \in Int /\ p.st_sec * Nsec \in Int
  BY <1>1
<1>5. CASE s > Nsec
  <2>1. Plus(t, p) = [st_sec |-> q + 1, st_nsec |-> s - Nsec]
    BY <1>2, <1>5 DEF Plus
  <2> HIDE DEF q
  <2> QED
    BY <2>1, <1>1, <1>3, <1>4, <1>5 DEF Proper, Timespecs, Instant
<1>6. CASE ~(s > Nsec)
  <2>1. Plus(t, p) = [st_sec |-> q, st_nsec |-> s]
    BY <1>2, <1>6 DEF Plus
  <2> HIDE DEF q
  <2> QED
    BY <2>1, <1>1, <1>3, <1>4, <1>6 DEF Proper, Timespecs, Instant
<1> QED
  BY <1>5, <1>6

\* TIME_substract subtracts them, whatever is borrowed.
LEMMA MinusExact ==
    ASSUME NEW t, NEW p, Proper(t), Proper(p)
    PROVE  Proper(Minus(t, p)) /\ Instant(Minus(t, p)) = Instant(t) - Instant(p)
<1> DEFINE q == t.st_sec - p.st_sec
<1>1. /\ t.st_sec \in Int /\ p.st_sec \in Int /\ q \in Int
      /\ t.st_nsec \in Nat /\ p.st_nsec \in Nat
      /\ t.st_nsec <= Nsec /\ p.st_nsec <= Nsec
      /\ Nsec \in Nat
  BY TimeAssumption DEF Proper, Timespecs
<1>2. /\ q * Nsec = t.st_sec * Nsec - p.st_sec * Nsec
      /\ (q - 1) * Nsec = q * Nsec - Nsec
  BY <1>1, Distribute
<1>3. t.st_sec * Nsec \in Int /\ p.st_sec * Nsec \in Int
  BY <1>1
<1>4. CASE t.st_nsec < p.st_nsec
  <2>1. Minus(t, p) = [st_sec |-> q - 1, st_nsec |-> t.st_nsec + Nsec - p.st_nsec]
    BY <1>4 DEF Minus
  <2> HIDE DEF q
  <2> QED
    BY <2>1, <1>1, <1>2, <1>3, <1>4 DEF Proper, Timespecs, Instant
<1>5. CASE ~(t.st_nsec < p.st_nsec)
  <2>1. Minus(t, p) = [st_sec |-> q, st_nsec |-> t.st_nsec - p.st_nsec]
    BY <1>5 DEF Minus
  <2> HIDE DEF q
  <2> QED
    BY <2>1, <1>1, <1>2, <1>3, <1>5 DEF Proper, Timespecs, Instant
<1> QED
  BY <1>4, <1>5

\* The value TIME_now gives is the clock's, and has less than a second of
\* nanoseconds.
LEMMA NowExact ==
    ASSUME clock \in Nat
    PROVE  Proper(Now) /\ Now.st_nsec < Nsec /\ Instant(Now) = clock
<1>1. /\ clock \div Nsec \in Nat /\ clock % Nsec \in Nat /\ clock % Nsec < Nsec
      /\ (clock \div Nsec) * Nsec + (clock % Nsec) = clock
  BY DivMod, TimeAssumption
<1> QED
  BY <1>1, TimeAssumption DEF Proper, Timespecs, Now, Instant

\* TIME_add adds the product it computed, below and above a second.
LEMMA AddExact ==
    ASSUME NEW t, Proper(t), NEW k \in Nat
    PROVE  /\ Proper(AddNsec(t, k)) /\ Instant(AddNsec(t, k)) = Instant(t) + k
           /\ Proper(AddSec(t, k)) /\ Instant(AddSec(t, k)) = Instant(t) + k * Nsec
<1> DEFINE p == [st_sec |-> k \div Nsec, st_nsec |-> k % Nsec]
<1>1. /\ k \div Nsec \in Nat /\ k % Nsec \in Nat /\ k % Nsec < Nsec
      /\ (k \div Nsec) * Nsec + (k % Nsec) = k
  BY DivMod, TimeAssumption
<1>2. Proper(p) /\ Instant(p) = k
  BY <1>1, TimeAssumption DEF Proper, Timespecs, Instant
<1>3. AddNsec(t, k) = Plus(t, p)
  BY DEF AddNsec
<1>4. Proper(AddNsec(t, k)) /\ Instant(AddNsec(t, k)) = Instant(t) + k
  <2> HIDE DEF p
  <2> QED
    BY <1>2, <1>3, PlusExact
<1>5. /\ t.st_sec \in Int /\ t.st_nsec \in Nat /\ t.st_nsec <= Nsec
      /\ Nsec \in Nat
      /\ AddSec(t, k) = [st_sec |-> t.st_sec + k, st_nsec |-> t.st_nsec]
  BY TimeAssumption DEF Proper, Timespecs, AddSec
<1>6. (t.st_sec + k) * Nsec = t.st_sec * Nsec + k * Nsec
  BY <1>5, Distribute
<1>7. t.st_sec * Nsec \in Int /\ k * Nsec \in Int
  BY <1>5
<1>8. Proper(AddSec(t, k)) /\ Instant(AddSec(t, k)) = Instant(t) + k * Nsec
  BY <1>5, <1>6, <1>7 DEF Proper, Timespecs, Instant
<1> QED
  BY <1>4, <1>8

-----------------------------------------------------------------------------
\* In a state of the invariant every variable has a proper value.
LEMMA ValueProper ==
    ASSUME IInv, NEW x \in Names
    PROVE  /\ Proper(time[x]) /\ exact[x] \in Int
           /\ x \notin wrapped => Instant(time[x]) = exact[x]
BY DEF IInv, TypeOK, DeadlineExact, Proper

\* Putting a proper value in x keeps the invariant, when its instant is the one
\* asked for or x is among those with a wrapped product.
LEMMA PutKeeps ==
    ASSUME IInv, NEW x \in Names, NEW t, NEW i \in Int, Proper(t),
           time' = [time EXCEPT ![x] = t], exact' = [exact EXCEPT ![x] = i],
           clock' = clock, wrapped' \ {x} = wrapped \ {x},
           x \notin wrapped' => Instant(t) = i
    PROVE  IInv'
<1>1. TypeOK'
  BY DEF IInv, TypeOK, Proper
<1>2. ASSUME NEW y \in Names
      PROVE  /\ time'[y].st_nsec <= Nsec
             /\ y \notin wrapped' => Instant(time'[y]) = exact'[y]
  <2>1. CASE y = x
    <3>1. time'[y] = t /\ exact'[y] = i
      BY <2>1 DEF IInv, TypeOK
    <3> QED
      BY <2>1, <3>1 DEF Proper
  <2>2. CASE y # x
    <3>1. time'[y] = time[y] /\ exact'[y] = exact[y]
      BY <2>2 DEF IInv, TypeOK
    <3>2. y \in wrapped <=> y \in wrapped'
      BY <2>2
    <3> QED
      BY <3>1, <3>2, ValueProper DEF Proper
  <2> QED
    BY <2>1, <2>2
<1> QED
  BY <1>1, <1>2 DEF IInv, DeadlineExact, Instant

\* Storing a value made of others keeps it, when none of them has a wrapped product
\* or its instant does not matter.
LEMMA StoreKeeps ==
    ASSUME IInv, NEW x \in Names, NEW t, NEW i \in Int, NEW from, Proper(t),
           from \cap wrapped = {} => Instant(t) = i, Store(x, t, i, from)
    PROVE  IInv'
<1>1. /\ time' = [time EXCEPT ![x] = t] /\ exact' = [exact EXCEPT ![x] = i]
      /\ clock' = clock
      /\ wrapped' = IF from \cap wrapped = {} THEN wrapped \ {x} ELSE wrapped \cup {x}
  BY DEF Store
<1>2. wrapped' \ {x} = wrapped \ {x}
  BY <1>1
<1>3. x \notin wrapped' => Instant(t) = i
  BY <1>1
<1> QED
  BY <1>1, <1>2, <1>3, PutKeeps

\* So does the sum TIME_add leaves, when it is what was asked for unless the product
\* is too large.
LEMMA SumKeeps ==
    ASSUME IInv, NEW x \in Names, NEW t, Proper(t),
           NEW unit \in Nat, NEW count \in Nat, NEW step \in Nat,
           unit * count < Word => Instant(t) = Instant(time[x]) + unit * count * step,
           StoreSum(x, t, unit, count, step)
    PROVE  IInv'
<1> DEFINE i == exact[x] + unit * count * step
<1>1. /\ time' = [time EXCEPT ![x] = t] /\ exact' = [exact EXCEPT ![x] = i]
      /\ clock' = clock
      /\ wrapped' = IF unit * count < Word THEN wrapped ELSE wrapped \cup {x}
  BY DEF StoreSum
<1>2. exact[x] \in Int /\ (x \notin wrapped => Instant(time[x]) = exact[x])
  BY ValueProper
<1>3. unit * count * step \in Nat
  OBVIOUS
<1>4. i \in Int
  <2> DEFINE p == unit * count * step
  <2> HIDE DEF p
  <2> QED
    BY <1>2, <1>3 DEF p
<1>5. wrapped' \ {x} = wrapped \ {x}
  BY <1>1
<1>6. x \notin wrapped' => Instant(t) = i
  BY <1>1, <1>2
<1> HIDE DEF i
<1> QED
  BY <1>1, <1>4, <1>5, <1>6, PutKeeps

\* A product of TIME_add is a natural number, and the one that was asked for when
\* it is not too large.
LEMMA ProductNat ==
    ASSUME NEW unit \in Nat, NEW count \in Nat
    PROVE  /\ Product(unit, count) \in Nat
           /\ unit * count < Word => Product(unit, count) = unit * count
<1>1. unit * count \in Nat /\ Word \in Nat /\ Word > 0
  BY TimeAssumption
<1> QED
  BY <1>1, DivMod, SmallMod DEF Product

\* Every step of a program that uses time.c keeps the invariant.
LEMMA NextKeeps ==
    ASSUME IInv, [Next]_vars
    PROVE  IInv'
<1>1. CASE Tick
  BY <1>1 DEF IInv, TypeOK, DeadlineExact, Instant, Tick
<1>2. ASSUME NEW x \in Names, TIME_now(x) PROVE IInv'
  <2>1. clock \in Nat
    BY DEF IInv, TypeOK
  <2>2. Store(x, Now, clock, {}) /\ clock \in Int
    BY <1>2, <2>1 DEF TIME_now
  <2> QED
    BY <2>1, <2>2, NowExact, StoreKeeps
<1>3. ASSUME NEW x \in Names, NEW y \in Names, TIME_copy(x, y) PROVE IInv'
  <2>1. /\ Proper(time[y]) /\ exact[y] \in Int
        /\ {y} \cap wrapped = {} => Instant(time[y]) = exact[y]
    BY ValueProper
  <2>2. Store(x, time[y], exact[y], {y})
    BY <1>3 DEF TIME_copy
  <2> QED
    BY <2>1, <2>2, StoreKeeps
<1>4. ASSUME NEW x \in Names, NEW y \in Names, TIME_plus(x, y) PROVE IInv'
  <2>1. Proper(time[x]) /\ exact[x] \in Int /\ Proper(time[y]) /\ exact[y] \in Int
    BY ValueProper
  <2>2. {x, y} \cap wrapped = {} =>
            Instant(time[x]) = exact[x] /\ Instant(time[y]) = exact[y]
    BY ValueProper
  <2>3. /\ Proper(Plus(time[x], time[y]))
        /\ {x, y} \cap wrapped = {} =>
               Instant(Plus(time[x], time[y])) = exact[x] + exact[y]
    BY <2>1, <2>2, PlusExact
  <2>4. exact[x] + exact[y] \in Int
    BY <2>1
  <2>5. Store(x, Plus(time[x], time[y]), exact[x] + exact[y], {x, y})
    BY <1>4 DEF TIME_plus
  <2> QED
    BY <2>3, <2>4, <2>5, StoreKeeps
<1>5. ASSUME NEW x \in Names, NEW y \in Names, TIME_substract(x, y) PROVE IInv'
  <2>1. Proper(time[x]) /\ exact[x] \in Int /\ Proper(time[y]) /\ exact[y] \in Int
    BY ValueProper
  <2>2. {x, y} \cap wrapped = {} =>
            Instant(time[x]) = exact[x] /\ Instant(time[y]) = exact[y]
    BY ValueProper
  <2>3. /\ Proper(Minus(time[x], time[y]))
        /\ {x, y} \cap wrapped = {} =>
               Instant(Minus(time[x], time[y])) = exact[x] - exact[y]
    BY <2>1, <2>2, MinusExact
  <2>4. exact[x] - exact[y] \in Int
    BY <2>1
  <2>5. Store(x, Minus(time[x], time[y]), exact[x] - exact[y], {x, y})
    BY <1>5 DEF TIME_substract
  <2> QED
    BY <2>3, <2>4, <2>5, StoreKeeps
<1>6. ASSUME NEW x \in Names, NEW base \in Bases, NEW count \in Counts,
             TIME_add_nsec(x, base, count)
      PROVE  IInv'
  <2> DEFINE k == Product(base, count)
  <2>1. base \in Nat /\ count \in Nat /\ base * count \in Nat
    BY TimeAssumption
  <2>2. k \in Nat /\ (base * count < Word => k = base * count)
    BY <2>1, ProductNat
  <2>3. StoreSum(x, AddNsec(time[x], k), base, count, 1)
    BY <1>6 DEF TIME_add_nsec
  <2> HIDE DEF k
  <2>4. /\ Proper(AddNsec(time[x], k))
        /\ Instant(AddNsec(time[x], k)) = Instant(time[x]) + k
    BY <2>2, ValueProper, AddExact
  <2>5. base * count * 1 = base * count
    BY <2>1
  <2>6. base * count < Word =>
            Instant(AddNsec(time[x], k)) = Instant(time[x]) + base * count * 1
    BY <2>2, <2>4, <2>5
  <2> QED
    BY <2>1, <2>3, <2>4, <2>6, SumKeeps
<1>7. ASSUME NEW x \in Names, NEW factor \in Factors, NEW count \in Counts,
             TIME_add_sec(x, factor, count)
      PROVE  IInv'
  <2> DEFINE k == Product(factor, count)
  <2>1. factor \in Nat /\ count \in Nat /\ factor * count \in Nat /\ Nsec \in Nat
    BY TimeAssumption
  <2>2. k \in Nat /\ (factor * count < Word => k = factor * count)
    BY <2>1, ProductNat
  <2>3. StoreSum(x, AddSec(time[x], k), factor, count, Nsec)
    BY <1>7 DEF TIME_add_sec
  <2> HIDE DEF k
  <2>4. /\ Proper(AddSec(time[x], k))
        /\ Instant(AddSec(time[x], k)) = Instant(time[x]) + k * Nsec
    BY <2>2, ValueProper, AddExact
  <2>5. factor * count < Word =>
            Instant(AddSec(time[x], k)) = Instant(time[x]) + factor * count * Nsec
    BY <2>2, <2>4
  <2> QED
    BY <2>1, <2>3, <2>4, <2>5, SumKeeps
<1>8. CASE UNCHANGED vars
  BY <1>8 DEF IInv, TypeOK, DeadlineExact, Instant, vars
<1> QED
  BY <1>1, <1>2, <1>3, <1>4, <1>5, <1>6, <1>7, <1>8 DEF Next

\* The initial values are proper.
LEMMA InitKeeps == Init => IInv
<1>1. 0 * Nsec + 0 = 0 /\ 0 <= Nsec
  BY TimeAssumption
<1> QED
  BY <1>1 DEF Init, IInv, TypeOK, DeadlineExact, Instant, Zero, Timespecs

-----------------------------------------------------------------------------
\* Whatever the operations and the sizes, a deadline stands for the instant that was
\* asked for, unless a product in it was too large for 32 bits, and never has more
\* than one whole second of nanoseconds.
THEOREM DeadlinesExact == Spec => []DeadlineExact
<1>1. Spec => []IInv
  BY InitKeeps, NextKeeps, PTL DEF Spec
<1>2. IInv => DeadlineExact
  BY DEF IInv
<1> QED
  BY <1>1, <1>2, PTL

\* More seconds are more time, when the nanoseconds are at most a second.
LEMMA SecondsDecide ==
    ASSUME NEW a, NEW b, Proper(a), Proper(b), a.st_sec < b.st_sec
    PROVE  Instant(a) <= Instant(b)
<1>1. /\ a.st_sec \in Int /\ b.st_sec \in Int /\ Nsec \in Nat
      /\ a.st_nsec \in Nat /\ b.st_nsec \in Nat /\ a.st_nsec <= Nsec
  BY TimeAssumption DEF Proper, Timespecs
<1>2. (a.st_sec + 1) * Nsec = a.st_sec * Nsec + Nsec
  BY <1>1, Distribute
<1>3. (a.st_sec + 1) * Nsec <= b.st_sec * Nsec
  BY <1>1
<1>4. a.st_sec * Nsec \in Int /\ b.st_sec * Nsec \in Int
  BY <1>1
<1> QED
  BY <1>1, <1>2, <1>3, <1>4 DEF Instant

\* And they decide strictly when the earlier one has less than a second of them.
LEMMA SecondsDecideStrictly ==
    ASSUME NEW a, NEW b, Proper(a), Proper(b), a.st_sec < b.st_sec, a.st_nsec < Nsec
    PROVE  Instant(a) < Instant(b)
<1>1. /\ a.st_sec \in Int /\ b.st_sec \in Int /\ Nsec \in Nat
      /\ a.st_nsec \in Nat /\ b.st_nsec \in Nat
  BY TimeAssumption DEF Proper, Timespecs
<1>2. (a.st_sec + 1) * Nsec = a.st_sec * Nsec + Nsec
  BY <1>1, Distribute
<1>3. (a.st_sec + 1) * Nsec <= b.st_sec * Nsec
  BY <1>1
<1>4. a.st_sec * Nsec \in Int /\ b.st_sec * Nsec \in Int
  BY <1>1
<1> QED
  BY <1>1, <1>2, <1>3, <1>4 DEF Instant

\* TIME_earlier never contradicts the order of the instants.
THEOREM EarlierOrders == Spec => []EarlierIsOrder
<1>1. Spec => []IInv
  BY InitKeeps, NextKeeps, PTL DEF Spec
<1>2. IInv => EarlierIsOrder
  <2> SUFFICES ASSUME IInv, NEW x \in Names, NEW y \in Names
               PROVE  LET order == Earlier(time[x], time[y])
                          a == Instant(time[x])
                          b == Instant(time[y])
                      IN /\ order = 1 => a <= b
                         /\ order = -1 => a >= b
                         /\ (time[x].st_nsec < Nsec /\ time[y].st_nsec < Nsec)
                               => (order = 0 <=> a = b)
    BY DEF EarlierIsOrder
  <2> DEFINE s == time[x]
             t == time[y]
  <2>1. Proper(s) /\ Proper(t)
    BY ValueProper
  <2>2. /\ s.st_sec \in Int /\ t.st_sec \in Int /\ Nsec \in Nat
        /\ s.st_nsec \in Nat /\ t.st_nsec \in Nat
        /\ Instant(s) \in Int /\ Instant(t) \in Int
    BY <2>1, TimeAssumption DEF Proper, Timespecs, Instant
  <2> HIDE DEF s, t
  <2>3. CASE s.st_sec > t.st_sec
    <3>1. Earlier(s, t) = -1 /\ Instant(t) <= Instant(s)
      BY <2>1, <2>2, <2>3, SecondsDecide DEF Earlier
    <3>2. t.st_nsec < Nsec => Instant(t) < Instant(s)
      BY <2>1, <2>2, <2>3, SecondsDecideStrictly
    <3> QED
      BY <3>1, <3>2, <2>2 DEF s, t
  <2>4. CASE s.st_sec < t.st_sec
    <3>1. Earlier(s, t) = 1 /\ Instant(s) <= Instant(t)
      BY <2>1, <2>2, <2>4, SecondsDecide DEF Earlier
    <3>2. s.st_nsec < Nsec => Instant(s) < Instant(t)
      BY <2>1, <2>2, <2>4, SecondsDecideStrictly
    <3> QED
      BY <3>1, <3>2, <2>2 DEF s, t
  <2>5. CASE s.st_sec = t.st_sec
    <3> DEFINE n == s.st_sec * Nsec
    <3>1. n \in Int /\ Instant(s) = n + s.st_nsec /\ Instant(t) = n + t.st_nsec
      BY <2>2, <2>5 DEF Instant
    <3>2. /\ s.st_nsec > t.st_nsec => Earlier(s, t) = -1
          /\ s.st_nsec < t.st_nsec => Earlier(s, t) = 1
          /\ s.st_nsec = t.st_nsec => Earlier(s, t) = 0
      BY <2>2, <2>5 DEF Earlier
    <3> HIDE DEF n
    <3>3. CASE s.st_nsec > t.st_nsec
      BY <3>1, <3>2, <3>3, <2>2 DEF s, t
    <3>4. CASE s.st_nsec < t.st_nsec
      BY <3>1, <3>2, <3>4, <2>2 DEF s, t
    <3>5. CASE s.st_nsec = t.st_nsec
      BY <3>1, <3>2, <3>5, <2>2 DEF s, t
    <3> QED
      BY <3>3, <3>4, <3>5, <2>2
  <2> QED
    BY <2>2, <2>3, <2>4, <2>5
<1> QED
  BY <1>1, <1>2, PTL

\* The sign TIME_get_expired gives is right for every deadline.
THEOREM ExpiredSigned == Spec => []ExpiredSign
<1>1. Spec => []IInv
  BY InitKeeps, NextKeeps, PTL DEF Spec
<1>2. IInv => ExpiredSign
  <2> SUFFICES ASSUME IInv, NEW x \in Names
               PROVE  Expired(time[x], Now).st_sec >= 0 <=> Instant(time[x]) <= clock
    BY DEF ExpiredSign
  <2> DEFINE t == time[x]
  <2>1. Proper(t) /\ clock \in Nat
    BY ValueProper DEF IInv, TypeOK
  <2>2. Proper(Now) /\ Now.st_nsec < Nsec /\ Instant(Now) = clock
    BY <2>1, NowExact
  <2>3. /\ t.st_sec \in Int /\ Now.st_sec \in Int /\ Nsec \in Nat
        /\ t.st_nsec \in Nat /\ Now.st_nsec \in Nat
    BY <2>1, <2>2, TimeAssumption DEF Proper, Timespecs
  <2>4. Instant(t) \in Int
    BY <2>3 DEF Instant
  <2> HIDE DEF t
  <2>5. CASE t.st_sec < Now.st_sec
    <3>1. Expired(t, Now).st_sec >= 0
      BY <2>3, <2>5 DEF Expired
    <3> QED
      BY <3>1, <2>1, <2>2, <2>5, SecondsDecide DEF t
  <2>6. CASE t.st_sec > Now.st_sec
    <3>1. ~(Expired(t, Now).st_sec >= 0)
      BY <2>3, <2>6 DEF Expired
    <3>2. Instant(Now) < Instant(t)
      BY <2>1, <2>2, <2>3, <2>6, SecondsDecideStrictly
    <3> QED
      BY <3>1, <3>2, <2>1, <2>2, <2>4 DEF t
  <2>7. CASE t.st_sec = Now.st_sec
    <3> DEFINE n == t.st_sec * Nsec
    <3>1. n \in Int /\ Instant(t) = n + t.st_nsec /\ clock = n + Now.st_nsec
      BY <2>2, <2>3, <2>7 DEF Instant
    <3>2. Expired(t, Now).st_sec >= 0 <=> t.st_nsec <= Now.st_nsec
      BY <2>3, <2>7 DEF Expired
    <3> HIDE DEF n
    <3> QED
      BY <3>1, <3>2, <2>3 DEF t
  <2> QED
    BY <2>3, <2>5, <2>6, <2>7
<1> QED
  BY <1>1, <1>2, PTL

\* Both together: TIME_earlier and TIME_get_expired tell the order of deadlines.
THEOREM OrderCorrect == Spec => []OrderExact
<1>1. EarlierIsOrder /\ ExpiredSign => OrderExact
  BY DEF OrderExact
<1> QED
  BY <1>1, EarlierOrders, ExpiredSigned, PTL

-----------------------------------------------------------------------------
(* Messages of multicast dns.                                              *)

\* A non-empty set of numbers has a least element.
LEMMA Minimum ==
    ASSUME NEW S \in SUBSET Nat, S # {}
    PROVE  \E m \in S : \A k \in S : m <= k
<1> DEFINE R == {ss \in Nat \X Nat : ss[1] < ss[2]}
<1>1. IsWellFoundedOn(R, Nat)
  BY NatLessThanWellFounded, Zenon DEF OpToRel
<1>2. ASSUME NEW a \in Nat, NEW b \in Nat, a < b
      PROVE  <<a, b>> \in R
  BY <1>2
<1> HIDE DEF R
<1>3. PICK m \in S : \A k \in S : ~(<<k, m>> \in R)
  BY <1>1, WFMin, Zenon
<1>4. ASSUME NEW k \in S
      PROVE  m <= k
  <2>1. ~(k < m)
    BY <1>2, <1>3, Zenon
  <2> QED
    BY <2>1
<1> QED
  BY <1>4

\* Induction: the numbers for which something holds are all numbers.
LEMMA AllNumbers ==
    ASSUME NEW S, 0 \in S, \A n \in Nat : n \in S => n + 1 \in S
    PROVE  \A n \in Nat : n \in S
<1> DEFINE Bad == {n \in Nat : n \notin S}
<1> SUFFICES ASSUME Bad # {} PROVE FALSE
  OBVIOUS
<1>1. PICK n \in Bad : \A k \in Bad : n <= k
  <2>1. Bad \in SUBSET Nat
    OBVIOUS
  <2> HIDE DEF Bad
  <2> QED
    BY <2>1, Minimum
<1>2. n \in Nat /\ n # 0 /\ n \notin S
  OBVIOUS
<1>3. n - 1 \in Nat /\ ~(n <= n - 1) /\ n - 1 + 1 = n
  BY <1>2
<1>4. n - 1 \notin Bad
  <2> HIDE DEF Bad
  <2> QED
    BY <1>1, <1>3
<1>5. n - 1 \in S
  BY <1>3, <1>4
<1> QED
  BY <1>2, <1>3, <1>5

\* Induction up to a bound.
LEMMA UpTo ==
    ASSUME NEW last \in Nat, NEW S, 0 \in S, \A k \in 1 .. last : k - 1 \in S => k \in S
    PROVE  \A k \in 0 .. last : k \in S
<1> DEFINE T == {n \in Nat : n <= last => n \in S}
<1>1. 0 \in T
  OBVIOUS
<1>2. ASSUME NEW n \in Nat, n \in T
      PROVE  n + 1 \in T
  <2>1. n + 1 <= last => n + 1 \in 1 .. last /\ n + 1 - 1 = n
    OBVIOUS
  <2> QED
    BY <1>2, <2>1
<1> HIDE DEF T
<1>3. \A n \in Nat : n \in T
  BY <1>1, <1>2, AllNumbers
<1> QED
  BY <1>3 DEF T

-----------------------------------------------------------------------------
(* Loops as recursive functions.                                           *)

\* The state after every round of a loop.
IsLoop(f, base, step, last) ==
    f = [k \in 0 .. last |-> IF k = 0 THEN base ELSE step[<<k, f[k - 1]>>]]

\* A loop with states in S: the function with the state after every round exists.
LEMMA Loop ==
    ASSUME NEW S, NEW base \in S, NEW step \in [Nat \X S -> S], NEW last \in Nat
    PROVE  \E f \in [0 .. last -> S] : IsLoop(f, base, step, last)
<1> DEFINE Is(f, n) == IsLoop(f, base, step, n)
           Good == {n \in Nat : \E f \in [0 .. n -> S] : Is(f, n)}
<1>1. 0 \in Good
  <2> DEFINE f == [k \in 0 .. 0 |-> base]
  <2>1. f \in [0 .. 0 -> S] /\ Is(f, 0)
    BY DEF IsLoop
  <2> QED
    BY <2>1
<1>2. ASSUME NEW n \in Nat, n \in Good
      PROVE  n + 1 \in Good
  <2>1. PICK f \in [0 .. n -> S] : Is(f, n)
    BY <1>2
  <2> DEFINE next == step[<<n + 1, f[n]>>]
             g == [k \in 0 .. n + 1 |-> IF k = n + 1 THEN next ELSE f[k]]
  <2>2. next \in S
    OBVIOUS
  <2>3. g \in [0 .. n + 1 -> S]
    <3> HIDE DEF next
    <3> QED
      BY <2>2
  <2>4. ASSUME NEW k \in 0 .. n + 1
        PROVE  g[k] = IF k = 0 THEN base ELSE step[<<k, g[k - 1]>>]
    <3>1. CASE k = n + 1
      <4>1. g[k] = next /\ k # 0 /\ k - 1 = n /\ g[k - 1] = f[n]
        BY <3>1
      <4> QED
        BY <3>1, <4>1
    <3>2. CASE k # n + 1
      <4>1. k \in 0 .. n /\ g[k] = f[k] /\ (k # 0 => g[k - 1] = f[k - 1])
        BY <3>2
      <4>2. f[k] = IF k = 0 THEN base ELSE step[<<k, f[k - 1]>>]
        BY <2>1, <4>1 DEF IsLoop
      <4> HIDE DEF g
      <4> QED
        BY <4>1, <4>2
    <3> QED
      BY <3>1, <3>2
  <2>5. Is(g, n + 1)
    <3> HIDE DEF next
    <3> SUFFICES g = [k \in 0 .. n + 1 |-> IF k = 0 THEN base ELSE step[<<k, g[k - 1]>>]]
      BY DEF IsLoop
    <3>1. g = [k \in 0 .. n + 1 |-> g[k]]
      OBVIOUS
    <3> HIDE DEF g
    <3> QED
      BY <2>4, <3>1
  <2> HIDE DEF g, Is
  <2> QED
    BY <2>3, <2>5
<1> HIDE DEF Good
<1>3. last \in Good
  BY <1>1, <1>2, AllNumbers
<1> QED
  BY <1>3 DEF Good

-----------------------------------------------------------------------------
(* Reading a name.                                                         *)

\* The bytes of a message are numbers below 256.
LEMMA ByteFacts ==
    ASSUME NEW bytes \in Seq(Octet)
    PROVE  /\ Len(bytes) \in Nat
           /\ \A i \in 1 .. Len(bytes) : bytes[i] \in Octet /\ bytes[i] \in Nat /\ bytes[i] < 256
<1>1. ASSUME NEW i \in 1 .. Len(bytes)
      PROVE  bytes[i] \in Octet
  OBVIOUS
<1>2. \A x \in Octet : x \in Nat /\ x < 256
  BY DEF Octet
<1> QED
  BY <1>1, <1>2

RefTo(bytes, o) == ShortAt(bytes, o) % 16384

\* One more reference to follow than before.
FollowRow(bytes, left, before) ==
    [o \in 0 .. Len(bytes) - 1 |->
        LET next == ShortAt(bytes, o) % 16384
        IN IF ~IsRef(bytes[o + 1]) THEN o
           ELSE IF Len(bytes) < o + 2 \/ next >= Len(bytes) \/ left = 0 THEN Nowhere
           ELSE before[next]]

IsFollow(f, bytes) == f = [left \in 0 .. MaxHops |-> FollowRow(bytes, left, f[left - 1])]

\* With one reference more to follow, following still ends in the message or nowhere.
LEMMA RowFollows ==
    ASSUME NEW bytes \in Seq(Octet), NEW left \in Nat, NEW before,
           left = 0 \/ before \in [0 .. Len(bytes) - 1 -> -1 .. Len(bytes) - 1]
    PROVE  FollowRow(bytes, left, before) \in [0 .. Len(bytes) - 1 -> -1 .. Len(bytes) - 1]
<1> DEFINE size == Len(bytes)
<1> SUFFICES ASSUME NEW o \in 0 .. size - 1
             PROVE  FollowRow(bytes, left, before)[o] \in -1 .. size - 1
  BY DEF FollowRow
<1> DEFINE next == ShortAt(bytes, o) % 16384
<1>1. o + 1 \in 1 .. size /\ bytes[o + 1] \in Nat /\ Nowhere = -1 /\ size \in Nat
  BY ByteFacts DEF Nowhere
<1>2. ASSUME o + 2 <= size
      PROVE  next \in Nat
  <2>1. bytes[o + 2] \in Nat
    BY <1>1, <1>2, ByteFacts
  <2> QED
    BY <1>1, <2>1 DEF ShortAt
<1> HIDE DEF next
<1>3. FollowRow(bytes, left, before)[o] =
          IF ~IsRef(bytes[o + 1]) THEN o
          ELSE IF size < o + 2 \/ next >= size \/ left = 0 THEN Nowhere ELSE before[next]
  BY DEF FollowRow, next
<1>4. CASE ~IsRef(bytes[o + 1]) \/ size < o + 2 \/ next >= size \/ left = 0
  BY <1>1, <1>3, <1>4
<1>5. CASE ~(~IsRef(bytes[o + 1]) \/ size < o + 2 \/ next >= size \/ left = 0)
  <2>1. next \in 0 .. size - 1
    BY <1>1, <1>2, <1>5
  <2> QED
    BY <1>3, <1>5, <2>1
<1> QED
  BY <1>4, <1>5

\* The recursive function of Follow: MaxHops rounds of FollowRow.
LEMMA FollowExists ==
    ASSUME NEW bytes \in Seq(Octet)
    PROVE  \E f \in [0 .. MaxHops -> [0 .. Len(bytes) - 1 -> -1 .. Len(bytes) - 1]] : IsFollow(f, bytes)
<1> DEFINE S == [0 .. Len(bytes) - 1 -> -1 .. Len(bytes) - 1]
           base == FollowRow(bytes, 0, <<>>)
           step == [x \in Nat \X S |-> FollowRow(bytes, x[1], x[2])]
<1>1. base \in S
  BY RowFollows
<1>2. step \in [Nat \X S -> S]
  BY RowFollows
<1>3. \A before : FollowRow(bytes, 0, before) = base
  BY DEF FollowRow
<1>4. \A left \in Nat, before \in S : step[<<left, before>>] = FollowRow(bytes, left, before)
  OBVIOUS
<1>5. MaxHops \in Nat
  BY DEF MaxHops
<1> HIDE DEF S, base, step
<1>6. PICK f \in [0 .. MaxHops -> S] : IsLoop(f, base, step, MaxHops)
  BY <1>1, <1>2, <1>5, Loop
<1>7. \A k \in 0 .. MaxHops : f[k] = FollowRow(bytes, k, f[k - 1])
  BY <1>3, <1>4, <1>5, <1>6 DEF IsLoop
<1>8. f = [k \in 0 .. MaxHops |-> f[k]]
  OBVIOUS
<1>9. IsFollow(f, bytes)
  BY <1>7, <1>8 DEF IsFollow
<1> QED
  BY <1>9 DEF S

\* Where a reference leads, when it leads to a label.
LEMMA Follows ==
    ASSUME NEW bytes \in Seq(Octet), NEW at \in 0 .. Len(bytes) - 1
    PROVE  /\ Follow(bytes, at) \in -1 .. Len(bytes) - 1
           /\ ~IsRef(bytes[at + 1]) => Follow(bytes, at) = at
           /\ (/\ IsRef(bytes[at + 1]) /\ at + 2 <= Len(bytes)
               /\ RefTo(bytes, at) < Len(bytes) /\ ~IsRef(bytes[RefTo(bytes, at) + 1]))
              => Follow(bytes, at) = RefTo(bytes, at)
<1> DEFINE S == [0 .. Len(bytes) - 1 -> -1 .. Len(bytes) - 1]
           f == CHOOSE g : IsFollow(g, bytes)
<1>1. PICK h \in [0 .. MaxHops -> S] : IsFollow(h, bytes)
  BY FollowExists
<1>2. IsFollow(f, bytes)
  BY <1>1
<1>3. Follow(bytes, at) = f[MaxHops][at]
  BY DEF Follow, IsFollow, FollowRow
<1> HIDE DEF f
<1>4. MaxHops = 16
  BY DEF MaxHops
<1>5. f[16] = FollowRow(bytes, 16, f[15]) /\ f[15] = FollowRow(bytes, 15, f[14])
  BY <1>2, <1>4 DEF IsFollow
<1>6. /\ f[16] = [o \in 0 .. Len(bytes) - 1 |->
            IF ~IsRef(bytes[o + 1]) THEN o
            ELSE IF Len(bytes) < o + 2 \/ RefTo(bytes, o) >= Len(bytes) THEN Nowhere
            ELSE f[15][RefTo(bytes, o)]]
      /\ \A o \in 0 .. Len(bytes) - 1 : ~IsRef(bytes[o + 1]) => f[15][o] = o
  BY <1>5 DEF FollowRow, RefTo
<1>7. ASSUME at + 2 <= Len(bytes)
      PROVE  RefTo(bytes, at) \in Nat
  <2>1. bytes[at + 1] \in Nat /\ bytes[at + 2] \in Nat
    BY <1>7, ByteFacts
  <2> QED
    BY <2>1 DEF RefTo, ShortAt
<1>8. f[16][at] \in -1 .. Len(bytes) - 1
  <2> DEFINE G == {k \in 0 .. 16 : f[k] \in S}
  <2>1. 0 \in G
    <3>1. f[0] = FollowRow(bytes, 0, f[0 - 1])
      <4>1. 0 \in 0 .. MaxHops
        BY <1>4
      <4> QED
        BY <1>2, <4>1, Zenon DEF IsFollow
    <3>2. f[0] \in S
      BY <3>1, RowFollows
    <3> QED
      BY <3>2
  <2>2. ASSUME NEW k \in 1 .. 16, k - 1 \in G
        PROVE  k \in G
    <3>1. f[k] = FollowRow(bytes, k, f[k - 1])
      <4>1. k \in 0 .. MaxHops
        BY <1>4
      <4> QED
        BY <1>2, <4>1, Zenon DEF IsFollow
    <3>2. f[k - 1] \in S
      BY <2>2
    <3>3. f[k] \in S
      BY <3>1, <3>2, RowFollows
    <3> QED
      BY <3>3
  <2> HIDE DEF G
  <2>3. 16 \in G
    BY <2>1, <2>2, UpTo
  <2> QED
    BY <2>3 DEF G
<1>9. ~IsRef(bytes[at + 1]) => f[16][at] = at
  BY <1>6
<1>10. ASSUME IsRef(bytes[at + 1]), at + 2 <= Len(bytes),
             RefTo(bytes, at) < Len(bytes), ~IsRef(bytes[RefTo(bytes, at) + 1])
      PROVE  f[16][at] = RefTo(bytes, at)
  <2>1. RefTo(bytes, at) \in 0 .. Len(bytes) - 1
    BY <1>7, <1>10, ByteFacts
  <2>2. f[16][at] = f[15][RefTo(bytes, at)]
    BY <1>6, <1>10, <2>1, ByteFacts
  <2> QED
    BY <1>6, <1>10, <2>1, <2>2
<1> QED
  BY <1>3, <1>4, <1>8, <1>9, <1>10

\* The next substring lies in the bytes, or is none.
Subs == [offset : Int, length : Nat, ref : BOOLEAN]

\* A label that is found lies inside of the message.
LEMMA NextType ==
    ASSUME NEW bytes \in Seq(Octet), NEW at \in 0 .. Len(bytes)
    PROVE  LET sub == mdns_get_next_substring(bytes, at)
           IN /\ sub \in Subs
              /\ sub.offset # Nowhere => sub.offset + sub.length \in 0 .. Len(bytes)
<1> DEFINE sub == mdns_get_next_substring(bytes, at)
           to == Follow(bytes, at)
<1>1. Len(bytes) \in Nat /\ Nowhere = -1 /\ IsRef(bytes[at + 1]) \in BOOLEAN
  BY ByteFacts DEF Nowhere, IsRef
<1>2. CASE at >= Len(bytes) \/ bytes[at + 1] = 0
  BY <1>1, <1>2 DEF mdns_get_next_substring, Substring, Subs
<1>3. ASSUME ~(at >= Len(bytes) \/ bytes[at + 1] = 0)
      PROVE  sub \in Subs /\ (sub.offset # Nowhere => sub.offset + sub.length \in 0 .. Len(bytes))
  <2>1. at \in 0 .. Len(bytes) - 1
    BY <1>1, <1>3
  <2>2. to \in -1 .. Len(bytes) - 1
    BY <2>1, Follows
  <2>3. sub = SubstringAt(bytes, to, IsRef(bytes[at + 1]))
    BY <1>1, <1>3, <2>1 DEF mdns_get_next_substring
  <2> HIDE DEF to, sub
  <2>4. to # Nowhere => bytes[to + 1] \in Nat
    BY <1>1, <2>2, ByteFacts
  <2>5. CASE to = Nowhere \/ Len(bytes) < to + 1 + bytes[to + 1]
    BY <1>1, <2>3, <2>5 DEF SubstringAt, Substring, Subs
  <2>6. CASE ~(to = Nowhere \/ Len(bytes) < to + 1 + bytes[to + 1])
    <3>1. sub = [offset |-> to + 1, length |-> bytes[to + 1], ref |-> IsRef(bytes[at + 1])]
      BY <2>3, <2>6 DEF SubstringAt, Substring
    <3>2. to \in 0 .. Len(bytes) - 1 /\ bytes[to + 1] \in Nat /\ to + 1 + bytes[to + 1] <= Len(bytes)
      BY <1>1, <2>2, <2>4, <2>6
    <3> QED
      BY <1>1, <3>1, <3>2 DEF Subs
  <2> QED
    BY <2>5, <2>6
<1> QED
  BY <1>2, <1>3

\* The label at an offset, and a label that is there or where a reference leads to.
LabelAt(bytes, at, label) ==
    /\ at \in Nat /\ at + 1 + Len(label) <= Len(bytes)
    /\ bytes[at + 1] = Len(label)
    /\ \A i \in 1 .. Len(label) : bytes[at + 1 + i] = label[i]

Target(bytes, at) == IF IsRef(bytes[at + 1]) THEN RefTo(bytes, at) ELSE at

Reads(bytes, at, label, next) ==
    /\ at \in Nat /\ at < Len(bytes)
    /\ IsRef(bytes[at + 1]) => at + 2 <= Len(bytes)
    /\ LabelAt(bytes, Target(bytes, at), label)
    /\ next = Target(bytes, at) + 1 + Len(label)

\* mdns_get_next_substring reads the label that lies at an offset, or behind a reference to it.
LEMMA ReadsNext ==
    ASSUME NEW bytes \in Seq(Octet), NEW label \in Label, NEW at, NEW next,
           Reads(bytes, at, label, next)
    PROVE  LET sub == mdns_get_next_substring(bytes, at)
           IN /\ at \in 0 .. Len(bytes) /\ next \in 0 .. Len(bytes)
              /\ sub \in Subs /\ sub.length = Len(label) /\ sub.length # 0
              /\ sub.offset # Nowhere /\ sub.offset + sub.length = next
              /\ Part(bytes, sub.offset, sub.length) = label
              /\ sub.ref = IsRef(bytes[at + 1])
<1> DEFINE sub == mdns_get_next_substring(bytes, at)
           to == Target(bytes, at)
           length == Len(label)
<1>1. label \in Seq(Octet) /\ length \in 1 .. 191
  BY DEF Label
<1>2. at \in 0 .. Len(bytes) - 1 /\ Len(bytes) \in Nat /\ Nowhere = -1
  BY ByteFacts DEF Reads, Nowhere
<1>3. /\ to \in Nat /\ to + 1 + length <= Len(bytes) /\ bytes[to + 1] = length
      /\ \A i \in 1 .. length : bytes[to + 1 + i] = label[i]
      /\ next = to + 1 + length
      /\ IsRef(bytes[at + 1]) => at + 2 <= Len(bytes)
  BY DEF Reads, LabelAt
<1>4. to = IF IsRef(bytes[at + 1]) THEN RefTo(bytes, at) ELSE at
  BY DEF Target
<1> HIDE DEF to, length
<1>5. ~IsRef(bytes[to + 1])
  <2> DEFINE b == bytes[to + 1]
  <2>1. b \in 1 .. 191
    BY <1>1, <1>3
  <2> HIDE DEF b
  <2>2. ~(b >= 192)
    BY <2>1
  <2> QED
    BY <2>2 DEF IsRef, b
<1>6. Follow(bytes, at) = to
  <2>1. CASE IsRef(bytes[at + 1])
    <3>1. RefTo(bytes, at) = to
      BY <1>4, <2>1, Zenon
    <3>2. at + 2 <= Len(bytes)
      BY <1>3, <2>1, Zenon
    <3>3. to < Len(bytes)
      BY <1>1, <1>2, <1>3
    <3> QED
      BY <1>2, <1>5, <2>1, <3>1, <3>2, <3>3, Follows
  <2>2. CASE ~IsRef(bytes[at + 1])
    BY <1>2, <1>4, <2>2, Follows
  <2> QED
    BY <2>1, <2>2
<1>7. bytes[at + 1] # 0
  <2>1. CASE IsRef(bytes[at + 1])
    BY <2>1 DEF IsRef
  <2>2. CASE ~IsRef(bytes[at + 1])
    <3>1. to = at
      BY <1>4, <2>2, Zenon
    <3> QED
      BY <1>1, <1>3, <3>1
  <2> QED
    BY <2>1, <2>2
<1>8. sub = SubstringAt(bytes, to, IsRef(bytes[at + 1]))
  <2>1. ~(at >= Len(bytes))
    BY <1>2
  <2> QED
    BY <1>6, <1>7, <2>1, Zenon DEF mdns_get_next_substring
<1> HIDE DEF sub
<1>9. sub = [offset |-> to + 1, length |-> length, ref |-> IsRef(bytes[at + 1])]
  BY <1>1, <1>2, <1>3, <1>8 DEF SubstringAt, Substring
<1>10. Part(bytes, to + 1, length) = label
  <2> DEFINE part == SubSeq(bytes, to + 2, to + 1 + length)
  <2>1. Part(bytes, to + 1, length) = part
    <3>1. to + 1 + 1 = to + 2
      BY <1>3
    <3> QED
      BY <3>1 DEF Part
  <2>2. part \in Seq(Octet) /\ Len(part) = length
    BY <1>1, <1>2, <1>3
  <2>3. ASSUME NEW i \in 1 .. length
        PROVE  part[i] = label[i]
    <3>1. part[i] = bytes[to + 1 + i]
      BY <1>1, <1>2, <1>3
    <3> QED
      BY <1>3, <3>1
  <2> HIDE DEF part
  <2> QED
    BY <1>1, <2>1, <2>2, <2>3 DEF length
<1>11. sub \in Subs
  BY <1>1, <1>3, <1>9 DEF Subs, IsRef
<1>12. sub.length = Len(label) /\ sub.length # 0 /\ sub.offset # Nowhere /\ sub.offset + sub.length = next
       /\ sub.ref = IsRef(bytes[at + 1])
  <2>1. sub.length = length /\ sub.offset = to + 1 /\ sub.ref = IsRef(bytes[at + 1])
    BY <1>9, Zenon
  <2>2. to + 1 # Nowhere /\ to + 1 + length = next /\ length # 0
    BY <1>1, <1>3 DEF Nowhere
  <2> QED
    BY <2>1, <2>2 DEF length
<1>13. Part(bytes, sub.offset, sub.length) = label
  BY <1>9, <1>10
<1>14. at \in 0 .. Len(bytes) /\ next \in 0 .. Len(bytes)
  BY <1>1, <1>2, <1>3
<1> QED
  BY <1>11, <1>12, <1>13, <1>14 DEF sub

\* The zero byte at the end of a name is a label of no length.
LEMMA StopsNext ==
    ASSUME NEW bytes \in Seq(Octet), NEW at \in Nat, at < Len(bytes), bytes[at + 1] = 0
    PROVE  mdns_get_next_substring(bytes, at) = [offset |-> at, length |-> 0, ref |-> FALSE]
BY ByteFacts DEF mdns_get_next_substring, Substring

\* The loop of mdns_string_extract, one more substring at a time.
WalkRow(bytes, left, before) ==
    [cur \in 0 .. Len(bytes) |->
        LET sub == mdns_get_next_substring(bytes, cur)
            rest == before[sub.offset + sub.length]
        IN IF sub.offset = Nowhere \/ left = 0 THEN <<>>
           ELSE IF sub.length = 0 THEN <<sub>>
           ELSE IF rest = <<>> THEN <<>> ELSE <<sub>> \o rest]

IsWalk(f, bytes) == f = [left \in 0 .. MaxSubstrings + 1 |-> WalkRow(bytes, left, f[left - 1])]

\* One more label of a walk is a label, or the end.
LEMMA RowWalks ==
    ASSUME NEW bytes \in Seq(Octet), NEW left \in Nat, NEW before,
           left = 0 \/ before \in [0 .. Len(bytes) -> Seq(Subs)]
    PROVE  WalkRow(bytes, left, before) \in [0 .. Len(bytes) -> Seq(Subs)]
<1> SUFFICES ASSUME NEW cur \in 0 .. Len(bytes)
             PROVE  WalkRow(bytes, left, before)[cur] \in Seq(Subs)
  BY DEF WalkRow
<1> DEFINE sub == mdns_get_next_substring(bytes, cur)
           rest == before[sub.offset + sub.length]
<1>1. sub \in Subs /\ (sub.offset # Nowhere => sub.offset + sub.length \in 0 .. Len(bytes))
  BY NextType
<1>2. WalkRow(bytes, left, before)[cur] =
          IF sub.offset = Nowhere \/ left = 0 THEN <<>>
          ELSE IF sub.length = 0 THEN <<sub>>
          ELSE IF rest = <<>> THEN <<>> ELSE <<sub>> \o rest
  BY DEF WalkRow
<1> HIDE DEF sub
<1>3. CASE sub.offset = Nowhere \/ left = 0
  BY <1>2, <1>3
<1>4. CASE ~(sub.offset = Nowhere \/ left = 0)
  <2>1. rest \in Seq(Subs)
    BY <1>1, <1>4
  <2>2. <<sub>> \in Seq(Subs)
    BY <1>1
  <2>3. <<sub>> \o rest \in Seq(Subs)
    BY <2>1, <2>2
  <2> HIDE DEF rest
  <2> QED
    BY <1>2, <1>4, <2>2, <2>3
<1> QED
  BY <1>3, <1>4

\* The recursive function of Substrings, round by round.
LEMMA WalkExists ==
    ASSUME NEW bytes \in Seq(Octet)
    PROVE  \E f : IsWalk(f, bytes)
<1> DEFINE S == [0 .. Len(bytes) -> Seq(Subs)]
           base == WalkRow(bytes, 0, <<>>)
           step == [x \in Nat \X S |-> WalkRow(bytes, x[1], x[2])]
           last == MaxSubstrings + 1
<1>1. base \in S
  BY RowWalks
<1>2. step \in [Nat \X S -> S]
  BY RowWalks
<1>3. \A before : WalkRow(bytes, 0, before) = base
  BY DEF WalkRow
<1>4. \A left \in Nat, before \in S : step[<<left, before>>] = WalkRow(bytes, left, before)
  OBVIOUS
<1>5. last \in Nat
  BY DEF MaxSubstrings
<1> HIDE DEF S, base, step, last
<1>6. PICK f \in [0 .. last -> S] : IsLoop(f, base, step, last)
  BY <1>1, <1>2, <1>5, Loop
<1>7. \A k \in 0 .. last : f[k] = WalkRow(bytes, k, f[k - 1])
  BY <1>3, <1>4, <1>5, <1>6 DEF IsLoop
<1>8. f = [k \in 0 .. last |-> f[k]]
  OBVIOUS
<1>9. IsWalk(f, bytes)
  BY <1>7, <1>8 DEF IsWalk, last
<1> QED
  BY <1>9

\* The loop of mdns_string_skip.
SkipRow(bytes, left, before) ==
    [cur \in 0 .. Len(bytes) |->
        LET sub == mdns_get_next_substring(bytes, cur)
        IN IF sub.offset = Nowhere \/ left = 0 THEN Nowhere
           ELSE IF sub.ref THEN cur + 2
           ELSE IF sub.length = 0 THEN sub.offset + 1
           ELSE before[sub.offset + sub.length]]

IsSkip(f, bytes) == f = [left \in 0 .. MaxSubstrings + 1 |-> SkipRow(bytes, left, f[left - 1])]

\* One more label of a skip leads to an offset.
LEMMA RowSkips ==
    ASSUME NEW bytes \in Seq(Octet), NEW left \in Nat, NEW before,
           left = 0 \/ before \in [0 .. Len(bytes) -> Int]
    PROVE  SkipRow(bytes, left, before) \in [0 .. Len(bytes) -> Int]
<1> SUFFICES ASSUME NEW cur \in 0 .. Len(bytes)
             PROVE  SkipRow(bytes, left, before)[cur] \in Int
  BY DEF SkipRow
<1> DEFINE sub == mdns_get_next_substring(bytes, cur)
<1>1. sub \in Subs /\ (sub.offset # Nowhere => sub.offset + sub.length \in 0 .. Len(bytes))
  BY NextType
<1>2. SkipRow(bytes, left, before)[cur] =
          IF sub.offset = Nowhere \/ left = 0 THEN Nowhere
          ELSE IF sub.ref THEN cur + 2
          ELSE IF sub.length = 0 THEN sub.offset + 1
          ELSE before[sub.offset + sub.length]
  BY DEF SkipRow
<1> HIDE DEF sub
<1>3. CASE sub.offset = Nowhere \/ left = 0
  BY <1>2, <1>3 DEF Nowhere
<1>4. CASE ~(sub.offset = Nowhere \/ left = 0)
  <2>1. before[sub.offset + sub.length] \in Int /\ cur + 2 \in Int /\ sub.offset + 1 \in Int
    BY <1>1, <1>4 DEF Subs
  <2> QED
    BY <1>2, <1>4, <2>1, Zenon
<1> QED
  BY <1>3, <1>4

\* The recursive function of mdns_string_skip, round by round.
LEMMA SkipExists ==
    ASSUME NEW bytes \in Seq(Octet)
    PROVE  \E f : IsSkip(f, bytes)
<1> DEFINE S == [0 .. Len(bytes) -> Int]
           base == SkipRow(bytes, 0, <<>>)
           step == [x \in Nat \X S |-> SkipRow(bytes, x[1], x[2])]
           last == MaxSubstrings + 1
<1>1. base \in S
  BY RowSkips
<1>2. step \in [Nat \X S -> S]
  BY RowSkips
<1>3. \A before : SkipRow(bytes, 0, before) = base
  BY DEF SkipRow
<1>4. \A left \in Nat, before \in S : step[<<left, before>>] = SkipRow(bytes, left, before)
  OBVIOUS
<1>5. last \in Nat
  BY DEF MaxSubstrings
<1> HIDE DEF S, base, step, last
<1>6. PICK f \in [0 .. last -> S] : IsLoop(f, base, step, last)
  BY <1>1, <1>2, <1>5, Loop
<1>7. \A k \in 0 .. last : f[k] = SkipRow(bytes, k, f[k - 1])
  BY <1>3, <1>4, <1>5, <1>6 DEF IsLoop
<1>8. f = [k \in 0 .. last |-> f[k]]
  OBVIOUS
<1>9. IsSkip(f, bytes)
  BY <1>7, <1>8 DEF IsSkip, last
<1> QED
  BY <1>9

\* A round of Substrings at an offset.
LEMMA WalkStep ==
    ASSUME NEW bytes, NEW f, IsWalk(f, bytes), NEW left \in 0 .. 65, NEW cur \in 0 .. Len(bytes)
    PROVE  LET sub == mdns_get_next_substring(bytes, cur)
               rest == f[left - 1][sub.offset + sub.length]
           IN f[left][cur] = IF sub.offset = Nowhere \/ left = 0 THEN <<>>
                             ELSE IF sub.length = 0 THEN <<sub>>
                             ELSE IF rest = <<>> THEN <<>> ELSE <<sub>> \o rest
<1>1. left \in 0 .. MaxSubstrings + 1
  BY DEF MaxSubstrings
<1>2. f[left] = WalkRow(bytes, left, f[left - 1])
  BY <1>1, Zenon DEF IsWalk
<1> QED
  BY <1>2, Zenon DEF WalkRow

\* A round of mdns_string_skip at an offset.
LEMMA SkipStep ==
    ASSUME NEW bytes, NEW f, IsSkip(f, bytes), NEW left \in 0 .. 65, NEW cur \in 0 .. Len(bytes)
    PROVE  LET sub == mdns_get_next_substring(bytes, cur)
           IN f[left][cur] = IF sub.offset = Nowhere \/ left = 0 THEN Nowhere
                             ELSE IF sub.ref THEN cur + 2
                             ELSE IF sub.length = 0 THEN sub.offset + 1
                             ELSE f[left - 1][sub.offset + sub.length]
<1>1. left \in 0 .. MaxSubstrings + 1
  BY DEF MaxSubstrings
<1>2. f[left] = SkipRow(bytes, left, f[left - 1])
  BY <1>1, Zenon DEF IsSkip
<1> QED
  BY <1>2, Zenon DEF SkipRow

\* Substrings starts with all rounds to go.
LEMMA Substrings65 ==
    ASSUME NEW bytes \in Seq(Octet), NEW at \in 0 .. Len(bytes)
    PROVE  \E f : IsWalk(f, bytes) /\ Substrings(bytes, at) = f[65][at]
<1> DEFINE f == CHOOSE g : IsWalk(g, bytes)
<1>1. IsWalk(f, bytes)
  BY WalkExists
<1>2. Substrings(bytes, at) = IF at > Len(bytes) THEN <<>> ELSE f[MaxSubstrings + 1][at]
  BY DEF Substrings, IsWalk, WalkRow
<1> HIDE DEF f
<1>3. ~(at > Len(bytes)) /\ MaxSubstrings + 1 = 65
  BY ByteFacts DEF MaxSubstrings
<1>4. Substrings(bytes, at) = f[65][at]
  BY <1>2, <1>3
<1> QED
  BY <1>1, <1>4

\* mdns_string_skip starts with all rounds to go.
LEMMA Skip65 ==
    ASSUME NEW bytes \in Seq(Octet), NEW at \in 0 .. Len(bytes)
    PROVE  \E f : IsSkip(f, bytes) /\ mdns_string_skip(bytes, at) = f[65][at]
<1> DEFINE f == CHOOSE g : IsSkip(g, bytes)
<1>1. IsSkip(f, bytes)
  BY SkipExists
<1>2. mdns_string_skip(bytes, at) = IF at > Len(bytes) THEN Nowhere ELSE f[MaxSubstrings + 1][at]
  BY DEF mdns_string_skip, IsSkip, SkipRow
<1> HIDE DEF f
<1>3. ~(at > Len(bytes)) /\ MaxSubstrings + 1 = 65
  BY ByteFacts DEF MaxSubstrings
<1>4. mdns_string_skip(bytes, at) = f[65][at]
  BY <1>2, <1>3
<1> QED
  BY <1>1, <1>4

\* The places of the labels from the k-th on, and of the empty label behind them.
NamePath(bytes, p, labels, k) ==
    /\ \A i \in k .. Len(labels) + 1 : p[i] \in Nat
    /\ \A i \in k .. Len(labels) : Reads(bytes, p[i], labels[i], p[i + 1])
    /\ p[Len(labels) + 1] < Len(bytes) /\ bytes[p[Len(labels) + 1] + 1] = 0

\* A name has at least one and at most 64 labels, no label twice.
LEMMA NameFacts ==
    ASSUME NEW labels \in DnsName
    PROVE  /\ labels \in Seq(Label) /\ Len(labels) \in 1 .. 64
           /\ \A i \in 1 .. Len(labels) : labels[i] \in Label
           /\ \A i, j \in 1 .. Len(labels) : labels[i] = labels[j] => i = j
           /\ Last(labels) = labels[Len(labels)]
<1>1. labels \in Seq(Label) /\ Len(labels) \in 1 .. 64 /\ IsInjective(labels)
  BY DEF DnsName, MaxSubstrings
<1>2. DOMAIN labels = 1 .. Len(labels)
  BY <1>1
<1>3. \A i \in 1 .. Len(labels) : labels[i] \in Label
  BY <1>1
<1>4. \A i, j \in 1 .. Len(labels) : labels[i] = labels[j] => i = j
  BY <1>1, <1>2, Zenon DEF IsInjective
<1>5. Last(labels) = labels[Len(labels)]
  BY DEF Last
<1> QED
  BY <1>1, <1>3, <1>4, <1>5, Zenon

\* A name on a path: what is known of a place of a label, and of the last place.
LEMMA PathFacts ==
    ASSUME NEW bytes \in Seq(Octet), NEW labels \in DnsName, NEW k \in 1 .. Len(labels),
           NEW p, NamePath(bytes, p, labels, k)
    PROVE  /\ \A i \in k .. Len(labels) :
                 /\ i \in 1 .. Len(labels) /\ i + 1 \in k .. Len(labels) + 1
                 /\ labels[i] \in Label /\ Reads(bytes, p[i], labels[i], p[i + 1])
                 /\ p[i] \in 0 .. Len(bytes)
           /\ p[Len(labels) + 1] \in 0 .. Len(bytes)
           /\ mdns_get_next_substring(bytes, p[Len(labels) + 1])
                = [offset |-> p[Len(labels) + 1], length |-> 0, ref |-> FALSE]
<1> DEFINE n == Len(labels)
           end == p[n + 1]
<1>1. n \in 1 .. 64 /\ \A i \in 1 .. n : labels[i] \in Label
  BY NameFacts
<1>2. /\ \A i \in k .. n : Reads(bytes, p[i], labels[i], p[i + 1])
      /\ end < Len(bytes) /\ bytes[end + 1] = 0
      /\ \A i \in k .. n + 1 : p[i] \in Nat
  BY DEF NamePath
<1>3. end \in Nat
  <2>1. n + 1 \in k .. n + 1
    BY <1>1
  <2> QED
    BY <1>2, <2>1
<1> HIDE DEF n, end
<1>4. end \in 0 .. Len(bytes)
  BY <1>2, <1>3, ByteFacts
<1>5. mdns_get_next_substring(bytes, end) = [offset |-> end, length |-> 0, ref |-> FALSE]
  BY <1>2, <1>3, StopsNext
<1>6. ASSUME NEW i \in k .. n
      PROVE  /\ i \in 1 .. n /\ i + 1 \in k .. n + 1
             /\ labels[i] \in Label /\ Reads(bytes, p[i], labels[i], p[i + 1])
             /\ p[i] \in 0 .. Len(bytes)
  <2>1. i \in 1 .. n /\ i + 1 \in k .. n + 1
    BY <1>1 DEF n
  <2>2. labels[i] \in Label /\ Reads(bytes, p[i], labels[i], p[i + 1])
    BY <1>1, <1>2, <2>1
  <2>3. p[i] \in 0 .. Len(bytes)
    BY <2>2, ReadsNext
  <2> QED
    BY <2>1, <2>2, <2>3
<1> QED
  BY <1>4, <1>5, <1>6 DEF n, end

\* What the walk finds from the label on that has d labels behind it: these labels,
\* and the end.
Found(bytes, labels, w, d) ==
    /\ w \in Seq(Subs) /\ Len(w) = d + 1
    /\ \A j \in 1 .. d :
           Part(bytes, w[j].offset, w[j].length) = labels[Len(labels) - d + j]

\* A label in front of what a walk has found is found too.
LEMMA WalkFinds ==
    ASSUME NEW bytes \in Seq(Octet), NEW labels \in DnsName, NEW f, IsWalk(f, bytes),
           NEW d \in 1 .. Len(labels), NEW cur, NEW next,
           Reads(bytes, cur, labels[Len(labels) + 1 - d], next),
           NEW left \in 1 .. 65, Found(bytes, labels, f[left - 1][next], d - 1)
    PROVE  Found(bytes, labels, f[left][cur], d)
<1> DEFINE n == Len(labels)
           label == labels[n + 1 - d]
           rest == f[left - 1][next]
           sub == mdns_get_next_substring(bytes, cur)
           w == <<sub>> \o rest
<1>1. n \in 1 .. 64 /\ n + 1 - d \in 1 .. n
  BY NameFacts
<1>2. label \in Label
  BY <1>1, NameFacts
<1>3. /\ cur \in 0 .. Len(bytes) /\ sub \in Subs /\ sub.length # 0 /\ sub.offset # Nowhere
      /\ sub.offset + sub.length = next
      /\ Part(bytes, sub.offset, sub.length) = label
  <2> HIDE DEF label
  <2> QED
    BY <1>2, ReadsNext DEF label
<1>4. f[left][cur] = IF sub.offset = Nowhere \/ left = 0 THEN <<>>
                     ELSE IF sub.length = 0 THEN <<sub>>
                     ELSE IF rest = <<>> THEN <<>> ELSE <<sub>> \o rest
  <2>1. left \in 0 .. 65
    OBVIOUS
  <2>2. f[left][cur] = IF sub.offset = Nowhere \/ left = 0 THEN <<>>
                       ELSE IF sub.length = 0 THEN <<sub>>
                       ELSE IF f[left - 1][sub.offset + sub.length] = <<>> THEN <<>>
                       ELSE <<sub>> \o f[left - 1][sub.offset + sub.length]
    BY <1>3, <2>1, WalkStep, Zenon
  <2> QED
    BY <1>3, <2>2, Zenon
<1>5. rest \in Seq(Subs) /\ Len(rest) = d
      /\ \A j \in 1 .. d - 1 : Part(bytes, rest[j].offset, rest[j].length) = labels[n - (d - 1) + j]
  BY DEF Found
<1> HIDE DEF n, label, rest, sub
<1>6. f[left][cur] = w
  <2>1. rest # <<>> /\ left # 0
    BY <1>5
  <2> QED
    BY <1>3, <1>4, <2>1, Zenon
<1>7. w \in Seq(Subs) /\ Len(w) = d + 1 /\ w[1] = sub /\ \A j \in 2 .. d : w[j] = rest[j - 1]
  BY <1>3, <1>5
<1> HIDE DEF w
<1>8. ASSUME NEW j \in 1 .. d
      PROVE  Part(bytes, w[j].offset, w[j].length) = labels[n - d + j]
  <2>1. CASE j = 1
    <3>1. n - d + j = n + 1 - d
      BY <1>1, <2>1
    <3> QED
      BY <1>3, <1>7, <2>1, <3>1 DEF label
  <2>2. CASE j # 1
    <3>1. j \in 2 .. d /\ j - 1 \in 1 .. d - 1 /\ n - (d - 1) + (j - 1) = n - d + j
      BY <1>1, <2>2
    <3>2. w[j] = rest[j - 1]
      BY <1>7, <3>1
    <3> QED
      BY <1>5, <3>1, <3>2
  <2> QED
    BY <2>1, <2>2
<1> QED
  BY <1>6, <1>7, <1>8 DEF Found, n

\* mdns_string_extract reads the text of a name that lies along a path, references or not.
LEMMA ExtractReads ==
    ASSUME NEW bytes \in Seq(Octet), NEW labels \in DnsName, NEW p, NamePath(bytes, p, labels, 1)
    PROVE  mdns_string_extract(bytes, p[1]) = NameText(labels)
<1> DEFINE n == Len(labels)
<1>1. n \in 1 .. 64 /\ 1 \in 1 .. n
  BY NameFacts
<1>2. /\ \A i \in 1 .. n : Reads(bytes, p[i], labels[i], p[i + 1]) /\ p[i] \in 0 .. Len(bytes)
      /\ p[n + 1] \in 0 .. Len(bytes)
      /\ mdns_get_next_substring(bytes, p[n + 1]) = [offset |-> p[n + 1], length |-> 0, ref |-> FALSE]
  BY <1>1, PathFacts
<1> HIDE DEF n
<1>3. PICK f : IsWalk(f, bytes) /\ Substrings(bytes, p[1]) = f[65][p[1]]
  BY <1>1, <1>2, Substrings65
<1> DEFINE G == {d \in 0 .. n : Found(bytes, labels, f[65 - n + d][p[n + 1 - d]], d)}
<1>4. 0 \in G
  <2> DEFINE sub == mdns_get_next_substring(bytes, p[n + 1])
  <2>1. 65 - n \in 0 .. 65 /\ 65 - n # 0 /\ n + 1 - 0 = n + 1 /\ 65 - n + 0 = 65 - n
    BY <1>1
  <2>2. f[65 - n][p[n + 1]] = IF sub.offset = Nowhere \/ 65 - n = 0 THEN <<>>
                     ELSE IF sub.length = 0 THEN <<sub>>
                     ELSE IF f[65 - n - 1][sub.offset + sub.length] = <<>> THEN <<>>
                     ELSE <<sub>> \o f[65 - n - 1][sub.offset + sub.length]
    BY <1>2, <1>3, <2>1, WalkStep, ZenonT(30)
  <2>3. sub = [offset |-> p[n + 1], length |-> 0, ref |-> FALSE]
    BY <1>2
  <2> HIDE DEF sub
  <2>4. sub.offset # Nowhere /\ sub.length = 0 /\ sub \in Subs
    BY <1>2, <2>3 DEF Nowhere, Subs
  <2>5. f[65 - n][p[n + 1]] = <<sub>>
    BY <2>1, <2>2, <2>4, Zenon
  <2>6. Found(bytes, labels, <<sub>>, 0)
    BY <2>4 DEF Found
  <2>7. Found(bytes, labels, f[65 - n + 0][p[n + 1 - 0]], 0)
    BY <2>1, <2>5, <2>6
  <2>8. 0 \in 0 .. n
    BY <1>1
  <2> QED
    BY <2>7, <2>8, Zenon
<1>5. ASSUME NEW d \in 1 .. n, d - 1 \in G
      PROVE  d \in G
  <2> DEFINE i == n + 1 - d
             left == 65 - n + d
  <2>1. i \in 1 .. n /\ i + 1 = n + 1 - (d - 1) /\ left \in 1 .. 65 /\ left - 1 = 65 - n + (d - 1)
    BY <1>1
  <2>2. Found(bytes, labels, f[left - 1][p[i + 1]], d - 1)
    BY <1>5, <2>1
  <2>3. Reads(bytes, p[i], labels[Len(labels) + 1 - d], p[i + 1])
    BY <1>2, <2>1 DEF n
  <2>4. Found(bytes, labels, f[left][p[i]], d)
    <3>1. d \in 1 .. Len(labels)
      BY DEF n
    <3> HIDE DEF i, left
    <3> QED
      BY <1>3, <2>1, <2>2, <2>3, <3>1, WalkFinds
  <2> QED
    BY <2>4
<1> HIDE DEF G
<1>6. n \in G
  <2>1. n \in Nat
    BY <1>1
  <2>2. \A d \in 0 .. n : d \in G
    BY <1>4, <1>5, <2>1, UpTo
  <2> QED
    BY <2>1, <2>2
<1> DEFINE w == f[65][p[1]]
<1>7. w \in Seq(Subs) /\ Len(w) = n + 1 /\ \A k \in 1 .. n : Part(bytes, w[k].offset, w[k].length) = labels[k]
  <2>1. 65 - n + n = 65 /\ n + 1 - n = 1
    BY <1>1
  <2>2. Found(bytes, labels, w, n)
    BY <1>6, <2>1 DEF G
  <2> HIDE DEF w
  <2>3. \A k \in 1 .. n : n - n + k = k
    BY <1>1
  <2> QED
    BY <2>2, <2>3 DEF Found, n
<1>8. Substrings(bytes, p[1]) = w
  BY <1>3
<1> HIDE DEF w
<1>9. w # <<>> /\ Len(w) - 1 = n
  BY <1>1, <1>7
<1>10. [k \in 1 .. Len(w) - 1 |-> Part(bytes, w[k].offset, w[k].length)] = labels
  <2>1. labels = [k \in 1 .. n |-> labels[k]]
    BY NameFacts DEF n
  <2> QED
    BY <1>7, <1>9, <2>1
<1> QED
  BY <1>8, <1>9, <1>10, Zenon DEF mdns_string_extract, SubstringsText

\* The first place of a name where nothing more of it is written: a reference, or
\* the empty label.
EndsAt(bytes, p, labels, j, end) ==
    /\ j \in 1 .. Len(labels) + 1
    /\ \A i \in 1 .. j - 1 : ~IsRef(bytes[p[i] + 1])
    /\ \/ j <= Len(labels) /\ IsRef(bytes[p[j] + 1]) /\ end = p[j] + 2
       \/ j = Len(labels) + 1 /\ end = p[j] + 1

\* mdns_string_skip goes behind the zero or the first reference of a name.
LEMMA SkipReads ==
    ASSUME NEW bytes \in Seq(Octet), NEW labels \in DnsName, NEW p, NamePath(bytes, p, labels, 1),
           NEW j, NEW end, EndsAt(bytes, p, labels, j, end)
    PROVE  mdns_string_skip(bytes, p[1]) = end
<1> DEFINE n == Len(labels)
<1>1. n \in 1 .. 64 /\ 1 \in 1 .. n
  <2>1. n \in 1 .. 64
    BY NameFacts
  <2> HIDE DEF n
  <2> QED
    BY <2>1
<1>2. /\ \A i \in 1 .. n : /\ labels[i] \in Label
                           /\ Reads(bytes, p[i], labels[i], p[i + 1]) /\ p[i] \in 0 .. Len(bytes)
      /\ p[n + 1] \in 0 .. Len(bytes)
      /\ mdns_get_next_substring(bytes, p[n + 1]) = [offset |-> p[n + 1], length |-> 0, ref |-> FALSE]
  BY <1>1, PathFacts
<1> HIDE DEF n
<1>3. PICK f : IsSkip(f, bytes) /\ mdns_string_skip(bytes, p[1]) = f[65][p[1]]
  BY <1>1, <1>2, Skip65
<1>4. /\ j \in 1 .. n + 1
      /\ \A i \in 1 .. j - 1 : ~IsRef(bytes[p[i] + 1])
      /\ \/ j <= n /\ IsRef(bytes[p[j] + 1]) /\ end = p[j] + 2
         \/ j = n + 1 /\ end = p[j] + 1
  BY DEF EndsAt, n
<1>5. 66 - j \in 0 .. 65 /\ 66 - j # 0
  BY <1>1, <1>4
<1> DEFINE G == {d \in 0 .. j - 1 : f[66 - j + d][p[j - d]] = end}
<1>6. f[66 - j][p[j]] = end
  <2> DEFINE sub == mdns_get_next_substring(bytes, p[j])
  <2>1. p[j] \in 0 .. Len(bytes) /\ (j <= n => j \in 1 .. n)
    <3>1. j \in 1 .. n \/ j = n + 1
      BY <1>1, <1>4
    <3> QED
      BY <1>1, <1>2, <1>4, <3>1
  <2>2. f[66 - j][p[j]] = IF sub.offset = Nowhere \/ 66 - j = 0 THEN Nowhere
                          ELSE IF sub.ref THEN p[j] + 2
                          ELSE IF sub.length = 0 THEN sub.offset + 1
                          ELSE f[66 - j - 1][sub.offset + sub.length]
    BY <1>3, <1>5, <2>1, SkipStep, ZenonT(30)
  <2>3. CASE j <= n /\ IsRef(bytes[p[j] + 1]) /\ end = p[j] + 2
    <3>1. Reads(bytes, p[j], labels[j], p[j + 1]) /\ labels[j] \in Label
      BY <1>2, <2>1, <2>3, Zenon
    <3>2. sub.offset # Nowhere /\ sub.ref = IsRef(bytes[p[j] + 1])
      BY <3>1, ReadsNext, ZenonT(30)
    <3> HIDE DEF sub
    <3> QED
      BY <1>5, <2>2, <2>3, <3>2, Zenon
  <2>4. CASE j = n + 1 /\ end = p[j] + 1
    <3>1. sub = [offset |-> p[j], length |-> 0, ref |-> FALSE]
      BY <1>2, <2>4, Zenon
    <3> HIDE DEF sub
    <3>2. p[j] # Nowhere
      BY <2>1 DEF Nowhere
    <3>3. sub.offset = p[j] /\ sub.length = 0 /\ sub.ref = FALSE
      BY <3>1
    <3> QED
      BY <1>5, <2>2, <2>4, <3>2, <3>3, Zenon
  <2> QED
    BY <1>4, <2>3, <2>4, Zenon
<1>7. 0 \in G
  <2>1. 66 - j + 0 = 66 - j /\ j - 0 = j /\ 0 \in 0 .. j - 1
    BY <1>1, <1>4
  <2> QED
    BY <1>6, <2>1
<1>8. ASSUME NEW d \in 1 .. j - 1, d - 1 \in G
      PROVE  d \in G
  <2> DEFINE i == j - d
             left == 66 - j + d
             sub == mdns_get_next_substring(bytes, p[i])
  <2>1. i \in 1 .. j - 1 /\ i \in 1 .. n /\ i + 1 = j - (d - 1) /\ left \in 0 .. 65 /\ left # 0
        /\ left - 1 = 66 - j + (d - 1) /\ d \in 0 .. j - 1
    BY <1>1, <1>4
  <2>2. f[left - 1][p[i + 1]] = end
    BY <1>8, <2>1
  <2> HIDE DEF i, left, G
  <2>3. Reads(bytes, p[i], labels[i], p[i + 1]) /\ labels[i] \in Label
    BY <1>2, <2>1, Zenon
  <2>4. /\ p[i] \in 0 .. Len(bytes)
        /\ sub.length # 0 /\ sub.offset # Nowhere
        /\ sub.offset + sub.length = p[i + 1] /\ sub.ref = IsRef(bytes[p[i] + 1])
    BY <2>3, ReadsNext, ZenonT(30)
  <2>5. ~IsRef(bytes[p[i] + 1])
    BY <1>4, <2>1, Zenon
  <2>6. f[left][p[i]] = IF sub.offset = Nowhere \/ left = 0 THEN Nowhere
                        ELSE IF sub.ref THEN p[i] + 2
                        ELSE IF sub.length = 0 THEN sub.offset + 1
                        ELSE f[left - 1][sub.offset + sub.length]
    BY <1>3, <2>1, <2>4, SkipStep, ZenonT(30)
  <2> HIDE DEF sub
  <2>7. f[left][p[i]] = end
    BY <2>1, <2>2, <2>4, <2>5, <2>6, Zenon
  <2> QED
    BY <2>1, <2>7 DEF i, left, G
<1> HIDE DEF G
<1>9. j - 1 \in G
  <2>1. j - 1 \in Nat
    BY <1>1, <1>4
  <2>2. \A d \in 0 .. j - 1 : d \in G
    BY <1>7, <1>8, <2>1, UpTo
  <2> QED
    BY <2>1, <2>2
<1>10. f[65][p[1]] = end
  <2>1. 66 - j + (j - 1) = 65 /\ j - (j - 1) = 1
    BY <1>1, <1>4
  <2> QED
    BY <1>9, <2>1 DEF G
<1> QED
  BY <1>3, <1>10

-----------------------------------------------------------------------------
(* What is written stays.                                                  *)

\* What bytes are when more is written behind them, and the hole is filled.
Later(b, bytes, hole) ==
    /\ b \in Seq(Octet) /\ Len(bytes) <= Len(b)
    /\ \A i \in 1 .. Len(bytes) : i \notin hole => b[i] = bytes[i]

Within(hole, bytes) == hole \subseteq 1 .. Len(bytes)

\* A message holds its own bytes.
LEMMA LaterSelf ==
    ASSUME NEW bytes \in Seq(Octet), NEW hole
    PROVE  Later(bytes, bytes, hole)
BY ByteFacts DEF Later

\* What keeps every byte keeps every byte but the hole.
LEMMA LaterWeaker ==
    ASSUME NEW bytes, NEW b, Later(b, bytes, {}), NEW hole
    PROVE  Later(b, bytes, hole)
BY DEF Later

\* What holds a longer message holds the shorter one in it.
LEMMA LaterTrans ==
    ASSUME NEW bytes \in Seq(Octet), NEW more \in Seq(Octet), NEW b, NEW hole,
           Later(more, bytes, hole), Later(b, more, hole)
    PROVE  Later(b, bytes, hole)
<1>1. Len(bytes) \in Nat /\ Len(more) \in Nat /\ b \in Seq(Octet)
  BY ByteFacts DEF Later
<1>2. Len(b) \in Nat
  BY <1>1, ByteFacts
<1>3. Len(bytes) <= Len(more) /\ Len(more) <= Len(b)
  BY DEF Later
<1>4. ASSUME NEW i \in 1 .. Len(bytes), i \notin hole
      PROVE  b[i] = bytes[i]
  <2>1. i \in 1 .. Len(more)
    BY <1>1, <1>3
  <2> QED
    BY <1>4, <2>1 DEF Later
<1> QED
  BY <1>1, <1>2, <1>3, <1>4 DEF Later

\* Bytes behind a message leave it as it is.
LEMMA LaterAppend ==
    ASSUME NEW bytes \in Seq(Octet), NEW more \in Seq(Octet)
    PROVE  bytes \o more \in Seq(Octet) /\ Later(bytes \o more, bytes, {})
<1>1. /\ bytes \o more \in Seq(Octet) /\ Len(bytes \o more) = Len(bytes) + Len(more)
      /\ \A i \in 1 .. Len(bytes) : (bytes \o more)[i] = bytes[i]
  OBVIOUS
<1>2. Len(bytes) \in Nat /\ Len(more) \in Nat
  BY ByteFacts
<1> QED
  BY <1>1, <1>2 DEF Later

\* These bytes are there.
Has(b, at, bytes) == \A i \in 1 .. Len(bytes) : b[at + i] = bytes[i]

\* The bytes that were written behind others.
LEMMA LaterReads ==
    ASSUME NEW bytes \in Seq(Octet), NEW more \in Seq(Octet), NEW hole, Within(hole, bytes),
           NEW b, Later(b, bytes \o more, hole)
    PROVE  /\ Later(b, bytes, hole)
           /\ Len(bytes) + Len(more) <= Len(b)
           /\ Has(b, Len(bytes), more)
<1> DEFINE all == bytes \o more
<1>1. /\ all \in Seq(Octet) /\ Len(all) = Len(bytes) + Len(more)
      /\ \A i \in 1 .. Len(more) : all[Len(bytes) + i] = more[i]
  OBVIOUS
<1>2. Len(bytes) \in Nat /\ Len(more) \in Nat
  BY ByteFacts
<1>3. Later(all, bytes, hole)
  BY LaterAppend, LaterWeaker
<1> HIDE DEF all
<1>4. Later(b, all, hole)
  BY DEF all
<1>5. Later(b, bytes, hole)
  BY <1>1, <1>3, <1>4, LaterTrans
<1>6. Len(all) <= Len(b) /\ \A i \in 1 .. Len(all) : i \notin hole => b[i] = all[i]
  BY <1>4 DEF Later
<1>7. ASSUME NEW i \in 1 .. Len(more)
      PROVE  b[Len(bytes) + i] = more[i]
  <2>1. Len(bytes) + i \in 1 .. Len(all) /\ Len(bytes) + i \notin hole
    BY <1>1, <1>2 DEF Within
  <2> QED
    BY <1>1, <1>6, <2>1
<1>8. Has(b, Len(bytes), more)
  BY <1>7 DEF Has
<1> QED
  BY <1>1, <1>5, <1>6, <1>8

Buf == [bytes : Seq(Octet), size : Int, ok : BOOLEAN, compress : BOOLEAN,
        table : Seq(Nat), added : Nat]

\* A buffer after more was written to it, if that went well.
After(m, n) ==
    /\ n \in Buf /\ n.size = m.size /\ n.compress = m.compress
    /\ n.ok => m.ok /\ Later(n.bytes, m.bytes, {})

\* The bytes of a buffer.
LEMMA BufFields ==
    ASSUME NEW m \in Buf
    PROVE  m.bytes \in Seq(Octet)
BY DEF Buf

\* Two calls that write are one.
LEMMA AfterTrans ==
    ASSUME NEW m \in Buf, NEW n, NEW o, After(m, n), After(n, o)
    PROVE  After(m, o)
<1>1. m.bytes \in Seq(Octet) /\ n.bytes \in Seq(Octet)
  BY DEF Buf, After
<1>2. ASSUME o.ok
      PROVE  m.ok /\ Later(o.bytes, m.bytes, {})
  <2>1. Later(o.bytes, n.bytes, {}) /\ n.ok
    BY <1>2 DEF After
  <2>2. Later(n.bytes, m.bytes, {}) /\ m.ok
    BY <2>1 DEF After
  <2> QED
    BY <1>1, <2>1, <2>2, LaterTrans
<1> QED
  BY <1>2 DEF After

\* Nothing written is something written.
LEMMA AfterSelf ==
    ASSUME NEW m \in Buf
    PROVE  After(m, m)
<1>1. m.bytes \in Seq(Octet)
  BY DEF Buf
<1>2. Later(m.bytes, m.bytes, {})
  BY <1>1, LaterSelf
<1> QED
  BY <1>2 DEF After

\* PutIfRoom writes all of the bytes behind the others, or fails; the table stays.
LEMMA Puts ==
    ASSUME NEW m \in Buf, NEW enough \in Nat, NEW bytes \in Seq(Octet)
    PROVE  LET n == PutIfRoom(m, enough, bytes)
           IN /\ After(m, n) /\ n.table = m.table /\ n.added = m.added
              /\ n.ok => n.bytes = m.bytes \o bytes /\ Len(m.bytes) + enough <= n.size
<1> DEFINE n == PutIfRoom(m, enough, bytes)
<1>1. /\ m.bytes \in Seq(Octet) /\ m.size \in Int /\ m.ok \in BOOLEAN /\ m.compress \in BOOLEAN
      /\ m.table \in Seq(Nat) /\ m.added \in Nat
      /\ m = [bytes |-> m.bytes, size |-> m.size, ok |-> m.ok, compress |-> m.compress,
              table |-> m.table, added |-> m.added]
  BY DEF Buf
<1>2. CASE m.ok /\ Remain(m) >= enough
  <2>1. n = [m EXCEPT !.bytes = m.bytes \o bytes]
    BY <1>2 DEF PutIfRoom, PutBytes
  <2>2. m.bytes \o bytes \in Seq(Octet) /\ Later(m.bytes \o bytes, m.bytes, {})
    BY <1>1, LaterAppend
  <2> HIDE DEF n
  <2>3. n \in Buf
    BY <2>1, <2>2 DEF Buf
  <2>4. n.bytes = m.bytes \o bytes /\ n.size = m.size /\ n.ok = m.ok /\ n.compress = m.compress
        /\ n.table = m.table /\ n.added = m.added
    BY <1>1, <2>1
  <2>5. Len(m.bytes) + enough <= m.size
    <3>1. Len(m.bytes) \in Nat
      BY <1>1, ByteFacts
    <3> QED
      BY <1>1, <1>2, <3>1 DEF Remain
  <2> QED
    BY <1>2, <2>2, <2>3, <2>4, <2>5 DEF After, n
<1>3. CASE ~(m.ok /\ Remain(m) >= enough)
  <2>1. n = [m EXCEPT !.ok = FALSE]
    BY <1>3 DEF PutIfRoom, Fail
  <2> HIDE DEF n
  <2>2. n \in Buf
    BY <2>1 DEF Buf
  <2>3. n.ok = FALSE /\ n.size = m.size /\ n.compress = m.compress
        /\ n.table = m.table /\ n.added = m.added
    BY <1>1, <2>1
  <2> QED
    BY <2>2, <2>3 DEF After, n
<1> QED
  BY <1>2, <1>3

-----------------------------------------------------------------------------
(* The string table.                                                       *)

\* The comparison of mdns_string_table_find, one more label at a time.
MatchRow(bytes, labels, left, before) ==
    [at \in 0 .. Len(bytes) |->
        LET sub == mdns_get_next_substring(bytes, at)
        IN \/ left = 0
           \/ /\ sub.length # 0
              /\ Part(bytes, sub.offset, sub.length) = labels[Len(labels) - left + 1]
              /\ before[sub.offset + sub.length]]

IsMatch(f, bytes, labels) ==
    f = [left \in 0 .. Len(labels) |-> MatchRow(bytes, labels, left, f[left - 1])]

\* The recursive function of Matches, round by round.
LEMMA MatchExists ==
    ASSUME NEW bytes \in Seq(Octet), NEW labels \in DnsName
    PROVE  \E f : IsMatch(f, bytes, labels)
<1> DEFINE S == [0 .. Len(bytes) -> BOOLEAN]
           base == MatchRow(bytes, labels, 0, <<>>)
           step == [x \in Nat \X S |-> MatchRow(bytes, labels, x[1], x[2])]
           last == Len(labels)
<1>1. \A left, before : MatchRow(bytes, labels, left, before) \in S
  BY DEF MatchRow
<1>2. base \in S /\ step \in [Nat \X S -> S]
  <2>1. base \in S
    BY <1>1
  <2>2. \A x \in Nat \X S : MatchRow(bytes, labels, x[1], x[2]) \in S
    BY <1>1
  <2> HIDE DEF S
  <2> QED
    BY <2>1, <2>2
<1>3. \A before : MatchRow(bytes, labels, 0, before) = base
  <2> SUFFICES ASSUME NEW before
               PROVE  MatchRow(bytes, labels, 0, before) = base
    OBVIOUS
  <2>1. MatchRow(bytes, labels, 0, before) = [at \in 0 .. Len(bytes) |-> TRUE]
    BY DEF MatchRow
  <2>2. MatchRow(bytes, labels, 0, <<>>) = [at \in 0 .. Len(bytes) |-> TRUE]
    BY DEF MatchRow
  <2> QED
    BY <2>1, <2>2
<1>4. \A left \in Nat, before \in S : step[<<left, before>>] = MatchRow(bytes, labels, left, before)
  OBVIOUS
<1>5. last \in Nat
  BY NameFacts
<1> HIDE DEF S, base, step, last
<1>6. PICK f \in [0 .. last -> S] : IsLoop(f, base, step, last)
  BY <1>2, <1>5, Loop
<1>7. \A k \in 0 .. last : f[k] = MatchRow(bytes, labels, k, f[k - 1])
  BY <1>3, <1>4, <1>5, <1>6 DEF IsLoop
<1>8. f = [k \in 0 .. last |-> f[k]]
  OBVIOUS
<1>9. IsMatch(f, bytes, labels)
  BY <1>7, <1>8 DEF IsMatch, last
<1> QED
  BY <1>9

\* A match of several labels is a match of the first and a match of the rest.
LEMMA MatchStep ==
    ASSUME NEW bytes, NEW labels, NEW f, IsMatch(f, bytes, labels),
           NEW left \in 1 .. Len(labels), NEW at \in 0 .. Len(bytes), f[left][at]
    PROVE  LET sub == mdns_get_next_substring(bytes, at)
           IN /\ sub.length # 0
              /\ Part(bytes, sub.offset, sub.length) = labels[Len(labels) - left + 1]
              /\ f[left - 1][sub.offset + sub.length]
<1> DEFINE sub == mdns_get_next_substring(bytes, at)
<1>1. left \in 0 .. Len(labels) /\ left # 0
  OBVIOUS
<1>2. f[left] = MatchRow(bytes, labels, left, f[left - 1])
  BY <1>1, Zenon DEF IsMatch
<1>3. f[left][at] = (\/ left = 0
                     \/ /\ sub.length # 0
                        /\ Part(bytes, sub.offset, sub.length) = labels[Len(labels) - left + 1]
                        /\ f[left - 1][sub.offset + sub.length])
  BY <1>2, Zenon DEF MatchRow
<1> HIDE DEF sub
<1>4. /\ sub.length # 0
      /\ Part(bytes, sub.offset, sub.length) = labels[Len(labels) - left + 1]
      /\ f[left - 1][sub.offset + sub.length]
  BY <1>1, <1>3, Zenon
<1> QED
  BY <1>4 DEF sub

\* A place that is found is in the table, and the labels match there.
LEMMA Finds ==
    ASSUME NEW m \in Buf, NEW labels \in DnsName, NEW k \in 1 .. Len(labels),
           mdns_string_table_find(m, labels, k) # Nowhere
    PROVE  \E f, i : /\ IsMatch(f, m.bytes, labels) /\ i \in 1 .. Len(m.table)
                     /\ mdns_string_table_find(m, labels, k) = m.table[i]
                     /\ f[Len(labels) - k + 1][m.table[i]]
<1> DEFINE f == CHOOSE g : IsMatch(g, m.bytes, labels)
           found == Matches(m, labels, k)
           entry == CHOOSE x \in found : \A y \in found : x <= y
<1>1. IsMatch(f, m.bytes, labels)
  <2>1. m.bytes \in Seq(Octet)
    BY DEF Buf
  <2> QED
    BY <2>1, MatchExists
<1>2. found = {i \in DOMAIN m.table : f[Len(labels) - k + 1][m.table[i]]}
  BY DEF Matches, IsMatch, MatchRow
<1> HIDE DEF f
<1>3. DOMAIN m.table = 1 .. Len(m.table) /\ Len(m.table) \in Nat
  BY DEF Buf
<1>4. found \in SUBSET Nat
  BY <1>2, <1>3
<1> HIDE DEF found
<1>5. mdns_string_table_find(m, labels, k) = IF found = {} THEN Nowhere ELSE m.table[entry]
  BY DEF mdns_string_table_find, Min, found
<1>6. found # {}
  <2> HIDE DEF entry
  <2> QED
    BY <1>5
<1>7. entry \in found
  <2>1. \E x \in found : \A y \in found : x <= y
    BY <1>4, <1>6, Minimum
  <2> QED
    BY <2>1
<1> HIDE DEF entry
<1>8. entry \in 1 .. Len(m.table) /\ f[Len(labels) - k + 1][m.table[entry]]
  BY <1>2, <1>3, <1>7
<1> QED
  BY <1>1, <1>5, <1>6, <1>8

\* A label that is written is read there.
LEMMA LabelReads ==
    ASSUME NEW bytes \in Seq(Octet), NEW label \in Label, NEW at, LabelAt(bytes, at, label)
    PROVE  /\ Reads(bytes, at, label, at + 1 + Len(label))
           /\ ~IsRef(bytes[at + 1]) /\ at \in 0 .. Len(bytes)
<1> DEFINE length == Len(label)
           b == bytes[at + 1]
<1>1. length \in 1 .. 191 /\ Len(bytes) \in Nat
  BY ByteFacts DEF Label
<1>2. at \in Nat /\ at + 1 + length <= Len(bytes) /\ b = length
  BY DEF LabelAt
<1>3. ~IsRef(b)
  <2> HIDE DEF b, length
  <2>1. ~(b >= 192)
    BY <1>1, <1>2
  <2> QED
    BY <2>1 DEF IsRef
<1>4. Target(bytes, at) = at
  BY <1>3, Zenon DEF Target
<1>5. Reads(bytes, at, label, at + 1 + Len(label))
  <2>1. at < Len(bytes)
    <3> HIDE DEF length
    <3> QED
      BY <1>1, <1>2
  <2> QED
    BY <1>2, <1>3, <1>4, <2>1, Zenon DEF Reads
<1> HIDE DEF length
<1>6. at \in 0 .. Len(bytes)
  BY <1>1, <1>2
<1> QED
  BY <1>3, <1>5, <1>6

\* A match of labels goes on where a label is read, and it is the label.
LEMMA MatchReads ==
    ASSUME NEW bytes \in Seq(Octet), NEW labels \in DnsName, NEW f, IsMatch(f, bytes, labels),
           NEW left \in 1 .. Len(labels), NEW label \in Label, NEW at, NEW next,
           Reads(bytes, at, label, next), f[left][at]
    PROVE  label = labels[Len(labels) - left + 1] /\ f[left - 1][next]
<1> DEFINE sub == mdns_get_next_substring(bytes, at)
<1>1. /\ at \in 0 .. Len(bytes)
      /\ sub.offset + sub.length = next
      /\ Part(bytes, sub.offset, sub.length) = label
  BY ReadsNext, Zenon
<1>2. Part(bytes, sub.offset, sub.length) = labels[Len(labels) - left + 1]
      /\ f[left - 1][sub.offset + sub.length]
  BY <1>1, MatchStep, Zenon
<1> HIDE DEF sub
<1> QED
  BY <1>1, <1>2

\* Nothing matches where a name ends.
LEMMA MatchStops ==
    ASSUME NEW bytes \in Seq(Octet), NEW labels \in DnsName, NEW f, IsMatch(f, bytes, labels),
           NEW left \in 1 .. Len(labels), NEW at \in 0 .. Len(bytes),
           mdns_get_next_substring(bytes, at).length = 0
    PROVE  ~f[left][at]
<1> SUFFICES ASSUME f[left][at] PROVE FALSE
  OBVIOUS
<1>1. mdns_get_next_substring(bytes, at).length # 0
  BY MatchStep, Zenon
<1> QED
  BY <1>1

\* The labels from k on are those of name from i on.
SameEnd(labels, k, name, i) ==
    /\ Len(labels) - k = Len(name) - i
    /\ \A d \in 0 .. Len(labels) - k : labels[k + d] = name[i + d]

\* Known that end alike: where the labels match, the rest of a name is the same.
LEMMA MatchMeans ==
    ASSUME NEW bytes \in Seq(Octet), NEW labels \in DnsName, NEW name \in DnsName,
           Last(labels) = Last(name), NEW f, IsMatch(f, bytes, labels),
           NEW k \in 1 .. Len(labels), NEW i \in 1 .. Len(name), NEW p, NamePath(bytes, p, name, i),
           f[Len(labels) - k + 1][p[i]]
    PROVE  SameEnd(labels, k, name, i)
<1> DEFINE n == Len(labels)
           o == Len(name)
           Is(d) == i + d <= o /\ name[i + d] = labels[k + d] /\ f[n - k - d][p[i + d + 1]]
           G == {d \in 0 .. n - k : Is(d)}
<1>1. n \in 1 .. 64 /\ labels[n] = name[o]
  BY NameFacts
<1>2. o \in 1 .. 64 /\ \A a, b \in 1 .. o : name[a] = name[b] => a = b
  BY NameFacts
<1>3. /\ \A a \in i .. o : name[a] \in Label /\ Reads(bytes, p[a], name[a], p[a + 1])
      /\ p[o + 1] \in 0 .. Len(bytes)
      /\ mdns_get_next_substring(bytes, p[o + 1]).length = 0
  <2>1. /\ \A a \in i .. o : name[a] \in Label /\ Reads(bytes, p[a], name[a], p[a + 1])
        /\ p[o + 1] \in 0 .. Len(bytes)
        /\ mdns_get_next_substring(bytes, p[o + 1]) = [offset |-> p[o + 1], length |-> 0, ref |-> FALSE]
    BY PathFacts
  <2> QED
    BY <2>1
<1>4. \A left \in 1 .. n : ~f[left][p[o + 1]]
  BY <1>3, MatchStops, Zenon
<1>5. \A left \in 1 .. n, a \in i .. o :
          f[left][p[a]] => name[a] = labels[n - left + 1] /\ f[left - 1][p[a + 1]]
  <2> HIDE DEF o
  <2> SUFFICES ASSUME NEW left \in 1 .. n, NEW a \in i .. o, f[left][p[a]]
               PROVE  name[a] = labels[n - left + 1] /\ f[left - 1][p[a + 1]]
    BY Zenon
  <2>1. name[a] \in Label /\ Reads(bytes, p[a], name[a], p[a + 1])
    BY <1>3, Zenon
  <2> QED
    BY <2>1, MatchReads, Zenon
<1>6. f[n - k + 1][p[i]]
  OBVIOUS
<1> HIDE DEF n, o
<1>7. k \in 1 .. n /\ i \in 1 .. o
  BY DEF n, o
<1>8. 0 \in G
  <2> DEFINE left == n - k + 1
  <2>1. left \in 1 .. n /\ i \in i .. o /\ n - left + 1 = k + 0 /\ i + 0 = i
        /\ left - 1 = n - k - 0 /\ i + 1 = i + 0 + 1 /\ 0 \in 0 .. n - k /\ i + 0 <= o
    BY <1>1, <1>2, <1>7
  <2>2. f[left][p[i]]
    BY <1>6
  <2> HIDE DEF left
  <2>3. name[i] = labels[n - left + 1] /\ f[left - 1][p[i + 1]]
    BY <1>5, <2>1, <2>2, Zenon
  <2>4. Is(0)
    BY <2>1, <2>3
  <2> HIDE DEF Is
  <2> QED
    BY <2>1, <2>4
<1>9. ASSUME NEW d \in 1 .. n - k, d - 1 \in G
      PROVE  d \in G
  <2> DEFINE left == n - k - d + 1
             a == i + d
  <2>1. left \in 1 .. n /\ n - left + 1 = k + d /\ left - 1 = n - k - d /\ d \in 0 .. n - k
    BY <1>1, <1>2, <1>7
  <2>2. i + (d - 1) <= o /\ f[left][p[a]]
    <3>1. Is(d - 1) /\ n - k - (d - 1) = left /\ i + (d - 1) + 1 = a
      BY <1>1, <1>2, <1>7, <1>9
    <3> QED
      BY <3>1
  <2> HIDE DEF left
  <2>3. a # o + 1
    BY <1>4, <2>1, <2>2
  <2>4. a \in i .. o
    <3>1. n \in Nat /\ o \in Nat /\ i \in Nat /\ k \in Nat /\ i + (d - 1) <= o
      BY <1>1, <1>2, <1>7, <2>2
    <3>2. d \in Nat /\ i <= i + d
      BY <1>1, <1>7
    <3> QED
      BY <2>3, <3>1, <3>2
  <2>5. name[a] = labels[k + d] /\ f[n - k - d][p[a + 1]]
    <3>1. name[a] = labels[n - left + 1] /\ f[left - 1][p[a + 1]]
      BY <1>5, <2>1, <2>2, <2>4, Zenon
    <3> QED
      BY <2>1, <3>1
  <2>6. Is(d)
    BY <2>4, <2>5
  <2> HIDE DEF Is
  <2> QED
    BY <2>1, <2>6
<1>10. \A d \in 0 .. n - k : Is(d)
  <2> HIDE DEF Is
  <2>1. n - k \in Nat
    BY <1>1, <1>7
  <2>2. \A d \in 0 .. n - k : d \in G
    <3> HIDE DEF G
    <3> QED
      BY <1>8, <1>9, <2>1, UpTo
  <2> QED
    BY <2>2
<1>11. n - k = o - i
  <2>1. i + (n - k) <= o /\ name[i + (n - k)] = labels[k + (n - k)]
    <3>1. n - k \in 0 .. n - k
      <4>1. n \in Nat /\ k \in 1 .. n
        BY <1>1, <1>7
      <4> HIDE DEF n
      <4> QED
        BY <4>1
    <3> QED
      BY <1>10, <3>1
  <2>2. k + (n - k) = n /\ i + (n - k) \in 1 .. o /\ o \in 1 .. o
    BY <1>1, <1>2, <1>7, <2>1
  <2>3. i + (n - k) = o
    BY <1>1, <1>2, <2>1, <2>2
  <2> QED
    BY <1>1, <1>2, <1>7, <2>3
<1>12. \A d \in 0 .. n - k : labels[k + d] = name[i + d]
  BY <1>10
<1> QED
  BY <1>11, <1>12 DEF SameEnd, n, o

-----------------------------------------------------------------------------
(* Numbers of two and four bytes.                                          *)

High(n) == (n \div 256) % 256
Low(n) == n % 256
HighWord(n) == n \div 65536
LowWord(n) == n % 65536
RefCode(to) == 49152 + to
Place == 0 .. 16383

\* The bytes of two sequences, one behind the other.
LEMMA Concat ==
    ASSUME NEW a \in Seq(Octet), NEW c \in Seq(Octet)
    PROVE  /\ a \o c \in Seq(Octet) /\ Len(a \o c) = Len(a) + Len(c)
           /\ Len(a) \in Nat /\ Len(c) \in Nat
           /\ \A i \in 1 .. Len(a) : (a \o c)[i] = a[i]
           /\ \A i \in 1 .. Len(c) : (a \o c)[Len(a) + i] = c[i]
OBVIOUS

\* htons: the two bytes of a number, the high one in front.
LEMMA ShortBytes ==
    ASSUME NEW n \in Nat
    PROVE  /\ Short(n) \in Seq(Octet) /\ Len(Short(n)) = 2
           /\ Short(n)[1] = High(n) /\ Short(n)[2] = Low(n)
<1>1. n \div 256 \in Nat /\ Low(n) \in 0 .. 255
  BY DEF Low
<1>2. High(n) \in 0 .. 255
  BY <1>1 DEF High
<1>3. High(n) \in Octet /\ Low(n) \in Octet
  BY <1>1, <1>2 DEF Octet
<1>4. Short(n) = <<High(n), Low(n)>>
  BY DEF Short, High, Low
<1>5. <<High(n), Low(n)>> \in Seq(Octet) /\ Len(<<High(n), Low(n)>>) = 2
      /\ <<High(n), Low(n)>>[1] = High(n) /\ <<High(n), Low(n)>>[2] = Low(n)
  BY <1>3
<1> QED
  BY <1>4, <1>5

\* A number of 16 bits is its two bytes.
LEMMA ShortNumber ==
    ASSUME NEW n \in UInt16
    PROVE  n \in Nat /\ 256 * High(n) + Low(n) = n
<1>1. n \in Nat /\ n < 65536
  BY SMTT(30) DEF UInt16
<1>2. n \div 256 \in 0 .. 255 /\ n = 256 * (n \div 256) + (n % 256)
  BY <1>1
<1>3. (n \div 256) % 256 = n \div 256
  BY <1>2
<1> QED
  BY <1>1, <1>2, <1>3, SMTT(30) DEF High, Low

\* What Short writes, ShortAt reads.
LEMMA ShortReads ==
    ASSUME NEW b, NEW at \in Nat, NEW n \in UInt16, Has(b, at, Short(n))
    PROVE  ShortAt(b, at) = n
<1>1. n \in Nat /\ 256 * High(n) + Low(n) = n
  BY ShortNumber
<1>2. b[at + 1] = High(n) /\ b[at + 2] = Low(n)
  <2>1. Short(n)[1] = High(n) /\ Short(n)[2] = Low(n) /\ Len(Short(n)) = 2
    BY <1>1, ShortBytes
  <2>2. 1 \in 1 .. 2 /\ 2 \in 1 .. 2
    OBVIOUS
  <2> QED
    BY <2>1, <2>2, Zenon DEF Has
<1> QED
  BY <1>1, <1>2 DEF ShortAt

\* htonl: four bytes.
LEMMA LongBytes ==
    ASSUME NEW n \in Nat
    PROVE  Long(n) \in Seq(Octet) /\ Len(Long(n)) = 4
<1> DEFINE high == Short(HighWord(n))
           low == Short(LowWord(n))
<1>1. HighWord(n) \in Nat /\ LowWord(n) \in Nat
  BY DEF HighWord, LowWord
<1>2. high \in Seq(Octet) /\ Len(high) = 2 /\ low \in Seq(Octet) /\ Len(low) = 2
  BY <1>1, ShortBytes
<1>3. Long(n) = high \o low
  BY DEF Long, HighWord, LowWord
<1> HIDE DEF high, low
<1>4. high \o low \in Seq(Octet) /\ Len(high \o low) = Len(high) + Len(low)
  BY <1>2, Concat
<1> QED
  BY <1>2, <1>3, <1>4

\* A time to live is its two words.
LEMMA LongNumber ==
    ASSUME NEW n \in Ttl
    PROVE  /\ n \in Nat /\ HighWord(n) \in UInt16 /\ LowWord(n) \in UInt16
           /\ 65536 * HighWord(n) + LowWord(n) = n
<1>1. n \in Nat /\ HighWord(n) \in UInt16
  BY SMTT(30) DEF Ttl, HighWord
<1> DEFINE last == 65535
<1>2. LowWord(n) \in 0 .. last
  BY <1>1, SMTT(30) DEF LowWord
<1>6. UInt16 = 0 .. last
  BY DEF UInt16
<1>3. n = 65536 * (n \div 65536) + (n % 65536)
  BY <1>1
<1> HIDE DEF last
<1>4. LowWord(n) \in UInt16
  BY <1>2, <1>6
<1>5. 65536 * HighWord(n) + LowWord(n) = n
  BY <1>3 DEF HighWord, LowWord
<1> QED
  BY <1>1, <1>4, <1>5

\* A part of what is there is there.
LEMMA HasParts ==
    ASSUME NEW b, NEW at \in Nat, NEW x \in Seq(Octet), NEW y \in Seq(Octet), Has(b, at, x \o y)
    PROVE  Has(b, at, x) /\ Has(b, at + Len(x), y)
<1> DEFINE all == x \o y
<1>1. /\ Len(all) = Len(x) + Len(y) /\ Len(x) \in Nat /\ Len(y) \in Nat
      /\ \A i \in 1 .. Len(x) : all[i] = x[i]
      /\ \A i \in 1 .. Len(y) : all[Len(x) + i] = y[i]
  BY Concat
<1>2. \A i \in 1 .. Len(all) : b[at + i] = all[i]
  BY DEF Has
<1> HIDE DEF all
<1>3. ASSUME NEW i \in 1 .. Len(x)
      PROVE  b[at + i] = x[i]
  <2>1. i \in 1 .. Len(all)
    BY <1>1
  <2> QED
    BY <1>1, <1>2, <2>1
<1>4. ASSUME NEW i \in 1 .. Len(y)
      PROVE  b[at + Len(x) + i] = y[i]
  <2>1. Len(x) + i \in 1 .. Len(all) /\ at + (Len(x) + i) = at + Len(x) + i
    BY <1>1
  <2> QED
    BY <1>1, <1>2, <2>1
<1> QED
  BY <1>3, <1>4 DEF Has

\* ntohl reads what htonl wrote.
LEMMA LongReads ==
    ASSUME NEW b, NEW at \in Nat, NEW n \in Ttl, Has(b, at, Long(n))
    PROVE  LongAt(b, at) = n
<1>1. /\ n \in Nat /\ HighWord(n) \in UInt16 /\ LowWord(n) \in UInt16
      /\ 65536 * HighWord(n) + LowWord(n) = n
  BY LongNumber
<1>2. HighWord(n) \in Nat /\ LowWord(n) \in Nat
  BY <1>1, ShortNumber
<1>3. Has(b, at, Short(HighWord(n))) /\ Has(b, at + 2, Short(LowWord(n)))
  <2>1. Long(n) = Short(HighWord(n)) \o Short(LowWord(n))
    BY DEF Long, HighWord, LowWord
  <2>2. /\ Short(HighWord(n)) \in Seq(Octet) /\ Len(Short(HighWord(n))) = 2
        /\ Short(LowWord(n)) \in Seq(Octet)
    BY <1>2, ShortBytes
  <2> QED
    BY <2>1, <2>2, HasParts
<1>4. ShortAt(b, at) = HighWord(n)
  BY <1>1, <1>3, ShortReads
<1>5. ShortAt(b, at + 2) = LowWord(n)
  <2>1. at + 2 \in Nat
    OBVIOUS
  <2> QED
    BY <1>1, <1>3, <2>1, ShortReads
<1> QED
  BY <1>1, <1>4, <1>5 DEF LongAt

\* The 14 bits of a reference are the offset, the two others mark it.
LEMMA RefNumber ==
    ASSUME NEW to \in Place
    PROVE  /\ RefCode(to) \in UInt16 /\ RefCode(to) \in Nat /\ RefCode(to) % 16384 = to
           /\ IsRef(High(RefCode(to)))
<1> DEFINE n == 49152 + to
<1>1. n \in 49152 .. 65535 /\ n % 16384 = to
  BY SMTT(30) DEF Place
<1> HIDE DEF n
<1>2. n \div 256 \in 192 .. 255
  <2>1. n \in 49152 .. 65535
    BY <1>1
  <2>2. n \in Nat /\ 49152 <= n /\ n < 65536
    BY <2>1
  <2> QED
    BY <2>2
<1>3. (n \div 256) % 256 >= 192
  BY <1>2
<1>4. n \in UInt16 /\ n \in Nat
  <2>1. n \in 49152 .. 65535
    BY <1>1
  <2>2. n \in Nat /\ n <= 65535
    BY <2>1
  <2> QED
    BY <2>2, SMTT(30) DEF UInt16
<1>5. RefCode(to) = n
  BY DEF RefCode, n
<1> QED
  BY <1>1, <1>3, <1>4, <1>5 DEF High, IsRef

\* A reference is read as one, and leads to where it was made for.
LEMMA RefReads ==
    ASSUME NEW b, NEW at \in Nat, NEW to \in Place, Has(b, at, Short(RefCode(to)))
    PROVE  IsRef(b[at + 1]) /\ RefTo(b, at) = to
<1> DEFINE n == RefCode(to)
<1>1. n \in UInt16 /\ n \in Nat /\ n % 16384 = to /\ IsRef(High(n))
  BY RefNumber
<1>2. Has(b, at, Short(n))
  OBVIOUS
<1> HIDE DEF n
<1>3. ShortAt(b, at) = n
  BY <1>1, <1>2, ShortReads
<1>4. b[at + 1] = High(n)
  <2>1. Short(n)[1] = High(n) /\ Len(Short(n)) = 2 /\ 1 \in 1 .. 2
    BY <1>1, ShortBytes
  <2> QED
    BY <1>2, <2>1, Zenon DEF Has
<1>5. RefTo(b, at) = to
  BY <1>1, <1>3 DEF RefTo
<1> QED
  BY <1>1, <1>4, <1>5

-----------------------------------------------------------------------------
(* Writing a name.                                                         *)

\* An entry of the table: the place of a label of a name that was written, with all
\* labels after it.
EntryMeans(bytes, hole, Known, t) ==
    \E name \in Known : \E i \in 1 .. Len(name) : \E p :
        /\ p[i] = t
        /\ \A b : Later(b, bytes, hole) => NamePath(b, p, name, i) /\ ~IsRef(b[t + 1])

TableMeans(table, bytes, hole, Known) ==
    \A e \in 1 .. Len(table) : EntryMeans(bytes, hole, Known, table[e])

\* What is later than these bytes is later than those before.
LaterOf(more, after, bytes, hole) == \A b : Later(b, more, after) => Later(b, bytes, hole)

\* What an entry of the table refers to stays when more is written.
LEMMA EntryStays ==
    ASSUME NEW bytes, NEW hole, NEW more, NEW after, LaterOf(more, after, bytes, hole),
           NEW Known, NEW t, EntryMeans(bytes, hole, Known, t)
    PROVE  EntryMeans(more, after, Known, t)
<1>1. PICK name \in Known : \E i \in 1 .. Len(name) : \E p :
          /\ p[i] = t
          /\ \A b : Later(b, bytes, hole) => NamePath(b, p, name, i) /\ ~IsRef(b[t + 1])
  BY Zenon DEF EntryMeans
<1>2. PICK i \in 1 .. Len(name) : \E p :
          /\ p[i] = t
          /\ \A b : Later(b, bytes, hole) => NamePath(b, p, name, i) /\ ~IsRef(b[t + 1])
  BY <1>1, Zenon
<1>3. PICK p :
          /\ p[i] = t
          /\ \A b : Later(b, bytes, hole) => NamePath(b, p, name, i) /\ ~IsRef(b[t + 1])
  BY <1>2, Zenon
<1>4. \A b : Later(b, more, after) => NamePath(b, p, name, i) /\ ~IsRef(b[t + 1])
  BY <1>3, Zenon DEF LaterOf
<1> QED
  BY <1>3, <1>4, Zenon DEF EntryMeans

\* What the table refers to stays when more is written.
LEMMA TableStays ==
    ASSUME NEW bytes, NEW hole, NEW more, NEW after, LaterOf(more, after, bytes, hole),
           NEW Known, NEW table, TableMeans(table, bytes, hole, Known)
    PROVE  TableMeans(table, more, after, Known)
BY EntryStays, Zenon DEF TableMeans

\* Bytes behind a message leave it as it is, but for the hole it has.
LEMMA LaterOfAppend ==
    ASSUME NEW bytes \in Seq(Octet), NEW more \in Seq(Octet), NEW hole, Within(hole, bytes)
    PROVE  LaterOf(bytes \o more, hole, bytes, hole)
BY LaterReads, Zenon DEF LaterOf

\* The places of the first labels of a name, written one behind the other.
LabelsAt(b, q, labels, k) ==
    /\ \A i \in 1 .. k : /\ q[i] \in Nat /\ LabelAt(b, q[i], labels[i])
                         /\ q[i + 1] = q[i] + 1 + Len(labels[i])

\* Written labels go on with what is behind them.
LEMMA PathJoins ==
    ASSUME NEW b \in Seq(Octet), NEW labels \in DnsName, NEW j \in 1 .. Len(labels) + 1, NEW p,
           LabelsAt(b, p, labels, j - 1), NamePath(b, p, labels, j)
    PROVE  /\ NamePath(b, p, labels, 1)
           /\ \A i \in 1 .. j - 1 : ~IsRef(b[p[i] + 1]) /\ NamePath(b, p, labels, i)
<1> DEFINE n == Len(labels)
<1>1. n \in 1 .. 64 /\ \A i \in 1 .. n : labels[i] \in Label
  BY NameFacts
<1>2. j \in 1 .. n + 1
  OBVIOUS
<1>3. /\ \A i \in j .. n + 1 : p[i] \in Nat
      /\ \A i \in j .. n : Reads(b, p[i], labels[i], p[i + 1])
      /\ p[n + 1] < Len(b) /\ b[p[n + 1] + 1] = 0
  BY DEF NamePath
<1>4. \A i \in 1 .. j - 1 : /\ p[i] \in Nat /\ LabelAt(b, p[i], labels[i])
                            /\ p[i + 1] = p[i] + 1 + Len(labels[i])
  BY DEF LabelsAt
<1> HIDE DEF n
<1>5. ASSUME NEW i \in 1 .. j - 1
      PROVE  p[i] \in Nat /\ Reads(b, p[i], labels[i], p[i + 1]) /\ ~IsRef(b[p[i] + 1])
  <2>1. i \in 1 .. n
    BY <1>1, <1>2
  <2>2. labels[i] \in Label /\ LabelAt(b, p[i], labels[i])
    BY <1>1, <1>4, <2>1
  <2>3. Reads(b, p[i], labels[i], p[i] + 1 + Len(labels[i])) /\ ~IsRef(b[p[i] + 1])
    BY <2>2, LabelReads
  <2> QED
    BY <1>4, <2>3
<1>6. ASSUME NEW i \in 1 .. j
      PROVE  NamePath(b, p, labels, i)
  <2>1. ASSUME NEW x \in i .. n + 1
        PROVE  p[x] \in Nat
    <3>1. x \in 1 .. j - 1 \/ x \in j .. n + 1
      BY <1>1, <1>2
    <3> QED
      BY <1>3, <1>5, <3>1
  <2>2. ASSUME NEW x \in i .. n
        PROVE  Reads(b, p[x], labels[x], p[x + 1])
    <3>1. x \in 1 .. j - 1 \/ x \in j .. n
      BY <1>1, <1>2
    <3> QED
      BY <1>3, <1>5, <3>1
  <2> QED
    BY <1>3, <2>1, <2>2, Zenon DEF NamePath, n
<1>7. 1 \in 1 .. j /\ \A i \in 1 .. j - 1 : i \in 1 .. j
  BY <1>1, <1>2
<1> QED
  BY <1>5, <1>6, <1>7, Zenon

\* The end of another name that ends alike, from where a reference leads to.
LEMMA PathRefers ==
    ASSUME NEW b \in Seq(Octet), NEW labels \in DnsName, NEW k \in 1 .. Len(labels),
           NEW name \in DnsName, NEW i \in 1 .. Len(name), SameEnd(labels, k, name, i),
           NEW q, NamePath(b, q, name, i), ~IsRef(b[q[i] + 1]),
           NEW p, p[k] \in Nat, p[k] + 2 <= Len(b), IsRef(b[p[k] + 1]), RefTo(b, p[k]) = q[i],
           \A x \in k + 1 .. Len(labels) + 1 : p[x] = q[i + (x - k)]
    PROVE  NamePath(b, p, labels, k)
<1> DEFINE n == Len(labels)
           o == Len(name)
<1>1. n \in 1 .. 64 /\ o \in 1 .. 64 /\ k \in 1 .. n /\ i \in 1 .. o
  BY NameFacts
<1>2. n - k = o - i /\ \A d \in 0 .. n - k : labels[k + d] = name[i + d]
  BY DEF SameEnd
<1>3. /\ \A x \in i .. o + 1 : q[x] \in Nat
      /\ \A x \in i .. o : Reads(b, q[x], name[x], q[x + 1])
      /\ q[o + 1] < Len(b) /\ b[q[o + 1] + 1] = 0
  BY DEF NamePath
<1>4. \A x \in k + 1 .. n + 1 : p[x] = q[i + (x - k)]
  OBVIOUS
<1> HIDE DEF n, o
<1>5. ASSUME NEW x \in k .. n + 1
      PROVE  p[x] \in Nat
  <2>1. CASE x = k
    BY <2>1
  <2>2. CASE x # k
    <3>1. x \in k + 1 .. n + 1 /\ i + (x - k) \in i .. o + 1
      BY <1>1, <1>2, <2>2
    <3> QED
      BY <1>3, <1>4, <3>1
  <2> QED
    BY <2>1, <2>2
<1>6. Reads(b, p[k], labels[k], p[k + 1])
  <2>1. i \in i .. o /\ k + 1 \in k + 1 .. n + 1 /\ i + (k + 1 - k) = i + 1 /\ 0 \in 0 .. n - k
        /\ k + 0 = k /\ i + 0 = i
    BY <1>1
  <2>2. Reads(b, q[i], name[i], q[i + 1]) /\ p[k + 1] = q[i + 1] /\ labels[k] = name[i]
    BY <1>2, <1>3, <1>4, <2>1
  <2>3. LabelAt(b, q[i], labels[k]) /\ p[k + 1] = q[i] + 1 + Len(labels[k])
    <3>1. Target(b, q[i]) = q[i]
      BY Zenon DEF Target
    <3> QED
      BY <2>2, <3>1, Zenon DEF Reads
  <2>4. Target(b, p[k]) = q[i]
    BY Zenon DEF Target
  <2>5. p[k] < Len(b)
    BY ByteFacts
  <2> QED
    BY <2>3, <2>4, <2>5, Zenon DEF Reads
<1>7. ASSUME NEW x \in k .. n
      PROVE  Reads(b, p[x], labels[x], p[x + 1])
  <2>1. CASE x = k
    BY <1>6, <2>1
  <2>2. CASE x # k
    <3> DEFINE y == i + (x - k)
    <3>1. /\ x \in k + 1 .. n + 1 /\ x + 1 \in k + 1 .. n + 1 /\ y \in i .. o
          /\ x - k \in 0 .. n - k /\ k + (x - k) = x /\ i + (x + 1 - k) = y + 1
      BY <1>1, <1>2, <2>2
    <3>2. p[x] = q[y] /\ p[x + 1] = q[y + 1] /\ labels[x] = name[y]
      BY <1>2, <1>4, <3>1
    <3> HIDE DEF y
    <3>3. Reads(b, q[y], name[y], q[y + 1])
      BY <1>3, <3>1
    <3> QED
      BY <3>2, <3>3
  <2> QED
    BY <2>1, <2>2
<1>8. p[n + 1] = q[o + 1]
  <2> DEFINE x == n + 1
  <2>1. x \in k + 1 .. n + 1 /\ i + (x - k) = o + 1
    BY <1>1, <1>2
  <2> HIDE DEF x
  <2>2. p[x] = q[i + (x - k)]
    BY <1>4, <2>1, Zenon
  <2> QED
    BY <2>1, <2>2 DEF x
<1> QED
  BY <1>3, <1>5, <1>7, <1>8, Zenon DEF NamePath, n

Alike(Known) == Known \subseteq DnsName /\ \A a, c \in Known : Last(a) = Last(c)

\* A name that was written at an offset, and is the last that was.
NameAt(bytes, hole, labels, at) ==
    \E p, j : /\ p[1] = at
              /\ \A b : Later(b, bytes, hole) =>
                     NamePath(b, p, labels, 1) /\ EndsAt(b, p, labels, j, Len(bytes))

\* An answer is never longer than its buffer.
Fits(m) == m.compress => Len(m.bytes) <= m.size /\ m.size <= 16384

\* Between two names: the whole table has a meaning.
Ready(m, hole, Known) ==
    /\ m \in Buf /\ Within(hole, m.bytes)
    /\ ~m.compress => m.table = <<>>
    /\ Fits(m)
    /\ TableMeans(m.table, m.bytes, hole, Known)

NameMade(m, labels, Known, hole, start) ==
    /\ Ready(m, hole, Known)
    /\ start + 2 <= Len(m.bytes)
    /\ NameAt(m.bytes, hole, labels, start)

\* Entries have a meaning, or are the places of the labels of the name.
Entries(table, bytes, hole, Known, p, k) ==
    \A e \in 1 .. Len(table) : \/ EntryMeans(bytes, hole, Known, table[e])
                               \/ \E i \in 1 .. k : table[e] = p[i]

\* In a name: the first k labels are written, their places may be in the table.
LabelsMade(m, labels, Known, hole, start, k, q) ==
    /\ m \in Buf /\ Within(hole, m.bytes)
    /\ ~m.compress => m.table = <<>>
    /\ Fits(m)
    /\ q[1] = start /\ q[k + 1] = Len(m.bytes) /\ start + k <= Len(m.bytes)
    /\ \A b : Later(b, m.bytes, hole) => LabelsAt(b, q, labels, k)
    /\ Entries(m.table, m.bytes, hole, Known, q, k)

\* The bytes end with the end of a name that has j - 1 labels of its own.
Ended(bytes, hole, labels, p, j) ==
    /\ j \in 1 .. Len(labels) + 1
    /\ \A b : Later(b, bytes, hole) => /\ LabelsAt(b, p, labels, j - 1)
                                       /\ NamePath(b, p, labels, j)
                                       /\ (j <= Len(labels) => IsRef(b[p[j] + 1]))
    /\ Len(bytes) = IF j <= Len(labels) THEN p[j] + 2 ELSE p[j] + 1

\* The end of a name: where it is, and that the table has a meaning again.
LEMMA NameEnds ==
    ASSUME NEW bytes \in Seq(Octet), NEW hole, NEW Known, NEW labels \in Known, labels \in DnsName,
           NEW j, NEW p, NEW table, Ended(bytes, hole, labels, p, j),
           Entries(table, bytes, hole, Known, p, j - 1)
    PROVE  TableMeans(table, bytes, hole, Known) /\ NameAt(bytes, hole, labels, p[1])
<1>0. /\ j \in 1 .. Len(labels) + 1
      /\ Len(bytes) = IF j <= Len(labels) THEN p[j] + 2 ELSE p[j] + 1
  BY DEF Ended
<1>1. ASSUME NEW b, Later(b, bytes, hole)
      PROVE  /\ NamePath(b, p, labels, 1)
             /\ \A i \in 1 .. j - 1 : ~IsRef(b[p[i] + 1]) /\ NamePath(b, p, labels, i)
             /\ EndsAt(b, p, labels, j, Len(bytes))
  <2>1. LabelsAt(b, p, labels, j - 1) /\ NamePath(b, p, labels, j)
        /\ (j <= Len(labels) => IsRef(b[p[j] + 1]))
    BY <1>1, Zenon DEF Ended
  <2>2. b \in Seq(Octet)
    BY <1>1 DEF Later
  <2>3. /\ NamePath(b, p, labels, 1)
        /\ \A i \in 1 .. j - 1 : ~IsRef(b[p[i] + 1]) /\ NamePath(b, p, labels, i)
    BY <1>0, <2>1, <2>2, PathJoins
  <2>4. j <= Len(labels) \/ j = Len(labels) + 1
    <3>1. Len(labels) \in Nat
      BY NameFacts
    <3> QED
      BY <1>0, <3>1
  <2>5. \/ j <= Len(labels) /\ IsRef(b[p[j] + 1]) /\ Len(bytes) = p[j] + 2
        \/ j = Len(labels) + 1 /\ Len(bytes) = p[j] + 1
    <3>1. CASE j <= Len(labels)
      BY <1>0, <2>1, <3>1, Zenon
    <3>2. CASE ~(j <= Len(labels))
      BY <1>0, <2>4, <3>2, Zenon
    <3> QED
      BY <3>1, <3>2
  <2> QED
    BY <1>0, <2>3, <2>5, Zenon DEF EndsAt
<1>2. NameAt(bytes, hole, labels, p[1])
  BY <1>1, Zenon DEF NameAt
<1>3. ASSUME NEW e \in 1 .. Len(table), NEW i \in 1 .. j - 1, table[e] = p[i]
      PROVE  EntryMeans(bytes, hole, Known, table[e])
  <2>1. i \in 1 .. Len(labels)
    <3>1. Len(labels) \in Nat
      BY NameFacts
    <3> QED
      BY <1>0, <3>1
  <2>2. \A b : Later(b, bytes, hole) => NamePath(b, p, labels, i) /\ ~IsRef(b[table[e] + 1])
    BY <1>1, <1>3, Zenon
  <2> QED
    BY <1>3, <2>1, <2>2, Zenon DEF EntryMeans
<1>4. TableMeans(table, bytes, hole, Known)
  BY <1>3, Zenon DEF TableMeans, Entries
<1> QED
  BY <1>2, <1>4

\* One more label.
LEMMA Labels ==
    ASSUME NEW m \in Buf, m.ok, NEW label \in Label
    PROVE  LET n == MakeLabel(m, label)
           IN /\ After(m, n)
              /\ n.ok => /\ n.bytes = m.bytes \o (<<Len(label)>> \o label)
                         /\ Len(m.bytes) + Len(label) + 1 <= n.size
                         /\ ~m.compress => n.table = m.table
                         /\ \A e \in 1 .. Len(n.table) :
                                \/ n.table[e] = Len(m.bytes)
                                \/ \E d \in 1 .. Len(m.table) : n.table[e] = m.table[d]
<1> DEFINE n == MakeLabel(m, label)
           at == Len(m.bytes)
           more == <<Len(label)>> \o label
           o == PutBytes(m, more)
           table == IF Len(m.table) < TableSize THEN Append(m.table, at)
                    ELSE [m.table EXCEPT ![(m.added % TableSize) + 1] = at]
<1>1. /\ m.bytes \in Seq(Octet) /\ m.size \in Int /\ m.ok = TRUE /\ m.compress \in BOOLEAN
      /\ m.table \in Seq(Nat) /\ m.added \in Nat /\ at \in Nat
  BY DEF Buf
<1>2. Len(label) \in 1 .. 191 /\ label \in Seq(Octet)
  BY DEF Label
<1>3. more \in Seq(Octet)
  <2>1. Len(label) \in Octet
    BY <1>2 DEF Octet
  <2>2. <<Len(label)>> \in Seq(Octet)
    BY <2>1
  <2> QED
    BY <1>2, <2>2, Concat
<1> HIDE DEF more
<1>4. m.bytes \o more \in Seq(Octet) /\ Later(m.bytes \o more, m.bytes, {})
  BY <1>1, <1>3, LaterAppend
<1>5. /\ o \in Buf /\ o.bytes = m.bytes \o more /\ o.size = m.size /\ o.ok = TRUE
      /\ o.compress = m.compress /\ o.table = m.table /\ o.added = m.added
  BY <1>1, <1>4 DEF PutBytes, Buf
<1> HIDE DEF o
<1>6. CASE Remain(m) <= Len(label) + 1
  <2>1. n = [m EXCEPT !.ok = FALSE]
    BY <1>6 DEF MakeLabel, Fail
  <2> HIDE DEF n
  <2>2. n \in Buf /\ n.ok = FALSE /\ n.size = m.size /\ n.compress = m.compress
    BY <2>1 DEF Buf
  <2> QED
    BY <2>2 DEF After, n
<1>7. CASE ~(Remain(m) <= Len(label) + 1)
  <2>1. n = mdns_string_table_add(o, at)
    BY <1>7 DEF MakeLabel, o, more
  <2>2. at + Len(label) + 1 <= m.size
    BY <1>1, <1>2, <1>7 DEF Remain
  <2>3. CASE ~m.compress
    <3>1. n = o
      BY <1>5, <2>1, <2>3 DEF mdns_string_table_add
    <3> HIDE DEF n
    <3> QED
      BY <1>1, <1>4, <1>5, <2>2, <3>1 DEF After, n, more
  <2>4. CASE m.compress
    <3>1. n = [o EXCEPT !.added = m.added + 1, !.table = table]
      BY <1>5, <2>1, <2>4 DEF mdns_string_table_add
    <3> HIDE DEF n, at
    <3>2. table \in Seq(Nat)
          /\ \A e \in 1 .. Len(table) : \/ table[e] = at
                                        \/ \E d \in 1 .. Len(m.table) : table[e] = m.table[d]
      <4>1. CASE Len(m.table) < TableSize
        <5>1. table = Append(m.table, at)
          BY <4>1
        <5> HIDE DEF table
        <5> QED
          BY <1>1, <5>1
      <4>2. CASE ~(Len(m.table) < TableSize)
        <5> DEFINE x == (m.added % TableSize) + 1
        <5>1. table = [m.table EXCEPT ![x] = at]
          BY <4>2
        <5>2. x \in 1 .. Len(m.table)
          <6>1. TableSize \in Nat /\ TableSize > 0 /\ Len(m.table) \in Nat
            BY <1>1, SizeAssumption
          <6>2. m.added % TableSize \in 0 .. TableSize - 1
            BY <1>1, <6>1
          <6> QED
            BY <4>2, <6>1, <6>2
        <5> HIDE DEF x, table
        <5>3. table \in Seq(Nat) /\ Len(table) = Len(m.table)
              /\ \A e \in 1 .. Len(m.table) : table[e] = IF e = x THEN at ELSE m.table[e]
          BY <1>1, <5>1, <5>2, ExceptSeq
        <5> QED
          BY <5>3
      <4> QED
        BY <4>1, <4>2
    <3> HIDE DEF table
    <3>3. n \in Buf /\ n.table = table /\ n.bytes = o.bytes /\ n.size = o.size /\ n.ok = o.ok
          /\ n.compress = o.compress
      <4> DEFINE counted == [o EXCEPT !.added = m.added + 1]
      <4>1. /\ counted \in Buf /\ counted.bytes = o.bytes /\ counted.size = o.size
            /\ counted.ok = o.ok /\ counted.compress = o.compress
        <5> DEFINE more1 == m.added + 1
        <5>1. more1 \in Nat /\ counted = [o EXCEPT !.added = more1]
          BY <1>1
        <5>2. o \in Buf
          BY <1>5
        <5> HIDE DEF more1, counted
        <5>3. counted \in Buf
          BY <5>1, <5>2 DEF Buf
        <5>4. counted.bytes = o.bytes /\ counted.size = o.size /\ counted.ok = o.ok
              /\ counted.compress = o.compress
          BY <5>1, <5>2 DEF Buf
        <5> QED
          BY <5>3, <5>4
      <4>2. n = [counted EXCEPT !.table = table]
        BY <3>1
      <4> HIDE DEF counted
      <4> QED
        BY <3>2, <4>1, <4>2 DEF Buf
    <3>4. After(m, n)
      BY <1>1, <1>4, <1>5, <3>3 DEF After
    <3>5. n.bytes = m.bytes \o more /\ at + Len(label) + 1 <= n.size
      BY <1>5, <2>2, <3>3
    <3> QED
      BY <2>4, <3>2, <3>3, <3>4, <3>5, Zenon DEF n, at, more
  <2> QED
    BY <2>3, <2>4
<1> QED
  BY <1>6, <1>7

\* After the label k the name goes on.
LEMMA LabelGoesOn ==
    ASSUME NEW labels \in DnsName, NEW Known, NEW hole, NEW start, NEW k \in 1 .. Len(labels),
           NEW m, NEW q, LabelsMade(m, labels, Known, hole, start, k - 1, q), m.ok, start \in Nat,
           MakeLabel(m, labels[k]).ok
    PROVE  \E r : LabelsMade(MakeLabel(m, labels[k]), labels, Known, hole, start, k, r)
<1> DEFINE n == MakeLabel(m, labels[k])
           label == labels[k]
           at == Len(m.bytes)
           more == <<Len(label)>> \o label
           end == Len(n.bytes)
           r == [x \in 1 .. k + 1 |-> IF x = k + 1 THEN end ELSE q[x]]
<1>1. label \in Label /\ k \in Nat
  BY NameFacts
<1>2. /\ m \in Buf /\ Within(hole, m.bytes)
      /\ ~m.compress => m.table = <<>>
      /\ Fits(m)
      /\ q[1] = start /\ q[k] = at /\ start + (k - 1) <= at
  BY <1>1 DEF LabelsMade
<1>3. \A b : Later(b, m.bytes, hole) => LabelsAt(b, q, labels, k - 1)
  BY Zenon DEF LabelsMade
<1>4. \A e \in 1 .. Len(m.table) : \/ EntryMeans(m.bytes, hole, Known, m.table[e])
                                   \/ \E i \in 1 .. k - 1 : m.table[e] = q[i]
  BY Zenon DEF LabelsMade, Entries
<1>5. m.bytes \in Seq(Octet) /\ at \in Nat /\ m.size \in Int /\ m.table \in Seq(Nat) /\ m.compress \in BOOLEAN
  BY <1>2 DEF Buf
<1>6. /\ After(m, n) /\ n.ok /\ n.bytes = m.bytes \o more
      /\ at + Len(label) + 1 <= n.size
      /\ ~m.compress => n.table = m.table
      /\ \A e \in 1 .. Len(n.table) :
             \/ n.table[e] = at
             \/ \E d \in 1 .. Len(m.table) : n.table[e] = m.table[d]
  <2>1. m \in Buf /\ label \in Label
    BY <1>1, <1>2
  <2> HIDE DEF label
  <2>2. n = MakeLabel(m, label) /\ n.ok
    BY DEF label
  <2> HIDE DEF n
  <2> QED
    BY <2>1, <2>2, Labels
<1>7. n \in Buf /\ n.compress = m.compress /\ n.size = m.size
  BY <1>6 DEF After
<1>8. Len(label) \in 1 .. 191 /\ label \in Seq(Octet)
  BY <1>1 DEF Label
<1>9. /\ more \in Seq(Octet) /\ Len(more) = Len(label) + 1
      /\ more[1] = Len(label) /\ \A i \in 1 .. Len(label) : more[1 + i] = label[i]
  <2>1. Len(label) \in Octet
    BY <1>8, SMTT(30) DEF Octet
  <2>2. <<Len(label)>> \in Seq(Octet) /\ Len(<<Len(label)>>) = 1 /\ <<Len(label)>>[1] = Len(label)
    BY <2>1
  <2> DEFINE one == <<Len(label)>>
  <2> HIDE DEF one, label
  <2>3. /\ more \in Seq(Octet) /\ Len(more) = Len(one) + Len(label)
        /\ \A i \in 1 .. Len(one) : more[i] = one[i]
        /\ \A i \in 1 .. Len(label) : more[Len(one) + i] = label[i]
    BY <1>8, <2>2, Concat DEF one
  <2>4. Len(one) = 1 /\ one[1] = Len(label) /\ Len(label) \in Nat
    BY <1>8, <2>2 DEF one
  <2> HIDE DEF more
  <2>5. 1 \in 1 .. Len(one) /\ Len(one) + Len(label) = Len(label) + 1
    BY <2>4
  <2>6. more[1] = Len(label)
    BY <2>3, <2>4, <2>5, Zenon
  <2>7. \A i \in 1 .. Len(label) : more[1 + i] = label[i]
    BY <2>3, <2>4, Zenon
  <2> QED
    BY <2>3, <2>5, <2>6, <2>7, Zenon
<1> HIDE DEF n, label, at, more
<1>10. end = at + Len(label) + 1 /\ end \in Nat
  <2>1. Len(m.bytes \o more) = at + Len(more)
    BY <1>5, <1>9, Concat DEF at
  <2>2. end = at + Len(more)
    BY <1>6, <2>1
  <2> HIDE DEF end
  <2> QED
    BY <1>5, <1>8, <1>9, <2>2
<1> HIDE DEF end
<1>11. r[k + 1] = end /\ \A x \in 1 .. k : r[x] = q[x]
  BY <1>1
<1> HIDE DEF r
<1>12. ASSUME NEW b, Later(b, n.bytes, hole)
       PROVE  Later(b, m.bytes, hole) /\ LabelsAt(b, r, labels, k)
  <2>1. /\ Later(b, m.bytes, hole) /\ at + Len(more) <= Len(b)
        /\ Has(b, at, more)
    <3>1. Within(hole, m.bytes) /\ m.bytes \in Seq(Octet) /\ more \in Seq(Octet)
      BY <1>2, <1>5, <1>9
    <3>2. Later(b, m.bytes \o more, hole)
      BY <1>6, <1>12
    <3> QED
      BY <3>1, <3>2, LaterReads, Zenon DEF at
  <2>2. \A i \in 1 .. k - 1 : /\ q[i] \in Nat /\ LabelAt(b, q[i], labels[i])
                              /\ q[i + 1] = q[i] + 1 + Len(labels[i])
    BY <1>3, <2>1, Zenon DEF LabelsAt
  <2>3. LabelAt(b, at, label)
    <3>1. at + 1 + Len(label) <= Len(b)
      <4>1. Len(b) \in Nat
        BY <1>12, ByteFacts DEF Later
      <4> QED
        BY <1>5, <1>8, <1>9, <2>1, <4>1
    <3>2. b[at + 1] = Len(label)
      BY <1>8, <1>9, <2>1 DEF Has
    <3>3. ASSUME NEW i \in 1 .. Len(label)
          PROVE  b[at + 1 + i] = label[i]
      <4>1. 1 + i \in 1 .. Len(more) /\ at + (1 + i) = at + 1 + i
        BY <1>5, <1>8, <1>9
      <4> QED
        BY <1>9, <2>1, <4>1 DEF Has
    <3> QED
      BY <1>5, <3>1, <3>2, <3>3 DEF LabelAt
  <2>4. ASSUME NEW i \in 1 .. k
        PROVE  /\ r[i] \in Nat /\ LabelAt(b, r[i], labels[i])
               /\ r[i + 1] = r[i] + 1 + Len(labels[i])
    <3>1. CASE i = k
      <4>1. r[i] = at /\ labels[i] = label /\ r[i + 1] = end
        BY <1>1, <1>2, <1>11, <3>1 DEF label
      <4>2. end = at + 1 + Len(label)
        BY <1>5, <1>8, <1>10
      <4> QED
        BY <1>5, <2>3, <4>1, <4>2
    <3>2. CASE i # k
      <4>1. i \in 1 .. k - 1 /\ i + 1 \in 1 .. k
        BY <1>1, <3>2
      <4> QED
        BY <1>11, <2>2, <4>1
    <3> QED
      BY <3>1, <3>2
  <2> QED
    BY <2>1, <2>4, Zenon DEF LabelsAt
<1>13. \A b : Later(b, n.bytes, hole) => LabelsAt(b, r, labels, k)
  BY <1>12
<1>14. LaterOf(n.bytes, hole, m.bytes, hole)
  BY <1>12, Zenon DEF LaterOf
<1>15. ASSUME NEW e \in 1 .. Len(n.table)
       PROVE  \/ EntryMeans(n.bytes, hole, Known, n.table[e])
              \/ \E i \in 1 .. k : n.table[e] = r[i]
  <2>1. CASE n.table[e] = at
    <3>1. r[k] = at /\ k \in 1 .. k
      BY <1>1, <1>2, <1>11
    <3> QED
      BY <2>1, <3>1
  <2>2. ASSUME NEW d \in 1 .. Len(m.table), n.table[e] = m.table[d]
        PROVE  \/ EntryMeans(n.bytes, hole, Known, n.table[e])
               \/ \E i \in 1 .. k : n.table[e] = r[i]
    <3>1. CASE EntryMeans(m.bytes, hole, Known, m.table[d])
      BY <1>14, <2>2, <3>1, EntryStays, Zenon
    <3>2. ASSUME NEW i \in 1 .. k - 1, m.table[d] = q[i]
          PROVE  \E x \in 1 .. k : n.table[e] = r[x]
      <4>1. i \in 1 .. k
        BY <1>1
      <4> QED
        BY <1>11, <2>2, <3>2, <4>1
    <3> QED
      BY <1>4, <3>1, <3>2
  <2> QED
    BY <1>6, <2>1, <2>2
<1>16. Within(hole, n.bytes) /\ start + k <= Len(n.bytes)
  <2>1. 1 .. at \subseteq 1 .. end
    BY <1>5, <1>8, <1>10
  <2>3. start + k <= end
    <3>1. start + (k - 1) <= at
      BY <1>2
    <3> QED
      BY <1>1, <1>5, <1>8, <1>10, <3>1
  <2> QED
    BY <1>2, <2>1, <2>3 DEF at, end, Within
<1>17. Fits(n)
  <2>1. end <= n.size
    BY <1>5, <1>6, <1>7, <1>8, <1>10
  <2> QED
    BY <1>2, <1>7, <2>1 DEF end, Fits
<1>18. r[1] = start /\ r[k + 1] = Len(n.bytes)
  BY <1>1, <1>2, <1>11 DEF end
<1>19. ~n.compress => n.table = <<>>
  BY <1>2, <1>6, <1>7
<1>20. LabelsMade(n, labels, Known, hole, start, k, r)
  <2>1. Entries(n.table, n.bytes, hole, Known, r, k)
    BY <1>15, Zenon DEF Entries
  <2> QED
    BY <1>7, <1>13, <1>16, <1>17, <1>18, <1>19, <2>1, Zenon DEF LabelsMade
<1> QED
  BY <1>20 DEF n, label

\* An offset inside of a buffer fits into a reference.
LEMMA ShortPlace ==
    ASSUME NEW t \in Nat, NEW size \in Nat, t < size, size <= 16384
    PROVE  t \in Place
BY SMTT(30) DEF Place

\* Where the labels from k on are found, the rest of a name in the table is the same.
LEMMA FoundMeans ==
    ASSUME NEW Known, Alike(Known), NEW labels \in Known, NEW hole, NEW start,
           NEW k \in 1 .. Len(labels), NEW m, NEW q,
           LabelsMade(m, labels, Known, hole, start, k - 1, q),
           mdns_string_table_find(m, labels, k) # Nowhere
    PROVE  LET t == mdns_string_table_find(m, labels, k)
           IN /\ t \in Place /\ m.compress
              /\ \E name \in Known : \E i \in 1 .. Len(name) : \E p :
                     /\ p[i] = t /\ SameEnd(labels, k, name, i)
                     /\ \A b : Later(b, m.bytes, hole) => NamePath(b, p, name, i) /\ ~IsRef(b[t + 1])
<1> DEFINE t == mdns_string_table_find(m, labels, k)
           n == Len(labels)
           left == n - k + 1
<1>1. labels \in DnsName /\ Known \subseteq DnsName /\ \A c \in Known : Last(labels) = Last(c)
  BY DEF Alike
<1>2. /\ n \in 1 .. 64 /\ \A i \in 1 .. n : labels[i] \in Label
      /\ \A i, j \in 1 .. n : labels[i] = labels[j] => i = j
  BY <1>1, NameFacts
<1>3. m \in Buf /\ Fits(m) /\ (~m.compress => m.table = <<>>)
  BY DEF LabelsMade
<1>4. \A b : Later(b, m.bytes, hole) => LabelsAt(b, q, labels, k - 1)
  BY Zenon DEF LabelsMade
<1>5. \A e \in 1 .. Len(m.table) : \/ EntryMeans(m.bytes, hole, Known, m.table[e])
                                   \/ \E i \in 1 .. k - 1 : m.table[e] = q[i]
  BY Zenon DEF LabelsMade, Entries
<1>6. m.bytes \in Seq(Octet) /\ m.table \in Seq(Nat) /\ m.size \in Int /\ Len(m.bytes) \in Nat
  BY <1>3 DEF Buf
<1>7. Later(m.bytes, m.bytes, hole)
  BY <1>6, LaterSelf
<1>8. PICK f, e : /\ IsMatch(f, m.bytes, labels) /\ e \in 1 .. Len(m.table)
                  /\ t = m.table[e] /\ f[left][t]
  <2>1. \E f, e : /\ IsMatch(f, m.bytes, labels) /\ e \in 1 .. Len(m.table)
                  /\ t = m.table[e] /\ f[Len(labels) - k + 1][m.table[e]]
    BY <1>1, <1>3, Finds, Zenon
  <2> QED
    BY <2>1, Zenon
<1>9. m.compress
  <2> SUFFICES ASSUME ~m.compress PROVE FALSE
    OBVIOUS
  <2>1. m.table = <<>>
    BY <1>3
  <2> QED
    BY <1>8, <2>1
<1>10. left \in 1 .. n /\ n - left + 1 = k /\ k \in 1 .. n
  BY <1>2
<1> HIDE DEF t, n, left
<1>11. ASSUME NEW i \in 1 .. k - 1, t = q[i]
       PROVE  FALSE
  <2>1. i \in 1 .. n /\ i # k
    BY <1>2, <1>10
  <2>2. LabelAt(m.bytes, t, labels[i]) /\ labels[i] \in Label
    BY <1>2, <1>4, <1>7, <1>11, <2>1, Zenon DEF LabelsAt
  <2>3. Reads(m.bytes, t, labels[i], t + 1 + Len(labels[i]))
    BY <1>6, <2>2, LabelReads
  <2>4. labels[i] = labels[n - left + 1]
    <3>1. left \in 1 .. Len(labels)
      BY <1>10 DEF n
    <3>2. m.bytes \in Seq(Octet) /\ IsMatch(f, m.bytes, labels) /\ f[left][t]
      BY <1>6, <1>8
    <3>3. labels[i] = labels[Len(labels) - left + 1]
      BY <1>1, <2>2, <2>3, <3>1, <3>2, MatchReads
    <3> QED
      BY <3>3 DEF n
  <2> QED
    BY <1>2, <1>10, <2>1, <2>4
<1>12. EntryMeans(m.bytes, hole, Known, t)
  BY <1>5, <1>8, <1>11, Zenon
<1>13. PICK name \in Known : \E i \in 1 .. Len(name) : \E p :
          /\ p[i] = t
          /\ \A b : Later(b, m.bytes, hole) => NamePath(b, p, name, i) /\ ~IsRef(b[t + 1])
  BY <1>12, Zenon DEF EntryMeans
<1>14. PICK i \in 1 .. Len(name) : \E p :
          /\ p[i] = t
          /\ \A b : Later(b, m.bytes, hole) => NamePath(b, p, name, i) /\ ~IsRef(b[t + 1])
  BY <1>13, Zenon
<1>15. PICK p :
          /\ p[i] = t
          /\ \A b : Later(b, m.bytes, hole) => NamePath(b, p, name, i) /\ ~IsRef(b[t + 1])
  BY <1>14, Zenon
<1>16. name \in DnsName /\ Last(labels) = Last(name) /\ NamePath(m.bytes, p, name, i)
  <2>1. NamePath(m.bytes, p, name, i)
    BY <1>7, <1>15, Zenon
  <2> QED
    BY <1>1, <2>1, Zenon
<1>17. SameEnd(labels, k, name, i)
  <2>1. f[Len(labels) - k + 1][p[i]]
    BY <1>8, <1>15 DEF left, n
  <2> QED
    BY <1>1, <1>6, <1>8, <1>16, <2>1, MatchMeans
<1>18. t \in Place
  <2>1. i \in i .. Len(name)
    OBVIOUS
  <2>2. Reads(m.bytes, t, name[i], p[i + 1])
    BY <1>15, <1>16, <2>1, Zenon DEF NamePath
  <2>3. t \in Nat /\ t < Len(m.bytes)
    BY <2>2, Zenon DEF Reads
  <2>4. Len(m.bytes) <= 16384
    BY <1>3, <1>6, <1>9 DEF Fits
  <2> DEFINE size == Len(m.bytes)
  <2>5. t < size /\ size <= 16384 /\ size \in Nat
    BY <1>6, <2>3, <2>4
  <2> HIDE DEF size
  <2>6. t \in Nat
    BY <2>3
  <2> QED
    BY <2>5, <2>6, ShortPlace
<1>19. \E c \in Known : \E x \in 1 .. Len(c) : \E r :
          /\ r[x] = t /\ SameEnd(labels, k, c, x)
          /\ \A b : Later(b, m.bytes, hole) => NamePath(b, r, c, x) /\ ~IsRef(b[t + 1])
  BY <1>15, <1>17, Zenon
<1> QED
  BY <1>9, <1>18, <1>19, Zenon DEF t

\* A reference ends a name.
LEMMA RefEnds ==
    ASSUME NEW Known, Alike(Known), NEW labels \in Known, NEW hole, NEW start \in Nat,
           NEW k \in 1 .. Len(labels), NEW m, NEW q,
           LabelsMade(m, labels, Known, hole, start, k - 1, q),
           mdns_string_table_find(m, labels, k) # Nowhere,
           mdns_string_make_ref(m, mdns_string_table_find(m, labels, k)).ok
    PROVE  NameMade(mdns_string_make_ref(m, mdns_string_table_find(m, labels, k)),
                    labels, Known, hole, start)
<1> DEFINE t == mdns_string_table_find(m, labels, k)
           n == mdns_string_make_ref(m, t)
           ref == Short(RefCode(t))
           at == Len(m.bytes)
<1>1. labels \in DnsName /\ Known \subseteq DnsName
  BY DEF Alike
<1>2. /\ m \in Buf /\ Fits(m) /\ Within(hole, m.bytes)
      /\ q[1] = start /\ q[k] = at /\ start + (k - 1) <= at
  BY NameFacts DEF LabelsMade
<1>3. \A b : Later(b, m.bytes, hole) => LabelsAt(b, q, labels, k - 1)
  BY Zenon DEF LabelsMade
<1>4. \A e \in 1 .. Len(m.table) : \/ EntryMeans(m.bytes, hole, Known, m.table[e])
                                   \/ \E i \in 1 .. k - 1 : m.table[e] = q[i]
  BY Zenon DEF LabelsMade, Entries
<1>5. m.bytes \in Seq(Octet) /\ m.size \in Int /\ at \in Nat
  BY <1>2 DEF Buf
<1>6. /\ t \in Place /\ m.compress
      /\ \E name \in Known : \E i \in 1 .. Len(name) : \E p :
             /\ p[i] = t /\ SameEnd(labels, k, name, i)
             /\ \A b : Later(b, m.bytes, hole) => NamePath(b, p, name, i) /\ ~IsRef(b[t + 1])
  BY FoundMeans, Zenon
<1>7. RefCode(t) \in Nat
  BY <1>6, RefNumber
<1>8. ref \in Seq(Octet) /\ Len(ref) = 2
  BY <1>7, ShortBytes
<1>9. n = PutIfRoom(m, 2, ref) /\ n.ok
  BY DEF mdns_string_make_ref, RefCode
<1> HIDE DEF n, t, ref
<1>10. /\ After(m, n) /\ n.table = m.table /\ n.bytes = m.bytes \o ref /\ at + 2 <= n.size
  <2> HIDE DEF at
  <2> QED
    BY <1>2, <1>8, <1>9, Puts, ZenonT(30) DEF at
<1>11. n \in Buf /\ n.compress = m.compress /\ n.size = m.size /\ n.bytes \in Seq(Octet)
  BY <1>10 DEF After, Buf
<1>12. Len(n.bytes) = at + 2
  <2>1. Len(m.bytes \o ref) = Len(m.bytes) + Len(ref)
    BY <1>5, <1>8, Concat
  <2> QED
    BY <1>8, <1>10, <2>1
<1> HIDE DEF at
<1>13. PICK name \in Known : \E i \in 1 .. Len(name) : \E p :
             /\ p[i] = t /\ SameEnd(labels, k, name, i)
             /\ \A b : Later(b, m.bytes, hole) => NamePath(b, p, name, i) /\ ~IsRef(b[t + 1])
  BY <1>6, Zenon
<1>14. PICK i \in 1 .. Len(name) : \E p :
             /\ p[i] = t /\ SameEnd(labels, k, name, i)
             /\ \A b : Later(b, m.bytes, hole) => NamePath(b, p, name, i) /\ ~IsRef(b[t + 1])
  BY <1>13, Zenon
<1>15. PICK p :
             /\ p[i] = t /\ SameEnd(labels, k, name, i)
             /\ \A b : Later(b, m.bytes, hole) => NamePath(b, p, name, i) /\ ~IsRef(b[t + 1])
  BY <1>14, Zenon
<1> DEFINE r == [x \in 1 .. Len(labels) + 1 |-> IF x <= k THEN q[x] ELSE p[i + (x - k)]]
<1>16. /\ \A x \in 1 .. k : r[x] = q[x]
       /\ \A x \in k + 1 .. Len(labels) + 1 : r[x] = p[i + (x - k)]
       /\ k \in 1 .. k /\ 1 \in 1 .. k
  <2>1. Len(labels) \in Nat
    BY <1>1, NameFacts
  <2> QED
    BY <2>1
<1> HIDE DEF r
<1>17. r[k] = at /\ r[1] = start /\ \A x \in 1 .. k - 1 : r[x] = q[x] /\ r[x + 1] = q[x + 1]
  <2>1. \A x \in 1 .. k - 1 : x \in 1 .. k /\ x + 1 \in 1 .. k
    OBVIOUS
  <2> QED
    BY <1>2, <1>16, <2>1, Zenon
<1>18. LaterOf(n.bytes, hole, m.bytes, hole)
  BY <1>2, <1>5, <1>8, <1>10, LaterOfAppend
<1>19. ASSUME NEW b, Later(b, n.bytes, hole)
       PROVE  LabelsAt(b, r, labels, k - 1) /\ NamePath(b, r, labels, k) /\ IsRef(b[r[k] + 1])
  <2>1. Later(b, m.bytes, hole) /\ b \in Seq(Octet)
    <3>1. Later(b, m.bytes, hole)
      BY <1>18, <1>19, Zenon DEF LaterOf
    <3> QED
      BY <3>1 DEF Later
  <2>2. Has(b, at, ref) /\ at + 2 <= Len(b)
    <3>1. Later(b, m.bytes \o ref, hole)
      BY <1>10, <1>19
    <3> QED
      BY <1>2, <1>5, <1>8, <3>1, LaterReads DEF at
  <2>3. IsRef(b[at + 1]) /\ RefTo(b, at) = t
    BY <1>5, <1>6, <2>2, RefReads DEF ref
  <2>4. LabelsAt(b, r, labels, k - 1)
    <3>1. LabelsAt(b, q, labels, k - 1)
      BY <1>3, <2>1, Zenon
    <3> QED
      BY <1>17, <3>1, Zenon DEF LabelsAt
  <2>5. NamePath(b, r, labels, k)
    <3>1. NamePath(b, p, name, i) /\ ~IsRef(b[p[i] + 1]) /\ p[i] = t /\ SameEnd(labels, k, name, i)
      BY <1>15, <2>1, Zenon
    <3>2. name \in DnsName /\ r[k] \in Nat /\ r[k] + 2 <= Len(b) /\ IsRef(b[r[k] + 1]) /\ RefTo(b, r[k]) = p[i]
      BY <1>1, <1>5, <1>17, <2>2, <2>3, <3>1
    <3> QED
      BY <1>1, <1>16, <2>1, <3>1, <3>2, PathRefers
  <2> QED
    BY <1>17, <2>3, <2>4, <2>5
<1>20. ASSUME NEW e \in 1 .. Len(n.table)
       PROVE  \/ EntryMeans(n.bytes, hole, Known, n.table[e])
              \/ \E x \in 1 .. k - 1 : n.table[e] = r[x]
  <2>1. n.table[e] = m.table[e] /\ e \in 1 .. Len(m.table)
    BY <1>10
  <2>2. CASE EntryMeans(m.bytes, hole, Known, m.table[e])
    BY <1>18, <2>1, <2>2, EntryStays, ZenonT(30)
  <2>3. CASE \E x \in 1 .. k - 1 : m.table[e] = q[x]
    BY <1>17, <2>1, <2>3, Zenon
  <2> QED
    BY <1>4, <2>1, <2>2, <2>3
<1>21. k <= Len(labels) /\ k \in 1 .. Len(labels) + 1
  BY <1>1, NameFacts
<1>22. Ended(n.bytes, hole, labels, r, k)
  <2>1. Len(n.bytes) = IF k <= Len(labels) THEN r[k] + 2 ELSE r[k] + 1
    BY <1>12, <1>17, <1>21
  <2> QED
    BY <1>19, <1>21, <2>1, Zenon DEF Ended
<1>23. TableMeans(n.table, n.bytes, hole, Known) /\ NameAt(n.bytes, hole, labels, start)
  <2>1. n.bytes \in Seq(Octet) /\ labels \in DnsName
    BY <1>1, <1>11
  <2>2. Entries(n.table, n.bytes, hole, Known, r, k - 1)
    BY <1>20, Zenon DEF Entries
  <2> QED
    BY <1>17, <1>22, <2>1, <2>2, NameEnds
<1>24. Within(hole, n.bytes)
  BY <1>2, <1>5, <1>12 DEF Within, at
<1>25. Fits(n) /\ n.compress
  <2>1. n.compress /\ Len(n.bytes) <= n.size
    BY <1>6, <1>10, <1>11, <1>12
  <2>2. n.size <= 16384
    BY <1>2, <1>6, <1>11 DEF Fits
  <2> QED
    BY <2>1, <2>2 DEF Fits
<1>26. start + 2 <= Len(n.bytes)
  BY <1>2, <1>5, <1>12
<1>27. NameMade(n, labels, Known, hole, start)
  BY <1>11, <1>17, <1>23, <1>24, <1>25, <1>26, Zenon DEF NameMade, Ready
<1> QED
  BY <1>27 DEF n, t

\* The empty label ends a name.
LEMMA ZeroEnds ==
    ASSUME NEW Known, Alike(Known), NEW labels \in Known, NEW hole, NEW start \in Nat,
           NEW m, NEW q, LabelsMade(m, labels, Known, hole, start, Len(labels), q),
           PutIfRoom(m, 1, << 0 >>).ok
    PROVE  NameMade(PutIfRoom(m, 1, << 0 >>), labels, Known, hole, start)
<1> DEFINE n == PutIfRoom(m, 1, << 0 >>)
           zero == << 0 >>
           at == Len(m.bytes)
           k == Len(labels)
<1>1. labels \in DnsName /\ k \in 1 .. 64
  <2>1. labels \in DnsName
    BY DEF Alike
  <2> QED
    BY <2>1, NameFacts
<1>2. /\ m \in Buf /\ Fits(m) /\ Within(hole, m.bytes) /\ (~m.compress => m.table = <<>>)
      /\ q[1] = start /\ q[k + 1] = at /\ start + k <= at
      /\ Entries(m.table, m.bytes, hole, Known, q, k)
  BY Zenon DEF LabelsMade
<1>3. \A b : Later(b, m.bytes, hole) => LabelsAt(b, q, labels, k)
  BY Zenon DEF LabelsMade
<1>4. m.bytes \in Seq(Octet) /\ m.size \in Int /\ at \in Nat
  BY <1>2 DEF Buf
<1>5. zero \in Seq(Octet) /\ Len(zero) = 1 /\ zero[1] = 0
  BY DEF Octet
<1>6. n = PutIfRoom(m, 1, zero) /\ n.ok
  OBVIOUS
<1> HIDE DEF n, zero
<1>7. /\ After(m, n) /\ n.table = m.table /\ n.bytes = m.bytes \o zero /\ Len(m.bytes) + 1 <= n.size
  <2> HIDE DEF at
  <2> QED
    BY <1>2, <1>5, <1>6, Puts
<1>8. n \in Buf /\ n.compress = m.compress /\ n.size = m.size /\ n.bytes \in Seq(Octet)
  BY <1>7 DEF After, Buf
<1>9. Len(n.bytes) = at + 1
  <2>1. Len(m.bytes \o zero) = Len(m.bytes) + Len(zero)
    BY <1>4, <1>5, Concat
  <2> QED
    BY <1>5, <1>7, <2>1
<1>10. LaterOf(n.bytes, hole, m.bytes, hole)
  BY <1>2, <1>4, <1>5, <1>7, LaterOfAppend
<1> HIDE DEF at, k
<1>11. ASSUME NEW b, Later(b, n.bytes, hole)
       PROVE  LabelsAt(b, q, labels, k) /\ NamePath(b, q, labels, k + 1)
  <2>1. Later(b, m.bytes, hole)
    BY <1>10, <1>11, Zenon DEF LaterOf
  <2>2. LabelsAt(b, q, labels, k)
    BY <1>3, <2>1
  <2>3. Has(b, at, zero) /\ at + 1 <= Len(b)
    <3>1. Later(b, m.bytes \o zero, hole)
      BY <1>7, <1>11
    <3> QED
      BY <1>2, <1>4, <1>5, <3>1, LaterReads DEF at
  <2>4. b[at + 1] = 0
    BY <1>5, <2>3 DEF Has
  <2>5. Len(b) \in Nat
    BY <1>11, ByteFacts DEF Later
  <2>6. q[Len(labels) + 1] = at /\ at < Len(b)
    BY <1>2, <1>4, <2>3, <2>5 DEF k
  <2>7. /\ \A i \in k + 1 .. Len(labels) + 1 : q[i] \in Nat
        /\ \A i \in k + 1 .. Len(labels) : FALSE
    BY <1>1, <1>4, <2>6 DEF k
  <2>8. NamePath(b, q, labels, k + 1)
    BY <2>4, <2>6, <2>7 DEF NamePath
  <2> QED
    BY <2>2, <2>8
<1> DEFINE j == k + 1
<1>12. j \in 1 .. Len(labels) + 1 /\ ~(j <= Len(labels)) /\ j - 1 = k /\ j = k + 1
  BY <1>1 DEF k
<1> HIDE DEF j
<1>13. Ended(n.bytes, hole, labels, q, j)
  <2>1. Len(n.bytes) = IF j <= Len(labels) THEN q[j] + 2 ELSE q[j] + 1
    BY <1>2, <1>9, <1>12
  <2>2. \A b : Later(b, n.bytes, hole) => LabelsAt(b, q, labels, j - 1) /\ NamePath(b, q, labels, j)
    BY <1>11, <1>12
  <2> QED
    BY <1>12, <2>1, <2>2, Zenon DEF Ended
<1>14. TableMeans(n.table, n.bytes, hole, Known) /\ NameAt(n.bytes, hole, labels, start)
  <2>1. Entries(n.table, n.bytes, hole, Known, q, j - 1)
    <3>1. ASSUME NEW e \in 1 .. Len(n.table)
          PROVE  \/ EntryMeans(n.bytes, hole, Known, n.table[e])
                 \/ \E x \in 1 .. k : n.table[e] = q[x]
      <4>1. \/ EntryMeans(m.bytes, hole, Known, n.table[e])
            \/ \E x \in 1 .. k : n.table[e] = q[x]
        BY <1>2, <1>7, Zenon DEF Entries
      <4> QED
        BY <1>10, <4>1, EntryStays, Zenon
    <3> QED
      BY <1>12, <3>1 DEF Entries
  <2>2. TableMeans(n.table, n.bytes, hole, Known) /\ NameAt(n.bytes, hole, labels, q[1])
    BY <1>1, <1>8, <1>13, <2>1, NameEnds
  <2> QED
    BY <1>2, <2>2
<1>15. Within(hole, n.bytes) /\ start + 2 <= Len(n.bytes)
  <2>1. 1 .. at \subseteq 1 .. at + 1
    BY <1>4
  <2>2. start + 2 <= at + 1
    <3>1. k \in Nat /\ 1 <= k /\ start + k <= at
      BY <1>1, <1>2
    <3> HIDE DEF k
    <3> QED
      BY <1>4, <3>1
  <2> QED
    BY <1>2, <1>9, <2>1, <2>2 DEF Within, at
<1>16. Fits(n) /\ (~n.compress => n.table = <<>>)
  <2>1. Len(n.bytes) <= n.size
    BY <1>7, <1>9 DEF at
  <2> QED
    BY <1>2, <1>7, <1>8, <2>1 DEF Fits
<1>17. NameMade(n, labels, Known, hole, start)
  BY <1>8, <1>14, <1>15, <1>16, Zenon DEF NameMade, Ready
<1> QED
  BY <1>17 DEF n

\* One round of the loop of mdns_string_make.
MakeRound(labels, k, s) ==
    IF s.done \/ ~s.m.ok THEN s ELSE MakeNext(s, labels[k], mdns_string_table_find(s.m, labels, k))

MakeState == [m : Buf, done : BOOLEAN]

\* mdns_string_table_find returns an offset of the table.
LEMMA FindType ==
    ASSUME NEW m \in Buf, NEW labels \in DnsName, NEW k \in 1 .. Len(labels),
           mdns_string_table_find(m, labels, k) # Nowhere
    PROVE  mdns_string_table_find(m, labels, k) \in Nat
<1> DEFINE t == mdns_string_table_find(m, labels, k)
<1>1. \E i \in 1 .. Len(m.table) : t = m.table[i]
  <2>1. \E f, i : /\ IsMatch(f, m.bytes, labels) /\ i \in 1 .. Len(m.table)
                  /\ t = m.table[i]
                  /\ f[Len(labels) - k + 1][m.table[i]]
    BY Finds, Zenon
  <2> QED
    BY <2>1, Zenon
<1>2. m.table \in Seq(Nat)
  BY DEF Buf
<1> HIDE DEF t
<1>3. t \in Nat
  BY <1>1, <1>2
<1> QED
  BY <1>3 DEF t

\* mdns_string_make_ref only adds bytes.
LEMMA RefAfter ==
    ASSUME NEW m \in Buf, NEW at \in Nat
    PROVE  After(m, mdns_string_make_ref(m, at))
<1> DEFINE code == 49152 + at
<1>1. code \in Nat
  OBVIOUS
<1>2. mdns_string_make_ref(m, at) = PutIfRoom(m, 2, Short(code))
  BY DEF mdns_string_make_ref
<1> HIDE DEF code
<1>3. Short(code) \in Seq(Octet)
  BY <1>1, ShortBytes
<1>4. After(m, PutIfRoom(m, 2, Short(code)))
  BY <1>3, Puts
<1> QED
  BY <1>2, <1>4

\* One label of mdns_string_make only adds bytes.
LEMMA RoundMakes ==
    ASSUME NEW labels \in DnsName, NEW k \in 1 .. Len(labels), NEW s \in MakeState
    PROVE  MakeRound(labels, k, s) \in MakeState /\ After(s.m, MakeRound(labels, k, s).m)
<1> DEFINE t == mdns_string_table_find(s.m, labels, k)
           r == MakeRound(labels, k, s)
<1>1. s.m \in Buf /\ s.done \in BOOLEAN /\ labels[k] \in Label
  BY NameFacts DEF MakeState
<1>2. CASE s.done \/ ~s.m.ok
  <2>1. r = s
    BY <1>2 DEF MakeRound
  <2> HIDE DEF r
  <2> QED
    BY <1>1, <2>1, AfterSelf DEF r
<1>3. CASE ~(s.done \/ ~s.m.ok) /\ t # Nowhere
  <2>1. r = [m |-> mdns_string_make_ref(s.m, t), done |-> TRUE]
    BY <1>3 DEF MakeRound, MakeNext
  <2>2. t \in Nat
    BY <1>1, <1>3, FindType
  <2> HIDE DEF r, t
  <2>3. After(s.m, mdns_string_make_ref(s.m, t))
    BY <1>1, <2>2, RefAfter
  <2>4. mdns_string_make_ref(s.m, t) \in Buf
    BY <2>3 DEF After
  <2> QED
    BY <2>1, <2>3, <2>4 DEF MakeState, r
<1>4. CASE ~(s.done \/ ~s.m.ok) /\ t = Nowhere
  <2>1. r = [m |-> MakeLabel(s.m, labels[k]), done |-> FALSE]
    BY <1>4 DEF MakeRound, MakeNext
  <2> HIDE DEF r, t
  <2>2. After(s.m, MakeLabel(s.m, labels[k]))
    BY <1>1, <1>4, Labels
  <2>3. MakeLabel(s.m, labels[k]) \in Buf
    BY <2>2 DEF After
  <2> QED
    BY <2>1, <2>2, <2>3 DEF MakeState, r
<1> QED
  BY <1>2, <1>3, <1>4

IsMade(f, m, labels) ==
    f = [k \in 0 .. Len(labels) |->
            IF k = 0 THEN [m |-> m, done |-> FALSE] ELSE MakeRound(labels, k, f[k - 1])]

\* The loop of mdns_string_make, round after round.
LEMMA MakeRounds ==
    ASSUME NEW m \in Buf, NEW labels \in DnsName
    PROVE  \E f : /\ f[0] = [m |-> m, done |-> FALSE]
                  /\ \A k \in 1 .. Len(labels) : f[k] = MakeRound(labels, k, f[k - 1])
                  /\ mdns_string_make(m, labels) = MakeEnd(f[Len(labels)])
<1> DEFINE last == Len(labels)
           base == [m |-> m, done |-> FALSE]
           step == [x \in Nat \X MakeState |->
                       IF x[1] \in 1 .. last THEN MakeRound(labels, x[1], x[2]) ELSE x[2]]
<1>1. last \in Nat
  BY NameFacts
<1>2. base \in MakeState
  BY DEF MakeState
<1>3. step \in [Nat \X MakeState -> MakeState]
  BY RoundMakes
<1>4. \A k \in 1 .. last, s \in MakeState : step[<<k, s>>] = MakeRound(labels, k, s)
  OBVIOUS
<1> HIDE DEF base, step, last
<1>5. PICK g \in [0 .. last -> MakeState] : IsLoop(g, base, step, last)
  BY <1>1, <1>2, <1>3, Loop
<1>6. \A k \in 0 .. last : g[k] = IF k = 0 THEN base ELSE MakeRound(labels, k, g[k - 1])
  <2> TAKE k \in 0 .. last
  <2>1. g[k] = IF k = 0 THEN base ELSE step[<<k, g[k - 1]>>]
    BY <1>5, Zenon DEF IsLoop
  <2>2. CASE k # 0
    <3>1. k \in 1 .. last /\ g[k - 1] \in MakeState
      BY <1>1, <1>5, <2>2
    <3> QED
      BY <1>4, <2>1, <2>2, <3>1, Zenon
  <2> QED
    BY <2>1, <2>2, Zenon
<1>7. IsMade(g, m, labels)
  <2>1. g = [k \in 0 .. last |-> g[k]]
    BY <1>5
  <2>2. g = [k \in 0 .. last |-> IF k = 0 THEN base ELSE MakeRound(labels, k, g[k - 1])]
    BY <1>6, <2>1
  <2> QED
    BY <2>2, Zenon DEF IsMade, base, last
<1> DEFINE f == CHOOSE h : IsMade(h, m, labels)
<1>8. IsMade(f, m, labels)
  BY <1>7, Zenon
<1>9. mdns_string_make(m, labels) = MakeEnd(f[Len(labels)])
  BY DEF mdns_string_make, IsMade, MakeRound
<1> HIDE DEF f
<1>10. /\ 0 \in 0 .. Len(labels)
       /\ \A k \in 1 .. Len(labels) : k \in 0 .. Len(labels) /\ k # 0
  BY <1>1 DEF last
<1>11. f[0] = [m |-> m, done |-> FALSE]
  BY <1>8, <1>10, Zenon DEF IsMade
<1>12. \A k \in 1 .. Len(labels) : f[k] = MakeRound(labels, k, f[k - 1])
  <2> TAKE k \in 1 .. Len(labels)
  <2>1. f[k] = IF k = 0 THEN [m |-> m, done |-> FALSE] ELSE MakeRound(labels, k, f[k - 1])
    BY <1>8, <1>10, Zenon DEF IsMade
  <2> QED
    BY <1>10, <2>1, Zenon
<1> QED
  BY <1>9, <1>11, <1>12, Zenon

\* A name adds to what is written.
LEMMA Makes ==
    ASSUME NEW m \in Buf, NEW labels \in DnsName
    PROVE  After(m, mdns_string_make(m, labels))
<1>1. PICK f : /\ f[0] = [m |-> m, done |-> FALSE]
               /\ \A k \in 1 .. Len(labels) : f[k] = MakeRound(labels, k, f[k - 1])
               /\ mdns_string_make(m, labels) = MakeEnd(f[Len(labels)])
  BY MakeRounds, Zenon
<1> DEFINE last == Len(labels)
           Good == {k \in 0 .. last : f[k] \in MakeState /\ After(m, f[k].m)}
<1>2. last \in Nat
  BY NameFacts
<1>3. 0 \in Good
  <2>1. f[0] \in MakeState /\ f[0].m = m
    BY <1>1 DEF MakeState
  <2> QED
    BY <1>2, <2>1, AfterSelf
<1>4. ASSUME NEW k \in 1 .. last, k - 1 \in Good
      PROVE  k \in Good
  <2>1. f[k] = MakeRound(labels, k, f[k - 1]) /\ f[k - 1] \in MakeState /\ After(m, f[k - 1].m)
    BY <1>1, <1>4
  <2>2. f[k] \in MakeState /\ After(f[k - 1].m, f[k].m)
    BY <2>1, RoundMakes
  <2>3. After(m, f[k].m)
    BY <2>1, <2>2, AfterTrans
  <2> QED
    BY <1>2, <2>2, <2>3
<1> HIDE DEF Good
<1>5. \A k \in 0 .. last : k \in Good
  BY <1>2, <1>3, <1>4, UpTo
<1>6. last \in Good
  BY <1>2, <1>5
<1> DEFINE s == f[last]
<1>7. s \in MakeState /\ After(m, s.m)
  BY <1>6 DEF Good
<1>8. After(m, MakeEnd(s))
  <2> HIDE DEF s
  <2>1. s.m \in Buf /\ << 0 >> \in Seq(Octet)
    BY <1>7 DEF MakeState, Octet
  <2>2. CASE s.done
    BY <1>7, <2>2 DEF MakeEnd
  <2>3. CASE ~s.done
    <3>1. After(s.m, PutIfRoom(s.m, 1, << 0 >>))
      BY <2>1, Puts
    <3>2. MakeEnd(s) = PutIfRoom(s.m, 1, << 0 >>)
      BY <2>3 DEF MakeEnd
    <3> QED
      BY <1>7, <3>1, <3>2, AfterTrans
  <2> QED
    BY <2>2, <2>3
<1> QED
  BY <1>1, <1>8 DEF last

\* What the loop has made of a name after k labels.
MadeSoFar(s, labels, Known, hole, start, k) ==
    s.m.ok => \/ s.done /\ NameMade(s.m, labels, Known, hole, start)
              \/ ~s.done /\ \E q : LabelsMade(s.m, labels, Known, hole, start, k, q)

\* One label of mdns_string_make: written, or referred to with all labels behind it.
LEMMA RoundMeans ==
    ASSUME NEW Known, Alike(Known), NEW labels \in Known, NEW hole, NEW start \in Nat,
           NEW k \in 1 .. Len(labels), NEW s \in MakeState,
           MadeSoFar(s, labels, Known, hole, start, k - 1)
    PROVE  MadeSoFar(MakeRound(labels, k, s), labels, Known, hole, start, k)
<1> DEFINE t == mdns_string_table_find(s.m, labels, k)
           r == MakeRound(labels, k, s)
<1>1. labels \in DnsName
  BY DEF Alike
<1>2. CASE s.done \/ ~s.m.ok
  <2>1. r = s
    BY <1>2 DEF MakeRound
  <2> QED
    BY <1>2, <2>1 DEF MadeSoFar
<1>3. CASE ~(s.done \/ ~s.m.ok)
  <2>1. PICK q : LabelsMade(s.m, labels, Known, hole, start, k - 1, q)
    BY <1>3 DEF MadeSoFar
  <2>2. CASE t # Nowhere
    <3>1. r = [m |-> mdns_string_make_ref(s.m, t), done |-> TRUE]
      BY <1>3, <2>2 DEF MakeRound, MakeNext
    <3>2. r.m = mdns_string_make_ref(s.m, t) /\ r.done
      BY <3>1
    <3> HIDE DEF r
    <3>3. r.m.ok => NameMade(r.m, labels, Known, hole, start)
      BY <2>1, <2>2, <3>2, RefEnds
    <3> QED
      BY <3>2, <3>3, Zenon DEF MadeSoFar, r
  <2>3. CASE t = Nowhere
    <3>1. r = [m |-> MakeLabel(s.m, labels[k]), done |-> FALSE]
      BY <1>3, <2>3 DEF MakeRound, MakeNext
    <3>2. r.m = MakeLabel(s.m, labels[k]) /\ ~r.done
      BY <3>1
    <3> HIDE DEF r
    <3>3. r.m.ok => \E p : LabelsMade(r.m, labels, Known, hole, start, k, p)
      BY <1>1, <1>3, <2>1, <3>2, LabelGoesOn
    <3> QED
      BY <3>2, <3>3, Zenon DEF MadeSoFar, r
  <2> QED
    BY <2>2, <2>3
<1> QED
  BY <1>2, <1>3

\* Before the first label nothing of the name is written.
LEMMA LabelsBegin ==
    ASSUME NEW Known, NEW labels, NEW hole, NEW m, Ready(m, hole, Known)
    PROVE  \E q : LabelsMade(m, labels, Known, hole, Len(m.bytes), 0, q)
<1> DEFINE q == [i \in 1 .. 1 |-> Len(m.bytes)]
<1>1. /\ m \in Buf /\ Within(hole, m.bytes) /\ (~m.compress => m.table = <<>>) /\ Fits(m)
      /\ TableMeans(m.table, m.bytes, hole, Known)
  BY Zenon DEF Ready
<1>2. Len(m.bytes) \in Nat
  BY <1>1 DEF Buf
<1>3. q[1] = Len(m.bytes) /\ 0 + 1 = 1
  OBVIOUS
<1> HIDE DEF q
<1>4. \A b : LabelsAt(b, q, labels, 0)
  BY DEF LabelsAt
<1>5. Entries(m.table, m.bytes, hole, Known, q, 0)
  BY <1>1, Zenon DEF Entries, TableMeans
<1>6. Len(m.bytes) + 0 <= Len(m.bytes)
  BY <1>2
<1>7. q[0 + 1] = Len(m.bytes)
  BY <1>3
<1>8. LabelsMade(m, labels, Known, hole, Len(m.bytes), 0, q)
  BY <1>1, <1>3, <1>4, <1>5, <1>6, <1>7, Zenon DEF LabelsMade
<1> QED
  BY <1>8

\* What mdns_string_make writes is the name, and the table keeps its meaning.
LEMMA MakesName ==
    ASSUME NEW Known, Alike(Known), NEW labels \in Known, NEW hole, NEW m, Ready(m, hole, Known),
           m.ok, mdns_string_make(m, labels).ok
    PROVE  NameMade(mdns_string_make(m, labels), labels, Known, hole, Len(m.bytes))
<1>1. labels \in DnsName /\ m \in Buf
  BY DEF Alike, Ready
<1>2. PICK f : /\ f[0] = [m |-> m, done |-> FALSE]
               /\ \A k \in 1 .. Len(labels) : f[k] = MakeRound(labels, k, f[k - 1])
               /\ mdns_string_make(m, labels) = MakeEnd(f[Len(labels)])
  BY <1>1, MakeRounds, Zenon
<1> DEFINE last == Len(labels)
           start == Len(m.bytes)
           Good == {k \in 0 .. last : /\ f[k] \in MakeState
                                      /\ MadeSoFar(f[k], labels, Known, hole, start, k)}
<1>3. last \in Nat /\ start \in Nat
  BY <1>1, NameFacts DEF Buf
<1> HIDE DEF start
<1>4. 0 \in Good
  <2>1. f[0] \in MakeState /\ f[0].m = m /\ ~f[0].done
    BY <1>1, <1>2 DEF MakeState
  <2>2. \E q : LabelsMade(m, labels, Known, hole, start, 0, q)
    BY LabelsBegin DEF start
  <2>3. MadeSoFar(f[0], labels, Known, hole, start, 0)
    BY <2>1, <2>2, Zenon DEF MadeSoFar
  <2> QED
    BY <1>3, <2>1, <2>3
<1>5. ASSUME NEW k \in 1 .. last, k - 1 \in Good
      PROVE  k \in Good
  <2>1. /\ f[k] = MakeRound(labels, k, f[k - 1]) /\ f[k - 1] \in MakeState
        /\ MadeSoFar(f[k - 1], labels, Known, hole, start, k - 1)
    BY <1>2, <1>5
  <2>2. f[k] \in MakeState
    BY <1>1, <2>1, RoundMakes
  <2>3. MadeSoFar(f[k], labels, Known, hole, start, k)
    BY <1>3, <2>1, RoundMeans
  <2> QED
    BY <1>3, <2>2, <2>3
<1> HIDE DEF Good
<1>6. \A k \in 0 .. last : k \in Good
  BY <1>3, <1>4, <1>5, UpTo
<1>7. last \in Good
  BY <1>3, <1>6
<1> DEFINE s == f[last]
<1>8. s \in MakeState /\ MadeSoFar(s, labels, Known, hole, start, last)
  BY <1>7 DEF Good
<1>9. MakeEnd(s).ok
  BY <1>2
<1> HIDE DEF s
<1>10. NameMade(MakeEnd(s), labels, Known, hole, start)
  <2>1. CASE s.done
    <3>1. MakeEnd(s) = s.m
      BY <2>1 DEF MakeEnd
    <3> QED
      BY <1>8, <1>9, <2>1, <3>1 DEF MadeSoFar
  <2>2. CASE ~s.done
    <3>1. MakeEnd(s) = PutIfRoom(s.m, 1, << 0 >>)
      BY <2>2 DEF MakeEnd
    <3>2. s.m.ok
      <4>1. s.m \in Buf /\ << 0 >> \in Seq(Octet)
        BY <1>8 DEF MakeState, Octet
      <4>2. After(s.m, PutIfRoom(s.m, 1, << 0 >>))
        BY <4>1, Puts
      <4> QED
        BY <1>9, <3>1, <4>2 DEF After
    <3>3. \E q : LabelsMade(s.m, labels, Known, hole, start, last, q)
      BY <1>8, <2>2, <3>2 DEF MadeSoFar
    <3>4. PICK q : LabelsMade(s.m, labels, Known, hole, start, Len(labels), q)
      BY <3>3
    <3> QED
      BY <1>3, <1>9, <3>1, <3>4, ZeroEnds
  <2> QED
    BY <2>1, <2>2
<1> QED
  BY <1>2, <1>10 DEF s, start

\* A name that was written is read, and skipped, there.
LEMMA NameReads ==
    ASSUME NEW bytes, NEW hole, NEW labels \in DnsName, NEW at, NameAt(bytes, hole, labels, at),
           NEW b, Later(b, bytes, hole)
    PROVE  mdns_string_extract(b, at) = NameText(labels) /\ mdns_string_skip(b, at) = Len(bytes)
<1>1. PICK p, j : /\ p[1] = at
                  /\ NamePath(b, p, labels, 1) /\ EndsAt(b, p, labels, j, Len(bytes))
  BY Zenon DEF NameAt
<1>2. b \in Seq(Octet)
  BY DEF Later
<1>3. mdns_string_extract(b, p[1]) = NameText(labels)
  BY <1>1, <1>2, ExtractReads
<1>4. mdns_string_skip(b, p[1]) = Len(bytes)
  BY <1>1, <1>2, SkipReads
<1> QED
  BY <1>1, <1>3, <1>4

\* A name is read the same, however much is written behind it.
LEMMA NameStays ==
    ASSUME NEW bytes, NEW hole, NEW more, NEW after, LaterOf(more, after, bytes, hole),
           NEW labels \in DnsName, NEW at, NameAt(bytes, hole, labels, at)
    PROVE  \A b : Later(b, more, after) =>
              mdns_string_extract(b, at) = NameText(labels) /\ mdns_string_skip(b, at) = Len(bytes)
BY NameReads, Zenon DEF LaterOf

-----------------------------------------------------------------------------
(* The length of the data of a record is filled in when the data is there. *)

HoleAt(from) == {from - 1, from}

\* A hole behind the bytes is none for them.
LEMMA LaterNarrow ==
    ASSUME NEW bytes \in Seq(Octet), NEW more \in Seq(Octet), NEW hole,
           \A i \in hole : i > Len(bytes)
    PROVE  LaterOf(bytes \o more, hole, bytes, {})
<1> SUFFICES ASSUME NEW b, Later(b, bytes \o more, hole)
             PROVE  Later(b, bytes, {})
  BY DEF LaterOf
<1>1. /\ bytes \o more \in Seq(Octet) /\ Len(bytes \o more) = Len(bytes) + Len(more)
      /\ Len(bytes) \in Nat /\ Len(more) \in Nat
      /\ \A i \in 1 .. Len(bytes) : (bytes \o more)[i] = bytes[i]
  BY Concat
<1> DEFINE all == bytes \o more
<1>2. /\ b \in Seq(Octet) /\ Len(all) <= Len(b)
      /\ \A i \in 1 .. Len(all) : i \notin hole => b[i] = all[i]
  BY DEF Later
<1> HIDE DEF all
<1>3. Len(bytes) <= Len(b)
  <2>1. Len(b) \in Nat /\ Len(all) = Len(bytes) + Len(more)
    BY <1>1, <1>2, ByteFacts DEF all
  <2> QED
    BY <1>1, <1>2, <2>1
<1>4. ASSUME NEW i \in 1 .. Len(bytes)
      PROVE  b[i] = bytes[i]
  <2>1. i \in 1 .. Len(all) /\ i \notin hole
    BY <1>1 DEF all
  <2> QED
    BY <1>1, <1>2, <2>1 DEF all
<1> QED
  BY <1>2, <1>3, <1>4 DEF Later

\* The buffer with the length filled in.
LEMMA Fills ==
    ASSUME NEW m \in Buf, m.ok, NEW from \in Nat, from >= 2, from <= Len(m.bytes)
    PROVE  LET n == FillLength(m, from)
           IN /\ n \in Buf /\ n.ok /\ n.size = m.size /\ n.compress = m.compress
              /\ n.table = m.table /\ Len(n.bytes) = Len(m.bytes)
              /\ Later(n.bytes, m.bytes, HoleAt(from))
              /\ Has(n.bytes, from - 2, Short(Len(m.bytes) - from))
<1> DEFINE length == Short(Len(m.bytes) - from)
           filled == [m.bytes EXCEPT ![from - 1] = length[1], ![from] = length[2]]
           half == [m.bytes EXCEPT ![from - 1] = length[1]]
           n == FillLength(m, from)
<1>1. n = [m EXCEPT !.bytes = filled]
  BY DEF FillLength
<1>2. m.bytes \in Seq(Octet) /\ Len(m.bytes) \in Nat
  BY DEF Buf
<1>3. Len(m.bytes) - from \in Nat
  BY <1>2
<1>4. length \in Seq(Octet) /\ Len(length) = 2
  BY <1>3, ShortBytes
<1> HIDE DEF length
<1>5. length[1] \in Octet /\ length[2] \in Octet
  <2>1. 1 \in 1 .. Len(length) /\ 2 \in 1 .. Len(length)
    BY <1>4
  <2> QED
    BY <1>4, <2>1, ByteFacts
<1>6. /\ from - 1 \in 1 .. Len(m.bytes) /\ from \in 1 .. Len(m.bytes) /\ from - 1 # from
      /\ from - 2 + 1 = from - 1 /\ from - 2 + 2 = from
  BY <1>2
<1>7. /\ half \in Seq(Octet) /\ Len(half) = Len(m.bytes) /\ half[from - 1] = length[1]
      /\ \A i \in 1 .. Len(m.bytes) : i # from - 1 => half[i] = m.bytes[i]
  BY <1>2, <1>5, <1>6, ExceptSeq
<1>8. filled = [half EXCEPT ![from] = length[2]]
  BY <1>2, <1>6
<1> HIDE DEF half, filled
<1>9. /\ filled \in Seq(Octet) /\ Len(filled) = Len(half) /\ filled[from] = length[2]
      /\ \A i \in 1 .. Len(half) : i # from => filled[i] = half[i]
  BY <1>5, <1>6, <1>7, <1>8, ExceptSeq
<1>10. filled[from - 1] = length[1] /\ filled[from] = length[2]
  BY <1>6, <1>7, <1>9
<1>11. Has(filled, from - 2, length)
  <2>1. ASSUME NEW i \in 1 .. 2
        PROVE  filled[from - 2 + i] = length[i]
    <3>1. i = 1 \/ i = 2
      OBVIOUS
    <3> QED
      BY <1>6, <1>10, <3>1
  <2> QED
    BY <1>4, <2>1 DEF Has
<1>12. Later(filled, m.bytes, HoleAt(from))
  <2>1. \A i \in 1 .. Len(m.bytes) : i \notin HoleAt(from) => filled[i] = m.bytes[i]
    BY <1>7, <1>9 DEF HoleAt
  <2>2. Len(m.bytes) <= Len(filled)
    BY <1>2, <1>7, <1>9
  <2> QED
    BY <1>9, <2>1, <2>2 DEF Later
<1>13. /\ n \in Buf /\ n.ok /\ n.size = m.size /\ n.compress = m.compress
       /\ n.table = m.table /\ n.bytes = filled
  BY <1>1, <1>9 DEF Buf
<1> HIDE DEF n
<1> QED
  BY <1>7, <1>9, <1>11, <1>12, <1>13 DEF n, length

-----------------------------------------------------------------------------
(* The head of a record.                                                   *)

HeadFront(r) == Short(r.type) \o Short(r.class) \o Long(r.ttl)

\* What all records have.
HasHead(r, Known) ==
    r.name \in Known /\ r.type \in UInt16 /\ r.class \in UInt16 /\ r.ttl \in Ttl

\* The length of two sequences, one behind the other.
LEMMA Lengths ==
    ASSUME NEW a \in Seq(Octet), NEW c \in Seq(Octet)
    PROVE  a \o c \in Seq(Octet) /\ Len(a \o c) = Len(a) + Len(c)
BY Concat, Zenon

\* Concatenation is associative.
LEMMA Joins ==
    ASSUME NEW a \in Seq(Octet), NEW c \in Seq(Octet), NEW d \in Seq(Octet)
    PROVE  a \o (c \o d) = (a \o c) \o d
OBVIOUS

\* Type, class and time to live are eight bytes.
LEMMA FrontBytes ==
    ASSUME NEW r, NEW Known, HasHead(r, Known)
    PROVE  /\ HeadFront(r) \in Seq(Octet) /\ Len(HeadFront(r)) = 8
           /\ Short(0) \in Seq(Octet) /\ Len(Short(0)) = 2
<1>1. r.type \in Nat /\ r.class \in Nat /\ r.ttl \in Nat
  BY ShortNumber, LongNumber DEF HasHead
<1> DEFINE x == Short(r.type)
           y == Short(r.class)
           z == Long(r.ttl)
<1>2. /\ x \in Seq(Octet) /\ Len(x) = 2 /\ y \in Seq(Octet) /\ Len(y) = 2
      /\ z \in Seq(Octet) /\ Len(z) = 4
  BY <1>1, ShortBytes, LongBytes
<1> HIDE DEF x, y, z
<1>3. x \o y \in Seq(Octet) /\ Len(x \o y) = 4
  <2>1. x \o y \in Seq(Octet) /\ Len(x \o y) = Len(x) + Len(y)
    BY <1>2, Lengths
  <2> QED
    BY <1>2, <2>1
<1>4. (x \o y) \o z \in Seq(Octet) /\ Len((x \o y) \o z) = 8
  <2>1. (x \o y) \o z \in Seq(Octet) /\ Len((x \o y) \o z) = Len(x \o y) + Len(z)
    BY <1>2, <1>3, Concat
  <2> QED
    BY <1>2, <1>3, <2>1
<1>5. Short(0) \in Seq(Octet) /\ Len(Short(0)) = 2
  BY ShortBytes
<1> QED
  BY <1>4, <1>5 DEF HeadFront, x, y, z

\* Type, class and time to live are read as they were written.
LEMMA FrontReads ==
    ASSUME NEW r, NEW Known, HasHead(r, Known), NEW b, NEW at \in Nat, Has(b, at, HeadFront(r))
    PROVE  ShortAt(b, at) = r.type /\ ShortAt(b, at + 2) = r.class /\ LongAt(b, at + 4) = r.ttl
<1>1. r.type \in Nat /\ r.class \in Nat /\ r.ttl \in Nat
  BY ShortNumber, LongNumber DEF HasHead
<1> DEFINE x == Short(r.type)
           y == Short(r.class)
           z == Long(r.ttl)
<1>2. /\ x \in Seq(Octet) /\ Len(x) = 2 /\ y \in Seq(Octet) /\ Len(y) = 2
      /\ z \in Seq(Octet) /\ Len(z) = 4
  BY <1>1, ShortBytes, LongBytes
<1>3. Has(b, at, (x \o y) \o z)
  BY DEF HeadFront
<1> HIDE DEF x, y, z
<1>4. x \o y \in Seq(Octet) /\ Len(x \o y) = 4
  <2>1. x \o y \in Seq(Octet) /\ Len(x \o y) = Len(x) + Len(y)
    BY <1>2, Lengths
  <2> QED
    BY <1>2, <2>1
<1>5. Has(b, at, x \o y) /\ Has(b, at + Len(x \o y), z)
  BY <1>2, <1>3, <1>4, HasParts
<1>6. Has(b, at, x) /\ Has(b, at + Len(x), y)
  BY <1>2, <1>5, HasParts
<1>7. Has(b, at, x) /\ Has(b, at + 2, y) /\ Has(b, at + 4, z)
  BY <1>2, <1>4, <1>5, <1>6
<1>8. at + 2 \in Nat /\ at + 4 \in Nat
  OBVIOUS
<1>9. ShortAt(b, at) = r.type
  BY <1>7, ShortReads DEF x, HasHead
<1>10. ShortAt(b, at + 2) = r.class
  BY <1>7, <1>8, ShortReads DEF y, HasHead
<1>11. LongAt(b, at + 4) = r.ttl
  BY <1>7, <1>8, LongReads DEF z, HasHead
<1> QED
  BY <1>9, <1>10, <1>11

\* The name and the head of a record are read from at to from.
HeadAt(b, at, from, r) ==
    /\ mdns_string_extract(b, at) = NameText(r.name) /\ mdns_string_skip(b, at) = from - 10
    /\ ShortAt(b, from - 10) = r.type /\ ShortAt(b, from - 8) = r.class
    /\ LongAt(b, from - 6) = r.ttl

\* mdns_answer_add_record_header: the name and what follows it, with a hole for the length.
LEMMA HeadMade ==
    ASSUME NEW Known, Alike(Known), NEW r, HasHead(r, Known), NEW m, Ready(m, {}, Known), m.ok,
           mdns_answer_add_record_header(m, r).ok
    PROVE  LET n == mdns_answer_add_record_header(m, r)
               from == Len(n.bytes)
           IN /\ After(m, n) /\ Ready(n, HoleAt(from), Known) /\ Len(m.bytes) + 12 <= from
              /\ \A b : Later(b, n.bytes, HoleAt(from)) => HeadAt(b, Len(m.bytes), from, r)
<1> DEFINE made == mdns_string_make(m, r.name)
           zero == Short(0)
           front == HeadFront(r)
           all == made.bytes \o front
           n == mdns_answer_add_record_header(m, r)
           from == Len(n.bytes)
           h == Len(made.bytes)
<1>1. m \in Buf /\ r.name \in Known /\ r.name \in DnsName
  BY DEF Ready, HasHead, Alike
<1>2. After(m, made) /\ made \in Buf
  BY <1>1, Makes DEF After
<1>3. /\ front \in Seq(Octet) /\ Len(front) = 8 /\ zero \in Seq(Octet) /\ Len(zero) = 2
  BY FrontBytes
<1>4. front \o zero \in Seq(Octet) /\ Len(front \o zero) = 10
  <2> HIDE DEF front, zero
  <2>1. front \o zero \in Seq(Octet) /\ Len(front \o zero) = Len(front) + Len(zero)
    BY <1>3, Lengths
  <2> QED
    BY <1>3, <2>1
<1>5. n = PutIfRoom(made, 10, front \o zero) /\ n.ok
  BY DEF mdns_answer_add_record_header, HeadFront
<1> HIDE DEF n, front, zero, made
<1>6. /\ After(made, n) /\ n.table = made.table /\ n.bytes = made.bytes \o (front \o zero)
      /\ h + 10 <= n.size
  <2>1. 10 \in Nat
    OBVIOUS
  <2> QED
    BY <1>2, <1>4, <1>5, <2>1, Puts
<1>7. made.ok /\ n \in Buf /\ n.compress = made.compress /\ n.size = made.size
  BY <1>5, <1>6 DEF After
<1>8. NameMade(made, r.name, Known, {}, Len(m.bytes))
  BY <1>1, <1>7, MakesName DEF made
<1>9. /\ Ready(made, {}, Known) /\ Len(m.bytes) + 2 <= h
      /\ NameAt(made.bytes, {}, r.name, Len(m.bytes))
  BY <1>8, Zenon DEF NameMade
<1>10. made.bytes \in Seq(Octet) /\ n.bytes \in Seq(Octet) /\ h \in Nat /\ Len(m.bytes) \in Nat
  BY <1>1, <1>2, <1>7 DEF Buf
<1>11. /\ all \in Seq(Octet) /\ Len(all) = h + 8 /\ Later(all, made.bytes, {})
  <2>1. all \in Seq(Octet) /\ Len(all) = h + Len(front)
    BY <1>3, <1>10, Concat
  <2>2. Later(all, made.bytes, {})
    BY <1>3, <1>10, LaterAppend
  <2> QED
    BY <1>3, <2>1, <2>2
<1>12. n.bytes = all \o zero
  BY <1>3, <1>6, <1>10, Joins
<1>13. from = h + 10
  <2>1. Len(all \o zero) = Len(all) + Len(zero)
    BY <1>3, <1>11, Concat
  <2>2. from = Len(all) + Len(zero)
    BY <1>12, <2>1
  <2> QED
    BY <1>3, <1>10, <1>11, <2>2
<1> HIDE DEF from, h
<1>14. \A i \in HoleAt(from) : i > Len(all)
  BY <1>10, <1>11, <1>13 DEF HoleAt
<1>15. LaterOf(n.bytes, HoleAt(from), all, {})
  BY <1>3, <1>11, <1>12, <1>14, LaterNarrow
<1>16. LaterOf(n.bytes, HoleAt(from), made.bytes, {})
  <2>1. ASSUME NEW b, Later(b, n.bytes, HoleAt(from))
        PROVE  Later(b, made.bytes, {})
    <3>1. Later(b, all, {})
      BY <1>15, <2>1, Zenon DEF LaterOf
    <3> QED
      BY <1>10, <1>11, <3>1, LaterTrans
  <2> QED
    BY <2>1, Zenon DEF LaterOf
<1>17. TableMeans(n.table, n.bytes, HoleAt(from), Known)
  <2>1. TableMeans(made.table, made.bytes, {}, Known)
    BY <1>9 DEF Ready
  <2>2. TableMeans(n.table, made.bytes, {}, Known)
    BY <1>6, <2>1
  <2> QED
    BY <1>16, <2>2, TableStays
<1>18. Ready(n, HoleAt(from), Known)
  <2>1. Within(HoleAt(from), n.bytes)
    BY <1>10, <1>13 DEF Within, HoleAt, from
  <2>2. ~n.compress => n.table = <<>>
    BY <1>6, <1>7, <1>9 DEF Ready
  <2>3. Fits(n)
    <3>1. Len(n.bytes) <= n.size
      BY <1>6, <1>13 DEF from, h
    <3>2. Fits(made)
      BY <1>9 DEF Ready
    <3> QED
      BY <1>7, <3>1, <3>2 DEF Fits
  <2> QED
    BY <1>7, <1>17, <2>1, <2>2, <2>3, Zenon DEF Ready
<1>19. ASSUME NEW b, Later(b, n.bytes, HoleAt(from))
       PROVE  HeadAt(b, Len(m.bytes), from, r)
  <2>1. mdns_string_extract(b, Len(m.bytes)) = NameText(r.name)
        /\ mdns_string_skip(b, Len(m.bytes)) = h
    BY <1>1, <1>9, <1>16, <1>19, NameStays DEF h
  <2>2. Later(b, all, {})
    BY <1>15, <1>19, Zenon DEF LaterOf
  <2>3. Within({}, made.bytes)
    BY DEF Within
  <2>4. Has(b, h, front)
    BY <1>3, <1>10, <2>2, <2>3, LaterReads DEF h
  <2>5. ShortAt(b, h) = r.type /\ ShortAt(b, h + 2) = r.class /\ LongAt(b, h + 4) = r.ttl
    BY <1>10, <2>4, FrontReads DEF front
  <2>6. h = from - 10 /\ h + 2 = from - 8 /\ h + 4 = from - 6
    BY <1>10, <1>13
  <2> QED
    BY <2>1, <2>5, <2>6, Zenon DEF HeadAt
<1>20. After(m, n)
  BY <1>1, <1>2, <1>6, AfterTrans
<1>21. Len(m.bytes) + 12 <= from
  BY <1>9, <1>10, <1>13 DEF h
<1> QED
  BY <1>18, <1>19, <1>20, <1>21 DEF n, from

-----------------------------------------------------------------------------
(* A record that is no text.                                               *)

\* A record with data of its type.
Sendable(r, Known) ==
    /\ HasHead(r, Known)
    /\ \/ r.type = TypePTR /\ r.target \in Known
       \/ r.type = TypeSRV /\ r.target \in Known /\ r.port \in UInt16
       \/ r.type = TypeA /\ r.addr \in Seq(Octet) /\ Len(r.addr) = 4
       \/ r.type = TypeAAAA /\ r.addr \in Seq(Octet) /\ Len(r.addr) = 16

ServiceFront(r) == Short(0) \o Short(0) \o Short(r.port)

\* Priority, weight and port are six bytes.
LEMMA ServiceBytes ==
    ASSUME NEW r, r.port \in UInt16
    PROVE  ServiceFront(r) \in Seq(Octet) /\ Len(ServiceFront(r)) = 6
<1> DEFINE x == Short(0)
           y == Short(r.port)
<1>1. x \in Seq(Octet) /\ Len(x) = 2 /\ y \in Seq(Octet) /\ Len(y) = 2
  BY ShortNumber, ShortBytes
<1> HIDE DEF x, y
<1>2. x \o x \in Seq(Octet) /\ Len(x \o x) = 4
  <2>1. x \o x \in Seq(Octet) /\ Len(x \o x) = Len(x) + Len(x)
    BY <1>1, Lengths
  <2> QED
    BY <1>1, <2>1
<1>3. (x \o x) \o y \in Seq(Octet) /\ Len((x \o x) \o y) = 6
  <2>1. (x \o x) \o y \in Seq(Octet) /\ Len((x \o x) \o y) = Len(x \o x) + Len(y)
    BY <1>1, <1>2, Lengths
  <2> QED
    BY <1>1, <1>2, <2>1
<1> QED
  BY <1>3 DEF ServiceFront, x, y

\* The port is read as it was written.
LEMMA ServiceReads ==
    ASSUME NEW r, r.port \in UInt16, NEW b, NEW at \in Nat, Has(b, at, ServiceFront(r))
    PROVE  ShortAt(b, at + 4) = r.port
<1> DEFINE x == Short(0)
           y == Short(r.port)
<1>1. x \in Seq(Octet) /\ Len(x) = 2 /\ y \in Seq(Octet)
  BY ShortNumber, ShortBytes
<1>2. Has(b, at, (x \o x) \o y)
  BY DEF ServiceFront
<1> HIDE DEF x, y
<1>3. x \o x \in Seq(Octet) /\ Len(x \o x) = 4
  <2>1. x \o x \in Seq(Octet) /\ Len(x \o x) = Len(x) + Len(x)
    BY <1>1, Lengths
  <2> QED
    BY <1>1, <2>1
<1>4. Has(b, at + Len(x \o x), y)
  BY <1>1, <1>2, <1>3, HasParts
<1>5. Has(b, at + 4, Short(r.port))
  BY <1>3, <1>4 DEF y
<1>6. at + 4 \in Nat
  OBVIOUS
<1> QED
  BY <1>5, <1>6, ShortReads

\* The data in front of a name only adds bytes.
LEMMA FixedAfter ==
    ASSUME NEW Known, NEW r, Sendable(r, Known), NEW m \in Buf
    PROVE  After(m, FixedData(m, r))
<1>1. CASE r.type = TypePTR
  <2>1. FixedData(m, r) = m
    BY <1>1 DEF FixedData, TypePTR, TypeSRV, TypeA, TypeAAAA
  <2> QED
    BY <2>1, AfterSelf
<1>2. CASE r.type = TypeSRV
  <2>1. FixedData(m, r) = PutIfRoom(m, 7, ServiceFront(r))
    BY <1>2 DEF FixedData, TypePTR, TypeSRV, TypeA, TypeAAAA, ServiceFront
  <2>2. ServiceFront(r) \in Seq(Octet)
    BY <1>2, ServiceBytes DEF Sendable, TypePTR, TypeSRV, TypeA, TypeAAAA
  <2> QED
    BY <2>1, <2>2, Puts
<1>3. CASE r.type \in {TypeA, TypeAAAA}
  <2>1. FixedData(m, r) = PutIfRoom(m, Len(r.addr), r.addr)
    BY <1>3 DEF FixedData, TypePTR, TypeSRV, TypeA, TypeAAAA
  <2>2. r.addr \in Seq(Octet) /\ Len(r.addr) \in Nat
    BY <1>3 DEF Sendable, TypePTR, TypeSRV, TypeA, TypeAAAA
  <2> QED
    BY <2>1, <2>2, Puts
<1> QED
  BY <1>1, <1>2, <1>3 DEF Sendable

\* The name in the data only adds bytes.
LEMMA NameAfter ==
    ASSUME NEW Known, Alike(Known), NEW r, Sendable(r, Known), NEW m \in Buf
    PROVE  After(m, AddName(m, r))
<1>1. CASE m.ok /\ r.type \in {TypePTR, TypeSRV}
  <2>1. r.target \in DnsName
    BY <1>1 DEF Sendable, Alike, TypePTR, TypeSRV, TypeA, TypeAAAA
  <2> QED
    BY <1>1, <2>1, Makes DEF AddName
<1>2. CASE ~(m.ok /\ r.type \in {TypePTR, TypeSRV})
  BY <1>2, AfterSelf DEF AddName
<1> QED
  BY <1>1, <1>2

\* The head of a record only adds bytes, ten at least.
LEMMA HeaderAfter ==
    ASSUME NEW Known, Alike(Known), NEW r, HasHead(r, Known), NEW m \in Buf
    PROVE  LET n == mdns_answer_add_record_header(m, r)
           IN After(m, n) /\ (n.ok => Len(m.bytes) + 10 <= Len(n.bytes))
<1> DEFINE made == mdns_string_make(m, r.name)
           head == HeadFront(r) \o Short(0)
           n == mdns_answer_add_record_header(m, r)
<1>1. r.name \in DnsName
  BY DEF HasHead, Alike
<1>2. After(m, made) /\ made \in Buf
  BY <1>1, Makes DEF After
<1>3. head \in Seq(Octet) /\ Len(head) = 10
  <2> DEFINE front == HeadFront(r)
             zero == Short(0)
  <2>1. /\ front \in Seq(Octet) /\ Len(front) = 8 /\ zero \in Seq(Octet) /\ Len(zero) = 2
        /\ head = front \o zero
    BY FrontBytes
  <2> HIDE DEF front, zero, head
  <2>2. front \o zero \in Seq(Octet) /\ Len(front \o zero) = Len(front) + Len(zero)
    BY <2>1, Lengths
  <2> QED
    BY <2>1, <2>2
<1>4. n = PutIfRoom(made, 10, head)
  BY DEF mdns_answer_add_record_header, HeadFront
<1> HIDE DEF n, head, made
<1>5. After(made, n) /\ (n.ok => n.bytes = made.bytes \o head)
  <2>1. 10 \in Nat
    OBVIOUS
  <2> QED
    BY <1>2, <1>3, <1>4, <2>1, Puts
<1>6. After(m, n)
  BY <1>2, <1>5, AfterTrans
<1>7. ASSUME n.ok
      PROVE  Len(m.bytes) + 10 <= Len(n.bytes)
  <2>1. made.ok /\ Len(m.bytes) <= Len(made.bytes)
    BY <1>2, <1>5, <1>7 DEF After, Later
  <2>2. made.bytes \in Seq(Octet) /\ m.bytes \in Seq(Octet)
    BY <1>2 DEF Buf
  <2>3. Len(n.bytes) = Len(made.bytes) + Len(head)
    <3>1. Len(made.bytes \o head) = Len(made.bytes) + Len(head)
      BY <1>3, <2>2, Lengths
    <3> QED
      BY <1>5, <1>7, <3>1
  <2>4. Len(made.bytes) \in Nat /\ Len(m.bytes) \in Nat
    BY <2>2
  <2> QED
    BY <1>3, <2>1, <2>3, <2>4
<1> QED
  BY <1>6, <1>7 DEF n

\* A hole behind bytes can be filled.
LEMMA LaterPast ==
    ASSUME NEW bytes \in Seq(Octet), NEW more, NEW b, NEW hole,
           Later(more, bytes, {}), Later(b, more, hole), \A i \in hole : i > Len(bytes)
    PROVE  Later(b, bytes, {})
<1>1. more \in Seq(Octet) /\ b \in Seq(Octet) /\ Len(bytes) <= Len(more) /\ Len(more) <= Len(b)
  BY DEF Later
<1>2. Len(bytes) \in Nat /\ Len(more) \in Nat /\ Len(b) \in Nat
  BY <1>1
<1>3. ASSUME NEW i \in 1 .. Len(bytes)
      PROVE  b[i] = bytes[i]
  <2>1. i \in 1 .. Len(more) /\ i \notin hole
    BY <1>1, <1>2
  <2>2. more[i] = bytes[i]
    BY DEF Later
  <2>3. b[i] = more[i]
    BY <2>1 DEF Later
  <2> QED
    BY <2>2, <2>3
<1>4. Len(bytes) <= Len(b)
  BY <1>1, <1>2
<1> QED
  BY <1>1, <1>3, <1>4 DEF Later

\* Filling in the length changes no byte from before the record.
LEMMA FillAfter ==
    ASSUME NEW m \in Buf, NEW n, After(m, n), n.ok => Len(m.bytes) + 10 <= Len(n.bytes),
           NEW d, After(n, d)
    PROVE  After(m, FillLength(d, Len(n.bytes)))
<1>1. After(m, d) /\ d \in Buf
  BY AfterTrans DEF After
<1>2. CASE ~d.ok
  BY <1>1, <1>2 DEF FillLength
<1>3. CASE d.ok
  <2> DEFINE from == Len(n.bytes)
             f == FillLength(d, from)
  <2>1. n.ok /\ n \in Buf /\ Later(d.bytes, n.bytes, {}) /\ m.ok /\ Later(d.bytes, m.bytes, {})
    BY <1>1, <1>3 DEF After
  <2>2. m.bytes \in Seq(Octet) /\ Len(m.bytes) \in Nat /\ from \in Nat
    BY <2>1 DEF Buf
  <2>3. from <= Len(d.bytes) /\ Len(m.bytes) + 10 <= from
    BY <2>1 DEF Later
  <2> HIDE DEF from
  <2>4. from >= 2 /\ \A i \in HoleAt(from) : i > Len(m.bytes)
    BY <2>2, <2>3 DEF HoleAt
  <2>5. /\ f \in Buf /\ f.ok /\ f.size = d.size /\ f.compress = d.compress
        /\ Later(f.bytes, d.bytes, HoleAt(from))
    BY <1>1, <1>3, <2>2, <2>3, <2>4, Fills
  <2> HIDE DEF f
  <2>6. Later(f.bytes, m.bytes, {})
    BY <2>1, <2>2, <2>4, <2>5, LaterPast
  <2>7. After(m, f)
    BY <1>1, <2>1, <2>5, <2>6 DEF After
  <2> QED
    BY <2>7 DEF f, from
<1> QED
  BY <1>2, <1>3

\* mdns_answer_add_record only adds bytes.
LEMMA RecordAfter ==
    ASSUME NEW Known, Alike(Known), NEW r, Sendable(r, Known), NEW m \in Buf
    PROVE  After(m, mdns_answer_add_record(m, r))
<1> DEFINE n == mdns_answer_add_record_header(m, r)
           x == FixedData(n, r)
           d == AddName(x, r)
<1>1. CASE ~m.ok \/ IsText(r)
  BY <1>1, AfterSelf DEF mdns_answer_add_record
<1>2. CASE ~(~m.ok \/ IsText(r))
  <2>1. HasHead(r, Known)
    BY DEF Sendable
  <2>2. After(m, n) /\ (n.ok => Len(m.bytes) + 10 <= Len(n.bytes))
    BY <2>1, HeaderAfter
  <2>3. mdns_answer_add_record(m, r) = FillLength(d, Len(n.bytes))
    BY <1>2 DEF mdns_answer_add_record, AddData
  <2> HIDE DEF n
  <2>4. n \in Buf
    BY <2>2 DEF After
  <2>5. After(n, x)
    BY <2>4, FixedAfter
  <2> HIDE DEF x
  <2>6. x \in Buf
    BY <2>5 DEF After
  <2>7. After(x, d)
    BY <2>6, NameAfter
  <2> HIDE DEF d
  <2>8. After(n, d)
    BY <2>4, <2>5, <2>7, AfterTrans
  <2> QED
    BY <2>2, <2>3, <2>8, FillAfter
<1> QED
  BY <1>1, <1>2

\* More bytes behind a head.
Roomy(m, bytes, enough) == m.compress => Len(bytes) <= enough

\* A table that has its meaning keeps it when bytes are added that fit.
LEMMA RoomyPuts ==
    ASSUME NEW Known, NEW hole, NEW m, Ready(m, hole, Known), NEW bytes \in Seq(Octet),
           NEW enough \in Nat, Roomy(m, bytes, enough), PutIfRoom(m, enough, bytes).ok
    PROVE  LET n == PutIfRoom(m, enough, bytes)
           IN /\ Ready(n, hole, Known) /\ n.ok /\ n.compress = m.compress
              /\ n.bytes = m.bytes \o bytes
              /\ n.bytes \in Seq(Octet) /\ Len(n.bytes) = Len(m.bytes) + Len(bytes)
              /\ LaterOf(n.bytes, hole, m.bytes, hole)
<1> DEFINE n == PutIfRoom(m, enough, bytes)
<1>1. m \in Buf /\ Within(hole, m.bytes) /\ m.bytes \in Seq(Octet) /\ Len(m.bytes) \in Nat
  BY DEF Ready, Buf
<1>2. /\ After(m, n) /\ n.table = m.table /\ n.ok
      /\ n.bytes = m.bytes \o bytes /\ Len(m.bytes) + enough <= n.size
  BY <1>1, Puts
<1> HIDE DEF n
<1>3. n \in Buf /\ n.compress = m.compress /\ n.size = m.size
  BY <1>2 DEF After
<1>4. n.bytes \in Seq(Octet) /\ Len(n.bytes) = Len(m.bytes) + Len(bytes) /\ Len(bytes) \in Nat
  <2>1. m.bytes \o bytes \in Seq(Octet) /\ Len(m.bytes \o bytes) = Len(m.bytes) + Len(bytes)
    BY <1>1, Lengths
  <2> QED
    BY <1>2, <2>1
<1>5. LaterOf(n.bytes, hole, m.bytes, hole)
  BY <1>1, <1>2, LaterOfAppend
<1>6. TableMeans(n.table, n.bytes, hole, Known)
  <2>1. TableMeans(n.table, m.bytes, hole, Known)
    BY <1>2 DEF Ready
  <2> QED
    BY <1>5, <2>1, TableStays
<1>7. Within(hole, n.bytes)
  <2>1. 1 .. Len(m.bytes) \subseteq 1 .. Len(n.bytes)
    BY <1>1, <1>4
  <2> QED
    BY <1>1, <2>1 DEF Within
<1>8. Fits(n)
  <2>1. n.compress => Len(n.bytes) <= n.size
    <3>1. n.size \in Int /\ (n.compress => Len(bytes) <= enough)
      BY <1>3 DEF Buf, Roomy
    <3> QED
      BY <1>1, <1>2, <1>4, <3>1
  <2>2. Fits(m)
    BY DEF Ready
  <2> QED
    BY <1>3, <2>1, <2>2 DEF Fits
<1>9. ~n.compress => n.table = <<>>
  BY <1>2, <1>3 DEF Ready
<1>10. Ready(n, hole, Known)
  BY <1>3, <1>6, <1>7, <1>8, <1>9, Zenon DEF Ready
<1> QED
  BY <1>2, <1>3, <1>4, <1>5, <1>10 DEF n

\* The same for bytes of which there are no more than were asked room for.
LEMMA ReadyPuts ==
    ASSUME NEW Known, NEW hole, NEW m, Ready(m, hole, Known), NEW bytes \in Seq(Octet),
           NEW enough \in Nat, Len(bytes) <= enough, PutIfRoom(m, enough, bytes).ok
    PROVE  LET n == PutIfRoom(m, enough, bytes)
           IN /\ Ready(n, hole, Known) /\ n.ok /\ n.compress = m.compress
              /\ n.bytes = m.bytes \o bytes
              /\ n.bytes \in Seq(Octet) /\ Len(n.bytes) = Len(m.bytes) + Len(bytes)
              /\ LaterOf(n.bytes, hole, m.bytes, hole)
<1> DEFINE n == PutIfRoom(m, enough, bytes)
<1>1. Roomy(m, bytes, enough)
  BY DEF Roomy
<1> HIDE DEF n
<1> QED
  BY <1>1, RoomyPuts

\* The data of a PTR record is a name.
LEMMA ParsePointer ==
    ASSUME NEW b, NEW at, NEW length \in Nat, length >= 2
    PROVE  ParseData(b, TypePTR, at, length) = [target |-> mdns_string_extract(b, at)]
BY DEF ParseData, TypePTR, TypeSRV, TypeA, TypeAAAA, TypeTXT

\* The data of a SRV record is a port and a name.
LEMMA ParseService ==
    ASSUME NEW b, NEW at, NEW length \in Nat, length >= 8
    PROVE  ParseData(b, TypeSRV, at, length)
             = [target |-> mdns_string_extract(b, at + 6), port |-> ShortAt(b, at + 4)]
BY DEF ParseData, TypePTR, TypeSRV, TypeA, TypeAAAA, TypeTXT

\* The data of an A or AAAA record is an address.
LEMMA ParseAddress ==
    ASSUME NEW b, NEW at, NEW type, NEW length,
           (type = TypeA /\ length = 4) \/ (type = TypeAAAA /\ length = 16)
    PROVE  ParseData(b, type, at, length) = [addr |-> Part(b, at, length)]
BY DEF ParseData, TypePTR, TypeSRV, TypeA, TypeAAAA, TypeTXT

\* The data of a TXT record is a list of pairs.
LEMMA ParseTexts ==
    ASSUME NEW b, NEW at, NEW length
    PROVE  ParseData(b, TypeTXT, at, length) = [pairs |-> mdns_record_parse_txt(b, at, length)]
BY DEF ParseData, TypePTR, TypeSRV, TypeA, TypeAAAA, TypeTXT

\* The data from an offset to the end of the bytes is what was meant.
DataAt(bytes, hole, from, r) ==
    \A b : Later(b, bytes, hole) => ParseData(b, r.type, from, Len(bytes) - from) = MeantData(r)

\* What the lemmas on the data say.
DataMade(m, n, hole, from, r, Known) ==
    Ready(n, hole, Known) /\ n.ok /\ n.compress = m.compress
    /\ from <= Len(n.bytes) /\ DataAt(n.bytes, hole, from, r)

\* The data of a PTR record is read as it was meant.
LEMMA PointerMade ==
    ASSUME NEW Known, Alike(Known), NEW r, r.type = TypePTR, r.target \in Known, NEW hole,
           NEW m, Ready(m, hole, Known), m.ok, AddName(FixedData(m, r), r).ok
    PROVE  DataMade(m, AddName(FixedData(m, r), r), hole, Len(m.bytes), r, Known)
<1> DEFINE n == AddName(FixedData(m, r), r)
           from == Len(m.bytes)
<1>1. FixedData(m, r) = m
  BY DEF FixedData, TypePTR, TypeSRV, TypeA, TypeAAAA
<1>2. n = mdns_string_make(m, r.target)
  BY <1>1 DEF AddName
<1>3. r.target \in DnsName /\ m \in Buf
  BY DEF Alike, Ready
<1> HIDE DEF n
<1>4. After(m, n) /\ n.ok
  BY <1>2, <1>3, Makes DEF n
<1>5. NameMade(n, r.target, Known, hole, from)
  BY <1>2, <1>4, MakesName
<1>6. Ready(n, hole, Known) /\ from + 2 <= Len(n.bytes) /\ NameAt(n.bytes, hole, r.target, from)
  BY <1>5, Zenon DEF NameMade
<1>7. from \in Nat /\ Len(n.bytes) \in Nat /\ n.compress = m.compress
  BY <1>3, <1>4 DEF Buf, After
<1> HIDE DEF from
<1>8. Len(n.bytes) - from >= 2 /\ from <= Len(n.bytes)
  BY <1>6, <1>7
<1>9. DataAt(n.bytes, hole, from, r)
  <2> SUFFICES ASSUME NEW b, Later(b, n.bytes, hole)
               PROVE  ParseData(b, r.type, from, Len(n.bytes) - from) = MeantData(r)
    BY DEF DataAt
  <2>1. mdns_string_extract(b, from) = NameText(r.target)
    BY <1>3, <1>6, NameReads
  <2>2. MeantData(r) = [target |-> NameText(r.target)]
    BY DEF MeantData, TypePTR, TypeSRV
  <2>3. ParseData(b, r.type, from, Len(n.bytes) - from) = [target |-> mdns_string_extract(b, from)]
    BY <1>7, <1>8, ParsePointer
  <2> QED
    BY <2>1, <2>2, <2>3
<1> QED
  BY <1>4, <1>6, <1>7, <1>8, <1>9, Zenon DEF DataMade, n, from

\* The data of a SRV record is read as it was meant.
LEMMA ServiceMade ==
    ASSUME NEW Known, Alike(Known), NEW r, r.type = TypeSRV, r.target \in Known, r.port \in UInt16,
           NEW hole, NEW m, Ready(m, hole, Known), m.ok, AddName(FixedData(m, r), r).ok
    PROVE  DataMade(m, AddName(FixedData(m, r), r), hole, Len(m.bytes), r, Known)
<1> DEFINE front == ServiceFront(r)
           x == PutIfRoom(m, 7, front)
           n == AddName(FixedData(m, r), r)
           from == Len(m.bytes)
<1>1. FixedData(m, r) = x
  BY DEF FixedData, TypePTR, TypeSRV, TypeA, TypeAAAA, ServiceFront
<1>2. x.ok /\ n = mdns_string_make(x, r.target)
  <2>1. n = AddName(x, r) /\ n.ok
    BY <1>1
  <2> HIDE DEF x, n
  <2>2. x.ok
    BY <2>1 DEF AddName
  <2> QED
    BY <2>1, <2>2 DEF AddName
<1>3. r.target \in DnsName /\ m \in Buf /\ front \in Seq(Octet) /\ Len(front) = 6
  BY ServiceBytes DEF Alike, Ready
<1> HIDE DEF front
<1>4. /\ Ready(x, hole, Known) /\ x.compress = m.compress
      /\ x.bytes = m.bytes \o front
      /\ x.bytes \in Seq(Octet) /\ Len(x.bytes) = from + Len(front)
      /\ LaterOf(x.bytes, hole, m.bytes, hole)
  <2> DEFINE enough == 7
  <2>1. enough \in Nat /\ Len(front) <= enough /\ x = PutIfRoom(m, enough, front) /\ x.ok
    BY <1>2, <1>3
  <2> HIDE DEF enough, x, from
  <2>2. PutIfRoom(m, enough, front).ok
    BY <2>1
  <2>3. LET y == PutIfRoom(m, enough, front)
        IN /\ Ready(y, hole, Known) /\ y.ok /\ y.compress = m.compress
           /\ y.bytes = m.bytes \o front
           /\ y.bytes \in Seq(Octet) /\ Len(y.bytes) = Len(m.bytes) + Len(front)
           /\ LaterOf(y.bytes, hole, m.bytes, hole)
    BY <1>3, <2>1, <2>2, ReadyPuts, Zenon
  <2> QED
    BY <2>1, <2>3 DEF from
<1> HIDE DEF n, x
<1>5. x \in Buf /\ n.ok
  BY <1>4 DEF Ready, n
<1>6. After(x, n)
  BY <1>2, <1>3, <1>5, Makes
<1>7. NameMade(n, r.target, Known, hole, Len(x.bytes))
  BY <1>2, <1>4, <1>5, MakesName
<1>8. /\ Ready(n, hole, Known) /\ Len(x.bytes) + 2 <= Len(n.bytes)
      /\ NameAt(n.bytes, hole, r.target, Len(x.bytes))
  BY <1>7, Zenon DEF NameMade
<1>9. from \in Nat /\ Len(n.bytes) \in Nat /\ n.compress = m.compress /\ m.bytes \in Seq(Octet)
  BY <1>3, <1>4, <1>6 DEF Buf, After
<1> HIDE DEF from
<1>10. Len(x.bytes) = from + 6
  BY <1>3, <1>4
<1>11. Len(n.bytes) - from >= 8 /\ from <= Len(n.bytes)
  BY <1>8, <1>9, <1>10
<1>12. DataAt(n.bytes, hole, from, r)
  <2> SUFFICES ASSUME NEW b, Later(b, n.bytes, hole)
               PROVE  ParseData(b, r.type, from, Len(n.bytes) - from) = MeantData(r)
    BY DEF DataAt
  <2>1. mdns_string_extract(b, from + 6) = NameText(r.target)
    <3>1. mdns_string_extract(b, Len(x.bytes)) = NameText(r.target)
      BY <1>3, <1>8, NameReads
    <3> QED
      BY <1>10, <3>1
  <2>2. Later(b, x.bytes, hole)
    <3>1. Later(n.bytes, x.bytes, {})
      BY <1>5, <1>6 DEF After
    <3>2. Later(n.bytes, x.bytes, hole)
      BY <3>1, LaterWeaker
    <3>3. n.bytes \in Seq(Octet)
      BY <3>2 DEF Later
    <3> QED
      BY <1>4, <3>2, <3>3, LaterTrans
  <2>3. Has(b, from, front)
    <3>1. Within(hole, m.bytes) /\ Later(b, m.bytes \o front, hole)
      BY <1>4, <2>2 DEF Ready
    <3> QED
      BY <1>3, <1>9, <3>1, LaterReads DEF from
  <2>4. ShortAt(b, from + 4) = r.port
    BY <1>9, <2>3, ServiceReads DEF front
  <2>5. MeantData(r) = [target |-> NameText(r.target), port |-> r.port]
    BY DEF MeantData, TypePTR, TypeSRV
  <2>6. ParseData(b, r.type, from, Len(n.bytes) - from)
          = [target |-> mdns_string_extract(b, from + 6), port |-> ShortAt(b, from + 4)]
    BY <1>9, <1>11, ParseService
  <2> QED
    BY <2>1, <2>4, <2>5, <2>6
<1> QED
  BY <1>5, <1>8, <1>9, <1>11, <1>12, Zenon DEF DataMade, n, from

\* A part of a message is what lies there.
LEMMA PartHas ==
    ASSUME NEW b \in Seq(Octet), NEW at \in Nat, NEW bytes \in Seq(Octet),
           at + Len(bytes) <= Len(b), Has(b, at, bytes)
    PROVE  Part(b, at, Len(bytes)) = bytes
<1> DEFINE length == Len(bytes)
           part == SubSeq(b, at + 1, at + length)
<1>1. length \in Nat /\ Len(b) \in Nat
  OBVIOUS
<1>2. \A i \in 1 .. length : b[at + i] = bytes[i]
  BY DEF Has
<1> HIDE DEF length
<1>3. at + length <= Len(b)
  BY DEF length
<1>4. /\ part \in Seq(Octet) /\ Len(part) = length
      /\ \A i \in 1 .. length : part[i] = b[at + i]
  BY <1>1, <1>3
<1> HIDE DEF part
<1>5. part = bytes
  BY <1>2, <1>4, SeqEqual DEF length
<1> QED
  BY <1>5 DEF Part, part, length

\* The data of an A or AAAA record is read as it was meant.
LEMMA AddressMade ==
    ASSUME NEW Known, NEW r, r.addr \in Seq(Octet),
           (r.type = TypeA /\ Len(r.addr) = 4) \/ (r.type = TypeAAAA /\ Len(r.addr) = 16),
           NEW hole, NEW m, Ready(m, hole, Known), m.ok, AddName(FixedData(m, r), r).ok
    PROVE  DataMade(m, AddName(FixedData(m, r), r), hole, Len(m.bytes), r, Known)
<1> DEFINE addr == r.addr
           length == Len(addr)
           n == PutIfRoom(m, length, addr)
           from == Len(m.bytes)
<1>1. FixedData(m, r) = n
  BY DEF FixedData, TypePTR, TypeSRV, TypeA, TypeAAAA
<1>2. AddName(FixedData(m, r), r) = n
  <2> HIDE DEF n
  <2> QED
    BY <1>1 DEF AddName, TypePTR, TypeSRV, TypeA, TypeAAAA
<1>3. n.ok /\ m \in Buf /\ length \in Nat /\ addr \in Seq(Octet)
  BY <1>2 DEF Ready
<1>4. length <= length
  BY <1>3
<1>5. /\ Ready(n, hole, Known) /\ n.ok /\ n.compress = m.compress
      /\ n.bytes = m.bytes \o addr
      /\ n.bytes \in Seq(Octet) /\ Len(n.bytes) = Len(m.bytes) + length
      /\ LaterOf(n.bytes, hole, m.bytes, hole)
  <2> HIDE DEF addr, from
  <2>1. LET y == PutIfRoom(m, Len(addr), addr)
        IN /\ Ready(y, hole, Known) /\ y.ok /\ y.compress = m.compress
           /\ y.bytes = m.bytes \o addr
           /\ y.bytes \in Seq(Octet) /\ Len(y.bytes) = Len(m.bytes) + Len(addr)
           /\ LaterOf(y.bytes, hole, m.bytes, hole)
    BY <1>3, <1>4, ReadyPuts, Zenon
  <2> QED
    BY <2>1
<1> HIDE DEF n
<1>6. from \in Nat /\ m.bytes \in Seq(Octet) /\ Within(hole, m.bytes) /\ Len(n.bytes) = from + length
  BY <1>3, <1>5 DEF Buf, Ready
<1>7. from <= Len(n.bytes) /\ Len(n.bytes) - from = length
  <2> HIDE DEF from, length
  <2> QED
    BY <1>3, <1>6
<1>8. DataAt(n.bytes, hole, from, r)
  <2> SUFFICES ASSUME NEW b, Later(b, n.bytes, hole)
               PROVE  ParseData(b, r.type, from, Len(n.bytes) - from) = MeantData(r)
    BY DEF DataAt
  <2>1. b \in Seq(Octet) /\ Later(b, m.bytes \o addr, hole)
    BY <1>5 DEF Later
  <2>2. Has(b, from, addr) /\ from + length <= Len(b)
    <3> HIDE DEF addr
    <3> QED
      BY <1>3, <1>6, <2>1, LaterReads
  <2>3. Part(b, from, length) = addr
    <3> HIDE DEF addr, from
    <3> QED
      BY <1>3, <1>6, <2>1, <2>2, PartHas
  <2>4. MeantData(r) = [addr |-> addr]
    BY DEF MeantData, TypePTR, TypeSRV, TypeA, TypeAAAA
  <2>5. ParseData(b, r.type, from, length) = [addr |-> Part(b, from, length)]
    <3> HIDE DEF from
    <3> QED
      BY ParseAddress
  <2> QED
    BY <1>7, <2>3, <2>4, <2>5
<1>9. DataMade(m, n, hole, from, r, Known)
  BY <1>5, <1>7, <1>8, Zenon DEF DataMade
<1> QED
  BY <1>2, <1>9

\* The data of every record that is no text.
LEMMA EveryDataMade ==
    ASSUME NEW Known, Alike(Known), NEW r, Sendable(r, Known),
           NEW hole, NEW m, Ready(m, hole, Known), m.ok, AddName(FixedData(m, r), r).ok
    PROVE  DataMade(m, AddName(FixedData(m, r), r), hole, Len(m.bytes), r, Known)
<1>1. CASE r.type = TypePTR
  <2>1. r.target \in Known
    BY <1>1 DEF Sendable, TypePTR, TypeSRV, TypeA, TypeAAAA
  <2> QED
    BY <1>1, <2>1, PointerMade
<1>2. CASE r.type = TypeSRV
  <2>1. r.target \in Known /\ r.port \in UInt16
    BY <1>2 DEF Sendable, TypePTR, TypeSRV, TypeA, TypeAAAA
  <2> QED
    BY <1>2, <2>1, ServiceMade
<1>3. CASE r.type \in {TypeA, TypeAAAA}
  <2>1. /\ r.addr \in Seq(Octet)
        /\ (r.type = TypeA /\ Len(r.addr) = 4) \/ (r.type = TypeAAAA /\ Len(r.addr) = 16)
    BY <1>3, SMTT(30) DEF Sendable, TypePTR, TypeSRV, TypeA, TypeAAAA
  <2> QED
    BY <2>1, AddressMade
<1> QED
  BY <1>1, <1>2, <1>3 DEF Sendable

\* A record is read from at to next as this.
RecordAt(b, entry, at, next, item) ==
    \E from \in Nat :
        /\ at \in Nat /\ from >= 12 /\ from <= Len(b) /\ mdns_string_skip(b, at) = from - 10
        /\ ShortAt(b, from - 2) \in Nat
        /\ next = from + ShortAt(b, from - 2) /\ next <= Len(b)
        /\ Seen(b, entry, at, from - 10) = item

\* The record is read as it was meant once its length is filled in.
RecordMade(m, n, r, data, Known) ==
    /\ Ready(n, {}, Known) /\ n.ok /\ n.compress = m.compress
    /\ Len(m.bytes) + 1 <= Len(n.bytes)
    /\ \A b, entry : Later(b, n.bytes, {}) =>
           RecordAt(b, entry, Len(m.bytes), Len(n.bytes), Meant(entry, r, data))

\* An offset in a buffer is a number of 16 bits.
LEMMA Shorts ==
    ASSUME NEW n \in Nat, n <= 16384
    PROVE  n \in UInt16
<1> DEFINE last == 65535
<1>1. last \in Nat /\ n <= last
  OBVIOUS
<1> HIDE DEF last
<1>2. n \in 0 .. last
  BY <1>1
<1> QED
  BY <1>2 DEF UInt16, last

\* What a call writes leaves the bytes from before it, but for the hole.
LEMMA LaterAfter ==
    ASSUME NEW n \in Buf, NEW d, After(n, d), d.ok, NEW hole
    PROVE  LaterOf(d.bytes, hole, n.bytes, hole)
<1>1. Later(d.bytes, n.bytes, {}) /\ n.bytes \in Seq(Octet) /\ d.bytes \in Seq(Octet)
  BY DEF After, Buf
<1>2. Later(d.bytes, n.bytes, hole)
  BY <1>1, LaterWeaker
<1> QED
  BY <1>1, <1>2, LaterTrans, Zenon DEF LaterOf

\* The buffer after the length of the last record was filled in.
LEMMA ReadyFills ==
    ASSUME NEW Known, NEW d, NEW from \in Nat, from >= 2, from <= Len(d.bytes),
           Ready(d, HoleAt(from), Known), d.ok, d.compress
    PROVE  LET f == FillLength(d, from)
           IN /\ Ready(f, {}, Known) /\ f.ok /\ f.compress = d.compress
              /\ Len(f.bytes) = Len(d.bytes)
              /\ LaterOf(f.bytes, {}, d.bytes, HoleAt(from))
              /\ \A b : Later(b, f.bytes, {}) => ShortAt(b, from - 2) = Len(d.bytes) - from
<1> DEFINE f == FillLength(d, from)
           length == Len(d.bytes) - from
<1>1. d \in Buf /\ d.bytes \in Seq(Octet) /\ Len(d.bytes) \in Nat /\ d.size \in Int
  BY DEF Ready, Buf
<1>2. /\ f \in Buf /\ f.ok /\ f.size = d.size /\ f.compress = d.compress
      /\ f.table = d.table /\ Len(f.bytes) = Len(d.bytes)
      /\ Later(f.bytes, d.bytes, HoleAt(from))
      /\ Has(f.bytes, from - 2, Short(length))
  BY <1>1, Fills
<1> HIDE DEF f
<1>3. f.bytes \in Seq(Octet)
  BY <1>2 DEF Buf
<1>4. LaterOf(f.bytes, {}, d.bytes, HoleAt(from))
  <2>1. ASSUME NEW b, Later(b, f.bytes, {})
        PROVE  Later(b, d.bytes, HoleAt(from))
    <3>1. Later(b, f.bytes, HoleAt(from))
      BY <2>1, LaterWeaker
    <3> QED
      BY <1>1, <1>2, <1>3, <3>1, LaterTrans
  <2> QED
    BY <2>1, Zenon DEF LaterOf
<1>5. Fits(f)
  BY <1>2 DEF Ready, Fits
<1>6. TableMeans(f.table, f.bytes, {}, Known)
  <2>1. TableMeans(f.table, d.bytes, HoleAt(from), Known)
    BY <1>2 DEF Ready
  <2> QED
    BY <1>4, <2>1, TableStays
<1>7. Within({}, f.bytes) /\ (~f.compress => f.table = <<>>)
  BY <1>2 DEF Within
<1>8. Ready(f, {}, Known)
  BY <1>2, <1>5, <1>6, <1>7, ZenonT(30) DEF Ready
<1>9. length \in UInt16
  <2>1. Len(d.bytes) <= 16384
    BY <1>1 DEF Ready, Fits
  <2> DEFINE size == Len(d.bytes)
  <2>2. size \in Nat /\ from <= size /\ size <= 16384 /\ length = size - from
    BY <1>1, <2>1
  <2> HIDE DEF size, length
  <2>3. length \in Nat /\ length <= 16384
    BY <1>1, <2>2
  <2> QED
    BY <2>3, Shorts
<1>10. ASSUME NEW b, Later(b, f.bytes, {})
       PROVE  ShortAt(b, from - 2) = length
  <2>1. from - 2 \in Nat
    OBVIOUS
  <2>2. Len(Short(length)) = 2
    BY <1>9, ShortNumber, ShortBytes
  <2> HIDE DEF length
  <2>3. Has(b, from - 2, Short(length))
    <3>1. ASSUME NEW i \in 1 .. 2
          PROVE  b[from - 2 + i] = f.bytes[from - 2 + i]
      <4>1. from - 2 + i \in 1 .. Len(f.bytes) /\ from - 2 + i \notin {}
        BY <1>1, <1>2
      <4> QED
        BY <1>10, <4>1, Zenon DEF Later
    <3> QED
      BY <1>2, <2>2, <3>1 DEF Has
  <2> QED
    BY <1>9, <2>1, <2>3, ShortReads
<1> QED
  BY <1>2, <1>4, <1>8, <1>10 DEF f, length

\* A head, its data, and the length of the data.
LEMMA RecordCloses ==
    ASSUME NEW Known, Alike(Known), NEW r, HasHead(r, Known), NEW m, Ready(m, {}, Known), m.ok,
           m.compress, NEW n, n = mdns_answer_add_record_header(m, r), n.ok,
           NEW d, After(n, d), d.ok, Ready(d, HoleAt(Len(n.bytes)), Known), NEW data,
           \A b : Later(b, d.bytes, HoleAt(Len(n.bytes))) =>
                      ParseData(b, r.type, Len(n.bytes), Len(d.bytes) - Len(n.bytes)) = data
    PROVE  RecordMade(m, FillLength(d, Len(n.bytes)), r, data, Known)
<1> DEFINE from == Len(n.bytes)
           f == FillLength(d, from)
           length == Len(d.bytes) - from
           at == Len(m.bytes)
<1>1. /\ After(m, n) /\ Ready(n, HoleAt(from), Known) /\ at + 12 <= from
      /\ \A b : Later(b, n.bytes, HoleAt(from)) => HeadAt(b, at, from, r)
  BY HeadMade
<1>2. /\ m \in Buf /\ n \in Buf /\ d \in Buf /\ d.compress /\ at \in Nat /\ from \in Nat
      /\ Len(d.bytes) \in Nat
  BY <1>1 DEF After, Buf, Ready
<1>3. from <= Len(d.bytes)
  BY DEF After, Later
<1>4. from >= 12 /\ from >= 2
  <2> HIDE DEF from, at
  <2> QED
    BY <1>1, <1>2
<1> HIDE DEF from
<1>5. /\ Ready(f, {}, Known) /\ f.ok /\ f.compress = d.compress
      /\ Len(f.bytes) = Len(d.bytes)
      /\ LaterOf(f.bytes, {}, d.bytes, HoleAt(from))
      /\ \A b : Later(b, f.bytes, {}) => ShortAt(b, from - 2) = length
  <2>1. Ready(d, HoleAt(from), Known)
    BY DEF from
  <2> QED
    BY <1>2, <1>3, <1>4, <2>1, ReadyFills
<1> HIDE DEF f
<1>6. LaterOf(d.bytes, HoleAt(from), n.bytes, HoleAt(from))
  BY <1>2, LaterAfter
<1>7. length \in Nat /\ from + length = Len(f.bytes) /\ at + 1 <= Len(f.bytes)
  <2> DEFINE size == Len(d.bytes)
  <2>1. size \in Nat /\ length = size - from /\ size = Len(f.bytes) /\ from <= size
    BY <1>2, <1>3, <1>5
  <2> HIDE DEF size, at, length
  <2> QED
    BY <1>1, <1>2, <2>1
<1>8. ASSUME NEW b, NEW entry, Later(b, f.bytes, {})
      PROVE  RecordAt(b, entry, at, Len(f.bytes), Meant(entry, r, data))
  <2>1. Later(b, d.bytes, HoleAt(from))
    BY <1>5, <1>8, Zenon DEF LaterOf
  <2>2. Later(b, n.bytes, HoleAt(from))
    BY <1>6, <2>1, Zenon DEF LaterOf
  <2>3. HeadAt(b, at, from, r)
    BY <1>1, <2>2, Zenon
  <2>4. ShortAt(b, from - 2) = length
    BY <1>5, <1>8, Zenon
  <2>5. ParseData(b, r.type, from, length) = data
    BY <2>1 DEF from
  <2> HIDE DEF at, length
  <2>6. Seen(b, entry, at, from - 10) = Meant(entry, r, data)
    <3>1. /\ mdns_string_extract(b, at) = NameText(r.name)
          /\ ShortAt(b, from - 10) = r.type /\ ShortAt(b, from - 8) = r.class
          /\ LongAt(b, from - 6) = r.ttl
      BY <2>3, Zenon DEF HeadAt
    <3>2. from - 10 + 2 = from - 8 /\ from - 10 + 4 = from - 6 /\ from - 10 + 10 = from
          /\ from - 10 + 8 = from - 2
      BY <1>2
    <3> QED
      BY <2>4, <2>5, <3>1, <3>2 DEF Seen, Meant
  <2>7. Len(f.bytes) <= Len(b) /\ Len(b) \in Nat /\ Len(f.bytes) \in Nat
    BY <1>8, <1>2, <1>5, ByteFacts DEF Later
  <2>8. from <= Len(b)
    BY <1>2, <1>7, <2>7
  <2>9. mdns_string_skip(b, at) = from - 10
    BY <2>3, Zenon DEF HeadAt
  <2>10. Len(f.bytes) = from + ShortAt(b, from - 2) /\ ShortAt(b, from - 2) \in Nat
    BY <1>7, <2>4
  <2> QED
    BY <1>2, <1>4, <2>6, <2>7, <2>8, <2>9, <2>10, Zenon DEF RecordAt
<1>9. f.compress = m.compress
  BY <1>2, <1>5
<1>10. RecordMade(m, f, r, data, Known)
  BY <1>5, <1>7, <1>8, <1>9 DEF RecordMade
<1> QED
  BY <1>10 DEF f, from

\* mdns_answer_add_record: a record that is read as it was meant, wherever more is written.
LEMMA RecordWritten ==
    ASSUME NEW Known, Alike(Known), NEW r, Sendable(r, Known), NEW m, Ready(m, {}, Known), m.ok,
           m.compress, mdns_answer_add_record(m, r).ok
    PROVE  RecordMade(m, mdns_answer_add_record(m, r), r, MeantData(r), Known)
<1> DEFINE n == mdns_answer_add_record_header(m, r)
           x == FixedData(n, r)
           d == AddName(x, r)
           from == Len(n.bytes)
<1>1. HasHead(r, Known) /\ m \in Buf /\ ~IsText(r)
  BY DEF Sendable, IsText, TypePTR, TypeSRV, TypeA, TypeAAAA, TypeTXT, Ready
<1>2. mdns_answer_add_record(m, r) = FillLength(d, from)
  BY <1>1 DEF mdns_answer_add_record, AddData
<1>3. After(m, n)
  BY <1>1, HeaderAfter
<1> HIDE DEF n
<1>4. After(n, x)
  BY <1>3, FixedAfter DEF After
<1> HIDE DEF x
<1>5. After(x, d)
  BY <1>4, NameAfter DEF After
<1>6. After(n, d)
  BY <1>3, <1>4, <1>5, AfterTrans DEF After
<1> HIDE DEF d
<1>7. d.ok
  BY <1>2 DEF FillLength
<1>8. n.ok
  BY <1>6, <1>7 DEF After
<1>9. Ready(n, HoleAt(from), Known)
  BY <1>1, <1>8, HeadMade DEF n
<1>10. DataMade(n, d, HoleAt(from), from, r, Known)
  <2> HIDE DEF from
  <2> QED
    BY <1>7, <1>8, <1>9, EveryDataMade DEF d, x, from
<1>11. /\ Ready(d, HoleAt(from), Known)
       /\ \A b : Later(b, d.bytes, HoleAt(from)) =>
             ParseData(b, r.type, from, Len(d.bytes) - from) = MeantData(r)
  BY <1>10, Zenon DEF DataMade, DataAt
<1>12. RecordMade(m, FillLength(d, from), r, MeantData(r), Known)
  <2>1. n = mdns_answer_add_record_header(m, r)
    BY DEF n
  <2> QED
    BY <1>1, <1>6, <1>7, <1>8, <1>11, <2>1, RecordCloses
<1> QED
  BY <1>2, <1>12

-----------------------------------------------------------------------------
(* Texts.                                                                  *)

\* A text of a record of texts.
TextSendable(r, Known) ==
    /\ HasHead(r, Known) /\ r.type = TypeTXT
    /\ r.key \in Seq(Printable \ {EqualByte}) /\ r.key # <<>> /\ r.value \in Seq(Octet)
    /\ Len(KeyValue(r)) <= 255

PairMeant(r) == [key |-> r.key, value |-> r.value]

\* A sequence over a set is one over a larger set.
LEMMA SeqLarger ==
    ASSUME NEW S, NEW T, S \subseteq T, NEW seq \in Seq(S)
    PROVE  seq \in Seq(T)
OBVIOUS

\* A key is bytes, none of them an equal sign.
LEMMA KeyBytes ==
    ASSUME NEW key \in Seq(Printable \ {EqualByte})
    PROVE  /\ key \in Seq(Octet)
           /\ \A i \in 1 .. Len(key) : key[i] \in Printable /\ key[i] # EqualByte
<1> DEFINE S == Printable \ {EqualByte}
<1>1. S \subseteq Octet
  BY DEF Printable, Octet
<1>2. \A x \in S : x \in Printable /\ x # EqualByte
  OBVIOUS
<1>3. key \in Seq(S)
  OBVIOUS
<1> HIDE DEF S
<1>4. key \in Seq(Octet)
  BY <1>1, <1>3, SeqLarger
<1>5. \A i \in 1 .. Len(key) : key[i] \in S
  BY <1>3
<1> QED
  BY <1>2, <1>4, <1>5

\* A pair is a key, an equal sign and a value, in at most 255 bytes.
LEMMA KeyValueBytes ==
    ASSUME NEW r, NEW Known, TextSendable(r, Known)
    PROVE  /\ KeyValue(r) \in Seq(Octet) /\ Len(KeyValue(r)) = Len(r.key) + 1 + Len(r.value)
           /\ Len(KeyValue(r)) \in Octet /\ Len(r.key) \in Nat \ {0} /\ Len(r.value) \in Nat
           /\ \A i \in 1 .. Len(r.key) : KeyValue(r)[i] = r.key[i]
           /\ KeyValue(r)[Len(r.key) + 1] = EqualByte
           /\ \A i \in 1 .. Len(r.value) : KeyValue(r)[Len(r.key) + 1 + i] = r.value[i]
<1> DEFINE key == r.key
           value == r.value
           equal == <<EqualByte>>
           front == key \o equal
           all == front \o value
<1>1. /\ key \in Seq(Octet) /\ key # <<>> /\ value \in Seq(Octet) /\ Len(all) <= 255
      /\ all = KeyValue(r)
  <2>1. key \in Seq(Octet)
    BY KeyBytes DEF TextSendable
  <2>2. key # <<>> /\ value \in Seq(Octet) /\ Len(KeyValue(r)) <= 255
    BY DEF TextSendable
  <2>3. all = KeyValue(r)
    BY DEF KeyValue
  <2> QED
    BY <2>1, <2>2, <2>3
<1>2. equal \in Seq(Octet) /\ Len(equal) = 1 /\ equal[1] = EqualByte
  BY DEF Octet, EqualByte
<1> HIDE DEF key, value, equal
<1>3. Len(key) \in Nat /\ Len(key) # 0 /\ Len(value) \in Nat
  BY <1>1
<1>4. /\ front \in Seq(Octet) /\ Len(front) = Len(key) + 1
      /\ \A i \in 1 .. Len(key) : front[i] = key[i]
      /\ front[Len(key) + 1] = EqualByte
  <2>1. /\ front \in Seq(Octet) /\ Len(front) = Len(key) + Len(equal)
        /\ \A i \in 1 .. Len(key) : front[i] = key[i]
        /\ \A i \in 1 .. Len(equal) : front[Len(key) + i] = equal[i]
    BY <1>1, <1>2, Concat
  <2> HIDE DEF front
  <2>2. 1 \in 1 .. Len(equal)
    BY <1>2
  <2> QED
    BY <1>2, <2>1, <2>2
<1> HIDE DEF front
<1>5. /\ all \in Seq(Octet) /\ Len(all) = Len(front) + Len(value)
      /\ \A i \in 1 .. Len(front) : all[i] = front[i]
      /\ \A i \in 1 .. Len(value) : all[Len(front) + i] = value[i]
  BY <1>1, <1>4, Concat
<1> HIDE DEF all
<1>6. Len(all) = Len(key) + 1 + Len(value)
  BY <1>4, <1>5
<1>7. Len(all) \in Octet
  <2> DEFINE size == Len(all)
  <2>1. size \in Nat /\ size <= 255
    BY <1>1, <1>3, <1>6
  <2> HIDE DEF size
  <2>2. size \in Octet
    BY <2>1 DEF Octet
  <2> QED
    BY <2>2 DEF size
<1>8. \A i \in 1 .. Len(key) : all[i] = key[i]
  <2> TAKE i \in 1 .. Len(key)
  <2>1. i \in 1 .. Len(front)
    BY <1>3, <1>4
  <2> QED
    BY <1>4, <1>5, <2>1
<1>9. all[Len(key) + 1] = EqualByte
  <2>1. Len(key) + 1 \in 1 .. Len(front)
    BY <1>3, <1>4
  <2> QED
    BY <1>4, <1>5, <2>1
<1>10. \A i \in 1 .. Len(value) : all[Len(key) + 1 + i] = value[i]
  BY <1>4, <1>5
<1>11. Len(key) \in Nat \ {0}
  BY <1>3
<1> QED
  BY <1>1, <1>3, <1>5, <1>6, <1>7, <1>8, <1>9, <1>10, <1>11 DEF key, value

\* The separator is found behind the key.
LEMMA PairReads ==
    ASSUME NEW r, NEW Known, TextSendable(r, Known)
    PROVE  PairOf(KeyValue(r)) = PairMeant(r)
<1> DEFINE text == KeyValue(r)
           k == Len(r.key)
           length == Len(r.value)
           I == {i \in 1 .. Len(text) : text[i] \notin Printable \/ text[i] = EqualByte}
           special == SelectInSeq(text, LAMBDA b : b \notin Printable \/ b = EqualByte)
<1>1. /\ text \in Seq(Octet) /\ Len(text) = k + 1 + length
      /\ k \in Nat \ {0} /\ length \in Nat
      /\ \A i \in 1 .. k : text[i] = r.key[i]
      /\ text[k + 1] = EqualByte
      /\ \A i \in 1 .. length : text[k + 1 + i] = r.value[i]
  BY KeyValueBytes
<1>2. special = IF I # {} THEN Min(I) ELSE 0
  BY DEF SelectInSeq
<1>3. /\ r.key \in Seq(Octet) /\ r.value \in Seq(Octet)
      /\ \A i \in 1 .. k : r.key[i] \in Printable /\ r.key[i] # EqualByte
  BY KeyBytes DEF TextSendable
<1> HIDE DEF text, special
<1>4. \A i \in 1 .. k : text[i] \in Printable /\ text[i] # EqualByte
  BY <1>1, <1>3
<1> HIDE DEF k, length
<1>5. k + 1 \in I /\ \A i \in I : k + 1 <= i /\ i \in Nat
  BY <1>1, <1>4
<1>6. special = k + 1
  <2>1. I # {}
    BY <1>5
  <2> HIDE DEF I
  <2>2. Min(I) = CHOOSE x \in I : \A y \in I : x <= y
    BY DEF Min
  <2>3. \A x \in I : (\A y \in I : x <= y) => x = k + 1
    BY <1>1, <1>5
  <2>4. Min(I) = k + 1
    BY <1>5, <2>2, <2>3
  <2> QED
    BY <1>2, <2>1, <2>4
<1> HIDE DEF I
<1>7. PairOf(text) = IF special = 0 THEN [key |-> text, value |-> <<>>]
                     ELSE IF text[special] # EqualByte THEN [key |-> <<>>, value |-> <<>>]
                     ELSE [key |-> SubSeq(text, 1, special - 1),
                           value |-> SubSeq(text, special + 1, Len(text))]
  BY DEF PairOf, special
<1>8. special # 0 /\ text[special] = EqualByte
  BY <1>1, <1>6
<1> DEFINE key == SubSeq(text, 1, special - 1)
           value == SubSeq(text, special + 1, Len(text))
<1>9. PairOf(text) = [key |-> key, value |-> value]
  BY <1>7, <1>8, Zenon
<1>10. key = r.key
  <2>1. special - 1 = k /\ k \in Nat /\ k <= Len(text)
    BY <1>1, <1>6
  <2>2. key \in Seq(Octet) /\ Len(key) = k /\ \A i \in 1 .. k : key[i] = text[i]
    BY <1>1, <2>1
  <2> HIDE DEF key
  <2> QED
    BY <1>1, <1>3, <2>2, SeqEqual DEF k
<1>11. value = r.value
  <2>1. special + 1 = k + 2 /\ k \in Nat /\ Len(text) = k + 1 + length /\ length \in Nat
    BY <1>1, <1>6
  <2>2. value = SubSeq(text, k + 2, k + 1 + length)
    BY <2>1
  <2> HIDE DEF value
  <2>3. value \in Seq(Octet) /\ Len(value) = length /\ \A i \in 1 .. length : value[i] = text[k + 1 + i]
    BY <1>1, <2>1, <2>2
  <2> QED
    BY <1>1, <1>3, <2>3, SeqEqual DEF length
<1> QED
  BY <1>9, <1>10, <1>11 DEF PairMeant, text

\* The loop of mdns_record_parse_txt at one offset.
PairRow(bytes, end, g, o) ==
    LET pair == PairOf(Part(bytes, o + 1, bytes[o + 1]))
        rest == g[o + bytes[o + 1] + 1]
    IN IF o >= end \/ bytes[o + 1] >= end - o THEN <<>>
       ELSE IF pair.key = <<>> THEN rest ELSE <<pair>> \o rest

IsPairs(g, bytes, end) == g = [o \in 0 .. end |-> PairRow(bytes, end, g, o)]

\* The pairs from an offset on are a sequence of pairs.
LEMMA PairRowType ==
    ASSUME NEW bytes \in Seq(Octet), NEW end \in 0 .. Len(bytes), NEW P,
           \A o \in 0 .. end : PairOf(Part(bytes, o + 1, bytes[o + 1])) \in P,
           NEW g \in [0 .. end -> Seq(P)], NEW o \in 0 .. end
    PROVE  PairRow(bytes, end, g, o) \in Seq(P)
<1> DEFINE pair == PairOf(Part(bytes, o + 1, bytes[o + 1]))
           next == o + bytes[o + 1] + 1
           rest == g[next]
<1>1. PairRow(bytes, end, g, o) = IF o >= end \/ bytes[o + 1] >= end - o THEN <<>>
                                  ELSE IF pair.key = <<>> THEN rest ELSE <<pair>> \o rest
  BY DEF PairRow
<1>2. pair \in P
  OBVIOUS
<1> HIDE DEF pair, rest
<1>3. CASE o >= end \/ bytes[o + 1] >= end - o
  BY <1>1, <1>3
<1>4. CASE ~(o >= end \/ bytes[o + 1] >= end - o)
  <2>1. next \in 0 .. end
    <3>1. Len(bytes) \in Nat /\ o + 1 \in 1 .. Len(bytes)
      BY <1>4, ByteFacts
    <3>2. bytes[o + 1] \in Nat
      BY <3>1, ByteFacts
    <3> QED
      BY <1>4, <3>1, <3>2, SMTT(30)
  <2>2. rest \in Seq(P)
    BY <2>1 DEF rest
  <2>3. <<pair>> \o rest \in Seq(P)
    BY <1>2, <2>2
  <2> QED
    BY <1>1, <1>4, <2>2, <2>3
<1> QED
  BY <1>3, <1>4

\* A row depends only on the rows of later offsets.
LEMMA PairRowSame ==
    ASSUME NEW bytes \in Seq(Octet), NEW end \in 0 .. Len(bytes), NEW g, NEW h, NEW o \in 0 .. end,
           \A x \in o + 1 .. end : g[x] = h[x]
    PROVE  PairRow(bytes, end, g, o) = PairRow(bytes, end, h, o)
<1> DEFINE next == o + bytes[o + 1] + 1
<1>1. CASE o >= end \/ bytes[o + 1] >= end - o
  BY <1>1 DEF PairRow
<1>2. CASE ~(o >= end \/ bytes[o + 1] >= end - o)
  <2>1. next \in o + 1 .. end
    <3>1. Len(bytes) \in Nat /\ o + 1 \in 1 .. Len(bytes)
      BY <1>2, ByteFacts
    <3>2. bytes[o + 1] \in Nat
      BY <3>1, ByteFacts
    <3> QED
      BY <1>2, <3>1, <3>2
  <2>2. g[next] = h[next]
    BY <2>1
  <2> QED
    BY <2>2, Zenon DEF PairRow
<1> QED
  BY <1>1, <1>2

\* The recursive function of mdns_record_parse_txt, from the end backwards.
LEMMA PairsExist ==
    ASSUME NEW bytes \in Seq(Octet), NEW end \in 0 .. Len(bytes)
    PROVE  \E g : IsPairs(g, bytes, end)
<1> DEFINE P == {PairOf(Part(bytes, o + 1, bytes[o + 1])) : o \in 0 .. end}
           S == [0 .. end -> Seq(P)]
           base == [o \in 0 .. end |-> <<>>]
           Put(k, g) == [g EXCEPT ![end - k] = PairRow(bytes, end, g, end - k)]
           step == [x \in Nat \X S |-> IF x[1] \in 1 .. end THEN Put(x[1], x[2]) ELSE x[2]]
<1>1. end \in Nat /\ Len(bytes) \in Nat
  BY ByteFacts
<1>2. \A o \in 0 .. end : PairOf(Part(bytes, o + 1, bytes[o + 1])) \in P
  OBVIOUS
<1> HIDE DEF P
<1>3. base \in S
  OBVIOUS
<1>4. ASSUME NEW k \in 1 .. end, NEW g \in S
      PROVE  /\ Put(k, g) \in S /\ end - k \in 0 .. end
             /\ Put(k, g)[end - k] = PairRow(bytes, end, g, end - k)
             /\ \A o \in end - k + 1 .. end : Put(k, g)[o] = g[o]
  <2>1. end - k \in 0 .. end
    BY <1>1
  <2> DEFINE row == PairRow(bytes, end, g, end - k)
  <2>2. row \in Seq(P)
    BY <1>2, <2>1, PairRowType
  <2> HIDE DEF row
  <2>3. [g EXCEPT ![end - k] = row] \in S
    BY <2>1, <2>2
  <2>4. [g EXCEPT ![end - k] = row][end - k] = row
    BY <2>1
  <2>5. \A o \in end - k + 1 .. end : o \in 0 .. end /\ o # end - k
    BY <1>1
  <2>6. \A o \in end - k + 1 .. end : [g EXCEPT ![end - k] = row][o] = g[o]
    BY <2>1, <2>5
  <2> QED
    BY <2>1, <2>3, <2>4, <2>6 DEF row
<1> HIDE DEF Put
<1>5. step \in [Nat \X S -> S]
  <2> HIDE DEF S
  <2> QED
    BY <1>4
<1>6. \A k \in 1 .. end, g \in S : step[<<k, g>>] = Put(k, g)
  <2> HIDE DEF S
  <2> QED
    BY <1>1
<1> HIDE DEF S, base, step
<1>7. PICK f \in [0 .. end -> S] : IsLoop(f, base, step, end)
  BY <1>1, <1>3, <1>5, Loop
<1>8. f[0] = base /\ \A k \in 1 .. end : f[k - 1] \in S /\ f[k] = Put(k, f[k - 1])
  <2>1. f[0] = base
    <3>1. 0 \in 0 .. end
      BY <1>1
    <3> QED
      BY <1>7, <3>1 DEF IsLoop
  <2>2. ASSUME NEW k \in 1 .. end
        PROVE  f[k - 1] \in S /\ f[k] = Put(k, f[k - 1])
    <3>1. k \in 0 .. end /\ k # 0 /\ k - 1 \in 0 .. end
      BY <1>1
    <3>2. f[k] = step[<<k, f[k - 1]>>] /\ f[k - 1] \in S
      BY <1>7, <3>1 DEF IsLoop
    <3> QED
      BY <1>6, <3>2
  <2> QED
    BY <2>1, <2>2
<1> DEFINE Good == {k \in 0 .. end : \A o \in end - k .. end :
                        f[k][o] = PairRow(bytes, end, f[k], o)}
<1>9. 0 \in Good
  <2>1. ASSUME NEW o \in end - 0 .. end
        PROVE  f[0][o] = PairRow(bytes, end, f[0], o)
    <3>1. o = end /\ o \in 0 .. end
      BY <1>1
    <3>2. f[0][o] = <<>>
      BY <1>8, <3>1 DEF base
    <3>3. PairRow(bytes, end, f[0], o) = <<>>
      BY <3>1 DEF PairRow
    <3> QED
      BY <3>2, <3>3
  <2> QED
    BY <1>1, <2>1
<1>10. ASSUME NEW k \in 1 .. end, k - 1 \in Good
       PROVE  k \in Good
  <2>1. f[k - 1] \in S /\ f[k] = Put(k, f[k - 1])
    BY <1>8
  <2>2. /\ f[k][end - k] = PairRow(bytes, end, f[k - 1], end - k)
        /\ \A o \in end - k + 1 .. end : f[k][o] = f[k - 1][o]
    BY <1>4, <2>1
  <2>3. ASSUME NEW o \in end - k .. end
        PROVE  f[k][o] = PairRow(bytes, end, f[k], o)
    <3>1. o \in 0 .. end /\ \A x \in o + 1 .. end : x \in end - k + 1 .. end
      BY <1>1
    <3>2. PairRow(bytes, end, f[k - 1], o) = PairRow(bytes, end, f[k], o)
      <4>1. \A x \in o + 1 .. end : f[k - 1][x] = f[k][x]
        BY <2>2, <3>1
      <4> QED
        BY <3>1, <4>1, PairRowSame
    <3>3. CASE o = end - k
      BY <2>2, <3>2, <3>3
    <3>4. CASE o # end - k
      <4>1. o \in end - k + 1 .. end /\ o \in end - (k - 1) .. end
        BY <1>1, <3>4
      <4>2. f[k - 1][o] = PairRow(bytes, end, f[k - 1], o)
        BY <1>10, <4>1
      <4> QED
        BY <2>2, <3>2, <4>1, <4>2
    <3> QED
      BY <3>3, <3>4
  <2> QED
    BY <1>1, <2>3
<1> HIDE DEF Good
<1>11. \A k \in 0 .. end : k \in Good
  BY <1>1, <1>9, <1>10, UpTo
<1>12. end \in Good
  BY <1>1, <1>11
<1> DEFINE g == f[end]
<1>13. \A o \in 0 .. end : g[o] = PairRow(bytes, end, g, o)
  BY <1>1, <1>12 DEF Good
<1>14. g \in S
  BY <1>1, <1>7
<1> HIDE DEF g
<1>15. IsPairs(g, bytes, end)
  <2>1. g = [o \in 0 .. end |-> g[o]]
    BY <1>14 DEF S
  <2>2. g = [o \in 0 .. end |-> PairRow(bytes, end, g, o)]
    BY <1>13, <2>1
  <2> QED
    BY <2>2, Zenon DEF IsPairs
<1> QED
  BY <1>15

\* mdns_record_parse_txt from the first offset on.
LEMMA PairsAt ==
    ASSUME NEW bytes \in Seq(Octet), NEW at \in Nat, NEW length \in Nat, at + length <= Len(bytes)
    PROVE  \E g : /\ \A o \in 0 .. at + length : g[o] = PairRow(bytes, at + length, g, o)
                  /\ mdns_record_parse_txt(bytes, at, length) = g[at]
<1> DEFINE end == IF Len(bytes) < at + length THEN Len(bytes) ELSE at + length
           g == CHOOSE h : IsPairs(h, bytes, end)
<1>1. end = at + length /\ end \in 0 .. Len(bytes)
  BY ByteFacts
<1>2. mdns_record_parse_txt(bytes, at, length) = g[at]
  BY DEF mdns_record_parse_txt, IsPairs, PairRow
<1> HIDE DEF end
<1>3. IsPairs(g, bytes, end)
  BY <1>1, PairsExist, Zenon
<1> HIDE DEF g
<1>4. \A o \in 0 .. end : g[o] = PairRow(bytes, end, g, o)
  BY <1>3, Zenon DEF IsPairs
<1> QED
  BY <1>1, <1>2, <1>4, Zenon

\* The places of texts, written one behind the other.
TextAt(b, at, next, text) ==
    /\ at \in Nat /\ b[at + 1] = Len(text) /\ Has(b, at + 1, text)
    /\ next = at + 1 + Len(text)

TextsAt(b, q, texts, k) == \A i \in 1 .. k : TextAt(b, q[i], q[i + 1], KeyValue(texts[i]))

\* A pair is a sequence of bytes.
LEMMA TextBytes ==
    ASSUME NEW r, NEW Known, TextSendable(r, Known)
    PROVE  KeyValue(r) \in Seq(Octet) /\ Len(KeyValue(r)) \in Nat
<1>1. KeyValue(r) \in Seq(Octet)
  BY KeyValueBytes, Zenon
<1> QED
  BY <1>1

IsJoin(S, j, s, t) ==
    /\ j \in Seq(S) /\ Len(j) = Len(s) + Len(t)
    /\ \A i \in 1 .. Len(s) : j[i] = s[i]
    /\ \A i \in 1 .. Len(t) : j[Len(s) + i] = t[i]

\* Two sequences, one behind the other, position by position.
LEMMA JoinAny ==
    ASSUME NEW S, NEW s \in Seq(S), NEW t \in Seq(S)
    PROVE  IsJoin(S, s \o t, s, t)
<1>1. s \o t \in Seq(S)
  OBVIOUS
<1>2. Len(s \o t) = Len(s) + Len(t)
  OBVIOUS
<1>3. ASSUME NEW i \in 1 .. Len(s)
      PROVE  (s \o t)[i] = s[i]
  OBVIOUS
<1>4. ASSUME NEW i \in 1 .. Len(t)
      PROVE  (s \o t)[Len(s) + i] = t[i]
  <2>1. Len(s) + i \in 1 .. Len(s) + Len(t) /\ Len(s) + i > Len(s) /\ (Len(s) + i) - Len(s) = i
    OBVIOUS
  <2> QED
    BY <2>1
<1> QED
  BY <1>1, <1>2, <1>3, <1>4, Zenon DEF IsJoin

IsFirst(S, f, e, t) ==
    /\ f \in Seq(S) /\ Len(f) = 1 + Len(t)
    /\ f[1] = e /\ \A i \in 1 .. Len(t) : f[1 + i] = t[i]

\* A sequence with one element in front, position by position.
LEMMA FirstOf ==
    ASSUME NEW S, NEW e \in S, NEW t \in Seq(S)
    PROVE  IsFirst(S, <<e>> \o t, e, t)
<1> DEFINE one == <<e>>
<1>1. one \in Seq(S) /\ Len(one) = 1 /\ one[1] = e
  OBVIOUS
<1> HIDE DEF one
<1> DEFINE both == one \o t
<1>2. IsJoin(S, both, one, t)
  BY <1>1, JoinAny, Zenon
<1> HIDE DEF both
<1>4. /\ both \in Seq(S) /\ Len(both) = Len(one) + Len(t)
      /\ \A i \in 1 .. Len(one) : both[i] = one[i]
      /\ \A i \in 1 .. Len(t) : both[Len(one) + i] = t[i]
  BY <1>2 DEF IsJoin
<1>3. 1 \in 1 .. Len(one)
  BY <1>1
<1>5. /\ both \in Seq(S) /\ Len(both) = 1 + Len(t)
      /\ both[1] = e /\ \A i \in 1 .. Len(t) : both[1 + i] = t[i]
  BY <1>1, <1>3, <1>4
<1> QED
  BY <1>5, Zenon DEF IsFirst, both, one

\* One pair and the pairs behind it.
LEMMA PairGoesOn ==
    ASSUME NEW b \in Seq(Octet), NEW end \in 0 .. Len(b), NEW g, NEW o, NEW next \in 0 .. end,
           NEW Known, NEW r, TextSendable(r, Known), TextAt(b, o, next, KeyValue(r))
    PROVE  o \in 0 .. end /\ PairRow(b, end, g, o) = <<PairMeant(r)>> \o g[next]
<1> DEFINE text == KeyValue(r)
           length == Len(text)
<1>1. text \in Seq(Octet) /\ length \in Nat
  BY TextBytes
<1>2. PairOf(text) = PairMeant(r)
  BY PairReads
<1> HIDE DEF text
<1>3. /\ Len(b) \in Nat /\ o \in Nat
      /\ b[o + 1] = length /\ Has(b, o + 1, text) /\ next = o + 1 + length
  BY DEF text, TextAt
<1>4. Part(b, o + 1, length) = text
  <2>1. o + 1 \in Nat /\ o + 1 + length <= Len(b)
    BY <1>1, <1>3
  <2> QED
    BY <1>1, <1>3, <2>1, PartHas
<1> HIDE DEF length
<1>5. o \in 0 .. end /\ ~(o >= end \/ length >= end - o) /\ o + length + 1 = next
  BY <1>1, <1>3
<1>6. PairMeant(r).key # <<>>
  BY DEF PairMeant, TextSendable
<1>7. PairRow(b, end, g, o) = <<PairMeant(r)>> \o g[next]
  <2>1. PairRow(b, end, g, o) =
          LET pair == PairOf(Part(b, o + 1, length))
              rest == g[o + length + 1]
          IN IF o >= end \/ length >= end - o THEN <<>>
             ELSE IF pair.key = <<>> THEN rest ELSE <<pair>> \o rest
    BY <1>3, Zenon DEF PairRow
  <2> QED
    BY <1>2, <1>4, <1>5, <1>6, <2>1, Zenon
<1> QED
  BY <1>5, <1>7

\* The first K texts lie between two offsets.
TextsLie(b, q, texts, K, from, end, Known) ==
    /\ b \in Seq(Octet) /\ K \in Nat /\ from \in Nat /\ end \in Nat
    /\ \A i \in 1 .. K : TextSendable(texts[i], Known)
    /\ TextsAt(b, q, texts, K) /\ q[1] = from /\ q[K + 1] = end /\ end <= Len(b)

\* mdns_record_parse_txt reads texts that lie one behind the other.
LEMMA TextsRead ==
    ASSUME NEW b, NEW Known, NEW texts, NEW K, NEW q, NEW from, NEW end,
           TextsLie(b, q, texts, K, from, end, Known)
    PROVE  /\ from <= end
           /\ mdns_record_parse_txt(b, from, end - from) = [i \in 1 .. K |-> PairMeant(texts[i])]
<1>0. /\ b \in Seq(Octet) /\ K \in Nat /\ from \in Nat /\ end \in Nat
      /\ \A i \in 1 .. K : TextSendable(texts[i], Known)
      /\ TextsAt(b, q, texts, K) /\ q[1] = from /\ q[K + 1] = end /\ end <= Len(b)
  BY DEF TextsLie
<1> USE <1>0
<1> DEFINE P == {PairMeant(texts[i]) : i \in 1 .. K}
           Rest(d) == [x \in 1 .. d |-> PairMeant(texts[K - d + x])]
<1>1. end \in 0 .. Len(b)
  BY ByteFacts
<1>2. ASSUME NEW d \in 0 .. K
      PROVE  Rest(d) \in Seq(P) /\ Len(Rest(d)) = d /\ \A x \in 1 .. d : Rest(d)[x] = PairMeant(texts[K - d + x])
  <2>1. \A x \in 1 .. d : K - d + x \in 1 .. K
    OBVIOUS
  <2>2. \A x \in 1 .. d : PairMeant(texts[K - d + x]) \in P
    BY <2>1
  <2> HIDE DEF P
  <2> QED
    BY <2>2
<1> HIDE DEF P, Rest
<1>3. ASSUME NEW d \in 1 .. K
      PROVE  <<PairMeant(texts[K + 1 - d])>> \o Rest(d - 1) = Rest(d)
  <2> DEFINE one == <<PairMeant(texts[K + 1 - d])>>
             s == one \o Rest(d - 1)
  <2>1. d - 1 \in 0 .. K /\ d \in 0 .. K /\ K + 1 - d \in 1 .. K /\ K - d + 1 = K + 1 - d
    OBVIOUS
  <2>2. PairMeant(texts[K + 1 - d]) \in P
    BY <2>1 DEF P
  <2>3. /\ Rest(d - 1) \in Seq(P) /\ Len(Rest(d - 1)) = d - 1
        /\ \A x \in 1 .. d - 1 : Rest(d - 1)[x] = PairMeant(texts[K - (d - 1) + x])
        /\ Rest(d) \in Seq(P) /\ Len(Rest(d)) = d
        /\ \A x \in 1 .. d : Rest(d)[x] = PairMeant(texts[K - d + x])
    BY <1>2, <2>1
  <2> DEFINE rest == Rest(d - 1)
             e == PairMeant(texts[K + 1 - d])
  <2>8. /\ s \in Seq(P) /\ Len(s) = 1 + Len(rest)
        /\ s[1] = e /\ \A i \in 1 .. Len(rest) : s[1 + i] = rest[i]
    <3>1. rest \in Seq(P) /\ e \in P
      BY <2>2, <2>3
    <3>2. s = <<e>> \o rest
      OBVIOUS
    <3> HIDE DEF rest, e, s, one
    <3>3. IsFirst(P, <<e>> \o rest, e, rest)
      BY <3>1, FirstOf, Zenon
    <3> QED
      BY <3>2, <3>3, Zenon DEF IsFirst
  <2> HIDE DEF s
  <2>5. s \in Seq(P) /\ Len(s) = d
    BY <2>3, <2>8
  <2>6. ASSUME NEW x \in 1 .. d
        PROVE  s[x] = Rest(d)[x]
    <3>1. CASE x = 1
      <4>1. s[x] = e
        BY <2>8, <3>1
      <4> QED
        BY <2>1, <2>3, <3>1, <4>1
    <3>2. CASE x # 1
      <4>1. x - 1 \in 1 .. d - 1 /\ K - (d - 1) + (x - 1) = K - d + x /\ 1 + (x - 1) = x
        BY <3>2
      <4>2. s[x] = Rest(d - 1)[x - 1]
        <5>1. x - 1 \in 1 .. Len(rest)
          BY <2>3, <4>1
        <5>2. s[1 + (x - 1)] = rest[x - 1]
          BY <2>8, <5>1
        <5> QED
          BY <4>1, <5>2
      <4>3. Rest(d - 1)[x - 1] = PairMeant(texts[K - d + x])
        BY <2>3, <4>1
      <4> QED
        BY <2>3, <4>2, <4>3
    <3> QED
      BY <3>1, <3>2
  <2>7. s = Rest(d)
    BY <2>3, <2>5, <2>6, SeqEqual
  <2> QED
    BY <2>7 DEF s, one
<1>4. ASSUME NEW g, \A o \in 0 .. end : g[o] = PairRow(b, end, g, o)
      PROVE  from \in 0 .. end /\ g[from] = Rest(K)
  <2> DEFINE Good == {d \in 0 .. K : q[K + 1 - d] \in 0 .. end /\ g[q[K + 1 - d]] = Rest(d)}
  <2>1. 0 \in Good
    <3>1. K + 1 - 0 = K + 1 /\ end \in 0 .. end
      OBVIOUS
    <3>2. Rest(0) = <<>>
      BY DEF Rest
    <3>3. g[end] = <<>>
      <4>1. end >= end
        OBVIOUS
      <4> QED
        BY <1>4, <3>1, <4>1 DEF PairRow
    <3> QED
      BY <3>1, <3>2, <3>3
  <2>2. ASSUME NEW d \in 1 .. K, d - 1 \in Good
        PROVE  d \in Good
    <3> DEFINE i == K + 1 - d
    <3>1. i \in 1 .. K /\ K + 1 - (d - 1) = i + 1
      OBVIOUS
    <3>2. q[i + 1] \in 0 .. end /\ g[q[i + 1]] = Rest(d - 1)
      <4>1. q[K + 1 - (d - 1)] \in 0 .. end /\ g[q[K + 1 - (d - 1)]] = Rest(d - 1)
        BY <2>2
      <4> HIDE DEF i
      <4> QED
        BY <3>1, <4>1
    <3> HIDE DEF i
    <3>3. TextAt(b, q[i], q[i + 1], KeyValue(texts[i]))
      BY <3>1, Zenon DEF TextsAt
    <3>4. q[i] \in 0 .. end /\ PairRow(b, end, g, q[i]) = <<PairMeant(texts[i])>> \o g[q[i + 1]]
      <4> DEFINE o == q[i]
                 next == q[i + 1]
                 r == texts[i]
      <4>1. TextSendable(r, Known) /\ next \in 0 .. end
        BY <3>1, <3>2
      <4>2. TextAt(b, o, next, KeyValue(r))
        BY <3>3
      <4> HIDE DEF o, next, r
      <4>3. o \in 0 .. end /\ PairRow(b, end, g, o) = <<PairMeant(r)>> \o g[next]
        BY <1>1, <4>1, <4>2, PairGoesOn
      <4> QED
        BY <4>3 DEF o, next, r
    <3>5. g[q[i]] = <<PairMeant(texts[i])>> \o Rest(d - 1)
      BY <1>4, <3>2, <3>4
    <3>6. <<PairMeant(texts[i])>> \o Rest(d - 1) = Rest(d)
      BY <1>3 DEF i
    <3>7. d \in 0 .. K
      OBVIOUS
    <3> QED
      BY <3>4, <3>5, <3>6, <3>7 DEF i
  <2> HIDE DEF Good
  <2>3. \A d \in 0 .. K : d \in Good
    BY <2>1, <2>2, UpTo
  <2>4. K \in Good
    BY <2>3
  <2>5. q[K + 1 - K] \in 0 .. end /\ g[q[K + 1 - K]] = Rest(K)
    BY <2>4 DEF Good
  <2>6. K + 1 - K = 1
    OBVIOUS
  <2> QED
    BY <2>5, <2>6
<1>5. from \in 0 .. end
  <2>1. \E g : IsPairs(g, b, end)
    BY <1>1, PairsExist
  <2>2. PICK g : \A o \in 0 .. end : g[o] = PairRow(b, end, g, o)
    BY <2>1, Zenon DEF IsPairs
  <2> QED
    BY <1>4, <2>2
<1>6. end - from \in Nat /\ from + (end - from) = end
  BY <1>5
<1>7. PICK g : /\ \A o \in 0 .. from + (end - from) : g[o] = PairRow(b, from + (end - from), g, o)
               /\ mdns_record_parse_txt(b, from, end - from) = g[from]
  <2> DEFINE length == end - from
  <2>1. length \in Nat /\ from + length <= Len(b)
    BY <1>6
  <2> HIDE DEF length
  <2>2. \E g : /\ \A o \in 0 .. from + length : g[o] = PairRow(b, from + length, g, o)
               /\ mdns_record_parse_txt(b, from, length) = g[from]
    BY <2>1, PairsAt, ZenonT(30)
  <2> QED
    BY <2>2 DEF length
<1>8. \A o \in 0 .. end : g[o] = PairRow(b, end, g, o)
  BY <1>6, <1>7
<1>9. mdns_record_parse_txt(b, from, end - from) = Rest(K)
  BY <1>4, <1>7, <1>8
<1>10. Rest(K) = [i \in 1 .. K |-> PairMeant(texts[i])]
  <2>1. \A x \in 1 .. K : K - K + x = x
    OBVIOUS
  <2> QED
    BY <2>1 DEF Rest
<1> QED
  BY <1>5, <1>9, <1>10

-----------------------------------------------------------------------------
(* Loops with rounds of their own.                                         *)

\* A loop whose rounds stay in S.
RoundsStay(step, S, last) == \A k \in 1 .. last, s \in S : step[<<k, s>>] \in S

\* A loop of which each round has a step of its own.
LEMMA Rounds ==
    ASSUME NEW S, NEW base \in S, NEW last \in Nat, NEW step,
           RoundsStay(step, S, last)
    PROVE  \E f \in [0 .. last -> S] : IsLoop(f, base, step, last)
<1> DEFINE total == [x \in Nat \X S |-> IF x[1] \in 1 .. last THEN step[x] ELSE x[2]]
<1>1. total \in [Nat \X S -> S]
  <2>1. ASSUME NEW x \in Nat \X S
        PROVE  (IF x[1] \in 1 .. last THEN step[x] ELSE x[2]) \in S
    <3>1. x = <<x[1], x[2]>> /\ x[2] \in S
      OBVIOUS
    <3>2. x[1] \in 1 .. last => step[<<x[1], x[2]>>] \in S
      BY <3>1 DEF RoundsStay
    <3> QED
      BY <3>1, <3>2
  <2> QED
    BY <2>1
<1>2. \A k \in 1 .. last, s \in S : total[<<k, s>>] = step[<<k, s>>]
  <2> TAKE k \in 1 .. last, s \in S
  <2> DEFINE x == <<k, s>>
  <2>1. x \in Nat \X S /\ x[1] = k
    OBVIOUS
  <2> HIDE DEF x
  <2>2. total[x] = step[x]
    BY <2>1
  <2> QED
    BY <2>2 DEF x
<1> HIDE DEF total
<1>3. PICK f \in [0 .. last -> S] : IsLoop(f, base, total, last)
  BY <1>1, Loop
<1>4. \A k \in 0 .. last : f[k] = IF k = 0 THEN base ELSE step[<<k, f[k - 1]>>]
  <2> TAKE k \in 0 .. last
  <2>1. f[k] = IF k = 0 THEN base ELSE total[<<k, f[k - 1]>>]
    BY <1>3, Zenon DEF IsLoop
  <2>2. CASE k # 0
    <3>1. k \in 1 .. last /\ f[k - 1] \in S
      BY <1>3, <2>2
    <3> QED
      BY <1>2, <2>1, <2>2, <3>1, Zenon
  <2> QED
    BY <2>1, <2>2, Zenon
<1>5. f = [k \in 0 .. last |-> f[k]]
  BY <1>3
<1>6. f = [k \in 0 .. last |-> IF k = 0 THEN base ELSE step[<<k, f[k - 1]>>]]
  BY <1>4, <1>5
<1> QED
  BY <1>6, Zenon DEF IsLoop

-----------------------------------------------------------------------------
(* A record of texts.                                                      *)

\* The first k texts are written behind the head of their record.
TextsMade(d, hole, Known, from, texts, k) ==
    /\ Ready(d, hole, Known)
    /\ \E q : /\ q[1] = from /\ q[k + 1] = Len(d.bytes)
              /\ \A b : Later(b, d.bytes, hole) => TextsAt(b, q, texts, k)

\* No text is written yet.
LEMMA TextsBegin ==
    ASSUME NEW n, NEW hole, NEW Known, NEW texts, Ready(n, hole, Known)
    PROVE  TextsMade(n, hole, Known, Len(n.bytes), texts, 0)
<1> DEFINE from == Len(n.bytes)
           q == [i \in {1} |-> from]
<1>1. q[1] = from /\ q[0 + 1] = from
  OBVIOUS
<1>2. \A b : TextsAt(b, q, texts, 0)
  BY DEF TextsAt
<1> HIDE DEF q, from
<1> QED
  BY <1>1, <1>2 DEF TextsMade, from

\* A text with its length.
LEMMA CountedText ==
    ASSUME NEW r, NEW Known, TextSendable(r, Known)
    PROVE  LET text == KeyValue(r)
           IN /\ <<Len(text)>> \o text \in Seq(Octet)
              /\ Len(<<Len(text)>> \o text) = Len(text) + 1
              /\ <<Len(text)>> \in Seq(Octet) /\ Len(<<Len(text)>>) = 1 /\ <<Len(text)>>[1] = Len(text)
<1> DEFINE text == KeyValue(r)
           one == <<Len(text)>>
<1>1. text \in Seq(Octet) /\ Len(text) \in Octet /\ Len(text) \in Nat
  BY KeyValueBytes, TextBytes
<1> HIDE DEF text
<1>2. one \in Seq(Octet) /\ Len(one) = 1 /\ one[1] = Len(text)
  BY <1>1
<1> HIDE DEF one
<1>3. one \o text \in Seq(Octet) /\ Len(one \o text) = Len(one) + Len(text)
  BY <1>1, <1>2, Lengths
<1>4. Len(one \o text) = Len(text) + 1
  BY <1>1, <1>2, <1>3
<1> QED
  BY <1>2, <1>3, <1>4 DEF one, text

\* A text only adds bytes.
LEMMA TextAfter ==
    ASSUME NEW m \in Buf, NEW r, NEW Known, TextSendable(r, Known)
    PROVE  After(m, AddText(m, r))
<1> DEFINE text == KeyValue(r)
           enough == Len(text) + 1
           bytes == <<Len(text)>> \o text
<1>1. bytes \in Seq(Octet) /\ enough \in Nat
  BY CountedText, TextBytes
<1>2. AddText(m, r) = PutIfRoom(m, enough, bytes)
  BY DEF AddText
<1> HIDE DEF enough, bytes
<1> QED
  BY <1>1, <1>2, Puts

\* One text more, behind the others.
LEMMA TextGoesOn ==
    ASSUME NEW hole, NEW Known, NEW from, NEW texts, NEW k \in Nat \ {0},
           NEW d, TextsMade(d, hole, Known, from, texts, k - 1), d.ok,
           TextSendable(texts[k], Known), AddText(d, texts[k]).ok
    PROVE  TextsMade(AddText(d, texts[k]), hole, Known, from, texts, k)
<1> DEFINE r == texts[k]
           text == KeyValue(r)
           enough == Len(text) + 1
           one == <<Len(text)>>
           bytes == one \o text
           n == AddText(d, r)
           at == Len(d.bytes)
<1>1. /\ bytes \in Seq(Octet) /\ Len(bytes) = enough /\ enough \in Nat
      /\ text \in Seq(Octet) /\ Len(text) \in Nat
      /\ one \in Seq(Octet) /\ Len(one) = 1 /\ one[1] = Len(text)
  BY CountedText, TextBytes
<1>2. n = PutIfRoom(d, enough, bytes) /\ n.ok
  BY DEF AddText
<1>3. Ready(d, hole, Known)
  BY DEF TextsMade
<1> HIDE DEF r, text, enough, one, n, at
<1>4. /\ Ready(n, hole, Known) /\ n.bytes = d.bytes \o bytes
      /\ n.bytes \in Seq(Octet) /\ Len(n.bytes) = Len(d.bytes) + Len(bytes)
      /\ LaterOf(n.bytes, hole, d.bytes, hole)
  <2> HIDE DEF bytes
  <2>1. /\ PutIfRoom(d, enough, bytes).ok /\ Len(bytes) <= enough
        /\ bytes \in Seq(Octet) /\ enough \in Nat
    BY <1>1, <1>2
  <2>2. LET y == PutIfRoom(d, enough, bytes)
        IN /\ Ready(y, hole, Known) /\ y.ok /\ y.compress = d.compress
           /\ y.bytes = d.bytes \o bytes
           /\ y.bytes \in Seq(Octet) /\ Len(y.bytes) = Len(d.bytes) + Len(bytes)
           /\ LaterOf(y.bytes, hole, d.bytes, hole)
    BY <1>3, <2>1, ReadyPuts, Zenon
  <2> QED
    BY <1>2, <2>2
<1>5. d.bytes \in Seq(Octet) /\ Within(hole, d.bytes) /\ at \in Nat
  BY <1>3 DEF Ready, Buf, at
<1>6. PICK q : /\ q[1] = from /\ q[(k - 1) + 1] = at
               /\ \A b : Later(b, d.bytes, hole) => TextsAt(b, q, texts, k - 1)
  BY Zenon DEF TextsMade, at
<1> DEFINE p == [i \in 1 .. k + 1 |-> IF i = k + 1 THEN Len(n.bytes) ELSE q[i]]
<1>7. /\ p[1] = from /\ p[k + 1] = Len(n.bytes) /\ p[k] = at
      /\ \A i \in 1 .. k - 1 : p[i] = q[i] /\ p[i + 1] = q[i + 1]
  <2>1. 1 # k + 1 /\ k # k + 1 /\ 1 \in 1 .. k + 1 /\ k \in 1 .. k + 1 /\ k + 1 \in 1 .. k + 1 /\ k - 1 + 1 = k
    OBVIOUS
  <2>2. p[1] = from /\ p[k + 1] = Len(n.bytes)
    BY <1>6, <2>1
  <2>3. p[k] = at
    BY <1>6, <2>1
  <2>4. \A i \in 1 .. k - 1 : p[i] = q[i] /\ p[i + 1] = q[i + 1]
    OBVIOUS
  <2> QED
    BY <2>2, <2>3, <2>4
<1> HIDE DEF p
<1>8. ASSUME NEW b, Later(b, n.bytes, hole)
      PROVE  TextsAt(b, p, texts, k)
  <2>1. TextsAt(b, q, texts, k - 1)
    BY <1>4, <1>6, <1>8, Zenon DEF LaterOf
  <2>2. Has(b, at, bytes)
    <3>1. Later(b, d.bytes \o bytes, hole)
      BY <1>4, <1>8
    <3> HIDE DEF bytes
    <3> QED
      BY <1>1, <1>5, <3>1, LaterReads DEF at
  <2>3. Has(b, at, one) /\ Has(b, at + Len(one), text)
    BY <1>1, <1>5, <2>2, HasParts
  <2>4. b[at + 1] = Len(text) /\ Has(b, at + 1, text)
    BY <1>1, <2>3 DEF Has
  <2>5. Len(n.bytes) = at + 1 + Len(text)
    <3>1. Len(n.bytes) = at + enough /\ at \in Nat
      BY <1>1, <1>4, <1>5, Zenon DEF at
    <3> HIDE DEF bytes
    <3> QED
      BY <1>1, <3>1 DEF enough
  <2>6. TextAt(b, at, Len(n.bytes), text)
    BY <1>5, <2>4, <2>5 DEF TextAt
  <2>7. ASSUME NEW i \in 1 .. k
        PROVE  TextAt(b, p[i], p[i + 1], KeyValue(texts[i]))
    <3>1. CASE i = k
      BY <1>7, <2>6, <3>1 DEF text, r
    <3>2. CASE i # k
      <4>1. i \in 1 .. k - 1
        BY <3>2
      <4>2. TextAt(b, q[i], q[i + 1], KeyValue(texts[i]))
        BY <2>1, <4>1, Zenon DEF TextsAt
      <4> QED
        BY <1>7, <4>1, <4>2, Zenon
    <3> QED
      BY <3>1, <3>2
  <2> QED
    BY <2>7, Zenon DEF TextsAt
<1> QED
  BY <1>4, <1>7, <1>8, Zenon DEF TextsMade, n, r

IsTexts(f, m, texts) ==
    f = [k \in 0 .. Len(texts) |-> IF k = 0 THEN m ELSE AddText(f[k - 1], texts[k])]

\* The loop over the texts of a section.
LEMMA TextRounds ==
    ASSUME NEW m \in Buf, NEW Known, NEW texts, Len(texts) \in Nat,
           \A k \in 1 .. Len(texts) : TextSendable(texts[k], Known)
    PROVE  \E f : /\ f[0] = m
                  /\ \A k \in 1 .. Len(texts) : f[k] = AddText(f[k - 1], texts[k])
                  /\ AddTexts(m, texts) = FillLength(f[Len(texts)], Len(m.bytes))
<1> DEFINE last == Len(texts)
           step == [x \in (1 .. last) \X Buf |-> AddText(x[2], texts[x[1]])]
<1>1. last \in Nat
  OBVIOUS
<1>2. \A k \in 1 .. last, s \in Buf : step[<<k, s>>] = AddText(s, texts[k])
  <2> TAKE k \in 1 .. last, s \in Buf
  <2> DEFINE x == <<k, s>>
  <2>1. x \in (1 .. last) \X Buf /\ x[1] = k /\ x[2] = s
    OBVIOUS
  <2> HIDE DEF x
  <2>2. step[x] = AddText(s, texts[k])
    BY <2>1
  <2> QED
    BY <2>2 DEF x
<1> HIDE DEF step
<1>3. RoundsStay(step, Buf, last)
  BY <1>2, TextAfter DEF After, RoundsStay
<1> HIDE DEF last
<1>4. PICK g \in [0 .. last -> Buf] : IsLoop(g, m, step, last)
  BY <1>1, <1>3, Rounds
<1>5. \A k \in 0 .. last :
         (IF k = 0 THEN m ELSE step[<<k, g[k - 1]>>]) = IF k = 0 THEN m ELSE AddText(g[k - 1], texts[k])
  <2> TAKE k \in 0 .. last
  <2>2. CASE k # 0
    <3>1. k \in 1 .. last /\ g[k - 1] \in Buf
      BY <1>1, <1>4, <2>2
    <3> QED
      BY <1>2, <2>2, <3>1, Zenon
  <2> QED
    BY <2>2, Zenon
<1>6. IsTexts(g, m, texts)
  BY <1>4, <1>5, Zenon DEF IsTexts, IsLoop, last
<1> DEFINE f == CHOOSE h : IsTexts(h, m, texts)
<1>7. IsTexts(f, m, texts)
  BY <1>6, Zenon
<1>8. AddTexts(m, texts) = FillLength(f[Len(texts)], Len(m.bytes))
  BY DEF AddTexts, IsTexts
<1> HIDE DEF f
<1>9. /\ 0 \in 0 .. Len(texts)
      /\ \A k \in 1 .. Len(texts) : k \in 0 .. Len(texts) /\ k # 0
  BY <1>1 DEF last
<1>10. f[0] = m
  BY <1>7, <1>9, Zenon DEF IsTexts
<1>11. \A k \in 1 .. Len(texts) : f[k] = AddText(f[k - 1], texts[k])
  BY <1>7, <1>9, Zenon DEF IsTexts
<1> QED
  BY <1>8, <1>10, <1>11, Zenon

\* What is written behind the head of a record of texts, before its length is.
LEMMA TextsWritten ==
    ASSUME NEW m \in Buf, NEW Known, NEW texts, Len(texts) \in Nat,
           \A k \in 1 .. Len(texts) : TextSendable(texts[k], Known), NEW hole
    PROVE  \E d : /\ After(m, d) /\ AddTexts(m, texts) = FillLength(d, Len(m.bytes))
                  /\ Ready(m, hole, Known) /\ d.ok =>
                         TextsMade(d, hole, Known, Len(m.bytes), texts, Len(texts))
<1>1. PICK f : /\ f[0] = m
               /\ \A k \in 1 .. Len(texts) : f[k] = AddText(f[k - 1], texts[k])
               /\ AddTexts(m, texts) = FillLength(f[Len(texts)], Len(m.bytes))
  BY TextRounds, Zenon
<1> DEFINE last == Len(texts)
           Made(k) == Ready(m, hole, Known) /\ f[k].ok =>
                         TextsMade(f[k], hole, Known, Len(m.bytes), texts, k)
           Good == {k \in 0 .. last : After(m, f[k]) /\ Made(k)}
<1>2. last \in Nat
  OBVIOUS
<1>3. 0 \in Good
  <2>1. After(m, f[0])
    BY <1>1, AfterSelf
  <2>2. Made(0)
    BY <1>1, TextsBegin
  <2> HIDE DEF Made
  <2> QED
    BY <1>2, <2>1, <2>2
<1>4. ASSUME NEW k \in 1 .. last, k - 1 \in Good
      PROVE  k \in Good
  <2>1. f[k] = AddText(f[k - 1], texts[k]) /\ TextSendable(texts[k], Known)
    BY <1>1
  <2>2. After(m, f[k - 1]) /\ Made(k - 1)
    BY <1>4
  <2>3. f[k - 1] \in Buf
    BY <2>2 DEF After
  <2>4. After(f[k - 1], f[k])
    BY <2>1, <2>3, TextAfter
  <2>5. After(m, f[k])
    BY <2>2, <2>4, AfterTrans
  <2>6. ASSUME Ready(m, hole, Known), f[k].ok
        PROVE  TextsMade(f[k], hole, Known, Len(m.bytes), texts, k)
    <3>1. f[k - 1].ok
      BY <2>4, <2>6 DEF After
    <3>2. TextsMade(f[k - 1], hole, Known, Len(m.bytes), texts, k - 1)
      BY <2>2, <2>6, <3>1
    <3>3. AddText(f[k - 1], texts[k]).ok /\ k \in Nat \ {0}
      BY <1>2, <2>1, <2>6
    <3>4. TextsMade(AddText(f[k - 1], texts[k]), hole, Known, Len(m.bytes), texts, k)
      BY <2>1, <3>1, <3>2, <3>3, TextGoesOn
    <3> QED
      BY <2>1, <3>4
  <2>7. k \in 0 .. last
    OBVIOUS
  <2> QED
    BY <2>5, <2>6, <2>7
<1> HIDE DEF Good
<1>5. \A k \in 0 .. last : k \in Good
  BY <1>2, <1>3, <1>4, UpTo
<1>6. last \in Good
  BY <1>2, <1>5
<1>7. After(m, f[last]) /\ Made(last)
  BY <1>6 DEF Good
<1> QED
  BY <1>1, <1>7, Zenon DEF last, Made

\* A record of texts: its head is that of the first one.
LEMMA TextsAfter ==
    ASSUME NEW Known, Alike(Known), NEW texts, Len(texts) \in Nat, Len(texts) >= 1,
           \A k \in 1 .. Len(texts) : TextSendable(texts[k], Known), NEW m \in Buf
    PROVE  After(m, AddTexts(mdns_answer_add_record_header(m, texts[1]), texts))
<1> DEFINE n == mdns_answer_add_record_header(m, texts[1])
<1>1. HasHead(texts[1], Known)
  BY DEF TextSendable
<1>2. After(m, n) /\ (n.ok => Len(m.bytes) + 10 <= Len(n.bytes))
  BY <1>1, HeaderAfter
<1> HIDE DEF n
<1>3. PICK d : After(n, d) /\ AddTexts(n, texts) = FillLength(d, Len(n.bytes))
  <2>1. n \in Buf
    BY <1>2 DEF After
  <2> QED
    BY <2>1, TextsWritten
<1>4. After(m, FillLength(d, Len(n.bytes)))
  BY <1>2, <1>3, FillAfter
<1> QED
  BY <1>3, <1>4 DEF n

PairsMeant(texts) == [pairs |-> [k \in 1 .. Len(texts) |-> PairMeant(texts[k])]]

\* The texts of a section in one record, read as they were meant.
LEMMA TextRecordWritten ==
    ASSUME NEW Known, Alike(Known), NEW texts, Len(texts) \in Nat, Len(texts) >= 1,
           \A k \in 1 .. Len(texts) : TextSendable(texts[k], Known), NEW m, Ready(m, {}, Known),
           m.ok, m.compress, AddTexts(mdns_answer_add_record_header(m, texts[1]), texts).ok
    PROVE  RecordMade(m, AddTexts(mdns_answer_add_record_header(m, texts[1]), texts),
                      texts[1], PairsMeant(texts), Known)
<1> DEFINE r == texts[1]
           n == mdns_answer_add_record_header(m, r)
           from == Len(n.bytes)
<1>1. HasHead(r, Known) /\ r.type = TypeTXT /\ m \in Buf
  BY DEF TextSendable, Ready
<1>2. After(m, n)
  BY <1>1, HeaderAfter
<1> HIDE DEF r
<1> HIDE DEF n
<1>3. PICK d : /\ After(n, d) /\ AddTexts(n, texts) = FillLength(d, Len(n.bytes))
               /\ Ready(n, HoleAt(from), Known) /\ d.ok =>
                         TextsMade(d, HoleAt(from), Known, Len(n.bytes), texts, Len(texts))
  <2>1. n \in Buf
    BY <1>2 DEF After
  <2> HIDE DEF from
  <2> QED
    BY <2>1, TextsWritten
<1>4. d.ok
  BY <1>3 DEF FillLength, n, r
<1>5. n.ok
  BY <1>3, <1>4 DEF After
<1>6. Ready(n, HoleAt(from), Known)
  BY <1>1, <1>5, HeadMade DEF n
<1>7. TextsMade(d, HoleAt(from), Known, from, texts, Len(texts))
  BY <1>3, <1>4, <1>6
<1>8. from \in Nat /\ Ready(d, HoleAt(from), Known) /\ Len(d.bytes) \in Nat
  BY <1>2, <1>7 DEF After, Buf, TextsMade, Ready
<1> DEFINE K == Len(texts)
<1>9. PICK q : /\ q[1] = from /\ q[K + 1] = Len(d.bytes)
               /\ \A b : Later(b, d.bytes, HoleAt(from)) => TextsAt(b, q, texts, K)
  BY <1>7, Zenon DEF TextsMade
<1>10. ASSUME NEW b, Later(b, d.bytes, HoleAt(from))
       PROVE  ParseData(b, r.type, from, Len(d.bytes) - from) = PairsMeant(texts)
  <2>1. b \in Seq(Octet) /\ Len(d.bytes) <= Len(b)
    BY <1>10 DEF Later
  <2>2. TextsAt(b, q, texts, K)
    BY <1>9, <1>10
  <2> DEFINE end == Len(d.bytes)
  <2>3. mdns_record_parse_txt(b, from, end - from) = [i \in 1 .. K |-> PairMeant(texts[i])]
    <3>1. K \in Nat /\ \A i \in 1 .. K : TextSendable(texts[i], Known)
      OBVIOUS
    <3>2. end \in Nat /\ end <= Len(b) /\ q[1] = from /\ q[K + 1] = end
      BY <1>8, <1>9, <2>1
    <3> HIDE DEF end, K, from
    <3>3. TextsLie(b, q, texts, K, from, end, Known)
      BY <1>8, <2>1, <2>2, <3>1, <3>2, Zenon DEF TextsLie
    <3> QED
      BY <3>3, TextsRead
  <2>4. ParseData(b, r.type, from, end - from)
          = [pairs |-> mdns_record_parse_txt(b, from, end - from)]
    BY <1>1, ParseTexts
  <2> QED
    BY <2>3, <2>4 DEF PairsMeant
<1>11. RecordMade(m, FillLength(d, from), r, PairsMeant(texts), Known)
  <2>1. n = mdns_answer_add_record_header(m, r)
    BY DEF n
  <2> QED
    BY <1>1, <1>3, <1>4, <1>5, <1>8, <1>10, <2>1, RecordCloses
<1> QED
  BY <1>3, <1>11 DEF n, r

-----------------------------------------------------------------------------
(* The texts of a section and its other records.                           *)

Keep(r, text, kept) == IF IsText(r) = text THEN Append(kept, r) ELSE kept

IsKept(f, records, text) ==
    f = [k \in 0 .. Len(records) |-> IF k = 0 THEN <<>> ELSE Keep(records[k], text, f[k - 1])]

\* One round of the selection keeps records.
LEMMA KeepType ==
    ASSUME NEW S, NEW kept \in Seq(S), NEW r \in S, NEW text
    PROVE  Keep(r, text, kept) \in Seq(S)
BY DEF Keep

\* The loop that selects the texts of a section, or the others.
LEMMA KeepRounds ==
    ASSUME NEW S, NEW records \in Seq(S), NEW text
    PROVE  \E f : /\ f[0] = <<>>
                  /\ \A k \in 1 .. Len(records) : f[k] = Keep(records[k], text, f[k - 1])
                  /\ Chosen(records, text) = f[Len(records)]
<1> DEFINE last == Len(records)
           T == Seq(S)
           step == [x \in (1 .. last) \X T |-> Keep(records[x[1]], text, x[2])]
<1>1. last \in Nat /\ <<>> \in T /\ \A k \in 1 .. last : records[k] \in S
  OBVIOUS
<1> HIDE DEF last
<1>2. \A k \in 1 .. last, s \in T : step[<<k, s>>] = Keep(records[k], text, s)
  <2> TAKE k \in 1 .. last, s \in T
  <2> DEFINE x == <<k, s>>
  <2>1. x \in (1 .. last) \X T /\ x[1] = k /\ x[2] = s
    OBVIOUS
  <2> HIDE DEF x, T
  <2>2. step[x] = Keep(records[k], text, s)
    BY <2>1
  <2> QED
    BY <2>2 DEF x
<1> HIDE DEF step
<1>3. RoundsStay(step, T, last)
  <2> SUFFICES ASSUME NEW k \in 1 .. last, NEW s \in T
               PROVE  step[<<k, s>>] \in T
    BY Zenon DEF RoundsStay
  <2>1. Keep(records[k], text, s) \in T
    BY <1>1, KeepType
  <2> QED
    BY <1>2, <2>1, Zenon
<1> HIDE DEF T
<1>4. PICK g \in [0 .. last -> T] : IsLoop(g, <<>>, step, last)
  BY <1>1, <1>3, Rounds
<1>5. \A k \in 0 .. last : (IF k = 0 THEN <<>> ELSE step[<<k, g[k - 1]>>])
                           = IF k = 0 THEN <<>> ELSE Keep(records[k], text, g[k - 1])
  <2> TAKE k \in 0 .. last
  <2>2. CASE k # 0
    <3>1. k \in 1 .. last /\ g[k - 1] \in T
      BY <1>1, <1>4, <2>2
    <3> QED
      BY <1>2, <2>2, <3>1, Zenon
  <2> QED
    BY <2>2, Zenon
<1>6. IsKept(g, records, text)
  BY <1>4, <1>5, Zenon DEF IsKept, IsLoop, last
<1> DEFINE f == CHOOSE h : IsKept(h, records, text)
<1>7. IsKept(f, records, text)
  BY <1>6, Zenon
<1>8. Chosen(records, text) = f[Len(records)]
  BY DEF Chosen, IsKept, Keep
<1> HIDE DEF f
<1>9. /\ 0 \in 0 .. Len(records)
      /\ \A k \in 1 .. Len(records) : k \in 0 .. Len(records) /\ k # 0
  BY <1>1 DEF last
<1>10. f[0] = <<>>
  BY <1>7, <1>9, Zenon DEF IsKept
<1>11. \A k \in 1 .. Len(records) : f[k] = Keep(records[k], text, f[k - 1])
  BY <1>7, <1>9, Zenon DEF IsKept
<1> QED
  BY <1>8, <1>10, <1>11, Zenon

\* How many of the first k records are kept: c[k].
CountsFrom(c, records, text, kept) ==
    /\ c[0] = 0 /\ c[Len(records)] = Len(kept)
    /\ \A k \in 0 .. Len(records) : c[k] \in 0 .. Len(kept)
    /\ \A k \in 1 .. Len(records) :
          IF IsText(records[k]) = text THEN c[k] = c[k - 1] + 1 /\ kept[c[k]] = records[k]
          ELSE c[k] = c[k - 1]

\* One of the sequences is a beginning of the other.
Begins(s, t) == Len(s) <= Len(t) /\ \A i \in 1 .. Len(s) : t[i] = s[i]

\* One round of the selection: the record is behind the others, or left out.
LEMMA KeepBegins ==
    ASSUME NEW S, NEW kept \in Seq(S), NEW r \in S, NEW text
    PROVE  /\ Begins(kept, Keep(r, text, kept)) /\ Len(kept) \in Nat
           /\ Len(Keep(r, text, kept)) = IF IsText(r) = text THEN Len(kept) + 1 ELSE Len(kept)
           /\ IsText(r) = text => Keep(r, text, kept)[Len(kept) + 1] = r
BY DEF Keep, Begins

\* The beginning of a beginning is a beginning.
LEMMA BeginsTrans ==
    ASSUME NEW S, NEW s \in Seq(S), NEW t \in Seq(S), NEW u \in Seq(S), Begins(s, t), Begins(t, u)
    PROVE  Begins(s, u)
BY DEF Begins

\* The selection and, for each record, the number of those selected up to it.
LEMMA ChosenCounts ==
    ASSUME NEW S, NEW records \in Seq(S), NEW text
    PROVE  /\ Chosen(records, text) \in Seq(S)
           /\ \E c : CountsFrom(c, records, text, Chosen(records, text))
<1>1. PICK f : /\ f[0] = <<>>
               /\ \A k \in 1 .. Len(records) : f[k] = Keep(records[k], text, f[k - 1])
               /\ Chosen(records, text) = f[Len(records)]
  BY KeepRounds, Zenon
<1> DEFINE last == Len(records)
           Good == {k \in 0 .. last : f[k] \in Seq(S) /\ \A j \in 0 .. k : f[j] \in Seq(S) /\ Begins(f[j], f[k])}
<1>2. last \in Nat /\ \A k \in 1 .. last : records[k] \in S
  OBVIOUS
<1> HIDE DEF last
<1>3. 0 \in Good
  <2>1. f[0] \in Seq(S) /\ Begins(f[0], f[0])
    BY <1>1 DEF Begins
  <2> QED
    BY <1>2, <2>1
<1>4. ASSUME NEW k \in 1 .. last, k - 1 \in Good
      PROVE  k \in Good
  <2>1. f[k] = Keep(records[k], text, f[k - 1]) /\ records[k] \in S
    BY <1>1, <1>2 DEF last
  <2>2. f[k - 1] \in Seq(S) /\ \A j \in 0 .. k - 1 : f[j] \in Seq(S) /\ Begins(f[j], f[k - 1])
    BY <1>4
  <2>3. f[k] \in Seq(S) /\ Begins(f[k - 1], f[k])
    BY <2>1, <2>2, KeepType, KeepBegins
  <2>4. ASSUME NEW j \in 0 .. k
        PROVE  f[j] \in Seq(S) /\ Begins(f[j], f[k])
    <3>1. CASE j = k
      BY <2>3, <3>1 DEF Begins
    <3>2. CASE j # k
      <4>1. j \in 0 .. k - 1
        BY <3>2
      <4> QED
        BY <2>2, <2>3, <4>1, BeginsTrans
    <3> QED
      BY <3>1, <3>2
  <2> QED
    BY <1>2, <2>3, <2>4
<1> HIDE DEF Good
<1>5. \A k \in 0 .. last : k \in Good
  BY <1>2, <1>3, <1>4, UpTo
<1>6. last \in Good
  BY <1>2, <1>5
<1> DEFINE kept == f[last]
           c == [k \in 0 .. last |-> Len(f[k])]
<1>7. /\ kept \in Seq(S)
      /\ \A k \in 0 .. last : f[k] \in Seq(S) /\ Begins(f[k], kept)
  BY <1>6 DEF Good
<1>8. \A k \in 0 .. last : c[k] = Len(f[k]) /\ c[k] \in 0 .. Len(kept)
  <2> HIDE DEF kept
  <2> QED
    BY <1>7 DEF Begins
<1>9. c[0] = 0 /\ c[last] = Len(kept)
  BY <1>1, <1>2
<1>10. ASSUME NEW k \in 1 .. last
       PROVE  IF IsText(records[k]) = text THEN c[k] = c[k - 1] + 1 /\ kept[c[k]] = records[k]
              ELSE c[k] = c[k - 1]
  <2>1. k \in 0 .. last /\ k - 1 \in 0 .. last
    BY <1>2
  <2>2. f[k] = Keep(records[k], text, f[k - 1]) /\ records[k] \in S
    BY <1>1, <1>2 DEF last
  <2>3. f[k - 1] \in Seq(S) /\ f[k] \in Seq(S) /\ Begins(f[k], kept)
    BY <1>7, <2>1
  <2>4. c[k] = Len(f[k]) /\ c[k - 1] = Len(f[k - 1])
    BY <1>8, <2>1
  <2> HIDE DEF kept, c
  <2>5. /\ Len(f[k - 1]) \in Nat
        /\ Len(f[k]) = IF IsText(records[k]) = text THEN Len(f[k - 1]) + 1 ELSE Len(f[k - 1])
        /\ IsText(records[k]) = text => f[k][Len(f[k - 1]) + 1] = records[k]
    BY <2>2, <2>3, KeepBegins
  <2>6. CASE IsText(records[k]) = text
    <3>1. Len(f[k]) = Len(f[k - 1]) + 1 /\ f[k][Len(f[k])] = records[k]
      BY <2>5, <2>6
    <3>2. Len(f[k]) \in 1 .. Len(f[k])
      BY <2>5, <3>1
    <3>3. kept[Len(f[k])] = f[k][Len(f[k])]
      BY <2>3, <3>2 DEF Begins
    <3> QED
      BY <2>4, <2>6, <3>1, <3>3
  <2>7. CASE IsText(records[k]) # text
    BY <2>4, <2>5, <2>7
  <2> QED
    BY <2>6, <2>7
<1> HIDE DEF kept, c
<1>11. CountsFrom(c, records, text, kept)
  BY <1>8, <1>9, <1>10, Zenon DEF CountsFrom, last
<1>12. Chosen(records, text) = kept
  BY <1>1 DEF kept, last
<1> QED
  BY <1>7, <1>11, <1>12, Zenon

\* What is kept is what was chosen.
LEMMA ChosenType ==
    ASSUME NEW S, NEW records \in Seq(S), NEW text, NEW T,
           \A k \in 1 .. Len(records) : IsText(records[k]) = text => records[k] \in T
    PROVE  Chosen(records, text) \in Seq(T)
<1>1. PICK f : /\ f[0] = <<>>
               /\ \A k \in 1 .. Len(records) : f[k] = Keep(records[k], text, f[k - 1])
               /\ Chosen(records, text) = f[Len(records)]
  BY KeepRounds, Zenon
<1> DEFINE last == Len(records)
           Good == {k \in 0 .. last : f[k] \in Seq(T)}
<1>2. last \in Nat /\ 0 \in 0 .. last
  OBVIOUS
<1>3. 0 \in Good
  <2>1. f[0] \in Seq(T)
    BY <1>1
  <2> QED
    BY <1>2, <2>1
<1>4. ASSUME NEW k \in 1 .. last, k - 1 \in Good
      PROVE  k \in Good
  <2>1. f[k] = Keep(records[k], text, f[k - 1]) /\ f[k - 1] \in Seq(T)
    BY <1>1, <1>4
  <2>2. f[k] \in Seq(T)
    BY <2>1 DEF Keep
  <2> QED
    BY <2>2
<1> HIDE DEF Good
<1>5. \A k \in 0 .. last : k \in Good
  BY <1>2, <1>3, <1>4, UpTo
<1>6. last \in Good
  BY <1>2, <1>5
<1> QED
  BY <1>1, <1>6 DEF Good

\* Every record is a text or another one.
LEMMA ChosenParts ==
    ASSUME NEW S, NEW records \in Seq(S)
    PROVE  Len(Chosen(records, TRUE)) + Len(Chosen(records, FALSE)) = Len(records)
<1> DEFINE texts == Chosen(records, TRUE)
           others == Chosen(records, FALSE)
           last == Len(records)
<1>1. texts \in Seq(S) /\ others \in Seq(S)
  BY ChosenCounts
<1>2. PICK c : CountsFrom(c, records, TRUE, texts)
  BY ChosenCounts
<1>3. PICK e : CountsFrom(e, records, FALSE, others)
  BY ChosenCounts
<1> DEFINE Good == {k \in 0 .. last : c[k] + e[k] = k}
<1>4. last \in Nat
  OBVIOUS
<1> HIDE DEF texts, others
<1>5. 0 \in Good
  BY <1>2, <1>3, <1>4 DEF CountsFrom
<1>6. ASSUME NEW k \in 1 .. last, k - 1 \in Good
      PROVE  k \in Good
  <2>1. k - 1 \in 0 .. last /\ k \in 0 .. last
    BY <1>4
  <2>2. c[k - 1] \in Nat /\ e[k - 1] \in Nat
    BY <1>1, <1>2, <1>3, <2>1 DEF CountsFrom
  <2>3. IsText(records[k]) \in BOOLEAN
    BY DEF IsText
  <2>4. /\ IsText(records[k]) => c[k] = c[k - 1] + 1 /\ e[k] = e[k - 1]
        /\ ~IsText(records[k]) => c[k] = c[k - 1] /\ e[k] = e[k - 1] + 1
    BY <1>2, <1>3, <2>3 DEF CountsFrom
  <2>5. c[k - 1] + e[k - 1] = k - 1
    BY <1>6
  <2>6. c[k] + e[k] = k
    BY <2>2, <2>4, <2>5
  <2> QED
    BY <2>1, <2>6
<1> HIDE DEF Good
<1>7. \A k \in 0 .. last : k \in Good
  BY <1>4, <1>5, <1>6, UpTo
<1>8. last \in Good
  BY <1>4, <1>7
<1>9. c[last] + e[last] = last
  BY <1>8 DEF Good
<1> QED
  BY <1>2, <1>3, <1>9 DEF CountsFrom, texts, others

-----------------------------------------------------------------------------
(* A section of records.                                                   *)

AnyRecord(r, Known) == Sendable(r, Known) \/ TextSendable(r, Known)

\* A record is what its type says.
LEMMA WhichRecord ==
    ASSUME NEW r, NEW Known, AnyRecord(r, Known)
    PROVE  /\ IsText(r) => TextSendable(r, Known)
           /\ ~IsText(r) => Sendable(r, Known)
BY DEF AnyRecord, TextSendable, Sendable, IsText, TypePTR, TypeSRV, TypeA, TypeAAAA, TypeTXT

\* A record of any type only adds bytes.
LEMMA AnyAfter ==
    ASSUME NEW Known, Alike(Known), NEW r, AnyRecord(r, Known), NEW m \in Buf
    PROVE  After(m, mdns_answer_add_record(m, r))
<1>1. CASE IsText(r)
  <2>1. mdns_answer_add_record(m, r) = m
    BY <1>1 DEF mdns_answer_add_record
  <2> QED
    BY <2>1, AfterSelf
<1>2. CASE ~IsText(r)
  BY <1>2, WhichRecord, RecordAfter
<1> QED
  BY <1>1, <1>2

IsRecords(records, S, Known) ==
    records \in Seq(S) /\ \A k \in 1 .. Len(records) : AnyRecord(records[k], Known)

IsSection(f, m, records) ==
    f = [k \in 0 .. Len(records) |->
            IF k = 0 THEN m ELSE mdns_answer_add_record(f[k - 1], records[k])]

SectionRun(f, m, records) ==
    /\ f[0] = m
    /\ \A k \in 1 .. Len(records) : f[k] = mdns_answer_add_record(f[k - 1], records[k])
    /\ AddSection(m, records) = mdns_answer_add_txt_record(f[Len(records)], records)

\* The loop over the records of a section.
LEMMA SectionRounds ==
    ASSUME NEW Known, Alike(Known), NEW m \in Buf, NEW S, NEW records, IsRecords(records, S, Known)
    PROVE  \E f : SectionRun(f, m, records)
<1>0. records \in Seq(S) /\ \A k \in 1 .. Len(records) : AnyRecord(records[k], Known)
  BY DEF IsRecords
<1> USE <1>0
<1> DEFINE last == Len(records)
           step == [x \in (1 .. last) \X Buf |-> mdns_answer_add_record(x[2], records[x[1]])]
<1>1. last \in Nat
  OBVIOUS
<1>2. \A k \in 1 .. last, s \in Buf : step[<<k, s>>] = mdns_answer_add_record(s, records[k])
  <2> TAKE k \in 1 .. last, s \in Buf
  <2> DEFINE x == <<k, s>>
  <2>1. x \in (1 .. last) \X Buf /\ x[1] = k /\ x[2] = s
    OBVIOUS
  <2> HIDE DEF x
  <2>2. step[x] = mdns_answer_add_record(s, records[k])
    BY <2>1
  <2> QED
    BY <2>2 DEF x
<1> HIDE DEF step
<1>3. RoundsStay(step, Buf, last)
  <2> SUFFICES ASSUME NEW k \in 1 .. last, NEW s \in Buf
               PROVE  step[<<k, s>>] \in Buf
    BY Zenon DEF RoundsStay
  <2>1. mdns_answer_add_record(s, records[k]) \in Buf
    BY AnyAfter DEF After
  <2> QED
    BY <1>2, <2>1, Zenon
<1> HIDE DEF last
<1>4. PICK g \in [0 .. last -> Buf] : IsLoop(g, m, step, last)
  BY <1>1, <1>3, Rounds
<1>5. \A k \in 0 .. last : (IF k = 0 THEN m ELSE step[<<k, g[k - 1]>>])
                           = IF k = 0 THEN m ELSE mdns_answer_add_record(g[k - 1], records[k])
  <2> TAKE k \in 0 .. last
  <2>2. CASE k # 0
    <3>1. k \in 1 .. last /\ g[k - 1] \in Buf
      BY <1>1, <1>4, <2>2
    <3> QED
      BY <1>2, <2>2, <3>1, Zenon
  <2> QED
    BY <2>2, Zenon
<1>6. IsSection(g, m, records)
  BY <1>4, <1>5, Zenon DEF IsSection, IsLoop, last
<1> DEFINE f == CHOOSE h : IsSection(h, m, records)
<1>7. IsSection(f, m, records)
  BY <1>6, Zenon
<1>8. AddSection(m, records) = mdns_answer_add_txt_record(f[Len(records)], records)
  BY DEF AddSection, IsSection
<1> HIDE DEF f
<1>9. /\ 0 \in 0 .. Len(records)
      /\ \A k \in 1 .. Len(records) : k \in 0 .. Len(records) /\ k # 0
  BY <1>1 DEF last
<1>10. f[0] = m
  BY <1>7, <1>9, Zenon DEF IsSection
<1>11. \A k \in 1 .. Len(records) : f[k] = mdns_answer_add_record(f[k - 1], records[k])
  BY <1>7, <1>9, Zenon DEF IsSection
<1> QED
  BY <1>8, <1>10, <1>11, Zenon DEF SectionRun

\* The records of a section lie one behind the other.
ItemsAt(b, entry, p, items, k) == \A i \in 1 .. k : RecordAt(b, entry, p[i], p[i + 1], items[i])

SectionMade(n, entry, start, items, k, Known) ==
    /\ Ready(n, {}, Known) /\ n.compress /\ start + k <= Len(n.bytes)
    /\ \E p : /\ p[1] = start /\ p[k + 1] = Len(n.bytes)
              /\ \A b : Later(b, n.bytes, {}) => ItemsAt(b, entry, p, items, k)

\* No record of a section is written yet.
LEMMA SectionBegins ==
    ASSUME NEW m, NEW Known, Ready(m, {}, Known), m.compress, NEW entry, NEW items
    PROVE  SectionMade(m, entry, Len(m.bytes), items, 0, Known)
<1> DEFINE start == Len(m.bytes)
           p == [i \in {1} |-> start]
<1>1. p[1] = start /\ p[0 + 1] = start
  OBVIOUS
<1>2. \A b : ItemsAt(b, entry, p, items, 0)
  BY DEF ItemsAt
<1>3. start + 0 <= start
  BY DEF Ready, Buf
<1> HIDE DEF p
<1> QED
  BY <1>1, <1>2, <1>3, Zenon DEF SectionMade

\* One more record.
LEMMA SectionGoesOn ==
    ASSUME NEW m, NEW n, NEW Known, NEW entry, NEW start \in Nat, NEW items, NEW k \in Nat \ {0},
           SectionMade(m, entry, start, items, k - 1, Known), After(m, n),
           NEW r, NEW data, RecordMade(m, n, r, data, Known), items[k] = Meant(entry, r, data)
    PROVE  SectionMade(n, entry, start, items, k, Known)
<1> DEFINE at == Len(m.bytes)
           end == Len(n.bytes)
<1>1. /\ Ready(n, {}, Known) /\ n.ok /\ n.compress /\ at + 1 <= end
      /\ \A b : Later(b, n.bytes, {}) => RecordAt(b, entry, at, end, items[k])
  BY DEF RecordMade, SectionMade
<1>2. /\ Ready(m, {}, Known) /\ start + (k - 1) <= at
      /\ m.bytes \in Seq(Octet) /\ n.bytes \in Seq(Octet)
      /\ LaterOf(n.bytes, {}, m.bytes, {})
  <2>1. Ready(m, {}, Known) /\ start + (k - 1) <= at /\ m \in Buf /\ n \in Buf
    BY <1>1 DEF SectionMade, Ready
  <2>2. LaterOf(n.bytes, {}, m.bytes, {})
    BY <1>1, <2>1, LaterAfter
  <2> QED
    BY <2>1, <2>2 DEF Buf
<1>3. at \in Nat /\ end \in Nat
  BY <1>2
<1> HIDE DEF at, end
<1>4. PICK q : /\ q[1] = start /\ q[(k - 1) + 1] = at
               /\ \A b : Later(b, m.bytes, {}) => ItemsAt(b, entry, q, items, k - 1)
  BY Zenon DEF SectionMade, at
<1> DEFINE p == [i \in 1 .. k + 1 |-> IF i = k + 1 THEN end ELSE q[i]]
<1>5. /\ p[1] = start /\ p[k + 1] = end /\ p[k] = at
      /\ \A i \in 1 .. k - 1 : p[i] = q[i] /\ p[i + 1] = q[i + 1]
  <2>1. 1 # k + 1 /\ k # k + 1 /\ 1 \in 1 .. k + 1 /\ k \in 1 .. k + 1 /\ k + 1 \in 1 .. k + 1 /\ k - 1 + 1 = k
    OBVIOUS
  <2>2. p[1] = start /\ p[k + 1] = end
    BY <1>4, <2>1
  <2>3. p[k] = at
    BY <1>4, <2>1
  <2>4. \A i \in 1 .. k - 1 : p[i] = q[i] /\ p[i + 1] = q[i + 1]
    OBVIOUS
  <2> QED
    BY <2>2, <2>3, <2>4
<1> HIDE DEF p
<1>6. ASSUME NEW b, Later(b, n.bytes, {})
      PROVE  ItemsAt(b, entry, p, items, k)
  <2>1. ItemsAt(b, entry, q, items, k - 1)
    BY <1>2, <1>4, <1>6, Zenon DEF LaterOf
  <2>2. RecordAt(b, entry, at, end, items[k])
    BY <1>1, <1>6, Zenon
  <2>3. ASSUME NEW i \in 1 .. k
        PROVE  RecordAt(b, entry, p[i], p[i + 1], items[i])
    <3>1. CASE i = k
      BY <1>5, <2>2, <3>1
    <3>2. CASE i # k
      <4>1. i \in 1 .. k - 1
        BY <3>2
      <4>2. RecordAt(b, entry, q[i], q[i + 1], items[i])
        BY <2>1, <4>1, Zenon DEF ItemsAt
      <4> QED
        BY <1>5, <4>1, <4>2, Zenon
    <3> QED
      BY <3>1, <3>2
  <2> QED
    BY <2>3, Zenon DEF ItemsAt
<1>7. start + k <= end
  BY <1>1, <1>2, <1>3
<1> QED
  BY <1>1, <1>5, <1>6, <1>7, Zenon DEF SectionMade, end

\* The texts of a section.
TextsOf(texts, Known) ==
    /\ Len(texts) \in Nat /\ \A k \in 1 .. Len(texts) : TextSendable(texts[k], Known)
    /\ texts # <<>> => Head(texts) = texts[1] /\ Len(texts) >= 1

\* The texts selected from a section can be sent.
LEMMA TextsChosen ==
    ASSUME NEW Known, NEW S, NEW records \in Seq(S),
           \A k \in 1 .. Len(records) : AnyRecord(records[k], Known)
    PROVE  TextsOf(Chosen(records, TRUE), Known)
<1> DEFINE T == {r \in S : TextSendable(r, Known)}
           texts == Chosen(records, TRUE)
<1>1. \A k \in 1 .. Len(records) : IsText(records[k]) = TRUE => records[k] \in T
  BY WhichRecord
<1> HIDE DEF T
<1>2. texts \in Seq(T)
  BY <1>1, ChosenType
<1> HIDE DEF texts
<1>3. \A i \in 1 .. Len(texts) : texts[i] \in T
  BY <1>2
<1>4. \A i \in 1 .. Len(texts) : TextSendable(texts[i], Known)
  BY <1>3 DEF T
<1>5. Len(texts) \in Nat /\ (texts # <<>> => Head(texts) = texts[1] /\ Len(texts) >= 1)
  BY <1>2
<1> QED
  BY <1>4, <1>5, Zenon DEF TextsOf, texts

\* A section only adds bytes.
LEMMA SectionAfter ==
    ASSUME NEW Known, Alike(Known), NEW m \in Buf, NEW S, NEW records, IsRecords(records, S, Known)
    PROVE  After(m, AddSection(m, records))
<1>10. PICK f : SectionRun(f, m, records)
  BY SectionRounds
<1>1. /\ f[0] = m
      /\ \A k \in 1 .. Len(records) : f[k] = mdns_answer_add_record(f[k - 1], records[k])
      /\ AddSection(m, records) = mdns_answer_add_txt_record(f[Len(records)], records)
  BY <1>10, Zenon DEF SectionRun
<1>0. records \in Seq(S) /\ \A k \in 1 .. Len(records) : AnyRecord(records[k], Known)
  BY DEF IsRecords
<1> USE <1>0
<1> DEFINE last == Len(records)
           Good == {k \in 0 .. last : After(m, f[k])}
<1>2. last \in Nat
  OBVIOUS
<1>3. 0 \in Good
  BY <1>1, <1>2, AfterSelf
<1>4. ASSUME NEW k \in 1 .. last, k - 1 \in Good
      PROVE  k \in Good
  <2>1. f[k] = mdns_answer_add_record(f[k - 1], records[k]) /\ After(m, f[k - 1])
    BY <1>1, <1>4
  <2>2. f[k - 1] \in Buf
    BY <2>1 DEF After
  <2>3. After(f[k - 1], f[k])
    BY <2>1, <2>2, AnyAfter
  <2>4. After(m, f[k])
    BY <2>1, <2>3, AfterTrans
  <2> QED
    BY <2>4
<1> HIDE DEF Good
<1>5. \A k \in 0 .. last : k \in Good
  BY <1>2, <1>3, <1>4, UpTo
<1>6. last \in Good
  BY <1>2, <1>5
<1> DEFINE x == f[last]
           texts == Chosen(records, TRUE)
<1>7. After(m, x) /\ x \in Buf
  BY <1>6 DEF Good, After
<1> HIDE DEF x
<1>8. After(x, mdns_answer_add_txt_record(x, records))
  <2>0. TextsOf(texts, Known)
    BY TextsChosen
  <2> HIDE DEF texts
  <2>1. CASE ~x.ok \/ texts = <<>>
    <3>1. mdns_answer_add_txt_record(x, records) = x
      BY <2>1 DEF mdns_answer_add_txt_record, texts
    <3> QED
      BY <1>7, <3>1, AfterSelf
  <2>2. CASE ~(~x.ok \/ texts = <<>>)
    <3>1. mdns_answer_add_txt_record(x, records)
            = AddTexts(mdns_answer_add_record_header(x, Head(texts)), texts)
      BY <2>2 DEF mdns_answer_add_txt_record, texts
    <3>3. /\ Head(texts) = texts[1] /\ Len(texts) \in Nat /\ Len(texts) >= 1
          /\ \A k \in 1 .. Len(texts) : TextSendable(texts[k], Known)
      BY <2>0, <2>2, Zenon DEF TextsOf
    <3>4. After(x, AddTexts(mdns_answer_add_record_header(x, texts[1]), texts))
      BY <1>7, <3>3, TextsAfter
    <3> QED
      BY <3>1, <3>3, <3>4
  <2> QED
    BY <2>1, <2>2
<1>9. After(m, mdns_answer_add_txt_record(x, records))
  BY <1>7, <1>8, AfterTrans
<1> QED
  BY <1>1, <1>9 DEF x

\* The items of a section: the records that are no texts, and one of all texts.
ItemsOf(items, entry, records) ==
    LET texts == Chosen(records, TRUE)
        others == Chosen(records, FALSE)
    IN /\ \A i \in 1 .. Len(others) : items[i] = Meant(entry, others[i], MeantData(others[i]))
       /\ texts # <<>> => items[Len(others) + 1] = Meant(entry, texts[1], PairsMeant(texts))

\* A section: each record read as it was meant, the texts in one behind the others.
LEMMA SectionWritten ==
    ASSUME NEW Known, Alike(Known), NEW S, NEW records, IsRecords(records, S, Known),
           NEW m, Ready(m, {}, Known), m.compress, NEW entry, NEW items, ItemsOf(items, entry, records),
           AddSection(m, records).ok
    PROVE  SectionMade(AddSection(m, records), entry, Len(m.bytes), items,
                       mdns_answer_get_record_count(records), Known)
<1> DEFINE last == Len(records)
           start == Len(m.bytes)
           texts == Chosen(records, TRUE)
           others == Chosen(records, FALSE)
           n == AddSection(m, records)
<1>0. records \in Seq(S) /\ \A k \in 1 .. Len(records) : AnyRecord(records[k], Known)
  BY DEF IsRecords
<1>1. m \in Buf /\ start \in Nat /\ last \in Nat
  BY <1>0 DEF Ready, Buf
<1>13. PICK f : SectionRun(f, m, records)
  BY <1>1, SectionRounds
<1>2. /\ f[0] = m
      /\ \A k \in 1 .. Len(records) : f[k] = mdns_answer_add_record(f[k - 1], records[k])
      /\ n = mdns_answer_add_txt_record(f[Len(records)], records)
  BY <1>13, Zenon DEF SectionRun
<1> USE <1>0
<1>3. PICK c : CountsFrom(c, records, FALSE, others)
  BY ChosenCounts
<1> DEFINE Made(k) == f[k].ok => SectionMade(f[k], entry, start, items, c[k], Known)
           Good == {k \in 0 .. last : After(m, f[k]) /\ Made(k)}
<1> HIDE DEF start
<1>4. 0 \in Good
  <2>1. After(m, f[0])
    BY <1>1, <1>2, AfterSelf
  <2>2. Made(0)
    BY <1>2, <1>3, SectionBegins DEF CountsFrom, start
  <2> HIDE DEF Made
  <2> QED
    BY <1>1, <2>1, <2>2
<1>5. ASSUME NEW k \in 1 .. last, k - 1 \in Good
      PROVE  k \in Good
  <2> DEFINE r == records[k]
             x == f[k - 1]
  <2>1. f[k] = mdns_answer_add_record(x, r) /\ AnyRecord(r, Known)
    BY <1>2
  <2>2. After(m, x) /\ Made(k - 1)
    BY <1>5
  <2>3. x \in Buf
    BY <2>2 DEF After
  <2> HIDE DEF r
  <2>4. After(x, f[k])
    BY <2>1, <2>3, AnyAfter
  <2>5. After(m, f[k])
    BY <1>1, <2>2, <2>4, AfterTrans
  <2>6. ASSUME f[k].ok
        PROVE  SectionMade(f[k], entry, start, items, c[k], Known)
    <3>1. x.ok /\ SectionMade(x, entry, start, items, c[k - 1], Known)
      BY <2>2, <2>4, <2>6 DEF After
    <3> HIDE DEF x
    <3>2. CASE IsText(r)
      <4>1. f[k] = x
        BY <2>1, <3>2 DEF mdns_answer_add_record
      <4>2. c[k] = c[k - 1]
        <5>1. (IsText(r) = FALSE) = FALSE
          BY <3>2
        <5> QED
          BY <1>3, <5>1 DEF CountsFrom, r
      <4> QED
        BY <3>1, <4>1, <4>2
    <3>3. CASE ~IsText(r)
      <4>1. Sendable(r, Known)
        BY <2>1, <3>3, WhichRecord
      <4>2. c[k] = c[k - 1] + 1 /\ others[c[k]] = r /\ c[k] \in 1 .. Len(others) /\ c[k - 1] \in Nat
        <5>1. IsText(r) = FALSE
          BY <3>3
        <5>2. k \in 0 .. last /\ k - 1 \in 0 .. last
          BY <1>1
        <5>6. others \in Seq(S)
          BY ChosenCounts
        <5> HIDE DEF others
        <5>3. Len(others) \in Nat
          BY <5>6
        <5>4. c[k] = c[k - 1] + 1 /\ others[c[k]] = r
          BY <1>3, <5>1 DEF CountsFrom, r
        <5>5. c[k] \in 0 .. Len(others) /\ c[k - 1] \in 0 .. Len(others)
          BY <1>3, <5>2 DEF CountsFrom
        <5> QED
          BY <5>3, <5>4, <5>5
      <4>3. items[c[k]] = Meant(entry, r, MeantData(r))
        BY <4>2 DEF ItemsOf
      <4>4. Ready(x, {}, Known) /\ x.compress
        BY <3>1 DEF SectionMade
      <4>5. RecordMade(x, f[k], r, MeantData(r), Known)
        BY <2>1, <2>6, <3>1, <4>1, <4>4, RecordWritten
      <4> DEFINE j == c[k]
      <4>6. j \in Nat \ {0} /\ SectionMade(x, entry, start, items, j - 1, Known)
        <5>1. c[k] \in Nat \ {0} /\ c[k] - 1 = c[k - 1]
          BY <4>2
        <5> QED
          BY <3>1, <5>1
      <4> HIDE DEF j
      <4>7. SectionMade(f[k], entry, start, items, j, Known)
        <5>1. After(x, f[k])
          BY <2>4 DEF x
        <5> QED
          BY <1>1, <4>3, <4>5, <4>6, <5>1, SectionGoesOn DEF j
      <4> QED
        BY <4>7 DEF j
    <3> QED
      BY <3>2, <3>3
  <2>7. k \in 0 .. last
    OBVIOUS
  <2> QED
    BY <2>5, <2>6, <2>7
<1> HIDE DEF Good
<1>6. \A k \in 0 .. last : k \in Good
  BY <1>1, <1>4, <1>5, UpTo
<1>7. last \in Good
  BY <1>1, <1>6
<1> DEFINE x == f[last]
           K == Len(others)
<1>8. /\ After(m, x) /\ x \in Buf
      /\ x.ok => SectionMade(x, entry, start, items, K, Known)
  <2>1. c[last] = K
    BY <1>3 DEF CountsFrom
  <2>2. After(m, x) /\ Made(last)
    BY <1>7 DEF Good
  <2> QED
    BY <2>1, <2>2 DEF After
<1> HIDE DEF x
<1>9. n = mdns_answer_add_txt_record(x, records) /\ n.ok
  BY <1>2 DEF x
<1> HIDE DEF n
<1>10. /\ Len(texts) \in Nat /\ K \in Nat /\ last = K + Len(texts)
       /\ TextsOf(texts, Known)
  <2>1. texts \in Seq(S) /\ others \in Seq(S)
    BY ChosenCounts
  <2>2. Len(texts) + Len(others) = last
    BY ChosenParts
  <2>3. TextsOf(texts, Known)
    BY TextsChosen
  <2> HIDE DEF texts, others
  <2> QED
    BY <2>1, <2>2, <2>3
<1>11. CASE texts = <<>>
  <2>1. n = x
    BY <1>9, <1>11 DEF mdns_answer_add_txt_record
  <2>2. mdns_answer_get_record_count(records) = K
    <3>1. mdns_answer_get_record_count(records) = last - Len(texts) + 0
      BY <1>11 DEF mdns_answer_get_record_count
    <3>3. Len(<<>>) = 0
      OBVIOUS
    <3>2. Len(texts) = 0
      BY <1>11, <3>3, Zenon
    <3> HIDE DEF texts, K
    <3> QED
      BY <1>10, <3>1, <3>2
  <2> QED
    BY <1>8, <1>9, <2>1, <2>2 DEF n, start
<1>12. CASE texts # <<>>
  <2>1. x.ok
    BY <1>9 DEF mdns_answer_add_txt_record
  <2>2. n = AddTexts(mdns_answer_add_record_header(x, Head(texts)), texts)
    BY <1>9, <1>12, <2>1 DEF mdns_answer_add_txt_record
  <2>3. items[K + 1] = Meant(entry, texts[1], PairsMeant(texts))
    BY <1>12 DEF ItemsOf
  <2>4. mdns_answer_get_record_count(records) = K + 1
    <3>1. mdns_answer_get_record_count(records) = last - Len(texts) + 1
      BY <1>12 DEF mdns_answer_get_record_count
    <3> HIDE DEF texts, K
    <3> QED
      BY <1>10, <3>1
  <2> HIDE DEF texts, K
  <2>5. /\ Head(texts) = texts[1] /\ Len(texts) \in Nat /\ Len(texts) >= 1
        /\ \A k \in 1 .. Len(texts) : TextSendable(texts[k], Known)
    BY <1>10, <1>12 DEF TextsOf
  <2>6. n = AddTexts(mdns_answer_add_record_header(x, texts[1]), texts)
    BY <2>2, <2>5
  <2>7. Ready(x, {}, Known) /\ x.compress /\ SectionMade(x, entry, start, items, K, Known)
    BY <1>8, <2>1 DEF SectionMade
  <2>8. RecordMade(x, n, texts[1], PairsMeant(texts), Known)
    BY <1>9, <2>1, <2>5, <2>6, <2>7, TextRecordWritten
  <2>9. After(x, n)
    BY <1>8, <2>5, <2>6, TextsAfter
  <2> DEFINE j == K + 1
  <2>10. j \in Nat \ {0} /\ j - 1 = K /\ items[j] = Meant(entry, texts[1], PairsMeant(texts))
    BY <1>10, <2>3
  <2> HIDE DEF j
  <2>11. SectionMade(x, entry, start, items, j - 1, Known)
    BY <2>7, <2>10
  <2>12. SectionMade(n, entry, start, items, j, Known)
    <3> DEFINE data == PairsMeant(texts)
               first == texts[1]
    <3>1. RecordMade(x, n, first, data, Known) /\ items[j] = Meant(entry, first, data)
      BY <2>8, <2>10
    <3> HIDE DEF data, first
    <3> QED
      BY <1>1, <2>9, <2>10, <2>11, <3>1, SectionGoesOn
  <2> QED
    BY <2>4, <2>12 DEF n, start, j
<1> QED
  BY <1>11, <1>12

-----------------------------------------------------------------------------
(* Reading the records of a section.                                       *)

Row(items, k) == [i \in 1 .. k |-> items[i]]

\* The first items of a list are a sequence.
LEMMA RowType ==
    ASSUME NEW V, NEW items, NEW k \in Nat, \A i \in 1 .. k : items[i] \in V
    PROVE  Row(items, k) \in Seq(V) /\ Len(Row(items, k)) = k /\ \A i \in 1 .. k : Row(items, k)[i] = items[i]
BY DEF Row

\* One item more.
LEMMA RowGrows ==
    ASSUME NEW V, NEW seen \in Seq(V), NEW items, NEW k \in Nat \ {0}, \A i \in 1 .. k : items[i] \in V
    PROVE  Append(seen \o Row(items, k - 1), items[k]) = seen \o Row(items, k)
<1> DEFINE a == Row(items, k - 1)
           b == Row(items, k)
           sa == seen \o a
           sb == seen \o b
           n == Len(seen)
           e == items[k]
           s == Append(sa, e)
<1>1. a \in Seq(V) /\ Len(a) = k - 1 /\ \A i \in 1 .. k - 1 : a[i] = items[i]
  <2>1. k - 1 \in Nat /\ \A i \in 1 .. k - 1 : items[i] \in V
    OBVIOUS
  <2> QED
    BY <2>1, RowType
<1>2. b \in Seq(V) /\ Len(b) = k /\ \A i \in 1 .. k : b[i] = items[i]
  BY RowType
<1>3. n \in Nat /\ e \in V
  OBVIOUS
<1> HIDE DEF a, b, e
<1>4. IsJoin(V, sa, seen, a) /\ IsJoin(V, sb, seen, b)
  BY <1>1, <1>2, JoinAny
<1> HIDE DEF sa, sb
<1>5. /\ sa \in Seq(V) /\ Len(sa) = n + Len(a) /\ \A i \in 1 .. n : sa[i] = seen[i]
      /\ \A i \in 1 .. Len(a) : sa[n + i] = a[i]
      /\ sb \in Seq(V) /\ Len(sb) = n + Len(b) /\ \A i \in 1 .. n : sb[i] = seen[i]
      /\ \A i \in 1 .. Len(b) : sb[n + i] = b[i]
  BY <1>4, Zenon DEF IsJoin
<1>6. s \in Seq(V) /\ Len(s) = Len(sa) + 1 /\ s[Len(sa) + 1] = e /\ \A i \in 1 .. Len(sa) : s[i] = sa[i]
  <2>1. sa \in Seq(V)
    BY <1>5
  <2> QED
    BY <1>3, <2>1
<1> HIDE DEF s, n
<1>7. Len(s) = n + k /\ Len(sb) = n + k
  BY <1>1, <1>2, <1>3, <1>5, <1>6
<1>8. ASSUME NEW i \in 1 .. n + k
      PROVE  s[i] = sb[i]
  <2>1. CASE i \in 1 .. n
    <3>1. i \in 1 .. Len(sa)
      BY <1>1, <1>3, <1>5, <2>1
    <3> QED
      BY <1>5, <1>6, <2>1, <3>1
  <2>2. CASE i \notin 1 .. n /\ i # n + k
    <3> DEFINE j == i - n
    <3>1. j \in 1 .. k - 1 /\ j \in 1 .. k /\ i = n + j /\ i \in 1 .. Len(sa)
      BY <1>1, <1>3, <1>5, <2>2
    <3> HIDE DEF j
    <3>2. sa[n + j] = a[j] /\ sb[n + j] = b[j]
      BY <1>1, <1>2, <1>5, <3>1
    <3>3. s[i] = sa[i]
      BY <1>6, <3>1
    <3> QED
      BY <1>1, <1>2, <3>1, <3>2, <3>3
  <2>3. CASE i = n + k
    <3>1. i = Len(sa) + 1
      BY <1>1, <1>3, <1>5, <2>3, SMTT(30)
    <3>2. s[i] = e
      BY <1>6, <3>1
    <3>3. k \in 1 .. k
      OBVIOUS
    <3>4. sb[n + k] = b[k] /\ b[k] = items[k]
      BY <1>2, <1>5, <3>3
    <3> QED
      BY <2>3, <3>2, <3>4 DEF e
  <2> QED
    BY <2>1, <2>2, <2>3
<1>9. s = sb
  BY <1>5, <1>6, <1>7, <1>8, SeqEqual
<1> QED
  BY <1>9 DEF s, sa, sb, a, b, e

\* The state of mdns_records_parse as long as everything is there.
ParseState(at, parsed, seen, stop) == [at |-> at, parsed |-> parsed, seen |-> seen, stop |-> stop]
Parsed(at, parsed, seen) == ParseState(at, parsed, seen, FALSE)

Moved(s, at, parsed, seen) == [s EXCEPT !.at = at, !.parsed = parsed, !.seen = seen]
Started(s) == [s EXCEPT !.parsed = 0]
Stopped(s, stop) == [s EXCEPT !.stop = stop]

\* The state of the parser after a record.
LEMMA StateMoves ==
    ASSUME NEW at, NEW parsed, NEW seen, NEW stop \in BOOLEAN, NEW x, NEW y, NEW z
    PROVE  Moved(ParseState(at, parsed, seen, stop), x, y, z) = ParseState(x, y, z, stop)
<1>1. [ParseState(at, parsed, seen, stop) EXCEPT !.at = x] = ParseState(x, parsed, seen, stop)
  BY DEF ParseState
<1>2. [ParseState(x, parsed, seen, stop) EXCEPT !.parsed = y] = ParseState(x, y, seen, stop)
  BY DEF ParseState
<1>3. [ParseState(x, y, seen, stop) EXCEPT !.seen = z] = ParseState(x, y, z, stop)
  BY DEF ParseState
<1> QED
  BY <1>1, <1>2, <1>3, Zenon DEF Moved

\* The state of the parser before a section.
LEMMA StateStarts ==
    ASSUME NEW at, NEW parsed, NEW seen, NEW stop \in BOOLEAN
    PROVE  Started(ParseState(at, parsed, seen, stop)) = ParseState(at, 0, seen, stop)
BY DEF Started, ParseState

\* The state of the parser that has to stop.
LEMMA StateStops ==
    ASSUME NEW at, NEW parsed, NEW seen, NEW stop \in BOOLEAN, NEW x \in BOOLEAN
    PROVE  Stopped(ParseState(at, parsed, seen, stop), x) = ParseState(at, parsed, seen, x)
BY DEF Stopped, ParseState

\* The state of a parser that goes on, after a record.
LEMMA ParsedMoves ==
    \A at, parsed, seen, x, y, z : Moved(Parsed(at, parsed, seen), x, y, z) = Parsed(x, y, z)
<1> TAKE at, parsed, seen, x, y, z
<1> DEFINE stop == FALSE
<1>1. stop \in BOOLEAN
  OBVIOUS
<1> HIDE DEF stop
<1>2. Moved(ParseState(at, parsed, seen, stop), x, y, z) = ParseState(x, y, z, stop)
  BY <1>1, StateMoves
<1> QED
  BY <1>2 DEF Parsed, stop

\* The state of a parser that goes on, before a section.
LEMMA ParsedStarts ==
    \A at, parsed, seen : Started(Parsed(at, parsed, seen)) = Parsed(at, 0, seen)
BY StateStarts DEF Parsed

\* A parser that goes on does not stop.
LEMMA ParsedStops ==
    \A at, parsed, seen : Stopped(Parsed(at, parsed, seen), FALSE) = Parsed(at, parsed, seen)
BY StateStops DEF Parsed

\* What a parser that goes on knows.
LEMMA ParsedFields ==
    \A at, parsed, seen : /\ Parsed(at, parsed, seen).at = at
                          /\ Parsed(at, parsed, seen).parsed = parsed
                          /\ Parsed(at, parsed, seen).seen = seen
                          /\ Parsed(at, parsed, seen).stop = FALSE
BY Zenon DEF Parsed, ParseState

\* mdns_records_parse reads a record that lies at its offset.
LEMMA RecordParses ==
    ASSUME NEW b \in Seq(Octet), NEW entry, NEW at, NEW next, NEW item, RecordAt(b, entry, at, next, item),
           NEW parsed, NEW seen
    PROVE  ParseRecord(b, Parsed(at, parsed, seen), entry) = Parsed(next, parsed + 1, Append(seen, item))
<1>1. PICK from \in Nat :
        /\ at \in Nat /\ from >= 12 /\ from <= Len(b) /\ mdns_string_skip(b, at) = from - 10
        /\ ShortAt(b, from - 2) \in Nat
        /\ next = from + ShortAt(b, from - 2) /\ next <= Len(b)
        /\ Seen(b, entry, at, from - 10) = item
  BY Zenon DEF RecordAt
<1> DEFINE s == Parsed(at, parsed, seen)
           head == from - 10
           length == ShortAt(b, from - 2)
<1>2. /\ Len(b) \in Nat /\ head # Nowhere /\ head + 8 = from - 2 /\ head + 10 = from
      /\ ~(from > Len(b)) /\ length <= Len(b) - from
  BY <1>1, ByteFacts DEF Nowhere
<1>3. s.at = at /\ s.parsed = parsed /\ s.seen = seen /\ s.stop = FALSE
  BY ParsedFields
<1>4. ParseRecord(b, s, entry)
        = [s EXCEPT !.at = from + length, !.parsed = s.parsed + 1, !.seen = Append(s.seen, item)]
  <2> HIDE DEF s, length, head
  <2>1. mdns_string_skip(b, s.at) = head /\ Seen(b, entry, s.at, head) = item
    BY <1>1, <1>3 DEF head
  <2>2. ShortAt(b, head + 8) = length
    BY <1>2 DEF length
  <2> QED
    BY <1>2, <1>3, <2>1, <2>2, Zenon DEF ParseRecord, ParseBehind, BehindName
<1>5. [s EXCEPT !.at = from + length, !.parsed = s.parsed + 1, !.seen = Append(s.seen, item)]
        = Parsed(from + length, parsed + 1, Append(seen, item))
  <2> DEFINE x == from + length
             y == parsed + 1
             z == Append(seen, item)
  <2> HIDE DEF x, y, z
  <2>2. Moved(s, x, y, z) = Parsed(x, y, z)
    BY ParsedMoves
  <2> HIDE DEF s
  <2>5. [s EXCEPT !.at = x, !.parsed = y, !.seen = z] = Parsed(x, y, z)
    BY <2>2, Zenon DEF Moved
  <2>6. s.parsed + 1 = y /\ Append(s.seen, item) = z
    BY <1>3, Zenon DEF y, z
  <2> QED
    BY <2>5, <2>6, Zenon DEF x, y, z
<1> QED
  BY <1>1, <1>4, <1>5

IsParsed(f, b, s, entry, count) ==
    f = [k \in 0 .. count |->
            IF k = 0 THEN [s EXCEPT !.parsed = 0] ELSE ParseRecord(b, f[k - 1], entry)]

InRow(items, k, V) == \A i \in 1 .. k : items[i] \in V

\* mdns_records_parse reads records that lie one behind the other.
LEMMA SectionParses ==
    ASSUME NEW b \in Seq(Octet), NEW entry, NEW p, NEW items, NEW k \in Nat,
           ItemsAt(b, entry, p, items, k), NEW V, NEW seen \in Seq(V), InRow(items, k, V), NEW before
    PROVE  mdns_records_parse(b, Parsed(p[1], before, seen), entry, k)
             = Parsed(p[k + 1], k, seen \o Row(items, k))
<1>0. \A i \in 1 .. k : items[i] \in V
  BY DEF InRow
<1> USE <1>0
<1> DEFINE s == Parsed(p[1], before, seen)
           base == Parsed(p[1], 0, seen)
           State(d) == Parsed(p[d + 1], d, seen \o Row(items, d))
           g == [d \in 0 .. k |-> State(d)]
<1>1. [s EXCEPT !.parsed = 0] = base
  <2>1. Started(s) = base
    BY ParsedStarts
  <2> QED
    BY <2>1, Zenon DEF Started
<1>2. State(0) = base
  <2>1. Row(items, 0) = <<>> /\ 0 + 1 = 1
    BY DEF Row
  <2>2. seen \o <<>> = seen
    OBVIOUS
  <2> QED
    BY <2>1, <2>2
<1>3. ASSUME NEW d \in 1 .. k
      PROVE  State(d) = ParseRecord(b, State(d - 1), entry)
  <2> DEFINE so == seen \o Row(items, d - 1)
  <2>1. d - 1 + 1 = d
    OBVIOUS
  <2>2. RecordAt(b, entry, p[d], p[d + 1], items[d])
    BY DEF ItemsAt
  <2>3. Append(so, items[d]) = seen \o Row(items, d)
    <3>1. d \in Nat \ {0} /\ \A i \in 1 .. d : items[i] \in V
      OBVIOUS
    <3> QED
      BY <3>1, RowGrows, ZenonT(30)
  <2>4. State(d - 1) = Parsed(p[d], d - 1, so)
    BY <2>1
  <2> HIDE DEF so
  <2>5. ParseRecord(b, Parsed(p[d], d - 1, so), entry) = Parsed(p[d + 1], d - 1 + 1, Append(so, items[d]))
    BY <2>2, RecordParses
  <2> HIDE DEF State
  <2>6. ParseRecord(b, State(d - 1), entry) = Parsed(p[d + 1], d, seen \o Row(items, d))
    BY <2>1, <2>3, <2>4, <2>5
  <2> QED
    BY <2>6 DEF State
<1> HIDE DEF s, base, State
<1>4. IsParsed(g, b, s, entry, k)
  <2>1. \A d \in 0 .. k : State(d) = IF d = 0 THEN [s EXCEPT !.parsed = 0] ELSE ParseRecord(b, g[d - 1], entry)
    <3> TAKE d \in 0 .. k
    <3>1. CASE d = 0
      BY <1>1, <1>2, <3>1
    <3>2. CASE d # 0
      <4>1. d \in 1 .. k /\ d - 1 \in 0 .. k
        BY <3>2
      <4>2. g[d - 1] = State(d - 1)
        BY <4>1
      <4> HIDE DEF g
      <4> QED
        BY <1>3, <3>2, <4>1, <4>2, Zenon
    <3> QED
      BY <3>1, <3>2
  <2> QED
    BY <2>1, Zenon DEF IsParsed
<1> DEFINE f == CHOOSE h : IsParsed(h, b, s, entry, k)
<1>5. IsParsed(f, b, s, entry, k)
  BY <1>4, Zenon
<1>6. mdns_records_parse(b, s, entry, k) = [f[k] EXCEPT !.stop = f[k].parsed # k]
  BY DEF mdns_records_parse, IsParsed, StopUnless
<1> HIDE DEF f
<1> DEFINE Good == {d \in 0 .. k : f[d] = State(d)}
<1>7. 0 \in Good
  <2>1. 0 \in 0 .. k
    OBVIOUS
  <2>2. f[0] = [s EXCEPT !.parsed = 0]
    BY <1>5, <2>1, Zenon DEF IsParsed
  <2> QED
    BY <1>1, <1>2, <2>1, <2>2
<1>8. ASSUME NEW d \in 1 .. k, d - 1 \in Good
      PROVE  d \in Good
  <2>1. d \in 0 .. k /\ d # 0 /\ f[d - 1] = State(d - 1)
    BY <1>8
  <2>2. f[d] = ParseRecord(b, f[d - 1], entry)
    BY <1>5, <2>1, Zenon DEF IsParsed
  <2> QED
    BY <1>3, <2>1, <2>2
<1> HIDE DEF Good
<1>9. \A d \in 0 .. k : d \in Good
  BY <1>7, <1>8, UpTo
<1>10. f[k] = State(k)
  BY <1>9 DEF Good
<1>11. [State(k) EXCEPT !.stop = State(k).parsed # k] = State(k)
  <2> DEFINE at == p[k + 1]
             z == seen \o Row(items, k)
  <2>1. State(k) = Parsed(at, k, z)
    BY DEF State
  <2> HIDE DEF at, z
  <2>2. State(k).parsed = k
    BY <2>1, ParsedFields
  <2>3. (State(k).parsed # k) = FALSE
    BY <2>2
  <2>5. Stopped(Parsed(at, k, z), FALSE) = Parsed(at, k, z)
    BY ParsedStops
  <2>4. [Parsed(at, k, z) EXCEPT !.stop = FALSE] = Parsed(at, k, z)
    BY <2>5, Zenon DEF Stopped
  <2> QED
    BY <2>1, <2>3, <2>4, Zenon
<1> QED
  BY <1>6, <1>10, <1>11 DEF s, State

-----------------------------------------------------------------------------
(* Questions.                                                              *)

QuestionTail(question) == Short(question.type) \o Short(TopBit + ClassIN)

\* A question is read from at to next.
QuestionAt(b, at, next, question) ==
    /\ at \in Nat /\ next \in Nat /\ next >= 4
    /\ mdns_string_extract(b, at) = NameText(question.name) /\ mdns_string_skip(b, at) = next - 4
    /\ ShortAt(b, next - 4) = question.type /\ ShortAt(b, next - 2) % TopBit = ClassIN

\* Type and class of a question are four bytes.
LEMMA TailBytes ==
    ASSUME NEW question, question.type \in UInt16
    PROVE  QuestionTail(question) \in Seq(Octet) /\ Len(QuestionTail(question)) = 4
<1> DEFINE x == Short(question.type)
           y == Short(TopBit + ClassIN)
<1>1. /\ x \in Seq(Octet) /\ Len(x) = 2 /\ y \in Seq(Octet) /\ Len(y) = 2
  BY ShortNumber, ShortBytes DEF TopBit, ClassIN
<1> HIDE DEF x, y
<1>2. x \o y \in Seq(Octet) /\ Len(x \o y) = Len(x) + Len(y)
  BY <1>1, Lengths
<1>3. Len(x \o y) = 4
  BY <1>1, <1>2
<1> QED
  BY <1>2, <1>3 DEF QuestionTail, x, y

\* The class of a question that asks for an answer to this host.
LEMMA ClassNumber ==
    /\ TopBit + ClassIN \in UInt16 /\ TopBit + ClassIN \in Nat
    /\ (TopBit + ClassIN) % TopBit = ClassIN
<1>1. 32769 \in 0 .. 65535
  OBVIOUS
<1>2. 32768 + 1 = 32769 /\ 32769 \in Nat
  OBVIOUS
<1>3. 32769 % 32768 = 1
  BY SMT
<1> QED
  BY <1>1, <1>2, <1>3 DEF TopBit, ClassIN, UInt16

\* Type and class of a question are read as they were written.
LEMMA TailReads ==
    ASSUME NEW question, question.type \in UInt16, NEW b, NEW at \in Nat, Has(b, at, QuestionTail(question))
    PROVE  ShortAt(b, at) = question.type /\ ShortAt(b, at + 2) % TopBit = ClassIN
<1> DEFINE x == Short(question.type)
           class == TopBit + ClassIN
           y == Short(class)
<1>1. class \in UInt16 /\ class \in Nat /\ class % TopBit = ClassIN
  BY ClassNumber
<1> HIDE DEF class
<1>2. /\ x \in Seq(Octet) /\ Len(x) = 2 /\ y \in Seq(Octet)
  BY <1>1, ShortNumber, ShortBytes
<1>3. Has(b, at, x \o y)
  BY DEF QuestionTail, class
<1> HIDE DEF x, y
<1>4. Has(b, at, x) /\ Has(b, at + Len(x), y)
  BY <1>2, <1>3, HasParts
<1>5. Has(b, at + 2, y) /\ at + 2 \in Nat
  BY <1>2, <1>4
<1>6. ShortAt(b, at) = question.type
  BY <1>4, ShortReads DEF x
<1>7. ShortAt(b, at + 2) = class
  BY <1>1, <1>5, ShortReads DEF y
<1> QED
  BY <1>1, <1>6, <1>7

\* A question only adds bytes.
LEMMA QuestionAfter ==
    ASSUME NEW question, question.name \in DnsName, question.type \in UInt16, NEW m \in Buf,
           NEW enough \in Nat
    PROVE  After(m, PutIfRoom(mdns_string_make(m, question.name), enough, QuestionTail(question)))
<1> DEFINE made == mdns_string_make(m, question.name)
           tail == QuestionTail(question)
<1>1. After(m, made) /\ made \in Buf /\ tail \in Seq(Octet)
  BY Makes, TailBytes DEF After
<1> HIDE DEF made, tail
<1>2. After(made, PutIfRoom(made, enough, tail))
  BY <1>1, Puts
<1>3. After(m, PutIfRoom(made, enough, tail))
  BY <1>1, <1>2, AfterTrans
<1> QED
  BY <1>3 DEF made, tail

\* A question is written.
QuestionMade(m, n, question, Known) ==
    /\ Ready(n, {}, Known) /\ n.ok /\ n.compress = m.compress
    /\ Len(m.bytes) + 1 <= Len(n.bytes)
    /\ \A b : Later(b, n.bytes, {}) => QuestionAt(b, Len(m.bytes), Len(n.bytes), question)

\* A question, read as it was meant.
LEMMA QuestionWritten ==
    ASSUME NEW Known, Alike(Known), NEW question, question.name \in Known, question.type \in UInt16,
           NEW m, Ready(m, {}, Known), m.ok, NEW enough \in Nat, m.compress => 4 <= enough,
           PutIfRoom(mdns_string_make(m, question.name), enough, QuestionTail(question)).ok
    PROVE  QuestionMade(m, PutIfRoom(mdns_string_make(m, question.name), enough, QuestionTail(question)),
                        question, Known)
<1> DEFINE made == mdns_string_make(m, question.name)
           tail == QuestionTail(question)
           n == PutIfRoom(made, enough, tail)
           at == Len(m.bytes)
           h == Len(made.bytes)
<1>1. m \in Buf /\ question.name \in DnsName
  BY DEF Ready, Alike
<1>2. After(m, made) /\ made \in Buf
  BY <1>1, Makes DEF After
<1>3. tail \in Seq(Octet) /\ Len(tail) = 4
  BY TailBytes
<1> HIDE DEF tail
<1>4. made.ok
  <2> HIDE DEF made
  <2>1. After(made, n)
    BY <1>2, <1>3, Puts
  <2> QED
    BY <2>1 DEF After, made, tail
<1>5. NameMade(made, question.name, Known, {}, at)
  BY <1>1, <1>4, MakesName
<1> HIDE DEF made
<1>6. Ready(made, {}, Known) /\ at + 2 <= h /\ NameAt(made.bytes, {}, question.name, at)
  BY <1>5, Zenon DEF NameMade
<1>7. Roomy(made, tail, enough)
  BY <1>2, <1>3 DEF Roomy, After
<1>8. /\ Ready(n, {}, Known) /\ n.ok /\ n.compress = made.compress
      /\ n.bytes = made.bytes \o tail
      /\ n.bytes \in Seq(Octet) /\ Len(n.bytes) = Len(made.bytes) + Len(tail)
      /\ LaterOf(n.bytes, {}, made.bytes, {})
  <2>1. PutIfRoom(made, enough, tail).ok
    BY DEF made, tail
  <2>2. LET y == PutIfRoom(made, enough, tail)
        IN /\ Ready(y, {}, Known) /\ y.ok /\ y.compress = made.compress
           /\ y.bytes = made.bytes \o tail
           /\ y.bytes \in Seq(Octet) /\ Len(y.bytes) = Len(made.bytes) + Len(tail)
           /\ LaterOf(y.bytes, {}, made.bytes, {})
    BY <1>3, <1>6, <1>7, <2>1, RoomyPuts
  <2> QED
    BY <2>2
<1>9. at \in Nat /\ h \in Nat /\ m.bytes \in Seq(Octet) /\ made.bytes \in Seq(Octet)
  BY <1>1, <1>2 DEF Buf
<1> HIDE DEF n
<1>10. Len(n.bytes) = h + 4
  <2>1. Len(n.bytes) = h + Len(tail)
    BY <1>8, Zenon
  <2> QED
    BY <1>3, <2>1
<1>11. ASSUME NEW b, Later(b, n.bytes, {})
       PROVE  QuestionAt(b, at, Len(n.bytes), question)
  <2>1. mdns_string_extract(b, at) = NameText(question.name) /\ mdns_string_skip(b, at) = h
    <3> HIDE DEF at, h
    <3> QED
      BY <1>1, <1>6, <1>8, <1>11, NameStays DEF h
  <2>2. Has(b, h, tail)
    <3>1. Within({}, made.bytes) /\ Later(b, made.bytes \o tail, {})
      BY <1>8, <1>11 DEF Within
    <3> QED
      BY <1>3, <1>9, <3>1, LaterReads
  <2>3. ShortAt(b, h) = question.type /\ ShortAt(b, h + 2) % TopBit = ClassIN
    BY <1>9, <2>2, TailReads DEF tail
  <2> HIDE DEF h, at
  <2> DEFINE next == Len(n.bytes)
  <2>4. next \in Nat /\ next >= 4 /\ next - 4 = h /\ next - 2 = h + 2
    BY <1>9, <1>10
  <2> HIDE DEF next
  <2>5. QuestionAt(b, at, next, question)
    BY <1>9, <2>1, <2>3, <2>4, Zenon DEF QuestionAt
  <2> QED
    BY <2>5 DEF next
<1>12. Len(m.bytes) + 1 <= Len(n.bytes) /\ n.compress = m.compress
  <2>1. n.compress = m.compress
    BY <1>2, <1>8 DEF After
  <2> HIDE DEF h
  <2> QED
    BY <1>6, <1>9, <1>10, <2>1
<1>13. QuestionMade(m, n, question, Known)
  BY <1>8, <1>11, <1>12, Zenon DEF QuestionMade, at
<1> QED
  BY <1>13 DEF n, made, tail

\* The questions lie from q[1] on.
QuestionsAt(b, q, questions, k) == \A i \in 1 .. k : QuestionAt(b, q[i], q[i + 1], questions[i])

IsSkipped(f, b, count) ==
    f = [k \in 0 .. count |->
            IF k = 0 THEN HeaderSize
            ELSE IF f[k - 1] = Nowhere \/ mdns_string_skip(b, f[k - 1]) = Nowhere THEN Nowhere
            ELSE mdns_string_skip(b, f[k - 1]) + 4]

\* A receiver of answers goes behind a question.
LEMMA QuestionSkips ==
    ASSUME NEW b, NEW at, NEW next, NEW question, QuestionAt(b, at, next, question)
    PROVE  /\ at # Nowhere /\ mdns_string_skip(b, at) # Nowhere
           /\ mdns_string_skip(b, at) + 4 = next
<1>1. at \in Nat /\ next \in Nat /\ next >= 4 /\ mdns_string_skip(b, at) = next - 4
  BY Zenon DEF QuestionAt
<1> QED
  BY <1>1 DEF Nowhere

\* A receiver of answers goes behind all questions.
LEMMA QuestionsSkip ==
    ASSUME NEW b, NEW q, NEW questions, NEW k \in Nat, QuestionsAt(b, q, questions, k),
           q[1] = HeaderSize
    PROVE  SkipQuestions(b, k) = q[k + 1]
<1> DEFINE g == [d \in 0 .. k |-> q[d + 1]]
           Next0(x) == IF x = Nowhere \/ mdns_string_skip(b, x) = Nowhere THEN Nowhere
                       ELSE mdns_string_skip(b, x) + 4
<1>1. ASSUME NEW d \in 1 .. k
      PROVE  Next0(q[d]) = q[d + 1]
  <2>1. QuestionAt(b, q[d], q[d + 1], questions[d])
    BY DEF QuestionsAt
  <2>2. /\ q[d] # Nowhere /\ mdns_string_skip(b, q[d]) # Nowhere
        /\ mdns_string_skip(b, q[d]) + 4 = q[d + 1]
    BY <2>1, QuestionSkips
  <2> QED
    BY <2>2, Zenon
<1>2. IsSkipped(g, b, k)
  <2>1. \A d \in 0 .. k : q[d + 1] = IF d = 0 THEN HeaderSize ELSE Next0(g[d - 1])
    <3> TAKE d \in 0 .. k
    <3> HIDE DEF Next0
    <3>1. CASE d = 0
      <4>1. d + 1 = 1
        BY <3>1
      <4> QED
        BY <3>1, <4>1, Zenon
    <3>2. CASE d # 0
      <4>1. d \in 1 .. k /\ d - 1 \in 0 .. k /\ d - 1 + 1 = d
        BY <3>2
      <4>2. g[d - 1] = q[d]
        BY <4>1
      <4> HIDE DEF g
      <4> QED
        BY <1>1, <3>2, <4>1, <4>2, Zenon
    <3> QED
      BY <3>1, <3>2
  <2> QED
    BY <2>1, Zenon DEF IsSkipped
<1> DEFINE f == CHOOSE h : IsSkipped(h, b, k)
<1>3. IsSkipped(f, b, k)
  BY <1>2, Zenon
<1>4. SkipQuestions(b, k) = f[k]
  BY DEF SkipQuestions, IsSkipped
<1> HIDE DEF f
<1>5. f[0] = HeaderSize /\ \A d \in 1 .. k : f[d] = Next0(f[d - 1])
  <2>1. 0 \in 0 .. k
    OBVIOUS
  <2>2. f[0] = HeaderSize
    BY <1>3, <2>1, Zenon DEF IsSkipped
  <2>3. ASSUME NEW d \in 1 .. k PROVE f[d] = Next0(f[d - 1])
    <3>1. d \in 0 .. k /\ d # 0
      OBVIOUS
    <3> QED
      BY <1>3, <3>1, Zenon DEF IsSkipped
  <2> QED
    BY <2>2, <2>3
<1> HIDE DEF Next0
<1> DEFINE Good == {d \in 0 .. k : f[d] = q[d + 1]}
<1>6. 0 \in Good
  <2>1. 0 \in 0 .. k /\ 0 + 1 = 1
    OBVIOUS
  <2> QED
    BY <1>5, <2>1, Zenon
<1>7. ASSUME NEW d \in 1 .. k, d - 1 \in Good
      PROVE  d \in Good
  <2>1. d \in 0 .. k /\ d - 1 + 1 = d
    OBVIOUS
  <2>2. f[d - 1] = q[d]
    BY <1>7, <2>1, Zenon
  <2>3. f[d] = Next0(q[d])
    BY <1>5, <2>2
  <2> QED
    BY <1>1, <2>1, <2>3, Zenon
<1> HIDE DEF Good
<1>8. \A d \in 0 .. k : d \in Good
  BY <1>6, <1>7, UpTo
<1>9. f[k] = q[k + 1]
  <2>1. k \in 0 .. k
    OBVIOUS
  <2> QED
    BY <1>8, <2>1, Zenon DEF Good
<1> QED
  BY <1>4, <1>9

\* The state of the first loop of mdns_socket_listen.
ListenState(at, seen, stop) == [at |-> at, seen |-> seen, stop |-> stop]
Listening(at, seen) == ListenState(at, seen, FALSE)
Heard(s, at, seen) == [s EXCEPT !.at = at, !.seen = seen]

AskedFor(question) == [name |-> NameText(question.name), type |-> question.type]

\* The state of mdns_socket_listen after a question.
LEMMA ListenStateMoves ==
    ASSUME NEW at, NEW seen, NEW stop \in BOOLEAN, NEW x, NEW y
    PROVE  Heard(ListenState(at, seen, stop), x, y) = ListenState(x, y, stop)
<1>1. [ListenState(at, seen, stop) EXCEPT !.at = x] = ListenState(x, seen, stop)
  BY DEF ListenState
<1>2. [ListenState(x, seen, stop) EXCEPT !.seen = y] = ListenState(x, y, stop)
  BY DEF ListenState
<1> QED
  BY <1>1, <1>2, Zenon DEF Heard

\* The state of a listener that goes on, after a question.
LEMMA ListeningMoves ==
    \A at, seen, x, y : Heard(Listening(at, seen), x, y) = Listening(x, y)
<1> TAKE at, seen, x, y
<1> DEFINE stop == FALSE
<1>1. stop \in BOOLEAN
  OBVIOUS
<1> HIDE DEF stop
<1>2. Heard(ListenState(at, seen, stop), x, y) = ListenState(x, y, stop)
  BY <1>1, ListenStateMoves
<1> QED
  BY <1>2 DEF Listening, stop

\* What a listener that goes on knows.
LEMMA ListeningFields ==
    \A at, seen : /\ Listening(at, seen).at = at /\ Listening(at, seen).seen = seen
                  /\ Listening(at, seen).stop = FALSE
BY Zenon DEF Listening, ListenState

\* mdns_socket_listen reads a question that lies at its offset.
LEMMA QuestionHeard ==
    ASSUME NEW b, NEW at, NEW next, NEW question, QuestionAt(b, at, next, question), NEW seen
    PROVE  ListenNext(b, Listening(at, seen)) = Listening(next, Append(seen, AskedFor(question)))
<1> DEFINE s == Listening(at, seen)
           end == mdns_string_skip(b, at)
<1>1. /\ next \in Nat /\ mdns_string_extract(b, at) = NameText(question.name) /\ end = next - 4
      /\ ShortAt(b, next - 4) = question.type /\ ShortAt(b, next - 2) % TopBit = ClassIN
  BY Zenon DEF QuestionAt
<1>2. end # Nowhere /\ end + 4 = next
  BY QuestionSkips
<1>3. end + 2 = next - 2
  BY <1>1
<1>4. s.at = at /\ s.seen = seen /\ s.stop = FALSE
  BY ListeningFields
<1>5. ShortAt(b, end) = question.type /\ ~(ShortAt(b, end + 2) % TopBit \notin {ClassIN, ClassAny})
  BY <1>1, <1>3
<1>6. ListenNext(b, s) = [s EXCEPT !.at = next, !.seen = Append(seen, AskedFor(question))]
  <2> HIDE DEF s
  <2>1. mdns_string_skip(b, s.at) = end /\ mdns_string_extract(b, s.at) = NameText(question.name)
    BY <1>1, <1>4
  <2> HIDE DEF end
  <2> QED
    BY <1>2, <1>4, <1>5, <2>1, Zenon DEF ListenNext, AskedFor
<1> DEFINE z == Append(seen, AskedFor(question))
<1> HIDE DEF z
<1>7. Heard(s, next, z) = Listening(next, z)
  BY ListeningMoves
<1> HIDE DEF s
<1>8. [s EXCEPT !.at = next, !.seen = z] = Listening(next, z)
  BY <1>7, Zenon DEF Heard
<1> QED
  BY <1>6, <1>8 DEF s, z

IsListened(f, b, count) ==
    f = [k \in 0 .. count |->
            IF k = 0 THEN [at |-> HeaderSize, seen |-> <<>>, stop |-> FALSE]
            ELSE ListenNext(b, f[k - 1])]

\* What the callback gets to see of the questions.
ItemsAsked(items, questions, k, V) ==
    \A i \in 1 .. k : items[i] = AskedFor(questions[i]) /\ items[i] \in V

\* mdns_socket_listen reads questions that lie one behind the other.
LEMMA QuestionsHeard ==
    ASSUME NEW b, NEW q, NEW questions, NEW k \in Nat, QuestionsAt(b, q, questions, k),
           q[1] = HeaderSize, ShortAt(b, 4) = k, NEW V, NEW items,
           ItemsAsked(items, questions, k, V)
    PROVE  mdns_socket_listen(b) = Row(items, k)
<1>0. \A i \in 1 .. k : items[i] = AskedFor(questions[i]) /\ items[i] \in V
  BY DEF ItemsAsked
<1> USE <1>0
<1> DEFINE base == [at |-> HeaderSize, seen |-> <<>>, stop |-> FALSE]
           State(d) == Listening(q[d + 1], Row(items, d))
           g == [d \in 0 .. k |-> State(d)]
<1>1. State(0) = base
  <2>1. Row(items, 0) = <<>> /\ 0 + 1 = 1
    BY DEF Row
  <2> QED
    BY <2>1, Zenon DEF Listening, ListenState
<1>2. ASSUME NEW d \in 1 .. k
      PROVE  State(d) = ListenNext(b, State(d - 1))
  <2> DEFINE so == Row(items, d - 1)
  <2>1. d - 1 + 1 = d
    OBVIOUS
  <2>2. QuestionAt(b, q[d], q[d + 1], questions[d])
    BY DEF QuestionsAt
  <2>3. Append(so, items[d]) = Row(items, d)
    <3>1. d \in Nat \ {0} /\ \A i \in 1 .. d : items[i] \in V
      OBVIOUS
    <3> DEFINE none == <<>>
    <3>2. none \in Seq(V)
      OBVIOUS
    <3>3. Row(items, d - 1) \in Seq(V) /\ Row(items, d) \in Seq(V)
      BY <3>1, RowType
    <3>4. none \o Row(items, d) = Row(items, d) /\ none \o Row(items, d - 1) = Row(items, d - 1)
      BY <3>3
    <3> HIDE DEF none
    <3>5. Append(none \o Row(items, d - 1), items[d]) = none \o Row(items, d)
      BY <3>1, <3>2, RowGrows, ZenonT(30)
    <3> QED
      BY <3>4, <3>5
  <2>4. State(d - 1) = Listening(q[d], so)
    BY <2>1
  <2> HIDE DEF so
  <2>5. ListenNext(b, Listening(q[d], so)) = Listening(q[d + 1], Append(so, AskedFor(questions[d])))
    BY <2>2, QuestionHeard
  <2> HIDE DEF State
  <2>6. AskedFor(questions[d]) = items[d]
    OBVIOUS
  <2>7. ListenNext(b, State(d - 1)) = Listening(q[d + 1], Row(items, d))
    BY <2>3, <2>4, <2>5, <2>6
  <2> QED
    BY <2>7 DEF State
<1> HIDE DEF base, State
<1>3. IsListened(g, b, k)
  <2>1. \A d \in 0 .. k : State(d) = IF d = 0 THEN base ELSE ListenNext(b, g[d - 1])
    <3> TAKE d \in 0 .. k
    <3>1. CASE d = 0
      BY <1>1, <3>1
    <3>2. CASE d # 0
      <4>1. d \in 1 .. k /\ d - 1 \in 0 .. k
        BY <3>2
      <4>2. g[d - 1] = State(d - 1)
        BY <4>1
      <4> HIDE DEF g
      <4> QED
        BY <1>2, <3>2, <4>1, <4>2, Zenon
    <3> QED
      BY <3>1, <3>2
  <2> QED
    BY <2>1, Zenon DEF IsListened, base
<1> DEFINE f == CHOOSE h : IsListened(h, b, k)
<1>4. IsListened(f, b, k)
  BY <1>3, Zenon
<1>5. mdns_socket_listen(b) = f[k].seen
  <2>1. mdns_socket_listen(b)
          = (CHOOSE h : IsListened(h, b, ShortAt(b, 4)))[ShortAt(b, 4)].seen
    BY DEF mdns_socket_listen, IsListened
  <2> QED
    BY <2>1
<1> HIDE DEF f
<1> DEFINE Good == {d \in 0 .. k : f[d] = State(d)}
<1>6. 0 \in Good
  <2>1. 0 \in 0 .. k
    OBVIOUS
  <2>2. f[0] = base
    BY <1>4, <2>1, Zenon DEF IsListened, base
  <2> QED
    BY <1>1, <2>1, <2>2
<1>7. ASSUME NEW d \in 1 .. k, d - 1 \in Good
      PROVE  d \in Good
  <2>1. d \in 0 .. k /\ d # 0 /\ f[d - 1] = State(d - 1)
    BY <1>7
  <2>2. f[d] = ListenNext(b, f[d - 1])
    BY <1>4, <2>1, Zenon DEF IsListened
  <2> QED
    BY <1>2, <2>1, <2>2
<1> HIDE DEF Good
<1>8. \A d \in 0 .. k : d \in Good
  BY <1>6, <1>7, UpTo
<1>9. f[k] = State(k)
  BY <1>8 DEF Good
<1>10. State(k).seen = Row(items, k)
  BY ListeningFields DEF State
<1> QED
  BY <1>5, <1>9, <1>10

-----------------------------------------------------------------------------
(* The head of a message.                                                  *)

Longer(t, s, n, k, a) ==
    t \in Seq(Octet) /\ Len(t) = k /\ \A b : Has(b, 0, t) => Has(b, 0, s) /\ Has(b, n, a)

\* Two bytes behind a sequence.
LEMMA TwoMore ==
    ASSUME NEW s \in Seq(Octet), NEW n \in Nat, Len(s) = n, NEW a \in Seq(Octet), Len(a) = 2,
           NEW k, k = n + 2
    PROVE  Longer(s \o a, s, n, k, a)
<1>1. s \o a \in Seq(Octet) /\ Len(s \o a) = Len(s) + Len(a)
  BY Lengths
<1>2. ASSUME NEW b, Has(b, 0, s \o a)
      PROVE  Has(b, 0, s) /\ Has(b, n, a)
  <2>1. 0 \in Nat /\ 0 + Len(s) = n
    OBVIOUS
  <2>2. Has(b, 0, s) /\ Has(b, 0 + Len(s), a)
    BY <1>2, <2>1, HasParts
  <2> QED
    BY <2>1, <2>2
<1> QED
  BY <1>1, <1>2 DEF Longer

\* Six numbers of two bytes each, one behind the other.
LEMMA SixParts ==
    ASSUME NEW a1 \in Seq(Octet), Len(a1) = 2, NEW a2 \in Seq(Octet), Len(a2) = 2,
           NEW a3 \in Seq(Octet), Len(a3) = 2, NEW a4 \in Seq(Octet), Len(a4) = 2,
           NEW a5 \in Seq(Octet), Len(a5) = 2, NEW a6 \in Seq(Octet), Len(a6) = 2
    PROVE  LET s == a1 \o a2 \o a3 \o a4 \o a5 \o a6
           IN /\ s \in Seq(Octet) /\ Len(s) = 12
              /\ \A b : Has(b, 0, s) =>
                    Has(b, 4, a3) /\ Has(b, 6, a4) /\ Has(b, 8, a5) /\ Has(b, 10, a6)
<1> DEFINE s2 == a1 \o a2
           s3 == s2 \o a3
           s4 == s3 \o a4
           s5 == s4 \o a5
           s6 == s5 \o a6
<1>1. s2 \in Seq(Octet) /\ Len(s2) = 4 /\ \A b : Has(b, 0, s2) => Has(b, 0, a1) /\ Has(b, 2, a2)
  <2>1. 2 \in Nat /\ 4 = 2 + 2
    OBVIOUS
  <2>2. Longer(a1 \o a2, a1, 2, 4, a2)
    BY <2>1, TwoMore
  <2> QED
    BY <2>2 DEF Longer
<1> HIDE DEF s2
<1>2. s3 \in Seq(Octet) /\ Len(s3) = 6 /\ \A b : Has(b, 0, s3) => Has(b, 0, s2) /\ Has(b, 4, a3)
  <2>1. 4 \in Nat /\ 6 = 4 + 2
    OBVIOUS
  <2>2. Longer(s2 \o a3, s2, 4, 6, a3)
    BY <1>1, <2>1, TwoMore
  <2> QED
    BY <2>2 DEF Longer
<1> HIDE DEF s3
<1>3. s4 \in Seq(Octet) /\ Len(s4) = 8 /\ \A b : Has(b, 0, s4) => Has(b, 0, s3) /\ Has(b, 6, a4)
  <2>1. 6 \in Nat /\ 8 = 6 + 2
    OBVIOUS
  <2>2. Longer(s3 \o a4, s3, 6, 8, a4)
    BY <1>2, <2>1, TwoMore
  <2> QED
    BY <2>2 DEF Longer
<1> HIDE DEF s4
<1>4. s5 \in Seq(Octet) /\ Len(s5) = 10 /\ \A b : Has(b, 0, s5) => Has(b, 0, s4) /\ Has(b, 8, a5)
  <2>1. 8 \in Nat /\ 10 = 8 + 2
    OBVIOUS
  <2>2. Longer(s4 \o a5, s4, 8, 10, a5)
    BY <1>3, <2>1, TwoMore
  <2> QED
    BY <2>2 DEF Longer
<1> HIDE DEF s5
<1>5. s6 \in Seq(Octet) /\ Len(s6) = 12 /\ \A b : Has(b, 0, s6) => Has(b, 0, s5) /\ Has(b, 10, a6)
  <2>1. 10 \in Nat /\ 12 = 10 + 2
    OBVIOUS
  <2>2. Longer(s5 \o a6, s5, 10, 12, a6)
    BY <1>4, <2>1, TwoMore
  <2> QED
    BY <2>2 DEF Longer
<1> HIDE DEF s6
<1>6. /\ s6 \in Seq(Octet) /\ Len(s6) = 12
      /\ \A b : Has(b, 0, s6) => Has(b, 4, a3) /\ Has(b, 6, a4) /\ Has(b, 8, a5) /\ Has(b, 10, a6)
  BY <1>2, <1>3, <1>4, <1>5, Zenon
<1> QED
  BY <1>6 DEF s6, s5, s4, s3, s2

\* The counts of a header, as they are read.
CountsAt(b, questions, answers, authority, additional) ==
    /\ questions \in UInt16 => ShortAt(b, 4) = questions
    /\ answers \in UInt16 => ShortAt(b, 6) = answers
    /\ authority \in UInt16 => ShortAt(b, 8) = authority
    /\ additional \in UInt16 => ShortAt(b, 10) = additional

\* The header of a message: its four counts are read as they were written.
LEMMA HeaderReads ==
    ASSUME NEW id \in Nat, NEW flags \in Nat, NEW questions \in Nat, NEW answers \in Nat,
           NEW authority \in Nat, NEW additional \in Nat
    PROVE  LET header == Header(id, flags, questions, answers, authority, additional)
           IN /\ header \in Seq(Octet) /\ Len(header) = HeaderSize
              /\ \A b : Has(b, 0, header) => CountsAt(b, questions, answers, authority, additional)
<1> DEFINE a1 == Short(id)
           a2 == Short(flags)
           a3 == Short(questions)
           a4 == Short(answers)
           a5 == Short(authority)
           a6 == Short(additional)
           s == a1 \o a2 \o a3 \o a4 \o a5 \o a6
<1>1. /\ a1 \in Seq(Octet) /\ Len(a1) = 2 /\ a2 \in Seq(Octet) /\ Len(a2) = 2
      /\ a3 \in Seq(Octet) /\ Len(a3) = 2 /\ a4 \in Seq(Octet) /\ Len(a4) = 2
      /\ a5 \in Seq(Octet) /\ Len(a5) = 2 /\ a6 \in Seq(Octet) /\ Len(a6) = 2
  BY ShortBytes
<1> HIDE DEF a1, a2, a3, a4, a5, a6
<1>2. /\ s \in Seq(Octet) /\ Len(s) = 12
      /\ \A b : Has(b, 0, s) => Has(b, 4, a3) /\ Has(b, 6, a4) /\ Has(b, 8, a5) /\ Has(b, 10, a6)
  BY <1>1, SixParts, ZenonT(30)
<1>3. Header(id, flags, questions, answers, authority, additional) = s
  BY DEF Header, a1, a2, a3, a4, a5, a6
<1> HIDE DEF s
<1>4. ASSUME NEW b, Has(b, 0, s)
      PROVE  CountsAt(b, questions, answers, authority, additional)
  <2>1. Has(b, 4, a3) /\ Has(b, 6, a4) /\ Has(b, 8, a5) /\ Has(b, 10, a6)
    BY <1>2, <1>4, Zenon
  <2>2. questions \in UInt16 => ShortAt(b, 4) = questions
    BY <2>1, ShortReads DEF a3
  <2>3. answers \in UInt16 => ShortAt(b, 6) = answers
    BY <2>1, ShortReads DEF a4
  <2>4. authority \in UInt16 => ShortAt(b, 8) = authority
    BY <2>1, ShortReads DEF a5
  <2>5. additional \in UInt16 => ShortAt(b, 10) = additional
    BY <2>1, ShortReads DEF a6
  <2> QED
    BY <2>2, <2>3, <2>4, <2>5, Zenon DEF CountsAt
<1> QED
  BY <1>2, <1>3, <1>4 DEF HeaderSize

\* A buffer with other bytes.
LEMMA BytesPut ==
    ASSUME NEW bytes, NEW size, NEW ok \in BOOLEAN, NEW compress \in BOOLEAN, NEW table, NEW added, NEW more
    PROVE  [[bytes |-> bytes, size |-> size, ok |-> ok, compress |-> compress, table |-> table,
             added |-> added] EXCEPT !.bytes = more]
             = [bytes |-> more, size |-> size, ok |-> ok, compress |-> compress, table |-> table,
                added |-> added]
OBVIOUS

\* The header is what a new buffer holds first.
LEMMA HeadPut ==
    ASSUME NEW size, NEW compress \in BOOLEAN, NEW header \in Seq(Octet)
    PROVE  PutBytes(Buffer(size, compress), header)
             = [bytes |-> header, size |-> size, ok |-> TRUE, compress |-> compress,
                table |-> <<>>, added |-> 0]
<1> DEFINE m == [bytes |-> header, size |-> size, ok |-> TRUE, compress |-> compress,
                 table |-> <<>>, added |-> 0]
           none == <<>>
<1>1. none \o header = header
  OBVIOUS
<1>2. PutBytes(Buffer(size, compress), header) = m
  <2> DEFINE ok == TRUE
             zero == 0
             Made(x) == [bytes |-> x, size |-> size, ok |-> ok, compress |-> compress,
                         table |-> none, added |-> zero]
  <2>1. ok \in BOOLEAN
    OBVIOUS
  <2>2. Buffer(size, compress) = Made(none) /\ m = Made(header)
    BY Zenon DEF Buffer
  <2>3. Buffer(size, compress).bytes = none
    BY Zenon DEF Buffer
  <2>4. PutBytes(Buffer(size, compress), header) = [Buffer(size, compress) EXCEPT !.bytes = header]
    <3> HIDE DEF none
    <3> QED
      BY <1>1, <2>3, Zenon DEF PutBytes
  <2> HIDE DEF none, ok, zero, m
  <2>5. [Made(none) EXCEPT !.bytes = header] = Made(header)
    BY <2>1, BytesPut
  <2> HIDE DEF Made
  <2> QED
    BY <2>2, <2>4, <2>5, Zenon
<1> QED
  BY <1>2

\* A buffer with the head only.
LEMMA HeadReady ==
    ASSUME NEW size \in Nat, size <= 16384, NEW compress \in BOOLEAN, NEW header \in Seq(Octet),
           compress => Len(header) <= size, NEW Known
    PROVE  LET m == PutBytes(Buffer(size, compress), header)
           IN /\ Ready(m, {}, Known) /\ m.ok /\ m.compress = compress /\ m.bytes = header
              /\ m.size = size
<1> DEFINE m == [bytes |-> header, size |-> size, ok |-> TRUE, compress |-> compress,
                 table |-> <<>>, added |-> 0]
           none == <<>>
<1>1. none \in Seq(Nat) /\ Len(none) = 0 /\ none \o header = header
  OBVIOUS
<1>2. PutBytes(Buffer(size, compress), header) = m
  BY HeadPut
<1>3. m \in Buf
  BY <1>1 DEF Buf
<1>4. Within({}, m.bytes) /\ Fits(m)
  BY DEF Within, Fits
<1>5. TableMeans(m.table, m.bytes, {}, Known)
  <2>1. \A e \in 1 .. Len(none) : EntryMeans(m.bytes, {}, Known, none[e])
    <3> HIDE DEF none, m
    <3> QED
      BY <1>1
  <2> QED
    BY <2>1 DEF TableMeans
<1>6. Ready(m, {}, Known)
  BY <1>3, <1>4, <1>5 DEF Ready
<1> QED
  BY <1>2, <1>6

-----------------------------------------------------------------------------
(* A query.                                                                *)

\* The first k questions are written behind the head.
AskedMade(n, questions, k, Known) ==
    /\ Ready(n, {}, Known)
    /\ \E p : /\ p[1] = HeaderSize /\ p[k + 1] = Len(n.bytes)
              /\ \A b : Later(b, n.bytes, {}) => QuestionsAt(b, p, questions, k)

\* No question is written yet.
LEMMA AskedBegins ==
    ASSUME NEW m, NEW Known, Ready(m, {}, Known), Len(m.bytes) = HeaderSize, NEW questions
    PROVE  AskedMade(m, questions, 0, Known)
<1> DEFINE start == HeaderSize
           p == [i \in {1} |-> start]
<1> HIDE DEF start
<1>1. p[1] = start /\ p[0 + 1] = start
  OBVIOUS
<1>2. \A b : QuestionsAt(b, p, questions, 0)
  BY DEF QuestionsAt
<1> HIDE DEF p
<1>3. p[1] = HeaderSize /\ p[0 + 1] = Len(m.bytes)
  BY <1>1 DEF start
<1> QED
  BY <1>2, <1>3, Zenon DEF AskedMade

\* One question more, behind the others.
LEMMA AskedGoesOn ==
    ASSUME NEW m, NEW n, NEW Known, NEW questions, NEW k \in Nat \ {0},
           AskedMade(m, questions, k - 1, Known), After(m, n),
           QuestionMade(m, n, questions[k], Known)
    PROVE  AskedMade(n, questions, k, Known)
<1> DEFINE at == Len(m.bytes)
           end == Len(n.bytes)
<1>1. /\ Ready(n, {}, Known) /\ n.ok
      /\ \A b : Later(b, n.bytes, {}) => QuestionAt(b, at, end, questions[k])
  BY DEF QuestionMade
<1>2. LaterOf(n.bytes, {}, m.bytes, {})
  <2>1. n \in Buf
    BY <1>1 DEF Ready
  <2>2. m \in Buf
    BY DEF AskedMade, Ready
  <2> QED
    BY <1>1, <2>1, <2>2, LaterAfter
<1> HIDE DEF at, end
<1>4. PICK q : /\ q[1] = HeaderSize /\ q[(k - 1) + 1] = at
               /\ \A b : Later(b, m.bytes, {}) => QuestionsAt(b, q, questions, k - 1)
  BY Zenon DEF AskedMade, at
<1> DEFINE p == [i \in 1 .. k + 1 |-> IF i = k + 1 THEN end ELSE q[i]]
<1>5. /\ p[1] = HeaderSize /\ p[k + 1] = end /\ p[k] = at
      /\ \A i \in 1 .. k - 1 : p[i] = q[i] /\ p[i + 1] = q[i + 1]
  <2>1. 1 # k + 1 /\ k # k + 1 /\ 1 \in 1 .. k + 1 /\ k \in 1 .. k + 1 /\ k + 1 \in 1 .. k + 1 /\ k - 1 + 1 = k
    OBVIOUS
  <2>2. p[1] = HeaderSize /\ p[k + 1] = end
    BY <1>4, <2>1
  <2>3. p[k] = at
    BY <1>4, <2>1
  <2>4. \A i \in 1 .. k - 1 : p[i] = q[i] /\ p[i + 1] = q[i + 1]
    OBVIOUS
  <2> QED
    BY <2>2, <2>3, <2>4
<1> HIDE DEF p
<1>6. ASSUME NEW b, Later(b, n.bytes, {})
      PROVE  QuestionsAt(b, p, questions, k)
  <2>1. QuestionsAt(b, q, questions, k - 1)
    BY <1>2, <1>4, <1>6, Zenon DEF LaterOf
  <2>2. QuestionAt(b, at, end, questions[k])
    BY <1>1, <1>6, Zenon
  <2>3. ASSUME NEW i \in 1 .. k
        PROVE  QuestionAt(b, p[i], p[i + 1], questions[i])
    <3>1. CASE i = k
      BY <1>5, <2>2, <3>1
    <3>2. CASE i # k
      <4>1. i \in 1 .. k - 1
        BY <3>2
      <4>2. QuestionAt(b, q[i], q[i + 1], questions[i])
        BY <2>1, <4>1, Zenon DEF QuestionsAt
      <4> QED
        BY <1>5, <4>1, <4>2, Zenon
    <3> QED
      BY <3>1, <3>2
  <2> QED
    BY <2>3, Zenon DEF QuestionsAt
<1> QED
  BY <1>1, <1>5, <1>6, Zenon DEF AskedMade, end

\* The questions of a query.
Asks(questions, Known) ==
    /\ Len(questions) \in Nat
    /\ \A k \in 1 .. Len(questions) :
          /\ questions[k].name \in Known /\ questions[k].name \in DnsName
          /\ questions[k].type \in UInt16

\* A question of a query only adds bytes.
LEMMA AskAfter ==
    ASSUME NEW question, question.name \in DnsName, question.type \in UInt16, NEW m \in Buf
    PROVE  After(m, AddQuestion(m, question))
<1>1. CASE m.ok
  <2>1. AddQuestion(m, question)
          = PutIfRoom(mdns_string_make(m, question.name), 0, QuestionTail(question))
    BY <1>1, Zenon DEF AddQuestion, QuestionTail
  <2> QED
    BY <2>1, QuestionAfter
<1>2. CASE ~m.ok
  <2>1. AddQuestion(m, question) = m
    BY <1>2, Zenon DEF AddQuestion
  <2> QED
    BY <2>1, AfterSelf
<1> QED
  BY <1>1, <1>2

IsAsked(f, m, questions) ==
    f = [k \in 0 .. Len(questions) |->
            IF k = 0 THEN m ELSE AddQuestion(f[k - 1], questions[k])]

\* The buffer that the questions are written to.
QueryStart(q, size) == PutBytes(Buffer(size, FALSE), Header(0, 0, Len(q.questions), 0, 0, 0))

AskRun(f, q, size) ==
    /\ f[0] = QueryStart(q, size)
    /\ \A k \in 1 .. Len(q.questions) : f[k] = AddQuestion(f[k - 1], q.questions[k])
    /\ mdns_multiquery_send(q, size).ok =>
          /\ ~(size < HeaderSize + 6 * Len(q.questions))
          /\ mdns_multiquery_send(q, size) = f[Len(q.questions)]

\* The loop over the questions of a query.
LEMMA AskRounds ==
    ASSUME NEW q, NEW Known, Asks(q.questions, Known), NEW size, QueryStart(q, size) \in Buf
    PROVE  \E f : AskRun(f, q, size)
<1> DEFINE questions == q.questions
           last == Len(questions)
           m == QueryStart(q, size)
           step == [x \in (1 .. last) \X Buf |-> AddQuestion(x[2], questions[x[1]])]
<1>1. last \in Nat
  BY DEF Asks
<1>2. \A k \in 1 .. last, s \in Buf : step[<<k, s>>] = AddQuestion(s, questions[k])
  <2> TAKE k \in 1 .. last, s \in Buf
  <2> DEFINE x == <<k, s>>
  <2>1. x \in (1 .. last) \X Buf /\ x[1] = k /\ x[2] = s
    OBVIOUS
  <2> HIDE DEF x
  <2>2. step[x] = AddQuestion(s, questions[k])
    BY <2>1
  <2> QED
    BY <2>2 DEF x
<1> HIDE DEF step
<1>3. RoundsStay(step, Buf, last)
  <2> SUFFICES ASSUME NEW k \in 1 .. last, NEW s \in Buf
               PROVE  step[<<k, s>>] \in Buf
    BY Zenon DEF RoundsStay
  <2>1. AddQuestion(s, questions[k]) \in Buf
    BY AskAfter DEF After, Asks
  <2> QED
    BY <1>2, <2>1, Zenon
<1> HIDE DEF last, m
<1>4. PICK g \in [0 .. last -> Buf] : IsLoop(g, m, step, last)
  BY <1>1, <1>3, Rounds DEF m
<1>5. \A k \in 0 .. last : (IF k = 0 THEN m ELSE step[<<k, g[k - 1]>>])
                           = IF k = 0 THEN m ELSE AddQuestion(g[k - 1], questions[k])
  <2> TAKE k \in 0 .. last
  <2>2. CASE k # 0
    <3>1. k \in 1 .. last /\ g[k - 1] \in Buf
      BY <1>1, <1>4, <2>2
    <3> QED
      BY <1>2, <2>2, <3>1, Zenon
  <2> QED
    BY <2>2, Zenon
<1>6. IsAsked(g, m, questions)
  BY <1>4, <1>5, Zenon DEF IsAsked, IsLoop, last
<1> DEFINE f == CHOOSE h : IsAsked(h, m, questions)
<1>7. IsAsked(f, m, questions)
  BY <1>6, Zenon
<1>8. mdns_multiquery_send(q, size)
        = IF questions = <<>> \/ size < HeaderSize + 6 * Len(questions) THEN Fail(m)
          ELSE f[Len(questions)]
  BY DEF mdns_multiquery_send, IsAsked, m, QueryStart
<1> HIDE DEF f
<1>9. ~Fail(m).ok
  <2>1. m \in Buf
    BY DEF m
  <2> QED
    BY <2>1 DEF Fail, Buf
<1>10. /\ 0 \in 0 .. Len(questions)
       /\ \A k \in 1 .. Len(questions) : k \in 0 .. Len(questions) /\ k # 0
  BY <1>1 DEF last
<1>11. f[0] = m
  BY <1>7, <1>10, Zenon DEF IsAsked
<1>12. \A k \in 1 .. Len(questions) : f[k] = AddQuestion(f[k - 1], questions[k])
  BY <1>7, <1>10, ZenonT(30) DEF IsAsked
<1> QED
  BY <1>8, <1>9, <1>11, <1>12, Zenon DEF AskRun, m

\* The size of a buffer.
Sized(size) == size \in Nat /\ size <= 16384

\* A buffer has no room for more questions than 16 bits can count.
LEMMA FewQuestions ==
    ASSUME NEW size, Sized(size), NEW n \in Nat, ~(size < HeaderSize + 6 * n)
    PROVE  n \in UInt16
<1>1. n <= 16384
  BY DEF HeaderSize, Sized
<1> QED
  BY <1>1, Shorts

\* A query is heard as it was meant: mdns_socket_listen after mdns_multiquery_send.
LEMMA QueryHeard ==
    ASSUME NEW Known, Alike(Known), NEW q, Asks(q.questions, Known), NEW size, Sized(size),
           mdns_multiquery_send(q, size).ok
    PROVE  mdns_socket_listen(mdns_multiquery_send(q, size).bytes)
             = [k \in 1 .. Len(q.questions) |-> AskedFor(q.questions[k])]
<1> DEFINE questions == q.questions
           last == Len(questions)
           header == Header(0, 0, last, 0, 0, 0)
           m == QueryStart(q, size)
<1>1. /\ last \in Nat
      /\ \A k \in 1 .. last : /\ questions[k].name \in Known /\ questions[k].name \in DnsName
                              /\ questions[k].type \in UInt16
  BY DEF Asks
<1> HIDE DEF last, questions
<1>2. /\ header \in Seq(Octet) /\ Len(header) = HeaderSize
      /\ \A b : Has(b, 0, header) => CountsAt(b, last, 0, 0, 0)
  BY <1>1, HeaderReads
<1> HIDE DEF header
<1>3. Ready(m, {}, Known) /\ m.ok /\ ~m.compress /\ m.bytes = header
  <2> DEFINE compress == FALSE
  <2>1. compress \in BOOLEAN /\ ~compress
    OBVIOUS
  <2> HIDE DEF compress
  <2>2. LET x == PutBytes(Buffer(size, compress), header)
        IN /\ Ready(x, {}, Known) /\ x.ok /\ x.compress = compress /\ x.bytes = header
           /\ x.size = size
    BY <1>2, <2>1, HeadReady DEF Sized
  <2>3. m = PutBytes(Buffer(size, compress), header)
    BY DEF QueryStart, header, last, questions, compress
  <2> HIDE DEF m
  <2> QED
    BY <2>1, <2>2, <2>3
<1>4. m \in Buf
  BY <1>3 DEF Ready
<1>5. PICK f : AskRun(f, q, size)
  BY <1>4, AskRounds
<1> DEFINE n == mdns_multiquery_send(q, size)
<1>6. /\ f[0] = m
      /\ \A k \in 1 .. last : f[k] = AddQuestion(f[k - 1], questions[k])
      /\ n = f[last] /\ ~(size < HeaderSize + 6 * last)
  BY <1>5, Zenon DEF AskRun, last, questions
<1>7. n.ok
  OBVIOUS
<1> HIDE DEF m, n
<1> DEFINE Good == {k \in 0 .. last : After(m, f[k]) /\ (f[k].ok => AskedMade(f[k], questions, k, Known))
                                      /\ ~f[k].compress}
<1>8. 0 \in Good
  <2>1. After(m, f[0])
    BY <1>4, <1>6, AfterSelf
  <2>2. AskedMade(f[0], questions, 0, Known)
    BY <1>2, <1>3, <1>6, AskedBegins
  <2>3. ~f[0].compress /\ 0 \in 0 .. last
    BY <1>1, <1>3, <1>6
  <2> QED
    BY <2>1, <2>2, <2>3
<1>9. ASSUME NEW k \in 1 .. last, k - 1 \in Good
      PROVE  k \in Good
  <2> DEFINE x == f[k - 1]
             y == f[k]
             question == questions[k]
  <2>1. /\ After(m, x) /\ (x.ok => AskedMade(x, questions, k - 1, Known)) /\ ~x.compress
        /\ y = AddQuestion(x, question)
    BY <1>6, <1>9
  <2>2. /\ question.name \in Known /\ question.name \in DnsName /\ question.type \in UInt16
    BY <1>1
  <2>3. x \in Buf /\ k \in Nat \ {0} /\ k \in 0 .. last
    BY <2>1 DEF After
  <2> HIDE DEF x, y
  <2>4. After(x, y)
    <3> HIDE DEF question
    <3> QED
      BY <2>1, <2>2, <2>3, AskAfter
  <2>5. After(m, y)
    BY <1>4, <2>1, <2>4, AfterTrans
  <2>6. ASSUME y.ok
        PROVE  AskedMade(y, questions, k, Known)
    <3>1. x.ok /\ AskedMade(x, questions, k - 1, Known)
      BY <2>1, <2>4, <2>6 DEF After
    <3>2. Ready(x, {}, Known)
      BY <3>1 DEF AskedMade
    <3>3. y = PutIfRoom(mdns_string_make(x, question.name), 0, QuestionTail(question))
      BY <2>1, <3>1, Zenon DEF AddQuestion, QuestionTail
    <3>4. QuestionMade(x, y, question, Known)
      <4> HIDE DEF question
      <4> DEFINE zero == 0
      <4>1. zero \in Nat /\ (x.compress => 4 <= zero)
        BY <2>1
      <4>2. y = PutIfRoom(mdns_string_make(x, question.name), zero, QuestionTail(question))
        BY <3>3
      <4> HIDE DEF zero
      <4> QED
        BY <2>2, <2>6, <3>1, <3>2, <4>1, <4>2, QuestionWritten
    <3> QED
      BY <2>3, <2>4, <3>1, <3>4, AskedGoesOn
  <2>7. ~y.compress
    BY <2>1, <2>4 DEF After
  <2> QED
    BY <2>3, <2>5, <2>6, <2>7 DEF y
<1> HIDE DEF Good
<1>10. \A k \in 0 .. last : k \in Good
  BY <1>1, <1>8, <1>9, UpTo
<1>11. After(m, n) /\ AskedMade(n, questions, last, Known)
  <2>1. last \in Good
    BY <1>1, <1>10
  <2> QED
    BY <1>6, <1>7, <2>1 DEF Good
<1> DEFINE b == n.bytes
<1>12. b \in Seq(Octet) /\ Later(b, b, {}) /\ Later(b, header, {})
  <2>1. n \in Buf /\ Later(n.bytes, m.bytes, {})
    BY <1>7, <1>11 DEF After
  <2>2. b \in Seq(Octet)
    BY <2>1 DEF Buf
  <2> QED
    BY <1>3, <2>1, <2>2, LaterSelf
<1>13. PICK p : /\ p[1] = HeaderSize /\ p[last + 1] = Len(b)
                /\ \A c : Later(c, b, {}) => QuestionsAt(c, p, questions, last)
  BY <1>11, Zenon DEF AskedMade
<1>14. QuestionsAt(b, p, questions, last)
  BY <1>12, <1>13, Zenon
<1> HIDE DEF b
<1>15. ShortAt(b, 4) = last
  <2>1. Has(b, 0, header)
    BY <1>2, <1>12 DEF Has, Later
  <2>2. last \in UInt16
    BY <1>1, <1>6, FewQuestions
  <2> QED
    BY <1>2, <2>1, <2>2, Zenon DEF CountsAt
<1> DEFINE items == [k \in 1 .. last |-> AskedFor(questions[k])]
           V == {AskedFor(questions[k]) : k \in 1 .. last}
<1>16. ItemsAsked(items, questions, last, V)
  BY DEF ItemsAsked
<1>17. Row(items, last) = items
  BY DEF Row
<1> HIDE DEF items, V
<1>18. mdns_socket_listen(b) = Row(items, last)
  BY <1>1, <1>13, <1>14, <1>15, <1>16, QuestionsHeard
<1>19. mdns_socket_listen(n.bytes) = items
  BY <1>17, <1>18 DEF b
<1> QED
  BY <1>19 DEF n, items, last, questions

-----------------------------------------------------------------------------
(* The records of an answer.                                               *)

\* A record with another class and another time to live.
Kin(s, r) ==
    /\ s.type = r.type /\ s.name = r.name /\ s.class \in UInt16 /\ s.ttl \in Ttl
    /\ r.type \in {TypePTR, TypeSRV} => s.target = r.target
    /\ r.type = TypeSRV => s.port = r.port
    /\ r.type \in {TypeA, TypeAAAA} => s.addr = r.addr
    /\ r.type = TypeTXT => s.key = r.key /\ s.value = r.value

Restamped(r, class, ttl) == [r EXCEPT !.ttl = ttl, !.class = class]
Classified(r, class, ttl) == [r EXCEPT !.class = class, !.ttl = ttl]

\* The types of records differ.
LEMMA TypesDiffer ==
    /\ TypeA # TypeSRV /\ TypeA # TypePTR /\ TypeA # TypeTXT /\ TypeA # TypeAAAA
    /\ TypeAAAA # TypeSRV /\ TypeAAAA # TypePTR /\ TypeAAAA # TypeTXT
    /\ TypeSRV # TypePTR /\ TypeSRV # TypeTXT /\ TypePTR # TypeTXT
BY DEF TypeA, TypePTR, TypeTXT, TypeAAAA, TypeSRV

\* The types of records are numbers of 16 bits.
LEMMA TypesShort ==
    TypeA \in UInt16 /\ TypePTR \in UInt16 /\ TypeTXT \in UInt16 /\ TypeAAAA \in UInt16 /\ TypeSRV \in UInt16
BY Shorts DEF TypeA, TypePTR, TypeTXT, TypeAAAA, TypeSRV

PointerRecord == [type : {TypePTR}, name : DnsName, class : UInt16, ttl : Ttl, target : DnsName]
ServiceRecord ==
    [type : {TypeSRV}, name : DnsName, class : UInt16, ttl : Ttl, target : DnsName, port : UInt16]

\* A record is a pointer, a service or an address.
LEMMA RecordKinds ==
    ASSUME NEW r \in Record
    PROVE  \/ r \in PointerRecord \/ r \in ServiceRecord
           \/ r \in Address(TypeA, 4) \/ r \in Address(TypeAAAA, 16)
BY Zenon DEF Record, PointerRecord, ServiceRecord

\* Another class and time to live leave a pointer what it is.
LEMMA PointerKin ==
    ASSUME NEW r \in PointerRecord, NEW class \in UInt16, NEW ttl \in Ttl
    PROVE  Kin(Restamped(r, class, ttl), r) /\ Kin(Classified(r, class, ttl), r) /\ r.type = TypePTR
BY TypesDiffer DEF PointerRecord, Kin, Restamped, Classified

\* Another class and time to live leave a service what it is.
LEMMA ServiceKin ==
    ASSUME NEW r \in ServiceRecord, NEW class \in UInt16, NEW ttl \in Ttl
    PROVE  Kin(Restamped(r, class, ttl), r) /\ Kin(Classified(r, class, ttl), r) /\ r.type = TypeSRV
BY TypesDiffer DEF ServiceRecord, Kin, Restamped, Classified

\* Another class and time to live leave an address what it is.
LEMMA AddressKin ==
    ASSUME NEW type \in {TypeA, TypeAAAA}, NEW length, NEW r \in Address(type, length),
           NEW class \in UInt16, NEW ttl \in Ttl
    PROVE  Kin(Restamped(r, class, ttl), r) /\ Kin(Classified(r, class, ttl), r) /\ r.type = type
<1> DEFINE A == {addr \in Seq(Octet) : Len(addr) = length}
<1>1. r \in [type : {type}, name : DnsName, class : UInt16, ttl : Ttl, addr : A]
  BY Zenon DEF Address
<1> HIDE DEF A
<1> QED
  BY <1>1, TypesDiffer DEF Kin, Restamped, Classified

\* Another class and time to live leave a text what it is.
LEMMA TextKin ==
    ASSUME NEW r \in TextRecord, NEW class \in UInt16, NEW ttl \in Ttl
    PROVE  Kin(Restamped(r, class, ttl), r) /\ Kin(Classified(r, class, ttl), r) /\ r.type = TypeTXT
<1> DEFINE K == Seq(Printable \ {EqualByte})
           V == Seq(Octet)
<1>1. r \in [type : {TypeTXT}, name : DnsName, class : UInt16, ttl : Ttl, key : K, value : V]
  BY Zenon DEF TextRecord
<1> HIDE DEF K, V
<1> QED
  BY <1>1, TypesDiffer DEF Kin, Restamped, Classified

\* Every record keeps what is no class and no time to live.
LEMMA RecordKin ==
    ASSUME NEW r \in Record \cup TextRecord, NEW class \in UInt16, NEW ttl \in Ttl
    PROVE  Kin(Restamped(r, class, ttl), r) /\ Kin(Classified(r, class, ttl), r)
<1>1. CASE r \in Record
  BY <1>1, RecordKinds, PointerKin, ServiceKin, AddressKin
<1>2. CASE r \in TextRecord
  BY <1>2, TextKin
<1> QED
  BY <1>1, <1>2

\* What every record has.
LEMMA RecordFields ==
    ASSUME NEW r \in Record \cup TextRecord
    PROVE  /\ r.class \in UInt16 /\ r.ttl \in Ttl /\ r.name \in DnsName
           /\ r \in Record => r.type # TypeTXT
           /\ r \in TextRecord => r.type = TypeTXT
<1>1. ASSUME r \in PointerRecord
      PROVE  /\ r.class \in UInt16 /\ r.ttl \in Ttl /\ r.name \in DnsName /\ r.type # TypeTXT
  BY <1>1, TypesDiffer DEF PointerRecord
<1>2. ASSUME r \in ServiceRecord
      PROVE  /\ r.class \in UInt16 /\ r.ttl \in Ttl /\ r.name \in DnsName /\ r.type # TypeTXT
  BY <1>2, TypesDiffer DEF ServiceRecord
<1>3. ASSUME NEW type \in {TypeA, TypeAAAA}, NEW length, r \in Address(type, length)
      PROVE  /\ r.class \in UInt16 /\ r.ttl \in Ttl /\ r.name \in DnsName /\ r.type # TypeTXT
  <2> DEFINE A == {addr \in Seq(Octet) : Len(addr) = length}
  <2>1. r \in [type : {type}, name : DnsName, class : UInt16, ttl : Ttl, addr : A]
    BY <1>3, Zenon DEF Address
  <2> HIDE DEF A
  <2> QED
    BY <2>1, TypesDiffer
<1>4. ASSUME r \in TextRecord
      PROVE  /\ r.class \in UInt16 /\ r.ttl \in Ttl /\ r.name \in DnsName /\ r.type = TypeTXT
  <2> DEFINE K == Seq(Printable \ {EqualByte})
             V == Seq(Octet)
  <2>1. r \in [type : {TypeTXT}, name : DnsName, class : UInt16, ttl : Ttl, key : K, value : V]
    BY <1>4, Zenon DEF TextRecord
  <2> HIDE DEF K, V
  <2> QED
    BY <2>1
<1>5. r \in Record => /\ r.class \in UInt16 /\ r.ttl \in Ttl /\ r.name \in DnsName /\ r.type # TypeTXT
  BY <1>1, <1>2, <1>3, RecordKinds, TypesDiffer DEF PointerRecord, ServiceRecord
<1> QED
  BY <1>4, <1>5

\* A small number is a time to live.
LEMMA ShortTtl ==
    ASSUME NEW n \in Nat, n < 65536
    PROVE  n \in Ttl
<1>1. n \div 65536 = 0
  BY SMT
<1>2. n \div 65536 \in UInt16
  BY <1>1, Shorts
<1> QED
  BY <1>2 DEF Ttl

\* The class a record gets is one, and the time to live it gets is one.
LEMMA ClassOf ==
    ASSUME NEW given \in Nat, NEW flush
    PROVE  (given % 2) + (IF flush THEN TopBit ELSE 0) \in UInt16
<1> DEFINE low == given % 2
           last == 65535
<1>1. low \in 0 .. 1
  BY SMT
<1> HIDE DEF low
<1>2. low + TopBit \in Nat /\ low + TopBit <= last /\ low + 0 \in Nat /\ low + 0 <= last /\ last \in Nat
  BY <1>1 DEF TopBit
<1> HIDE DEF last
<1>3. low + TopBit \in 0 .. last /\ low + 0 \in 0 .. last
  BY <1>2
<1>4. low + (IF flush THEN TopBit ELSE 0) \in 0 .. last
  BY <1>3
<1>5. UInt16 = 0 .. last
  BY DEF UInt16, last
<1>6. low + (IF flush THEN TopBit ELSE 0) \in UInt16
  BY <1>4, <1>5
<1> QED
  BY <1>6 DEF low

\* mdns_record_update_rclass_ttl changes class and time to live only.
LEMMA UpdateKin ==
    ASSUME NEW r \in Record \cup TextRecord, NEW class \in UInt16, NEW ttl \in Ttl
    PROVE  Kin(mdns_record_update_rclass_ttl(r, class, ttl), r)
<1> DEFINE given == IF r.class = 0 THEN class ELSE r.class
           flush == given >= TopBit /\ r.type # TypePTR
           c == (given % 2) + (IF flush THEN TopBit ELSE 0)
           t == IF r.ttl = 0 \/ ttl = 0 THEN ttl ELSE r.ttl
<1>1. given \in Nat /\ t \in Ttl
  BY RecordFields, ShortNumber
<1> HIDE DEF given, flush
<1>2. c \in UInt16
  BY <1>1, ClassOf
<1>3. mdns_record_update_rclass_ttl(r, class, ttl) = Restamped(r, c, t)
  BY Zenon DEF mdns_record_update_rclass_ttl, Restamped, given, flush
<1> HIDE DEF c, t
<1> QED
  BY <1>1, <1>2, <1>3, RecordKin

\* The functions that send an answer.
Hows == {"unicast", "answer", "announce", "goodbye"}

\* What the functions that send do to a record changes class and time to live only.
LEMMA StampKin ==
    ASSUME NEW how \in Hows, NEW r \in Record \cup TextRecord
    PROVE  Kin(Stamp(how, r), r)
<1> DEFINE announced == TopBit + ClassIN
           ten == 10
           sixty == 60
           none == 0
           t == IF r.ttl = 0 THEN ten ELSE r.ttl
<1>1. ClassIN \in UInt16 /\ announced \in UInt16 /\ ten \in Ttl /\ sixty \in Ttl /\ none \in Ttl
  BY Shorts, ClassNumber, ShortTtl DEF ClassIN
<1>2. /\ how = "unicast" => Stamp(how, r) = IF IsText(r) THEN mdns_record_update_rclass_ttl(r, ClassIN, ten)
                                            ELSE Classified(r, ClassIN, t)
      /\ how = "answer" => Stamp(how, r) = mdns_record_update_rclass_ttl(r, ClassIN, sixty)
      /\ how = "announce" => Stamp(how, r) = mdns_record_update_rclass_ttl(r, announced, sixty)
      /\ how = "goodbye" => Stamp(how, r) = mdns_record_update_rclass_ttl(r, ClassIN, none)
  BY DEF Stamp, Classified
<1>3. t \in Ttl
  BY <1>1, RecordFields
<1> HIDE DEF announced, ten, sixty, none, t
<1> QED
  BY <1>1, <1>2, <1>3, UpdateKin, RecordKin DEF Hows

\* A record with another class and time to live can be sent.
LEMMA KinSendable ==
    ASSUME NEW Known, NEW r \in Record, RecordNames(r) \subseteq Known, NEW s, Kin(s, r)
    PROVE  Sendable(s, Known) /\ ~IsText(s)
<1>1. r.name \in Known
  BY DEF RecordNames
<1>2. CASE r \in PointerRecord
  <2>1. r.type = TypePTR /\ r.target \in DnsName
    BY <1>2 DEF PointerRecord
  <2>2. r.target \in Known
    BY <2>1 DEF RecordNames
  <2> QED
    BY <1>1, <2>1, <2>2, TypesDiffer, TypesShort DEF Kin, Sendable, HasHead, IsText
<1>3. CASE r \in ServiceRecord
  <2>1. r.type = TypeSRV /\ r.port \in UInt16
    BY <1>3 DEF ServiceRecord
  <2>2. r.target \in Known
    BY <2>1 DEF RecordNames
  <2> QED
    BY <1>1, <2>1, <2>2, TypesDiffer, TypesShort DEF Kin, Sendable, HasHead, IsText
<1>4. ASSUME NEW type \in {TypeA, TypeAAAA}, NEW length, r \in Address(type, length)
      PROVE  r.type = type /\ r.addr \in Seq(Octet) /\ Len(r.addr) = length
  <2> DEFINE A == {addr \in Seq(Octet) : Len(addr) = length}
  <2>1. r \in [type : {type}, name : DnsName, class : UInt16, ttl : Ttl, addr : A]
    BY <1>4, Zenon DEF Address
  <2> HIDE DEF A
  <2>2. r.type = type /\ r.addr \in A
    BY <2>1
  <2> QED
    BY <2>2 DEF A
<1>5. CASE r \in Address(TypeA, 4)
  <2>1. r.type = TypeA /\ r.addr \in Seq(Octet) /\ Len(r.addr) = 4
    BY <1>4, <1>5
  <2> QED
    BY <1>1, <2>1, TypesDiffer, TypesShort DEF Kin, Sendable, HasHead, IsText
<1>6. CASE r \in Address(TypeAAAA, 16)
  <2>1. r.type = TypeAAAA /\ r.addr \in Seq(Octet) /\ Len(r.addr) = 16
    BY <1>4, <1>6
  <2> QED
    BY <1>1, <2>1, TypesDiffer, TypesShort DEF Kin, Sendable, HasHead, IsText
<1> QED
  BY <1>2, <1>3, <1>5, <1>6, RecordKinds

\* A text with another class and time to live can be sent.
LEMMA TextKinSendable ==
    ASSUME NEW Known, NEW r \in TextRecord, RecordNames(r) \subseteq Known, NEW s, Kin(s, r)
    PROVE  TextSendable(s, Known) /\ IsText(s)
<1> DEFINE K == Seq(Printable \ {EqualByte})
           V == Seq(Octet)
<1>1. r \in [type : {TypeTXT}, name : DnsName, class : UInt16, ttl : Ttl, key : K, value : V]
  BY Zenon DEF TextRecord
<1>2. r.key # <<>> /\ Len(KeyValue(r)) <= 255
  BY Zenon DEF TextRecord
<1> HIDE DEF K, V
<1>3. r.type = TypeTXT /\ r.key \in K /\ r.value \in V
  BY <1>1
<1>4. r.name \in Known
  BY DEF RecordNames
<1>5. s.type = TypeTXT /\ s.key = r.key /\ s.value = r.value /\ HasHead(s, Known)
  BY <1>3, <1>4, TypesShort DEF Kin, HasHead
<1>6. KeyValue(s) = KeyValue(r)
  BY <1>5 DEF KeyValue
<1> QED
  BY <1>2, <1>3, <1>5, <1>6 DEF TextSendable, IsText, K, V

\* The items of a section are what was meant.
OthersMeant(entry, others) ==
    [k \in 1 .. Len(others) |-> Meant(entry, others[k], MeantData(others[k]))]

TextsMeant(entry, texts) ==
    IF texts = <<>> THEN <<>> ELSE <<Meant(entry, texts[1], PairsMeant(texts))>>

ItemsMeant(entry, records) ==
    OthersMeant(entry, Chosen(records, FALSE)) \o TextsMeant(entry, Chosen(records, TRUE))

IsItems(items, V, entry, records) ==
    /\ items \in Seq(V) /\ ItemsOf(items, entry, records)
    /\ Len(items) = mdns_answer_get_record_count(records)
    /\ Row(items, Len(items)) = items

\* What is meant by a section, record by record.
LEMMA ItemsAreMeant ==
    ASSUME NEW S, NEW records \in Seq(S), NEW entry
    PROVE  \E V : IsItems(ItemsMeant(entry, records), V, entry, records)
<1> DEFINE texts == Chosen(records, TRUE)
           others == Chosen(records, FALSE)
           A == OthersMeant(entry, others)
           B == TextsMeant(entry, texts)
           e == Meant(entry, texts[1], PairsMeant(texts))
           V == {A[k] : k \in 1 .. Len(others)} \cup {e}
           items == A \o B
           none == <<>>
<1>1. texts \in Seq(S) /\ others \in Seq(S)
  BY ChosenCounts
<1>2. Len(texts) + Len(others) = Len(records)
  BY ChosenParts
<1> HIDE DEF texts, others, e
<1>3. A = [k \in 1 .. Len(others) |-> A[k]]
  BY DEF OthersMeant
<1>4. \A k \in 1 .. Len(others) : A[k] = Meant(entry, others[k], MeantData(others[k]))
  BY DEF OthersMeant
<1>5. Len(others) \in Nat /\ Len(texts) \in Nat
  BY <1>1
<1> HIDE DEF A
<1>6. A \in Seq(V) /\ Len(A) = Len(others)
  <2>1. \A k \in 1 .. Len(others) : A[k] \in V
    OBVIOUS
  <2> HIDE DEF V
  <2>2. [k \in 1 .. Len(others) |-> A[k]] \in Seq(V) /\ Len([k \in 1 .. Len(others) |-> A[k]]) = Len(others)
    BY <1>5, <2>1
  <2> QED
    BY <1>3, <2>2, Zenon
<1>7. e \in V
  OBVIOUS
<1> HIDE DEF V
<1>8. B \in Seq(V) /\ Len(B) = (IF texts = none THEN 0 ELSE 1) /\ (texts # none => B[1] = e)
  <2>1. CASE texts = none
    <3>1. B = none
      BY <2>1 DEF TextsMeant
    <3>2. none \in Seq(V) /\ Len(none) = 0
      OBVIOUS
    <3> HIDE DEF B, none
    <3> QED
      BY <2>1, <3>1, <3>2
  <2>2. CASE texts # none
    <3>1. B = <<e>>
      BY <2>2 DEF TextsMeant, e
    <3>2. <<e>> \in Seq(V) /\ Len(<<e>>) = 1 /\ <<e>>[1] = e
      BY <1>7
    <3> QED
      BY <2>2, <3>1, <3>2
  <2> QED
    BY <2>1, <2>2
<1> HIDE DEF B
<1>9. IsJoin(V, items, A, B)
  BY <1>6, <1>8, JoinAny
<1> HIDE DEF items
<1>10. /\ items \in Seq(V) /\ Len(items) = Len(A) + Len(B)
       /\ \A i \in 1 .. Len(A) : items[i] = A[i]
       /\ \A i \in 1 .. Len(B) : items[Len(A) + i] = B[i]
  BY <1>9 DEF IsJoin
<1>11. ItemsOf(items, entry, records)
  <2>1. \A i \in 1 .. Len(others) : items[i] = Meant(entry, others[i], MeantData(others[i]))
    BY <1>4, <1>6, <1>10
  <2>2. ASSUME texts # none
        PROVE  items[Len(others) + 1] = e
    <3>1. Len(B) = 1 /\ B[1] = e
      BY <1>8, <2>2
    <3>2. 1 \in 1 .. Len(B)
      BY <3>1
    <3> QED
      BY <1>6, <1>10, <3>1, <3>2
  <2> QED
    BY <2>1, <2>2, Zenon DEF ItemsOf, texts, others, e
<1>12. Len(items) = mdns_answer_get_record_count(records)
  <2>1. mdns_answer_get_record_count(records)
          = Len(records) - Len(texts) + (IF texts = none THEN 0 ELSE 1)
    BY DEF mdns_answer_get_record_count, texts
  <2>2. Len(items) = Len(others) + (IF texts = none THEN 0 ELSE 1)
    BY <1>6, <1>8, <1>10
  <2>3. Len(records) - Len(texts) = Len(others)
    BY <1>2, <1>5
  <2> QED
    BY <2>1, <2>2, <2>3
<1>13. Row(items, Len(items)) = items
  BY <1>10 DEF Row
<1> QED
  BY <1>10, <1>11, <1>12, <1>13, Zenon DEF IsItems, items, A, B, ItemsMeant, texts, others

\* Records that are texts in both sequences, or in none, are as many.
LEMMA ChosenSame ==
    ASSUME NEW S, NEW records \in Seq(S), NEW T, NEW stamped \in Seq(T), Len(records) = Len(stamped),
           NEW text, \A k \in 1 .. Len(records) : IsText(records[k]) <=> IsText(stamped[k])
    PROVE  Len(Chosen(records, text)) = Len(Chosen(stamped, text))
<1> DEFINE a == Chosen(records, text)
           b == Chosen(stamped, text)
           last == Len(records)
<1>1. PICK c : CountsFrom(c, records, text, a)
  BY ChosenCounts
<1>2. PICK d : CountsFrom(d, stamped, text, b)
  BY ChosenCounts
<1> HIDE DEF a, b
<1> DEFINE Good == {k \in 0 .. last : c[k] = d[k]}
<1>3. last \in Nat
  OBVIOUS
<1>4. 0 \in Good
  BY <1>1, <1>2, <1>3 DEF CountsFrom
<1>5. ASSUME NEW k \in 1 .. last, k - 1 \in Good
      PROVE  k \in Good
  <2>1. c[k - 1] = d[k - 1] /\ k \in 0 .. last
    BY <1>3, <1>5
  <2> DEFINE x == IsText(records[k])
             y == IsText(stamped[k])
  <2>2. x = y
    <3>1. x \in BOOLEAN /\ y \in BOOLEAN /\ (x <=> y)
      BY DEF IsText
    <3> HIDE DEF x, y
    <3> QED
      BY <3>1
  <2>3. IF x = text THEN c[k] = c[k - 1] + 1 ELSE c[k] = c[k - 1]
    BY <1>1 DEF CountsFrom
  <2>4. IF y = text THEN d[k] = d[k - 1] + 1 ELSE d[k] = d[k - 1]
    BY <1>2 DEF CountsFrom
  <2> HIDE DEF x, y
  <2>5. c[k] = d[k]
    BY <2>1, <2>2, <2>3, <2>4
  <2> QED
    BY <2>1, <2>5
<1> HIDE DEF Good
<1>6. \A k \in 0 .. last : k \in Good
  BY <1>3, <1>4, <1>5, UpTo
<1>7. c[last] = d[last]
  <2>1. last \in Good
    BY <1>3, <1>6
  <2> QED
    BY <2>1 DEF Good
<1>8. c[last] = Len(a) /\ d[last] = Len(b)
  BY <1>1, <1>2 DEF CountsFrom
<1> QED
  BY <1>7, <1>8 DEF a, b

\* mdns_answer_get_record_count does not see class and time to live.
LEMMA SameCount ==
    ASSUME NEW S, NEW records \in Seq(S), NEW T, NEW stamped \in Seq(T), Len(records) = Len(stamped),
           \A k \in 1 .. Len(records) : IsText(records[k]) <=> IsText(stamped[k])
    PROVE  mdns_answer_get_record_count(records) = mdns_answer_get_record_count(stamped)
<1> DEFINE a == Chosen(records, TRUE)
           b == Chosen(stamped, TRUE)
           none == <<>>
<1>1. a \in Seq(S) /\ b \in Seq(T)
  BY ChosenCounts
<1>2. Len(a) = Len(b)
  <2> DEFINE text == TRUE
  <2> HIDE DEF text
  <2>1. Len(Chosen(records, text)) = Len(Chosen(stamped, text))
    BY ChosenSame
  <2> QED
    BY <2>1 DEF text
<1>3. /\ mdns_answer_get_record_count(records)
            = Len(records) - Len(a) + (IF a = none THEN 0 ELSE 1)
      /\ mdns_answer_get_record_count(stamped)
            = Len(stamped) - Len(b) + (IF b = none THEN 0 ELSE 1)
  BY DEF mdns_answer_get_record_count
<1> HIDE DEF a, b
<1>4. (a = none) <=> (b = none)
  <2>1. (a = <<>>) <=> Len(a) = 0
    BY <1>1
  <2>2. (b = <<>>) <=> Len(b) = 0
    BY <1>1
  <2> QED
    BY <1>2, <2>1, <2>2
<1> HIDE DEF none
<1> QED
  BY <1>2, <1>3, <1>4

\* The records of a section, as they are given.
Raw(records, Known) ==
    /\ records \in Seq(Record \cup TextRecord)
    /\ \A k \in 1 .. Len(records) : RecordNames(records[k]) \subseteq Known

\* The records of a section, stamped, can be sent and are as many.
LEMMA StampedRecords ==
    ASSUME NEW Known, NEW records, Raw(records, Known), NEW how \in Hows
    PROVE  LET stamped == StampAll(how, records)
           IN /\ \E S : IsRecords(stamped, S, Known)
              /\ mdns_answer_get_record_count(records) = mdns_answer_get_record_count(stamped)
<1> DEFINE stamped == StampAll(how, records)
           last == Len(records)
           S == {stamped[k] : k \in 1 .. last}
<1>1. records \in Seq(Record \cup TextRecord) /\ last \in Nat
  BY DEF Raw
<1>2. /\ stamped = [k \in 1 .. last |-> stamped[k]]
      /\ \A k \in 1 .. last : stamped[k] = Stamp(how, records[k])
  <2>1. DOMAIN records = 1 .. last
    BY <1>1
  <2> QED
    BY <2>1 DEF StampAll
<1> HIDE DEF stamped, last
<1>3. \A k \in 1 .. last : stamped[k] \in S
  OBVIOUS
<1> HIDE DEF S
<1>4. stamped \in Seq(S) /\ Len(stamped) = last
  <2>1. [k \in 1 .. last |-> stamped[k]] \in Seq(S) /\ Len([k \in 1 .. last |-> stamped[k]]) = last
    BY <1>1, <1>3
  <2> QED
    BY <1>2, <2>1, Zenon
<1>5. ASSUME NEW k \in 1 .. last
      PROVE  AnyRecord(stamped[k], Known) /\ (IsText(records[k]) <=> IsText(stamped[k]))
  <2> DEFINE r == records[k]
             s == stamped[k]
  <2>1. r \in Record \cup TextRecord
    BY <1>1 DEF last
  <2>2. RecordNames(r) \subseteq Known
    BY DEF Raw, last
  <2>3. s = Stamp(how, r)
    BY <1>2
  <2> HIDE DEF r, s
  <2>4. Kin(s, r)
    BY <2>1, <2>3, StampKin
  <2>5. CASE r \in Record
    <3>1. Sendable(s, Known) /\ ~IsText(s)
      BY <2>2, <2>4, <2>5, KinSendable
    <3>2. ~IsText(r)
      BY <2>1, <2>5, RecordFields DEF IsText
    <3> QED
      BY <3>1, <3>2 DEF AnyRecord, r, s
  <2>6. CASE r \in TextRecord
    <3>1. TextSendable(s, Known) /\ IsText(s)
      BY <2>2, <2>4, <2>6, TextKinSendable
    <3>2. IsText(r)
      BY <2>1, <2>6, RecordFields DEF IsText
    <3> QED
      BY <3>1, <3>2 DEF AnyRecord, r, s
  <2> QED
    BY <2>1, <2>5, <2>6
<1>6. IsRecords(stamped, S, Known)
  BY <1>4, <1>5 DEF IsRecords
<1>7. mdns_answer_get_record_count(records) = mdns_answer_get_record_count(stamped)
  BY <1>1, <1>4, <1>5, SameCount DEF last
<1> QED
  BY <1>6, <1>7 DEF stamped

\* MeantSection, record by record.
LEMMA SectionIsMeant ==
    ASSUME NEW S, NEW records, NEW how, NEW entry, StampAll(how, records) \in Seq(S)
    PROVE  MeantSection(how, entry, records) = ItemsMeant(entry, StampAll(how, records))
<1> DEFINE stamped == StampAll(how, records)
           texts == Chosen(stamped, TRUE)
           others == Chosen(stamped, FALSE)
<1>1. texts \in Seq(S) /\ others \in Seq(S)
  BY ChosenCounts
<1> HIDE DEF texts, others
<1>2. DOMAIN texts = 1 .. Len(texts) /\ DOMAIN others = 1 .. Len(others)
  BY <1>1
<1>3. MeantSection(how, entry, records)
        = [k \in DOMAIN others |-> Meant(entry, others[k], MeantData(others[k]))]
          \o IF texts = <<>> THEN <<>>
             ELSE <<Meant(entry, texts[1], [pairs |-> [k \in DOMAIN texts |-> PairMeant(texts[k])]])>>
  BY Zenon DEF MeantSection, PairMeant, stamped, texts, others
<1>4. ItemsMeant(entry, stamped) = OthersMeant(entry, others) \o TextsMeant(entry, texts)
  BY DEF ItemsMeant, texts, others
<1> QED
  BY <1>2, <1>3, <1>4, Zenon DEF OthersMeant, TextsMeant, PairsMeant, stamped

-----------------------------------------------------------------------------
(* Reading an answer.                                                      *)

\* A section of k records lies in a message, from here to the next one.
SectionAt(b, entry, from, next, items, k, V) ==
    /\ b \in Seq(Octet) /\ k \in Nat /\ ShortAt(b, 4 + 2 * entry) = k
    /\ InRow(items, k, V)
    /\ \E p : p[1] = from /\ p[k + 1] = next /\ ItemsAt(b, entry, p, items, k)

\* The next section of mdns_query_recv.
ReadSection(b, s, entry) ==
    IF s.stop THEN s ELSE mdns_records_parse(b, s, entry, ShortAt(b, 4 + 2 * entry))

\* One section of an answer, read behind the ones before it.
LEMMA SectionReads ==
    ASSUME NEW b, NEW entry, NEW from, NEW next, NEW items, NEW k, NEW V,
           SectionAt(b, entry, from, next, items, k, V), NEW seen \in Seq(V), NEW before
    PROVE  /\ ReadSection(b, Parsed(from, before, seen), entry) = Parsed(next, k, seen \o Row(items, k))
           /\ seen \o Row(items, k) \in Seq(V)
<1>1. /\ b \in Seq(Octet) /\ k \in Nat /\ ShortAt(b, 4 + 2 * entry) = k
      /\ InRow(items, k, V)
  BY Zenon DEF SectionAt
<1>2. PICK p : p[1] = from /\ p[k + 1] = next /\ ItemsAt(b, entry, p, items, k)
  BY Zenon DEF SectionAt
<1> DEFINE s == Parsed(from, before, seen)
<1>3. ~s.stop
  BY ParsedFields
<1> HIDE DEF s
<1>4. ReadSection(b, s, entry) = mdns_records_parse(b, s, entry, k)
  BY <1>1, <1>3, Zenon DEF ReadSection
<1>5. mdns_records_parse(b, Parsed(p[1], before, seen), entry, k)
        = Parsed(p[k + 1], k, seen \o Row(items, k))
  BY <1>1, <1>2, SectionParses
<1>6. seen \o Row(items, k) \in Seq(V)
  BY <1>1, RowType DEF InRow
<1> QED
  BY <1>2, <1>4, <1>5, <1>6 DEF s

\* mdns_query_recv: the questions skipped, then three sections.
LEMMA RecvReads ==
    ASSUME NEW b, NEW V, NEW x1, NEW x2, NEW x3, NEW x4, NEW i1, NEW i2, NEW i3, NEW k1, NEW k2, NEW k3,
           SectionAt(b, 1, x1, x2, i1, k1, V), SectionAt(b, 2, x2, x3, i2, k2, V),
           SectionAt(b, 3, x3, x4, i3, k3, V), SkipQuestions(b, ShortAt(b, 4)) = x1, x1 # Nowhere
    PROVE  mdns_query_recv(b) = (Row(i1, k1) \o Row(i2, k2)) \o Row(i3, k3)
<1> DEFINE none == <<>>
           start == [at |-> x1, parsed |-> 0, seen |-> none, stop |-> FALSE]
           s1 == none \o Row(i1, k1)
           s2 == s1 \o Row(i2, k2)
           s3 == s2 \o Row(i3, k3)
<1>1. start = Parsed(x1, 0, none)
  BY Zenon DEF Parsed, ParseState
<1>2. mdns_query_recv(b) = ReadSection(b, ReadSection(b, ReadSection(b, start, 1), 2), 3).seen
  BY Zenon DEF mdns_query_recv, ReadSection
<1>3. none \in Seq(V)
  OBVIOUS
<1> HIDE DEF none, start
<1>4. ReadSection(b, start, 1) = Parsed(x2, k1, s1) /\ s1 \in Seq(V)
  BY <1>1, <1>3, SectionReads
<1> HIDE DEF s1
<1>5. ReadSection(b, Parsed(x2, k1, s1), 2) = Parsed(x3, k2, s2) /\ s2 \in Seq(V)
  BY <1>4, SectionReads
<1> HIDE DEF s2
<1>6. ReadSection(b, Parsed(x3, k2, s2), 3) = Parsed(x4, k3, s3) /\ s3 \in Seq(V)
  BY <1>5, SectionReads
<1> HIDE DEF s3
<1>7. mdns_query_recv(b) = s3
  BY <1>2, <1>4, <1>5, <1>6, ParsedFields
<1>8. none \o Row(i1, k1) = Row(i1, k1)
  <2>1. k1 \in Nat /\ \A i \in 1 .. k1 : i1[i] \in V
    BY Zenon DEF SectionAt, InRow
  <2>2. Row(i1, k1) \in Seq(V)
    BY <2>1, RowType
  <2> QED
    BY <2>2 DEF none
<1> QED
  BY <1>7, <1>8 DEF s1, s2, s3

\* What was made of a section, in the finished message.
LEMMA SectionStands ==
    ASSUME NEW n, NEW entry, NEW start, NEW items, NEW k \in Nat, NEW Known,
           SectionMade(n, entry, start, items, k, Known), NEW b, Later(b, n.bytes, {}),
           ShortAt(b, 4 + 2 * entry) = k, NEW V, InRow(items, k, V)
    PROVE  SectionAt(b, entry, start, Len(n.bytes), items, k, V)
<1>1. PICK p : /\ p[1] = start /\ p[k + 1] = Len(n.bytes)
               /\ \A c : Later(c, n.bytes, {}) => ItemsAt(c, entry, p, items, k)
  BY Zenon DEF SectionMade
<1>2. ItemsAt(b, entry, p, items, k)
  BY <1>1, Zenon
<1>3. b \in Seq(Octet)
  BY Zenon DEF Later
<1> QED
  BY <1>1, <1>2, <1>3, Zenon DEF SectionAt

\* A section has no more records than its message has bytes.
LEMMA SectionCounts ==
    ASSUME NEW n, NEW entry, NEW start \in Nat, NEW items, NEW k \in Nat, NEW Known,
           SectionMade(n, entry, start, items, k, Known)
    PROVE  k \in UInt16
<1>1. start + k <= Len(n.bytes) /\ n \in Buf /\ Len(n.bytes) <= n.size /\ n.size <= 16384
  <2>1. Ready(n, {}, Known) /\ n.compress /\ start + k <= Len(n.bytes)
    BY Zenon DEF SectionMade
  <2> QED
    BY <2>1 DEF Ready, Fits
<1>2. n.size \in Int /\ Len(n.bytes) \in Nat
  BY <1>1 DEF Buf
<1>3. k <= 16384
  BY <1>1, <1>2
<1> QED
  BY <1>3, Shorts

-----------------------------------------------------------------------------
(* An answer.                                                              *)

\* A call of a function that answers, with these names.
Answers(q, Known) ==
    /\ Alike(Known) /\ q.how \in Hows
    /\ q.answer \in Record /\ RecordNames(q.answer) \subseteq Known
    /\ Raw(q.authority, Known) /\ Raw(q.additional, Known)
    /\ q.how = "unicast" => q.question.name \in Known /\ q.question.type \in UInt16

Asked(q) == IF q.how = "unicast" THEN 1 ELSE 0

AnswerStart(q, size) == PutBytes(Buffer(size, TRUE), RecordCounts(q))

AnswerAsked(q, size) ==
    IF q.how = "unicast" THEN mdns_answer_add_question_unicast(AnswerStart(q, size), q.question)
    ELSE AnswerStart(q, size)

AnswerFirst(q, size) == mdns_answer_add_record(AnswerAsked(q, size), StampAnswer(q.how, q.answer))
AnswerSecond(q, size) == AddSection(AnswerFirst(q, size), StampAll(q.how, q.authority))
AnswerThird(q, size) == AddSection(AnswerSecond(q, size), StampAll(q.how, q.additional))

\* What a section adds to the counts of the header.
LEMMA SectionNumber ==
    ASSUME NEW Known, NEW records, Raw(records, Known), NEW how \in Hows, NEW entry
    PROVE  /\ mdns_answer_get_record_count(records) \in Nat
           /\ mdns_answer_get_record_count(records)
                = mdns_answer_get_record_count(StampAll(how, records))
           /\ \E S : IsRecords(StampAll(how, records), S, Known)
           /\ \E V : IsItems(MeantSection(how, entry, records), V, entry, StampAll(how, records))
<1> DEFINE stamped == StampAll(how, records)
           items == MeantSection(how, entry, records)
<1>1. /\ mdns_answer_get_record_count(records) = mdns_answer_get_record_count(stamped)
      /\ \E S : IsRecords(stamped, S, Known)
  BY StampedRecords
<1>2. PICK S : IsRecords(stamped, S, Known)
  BY <1>1
<1>3. stamped \in Seq(S)
  BY <1>2 DEF IsRecords
<1>4. items = ItemsMeant(entry, stamped)
  BY <1>3, SectionIsMeant
<1> HIDE DEF items, stamped
<1>5. PICK V : IsItems(ItemsMeant(entry, stamped), V, entry, stamped)
  BY <1>3, ItemsAreMeant
<1>6. IsItems(items, V, entry, stamped)
  BY <1>4, <1>5
<1>7. items \in Seq(V) /\ Len(items) = mdns_answer_get_record_count(stamped)
  BY <1>6, Zenon DEF IsItems
<1>8. mdns_answer_get_record_count(records) \in Nat
  BY <1>1, <1>7
<1>9. \E W : IsItems(items, W, entry, stamped)
  BY <1>6
<1> QED
  BY <1>1, <1>8, <1>9 DEF items, stamped

\* The head of an answer.
LEMMA AnswerBegins ==
    ASSUME NEW q, NEW Known, Answers(q, Known), NEW size, Sized(size),
           ~(size < HeaderSize + 32 + 4)
    PROVE  LET m == AnswerStart(q, size)
           IN /\ Ready(m, {}, Known) /\ m.ok /\ m.compress /\ Len(m.bytes) = HeaderSize
              /\ \A b : Later(b, m.bytes, {}) =>
                     CountsAt(b, Asked(q), 1, mdns_answer_get_record_count(q.authority),
                              mdns_answer_get_record_count(q.additional))
<1> DEFINE c2 == mdns_answer_get_record_count(q.authority)
           c3 == mdns_answer_get_record_count(q.additional)
           flags == 33792
           asked == Asked(q)
           none == 0
           one == 1
           header == Header(none, flags, asked, one, c2, c3)
           compress == TRUE
           m == AnswerStart(q, size)
<1>1. /\ c2 \in Nat /\ c3 \in Nat /\ flags \in Nat /\ asked \in Nat /\ none \in Nat /\ one \in Nat
  BY SectionNumber DEF Answers, Asked
<1>2. size \in Nat /\ HeaderSize <= size
  BY DEF Sized, HeaderSize
<1>3. RecordCounts(q) = header
  BY DEF RecordCounts, Asked
<1>4. compress \in BOOLEAN
  OBVIOUS
<1> HIDE DEF c2, c3, flags, asked, none, one
<1>5. /\ header \in Seq(Octet) /\ Len(header) = HeaderSize
      /\ \A b : Has(b, 0, header) => CountsAt(b, asked, one, c2, c3)
  BY <1>1, HeaderReads
<1> HIDE DEF header, compress
<1>6. /\ Ready(PutBytes(Buffer(size, compress), header), {}, Known)
      /\ PutBytes(Buffer(size, compress), header).ok
      /\ PutBytes(Buffer(size, compress), header).compress = compress
      /\ PutBytes(Buffer(size, compress), header).bytes = header
  <2>1. compress => Len(header) <= size
    BY <1>2, <1>5
  <2>2. LET x == PutBytes(Buffer(size, compress), header)
        IN /\ Ready(x, {}, Known) /\ x.ok /\ x.compress = compress /\ x.bytes = header
           /\ x.size = size
    BY <1>4, <1>5, <2>1, HeadReady DEF Sized
  <2> QED
    BY <2>2
<1>7. m = PutBytes(Buffer(size, compress), header)
  BY <1>3 DEF AnswerStart, compress
<1> HIDE DEF m
<1>8. Ready(m, {}, Known) /\ m.ok /\ m.compress /\ m.bytes = header
  BY <1>6, <1>7 DEF compress
<1>9. ASSUME NEW b, Later(b, m.bytes, {})
      PROVE  CountsAt(b, asked, one, c2, c3)
  <2>1. Has(b, 0, header)
    BY <1>5, <1>8, <1>9 DEF Has, Later
  <2> QED
    BY <1>5, <2>1, Zenon
<1>10. Len(m.bytes) = HeaderSize
  BY <1>5, <1>8
<1> QED
  BY <1>8, <1>9, <1>10, Zenon DEF m, asked, one, c2, c3

\* The question of a unicast answer.
LEMMA UnicastAsks ==
    ASSUME NEW Known, Alike(Known), NEW question, question.name \in Known, question.type \in UInt16,
           NEW m, Ready(m, {}, Known), m.ok, Len(m.bytes) = HeaderSize
    PROVE  LET n == mdns_answer_add_question_unicast(m, question)
           IN After(m, n) /\ (n.ok => AskedMade(n, <<question>>, 1, Known))
<1> DEFINE n == mdns_answer_add_question_unicast(m, question)
           enough == 4
           questions == <<question>>
           one == 1
<1>1. n = PutIfRoom(mdns_string_make(m, question.name), enough, QuestionTail(question))
  BY Zenon DEF mdns_answer_add_question_unicast, QuestionTail
<1>2. m \in Buf /\ question.name \in DnsName /\ enough \in Nat /\ (m.compress => 4 <= enough)
  BY DEF Ready, Alike
<1>3. questions[1] = question /\ one \in Nat \ {0} /\ one - 1 = 0
  OBVIOUS
<1> HIDE DEF n, enough, questions
<1>4. After(m, n)
  BY <1>1, <1>2, QuestionAfter
<1>5. ASSUME n.ok
      PROVE  AskedMade(n, questions, one, Known)
  <2>1. QuestionMade(m, n, question, Known)
    BY <1>1, <1>2, <1>5, QuestionWritten
  <2>2. AskedMade(m, questions, 0, Known)
    BY AskedBegins
  <2>3. AskedMade(m, questions, one - 1, Known) /\ QuestionMade(m, n, questions[one], Known)
    BY <1>3, <2>1, <2>2
  <2> HIDE DEF one
  <2> QED
    BY <1>3, <1>4, <2>3, AskedGoesOn
<1> QED
  BY <1>4, <1>5 DEF n, questions, one

\* The record that answers, as a section of its own.
LEMMA FirstMade ==
    ASSUME NEW Known, Alike(Known), NEW s, Sendable(s, Known), NEW m, Ready(m, {}, Known), m.compress,
           NEW entry
    PROVE  LET n == mdns_answer_add_record(m, s)
           IN /\ After(m, n)
              /\ n.ok => SectionMade(n, entry, Len(m.bytes), <<Meant(entry, s, MeantData(s))>>, 1, Known)
<1> DEFINE n == mdns_answer_add_record(m, s)
           data == MeantData(s)
           item == Meant(entry, s, data)
           items == <<item>>
           one == 1
           start == Len(m.bytes)
<1>1. m \in Buf /\ start \in Nat
  BY DEF Ready, Buf
<1>2. After(m, n)
  BY <1>1, RecordAfter
<1>3. items[1] = item /\ one \in Nat \ {0} /\ one - 1 = 0
  OBVIOUS
<1> HIDE DEF items, start
<1>4. ASSUME n.ok
      PROVE  SectionMade(n, entry, start, items, one, Known)
  <2>1. m.ok
    BY <1>2, <1>4 DEF After
  <2>2. RecordMade(m, n, s, data, Known)
    BY <1>4, <2>1, RecordWritten
  <2>3. SectionMade(m, entry, start, items, 0, Known)
    BY SectionBegins DEF start
  <2>4. SectionMade(m, entry, start, items, one - 1, Known) /\ items[one] = Meant(entry, s, data)
    BY <1>3, <2>3
  <2> HIDE DEF one, n, data
  <2> QED
    BY <1>1, <1>2, <1>3, <2>2, <2>4, SectionGoesOn
<1> QED
  BY <1>2, <1>4 DEF n, items, one, start

Refreshed(r, ttl) == [r EXCEPT !.ttl = ttl]

\* The answer as a record without a time to live of its own.
LEMMA RefreshedRecord ==
    ASSUME NEW r \in Record, NEW ttl \in Ttl
    PROVE  Refreshed(r, ttl) \in Record /\ RecordNames(Refreshed(r, ttl)) = RecordNames(r)
<1> DEFINE s == Refreshed(r, ttl)
           Same(x) == /\ x.name = r.name /\ x.type = r.type
                      /\ r.type \in {TypePTR, TypeSRV} => x.target = r.target
<1>1. CASE r \in PointerRecord
  <2>1. s \in PointerRecord /\ Same(s)
    BY <1>1 DEF PointerRecord, Refreshed
  <2> HIDE DEF s
  <2> QED
    BY <2>1, Zenon DEF Record, PointerRecord, RecordNames, s
<1>2. CASE r \in ServiceRecord
  <2>1. s \in ServiceRecord /\ Same(s)
    BY <1>2 DEF ServiceRecord, Refreshed
  <2> HIDE DEF s
  <2> QED
    BY <2>1, Zenon DEF Record, ServiceRecord, RecordNames, s
<1>3. ASSUME NEW type \in {TypeA, TypeAAAA}, NEW length, r \in Address(type, length)
      PROVE  s \in Address(type, length) /\ Same(s)
  <2> DEFINE A == {addr \in Seq(Octet) : Len(addr) = length}
             T == [type : {type}, name : DnsName, class : UInt16, ttl : Ttl, addr : A]
  <2>1. Address(type, length) = T
    BY Zenon DEF Address
  <2> HIDE DEF A
  <2>2. r \in T
    BY <1>3, <2>1
  <2>3. s \in T /\ Same(s)
    BY <2>2, TypesDiffer DEF Refreshed
  <2> QED
    BY <2>1, <2>3
<1>4. CASE r \in Address(TypeA, 4) \/ r \in Address(TypeAAAA, 16)
  <2> DEFINE four == 4
             more == 16
  <2>1. r \in Address(TypeA, four) \/ r \in Address(TypeAAAA, more)
    BY <1>4
  <2> HIDE DEF four, more
  <2>2. (s \in Address(TypeA, four) \/ s \in Address(TypeAAAA, more)) /\ Same(s)
    BY <1>3, <2>1
  <2>3. s \in Record
    BY <2>2 DEF Record, four, more
  <2> HIDE DEF s
  <2>4. RecordNames(s) = RecordNames(r)
    BY <2>2, Zenon DEF RecordNames
  <2> QED
    BY <2>3, <2>4 DEF s
<1> QED
  BY <1>1, <1>2, <1>4, RecordKinds

\* The first record of an answer can be sent.
LEMMA AnswerSendable ==
    ASSUME NEW Known, NEW how \in Hows, NEW r \in Record, RecordNames(r) \subseteq Known
    PROVE  Sendable(StampAnswer(how, r), Known)
<1> DEFINE none == 0
           x == IF how = "unicast" THEN Refreshed(r, none) ELSE r
<1>1. none \in Ttl
  BY ShortTtl
<1>2. StampAnswer(how, r) = Stamp(how, x)
  BY Zenon DEF StampAnswer, Refreshed
<1> HIDE DEF none
<1>3. x \in Record /\ RecordNames(x) \subseteq Known
  BY <1>1, RefreshedRecord
<1> HIDE DEF x
<1>4. Kin(Stamp(how, x), x)
  BY <1>3, StampKin
<1> QED
  BY <1>2, <1>3, <1>4, KinSendable

\* The parts of an answer that was sent.
LEMMA AnswerParts ==
    ASSUME NEW q, NEW size, mdns_answer(q, size).ok, AnswerStart(q, size) \in Buf
    PROVE  ~(size < HeaderSize + 32 + 4) /\ mdns_answer(q, size) = AnswerThird(q, size)
<1> DEFINE m == AnswerStart(q, size)
           least == HeaderSize + 32 + 4
<1>1. mdns_answer(q, size) = IF size < least THEN Fail(m) ELSE AnswerThird(q, size)
  BY DEF mdns_answer, AnswerThird, AnswerSecond, AnswerFirst, AnswerAsked, AnswerStart
<1>2. ~Fail(m).ok
  <2> HIDE DEF m
  <2>1. m \in Buf
    BY DEF m
  <2> QED
    BY <2>1 DEF Fail, Buf
<1> HIDE DEF least
<1>3. ~(size < least)
  BY <1>1, <1>2
<1> QED
  BY <1>1, <1>3 DEF least

\* The items of a section are items.
LEMMA InRows ==
    ASSUME NEW V, NEW items \in Seq(V), NEW W, V \subseteq W
    PROVE  InRow(items, Len(items), W) /\ Len(items) \in Nat
BY DEF InRow

\* A buffer with a header is a buffer.
LEMMA HeadBuf ==
    ASSUME NEW size \in Nat, NEW compress \in BOOLEAN, NEW header \in Seq(Octet)
    PROVE  PutBytes(Buffer(size, compress), header) \in Buf
<1> DEFINE none == <<>>
           ok == TRUE
           zero == 0
           m == [bytes |-> header, size |-> size, ok |-> ok, compress |-> compress, table |-> none,
                 added |-> zero]
<1>1. none \in Seq(Nat) /\ ok \in BOOLEAN /\ zero \in Nat
  OBVIOUS
<1>2. PutBytes(Buffer(size, compress), header) = m
  BY HeadPut
<1> HIDE DEF none, ok, zero
<1>3. m \in Buf
  BY <1>1 DEF Buf
<1> QED
  BY <1>2, <1>3

\* The header of an answer is a buffer.
LEMMA AnswerStarts ==
    ASSUME NEW q, NEW Known, Answers(q, Known), NEW size, Sized(size)
    PROVE  AnswerStart(q, size) \in Buf
<1> DEFINE c2 == mdns_answer_get_record_count(q.authority)
           c3 == mdns_answer_get_record_count(q.additional)
           flags == 33792
           asked == Asked(q)
           none == 0
           one == 1
           header == Header(none, flags, asked, one, c2, c3)
           compress == TRUE
<1>1. /\ c2 \in Nat /\ c3 \in Nat /\ flags \in Nat /\ asked \in Nat /\ none \in Nat /\ one \in Nat
  BY SectionNumber DEF Answers, Asked
<1>2. AnswerStart(q, size) = PutBytes(Buffer(size, compress), header)
  BY DEF AnswerStart, RecordCounts, Asked
<1>3. compress \in BOOLEAN /\ size \in Nat
  BY DEF Sized
<1> HIDE DEF c2, c3, flags, asked, none, one, compress
<1>4. header \in Seq(Octet)
  BY <1>1, HeaderReads
<1> HIDE DEF header
<1> QED
  BY <1>2, <1>3, <1>4, HeadBuf

\* Where the questions of an answer end, when there are any.
LEMMA AskedStands ==
    ASSUME NEW n, NEW questions, NEW k \in Nat, NEW Known, AskedMade(n, questions, k, Known), NEW b,
           Later(b, n.bytes, {}), ShortAt(b, 4) = k
    PROVE  SkipQuestions(b, ShortAt(b, 4)) = Len(n.bytes)
<1>1. PICK p : /\ p[1] = HeaderSize /\ p[k + 1] = Len(n.bytes)
               /\ \A c : Later(c, n.bytes, {}) => QuestionsAt(c, p, questions, k)
  BY Zenon DEF AskedMade
<1>2. QuestionsAt(b, p, questions, k)
  BY <1>1, Zenon
<1>3. SkipQuestions(b, k) = p[k + 1]
  BY <1>1, <1>2, QuestionsSkip
<1> QED
  BY <1>1, <1>3

\* The question of a unicast answer is written behind the header.
LEMMA AskedPart ==
    ASSUME NEW q, NEW Known, Answers(q, Known), NEW size, AnswerStart(q, size).ok,
           Ready(AnswerStart(q, size), {}, Known), Len(AnswerStart(q, size).bytes) = HeaderSize
    PROVE  /\ After(AnswerStart(q, size), AnswerAsked(q, size))
           /\ AnswerAsked(q, size).ok =>
                 \E questions : AskedMade(AnswerAsked(q, size), questions, Asked(q), Known)
<1> DEFINE m == AnswerStart(q, size)
           n == AnswerAsked(q, size)
<1> HIDE DEF m
<1>1. CASE q.how = "unicast"
  <2> DEFINE question == q.question
             y == mdns_answer_add_question_unicast(m, question)
  <2>1. question.name \in Known /\ question.type \in UInt16 /\ Alike(Known)
    BY <1>1 DEF Answers
  <2>2. n = y /\ Asked(q) = 1
    BY <1>1 DEF AnswerAsked, Asked, m
  <2>3. Ready(m, {}, Known) /\ m.ok /\ Len(m.bytes) = HeaderSize
    BY DEF m
  <2> HIDE DEF question
  <2>4. LET z == mdns_answer_add_question_unicast(m, question)
        IN After(m, z) /\ (z.ok => AskedMade(z, <<question>>, 1, Known))
    BY <2>1, <2>3, UnicastAsks
  <2>5. After(m, n) /\ (n.ok => AskedMade(n, <<question>>, Asked(q), Known))
    BY <2>2, <2>4
  <2> QED
    BY <2>5 DEF m
<1>2. CASE q.how # "unicast"
  <2>1. n = m /\ Asked(q) = 0
    BY <1>2 DEF AnswerAsked, Asked, m
  <2>2. Ready(m, {}, Known) /\ Len(m.bytes) = HeaderSize /\ m \in Buf
    BY DEF m, Ready
  <2>3. AskedMade(m, <<>>, 0, Known)
    BY <2>2, AskedBegins
  <2>4. After(m, n) /\ AskedMade(n, <<>>, Asked(q), Known)
    BY <2>1, <2>2, <2>3, AfterSelf
  <2> QED
    BY <2>4 DEF m
<1> QED
  BY <1>1, <1>2

\* A section after what was there.
LEMMA SectionPart ==
    ASSUME NEW Known, Alike(Known), NEW records, Raw(records, Known), NEW how \in Hows, NEW entry,
           NEW m \in Buf
    PROVE  LET n == AddSection(m, StampAll(how, records))
           IN /\ After(m, n)
              /\ n.ok /\ Ready(m, {}, Known) /\ m.compress =>
                    SectionMade(n, entry, Len(m.bytes), MeantSection(how, entry, records),
                                mdns_answer_get_record_count(records), Known)
<1> DEFINE stamped == StampAll(how, records)
           items == MeantSection(how, entry, records)
           n == AddSection(m, stamped)
<1>1. /\ mdns_answer_get_record_count(records) = mdns_answer_get_record_count(stamped)
      /\ \E S : IsRecords(stamped, S, Known)
      /\ \E V : IsItems(items, V, entry, stamped)
  BY SectionNumber
<1> HIDE DEF stamped, items
<1>2. PICK S : IsRecords(stamped, S, Known)
  BY <1>1
<1>3. ItemsOf(items, entry, stamped)
  BY <1>1, Zenon DEF IsItems
<1>4. After(m, n)
  BY <1>2, SectionAfter
<1>5. ASSUME n.ok, Ready(m, {}, Known), m.compress
      PROVE  SectionMade(n, entry, Len(m.bytes), items, mdns_answer_get_record_count(stamped), Known)
  BY <1>2, <1>3, <1>5, SectionWritten
<1> QED
  BY <1>1, <1>4, <1>5 DEF stamped, items, n

\* An answer that was sent, written in four steps.
AnswerSteps(q, Known, m0, m1, m2, m3, m4) ==
    /\ After(m0, m1) /\ After(m1, m2) /\ After(m2, m3) /\ After(m3, m4) /\ m4.ok
    /\ \E questions : AskedMade(m1, questions, Asked(q), Known)
    /\ SectionMade(m2, 1, Len(m1.bytes),
                   <<Meant(1, StampAnswer(q.how, q.answer), MeantData(StampAnswer(q.how, q.answer)))>>,
                   1, Known)
    /\ SectionMade(m3, 2, Len(m2.bytes), MeantSection(q.how, 2, q.authority),
                   mdns_answer_get_record_count(q.authority), Known)
    /\ SectionMade(m4, 3, Len(m3.bytes), MeantSection(q.how, 3, q.additional),
                   mdns_answer_get_record_count(q.additional), Known)

\* The parts of an answer: header, question, answer, authority and additional records.
LEMMA AnswerMade ==
    ASSUME NEW q, NEW Known, Answers(q, Known), NEW size, AnswerThird(q, size).ok,
           AnswerStart(q, size).ok, Ready(AnswerStart(q, size), {}, Known),
           AnswerStart(q, size).compress, Len(AnswerStart(q, size).bytes) = HeaderSize
    PROVE  AnswerSteps(q, Known, AnswerStart(q, size), AnswerAsked(q, size), AnswerFirst(q, size),
                       AnswerSecond(q, size), AnswerThird(q, size))
<1> DEFINE m0 == AnswerStart(q, size)
           m1 == AnswerAsked(q, size)
           m2 == AnswerFirst(q, size)
           m3 == AnswerSecond(q, size)
           m4 == AnswerThird(q, size)
           s == StampAnswer(q.how, q.answer)
           how == q.how
           authority == q.authority
           additional == q.additional
           a == StampAll(how, authority)
           c == StampAll(how, additional)
<1>1. /\ m2 = mdns_answer_add_record(m1, s) /\ m3 = AddSection(m2, a) /\ m4 = AddSection(m3, c)
  BY DEF AnswerFirst, AnswerSecond, AnswerThird
<1>2. /\ Alike(Known) /\ how \in Hows /\ Raw(authority, Known) /\ Raw(additional, Known)
      /\ Sendable(s, Known)
  BY AnswerSendable DEF Answers
<1>3. /\ After(m0, m1)
      /\ m1.ok => \E questions : AskedMade(m1, questions, Asked(q), Known)
  BY AskedPart
<1>4. m4.ok /\ m0.compress
  OBVIOUS
<1> HIDE DEF m0, m1, m2, m3, m4, s, how, authority, additional
<1>5. m1 \in Buf
  BY <1>3 DEF After
<1>6. After(m1, m2)
  BY <1>1, <1>2, <1>5, RecordAfter
<1>7. m2 \in Buf
  BY <1>6 DEF After
<1>8. After(m2, m3)
  BY <1>1, <1>2, <1>7, SectionPart
<1>9. m3 \in Buf
  BY <1>8 DEF After
<1>10. After(m3, m4)
  BY <1>1, <1>2, <1>9, SectionPart
<1>11. m3.ok /\ m2.ok /\ m1.ok /\ m1.compress /\ m2.compress /\ m3.compress
  BY <1>3, <1>4, <1>6, <1>8, <1>10 DEF After
<1>12. \E questions : AskedMade(m1, questions, Asked(q), Known)
  BY <1>3, <1>11
<1>13. Ready(m1, {}, Known)
  BY <1>12 DEF AskedMade
<1> DEFINE first == <<Meant(1, s, MeantData(s))>>
           k2 == mdns_answer_get_record_count(authority)
           k3 == mdns_answer_get_record_count(additional)
           i2 == MeantSection(how, 2, authority)
           i3 == MeantSection(how, 3, additional)
<1>14. SectionMade(m2, 1, Len(m1.bytes), first, 1, Known)
  BY <1>1, <1>2, <1>11, <1>13, FirstMade
<1>15. Ready(m2, {}, Known)
  BY <1>14 DEF SectionMade
<1>16. SectionMade(m3, 2, Len(m2.bytes), i2, k2, Known)
  BY <1>1, <1>2, <1>7, <1>11, <1>15, SectionPart
<1>17. Ready(m3, {}, Known)
  BY <1>16 DEF SectionMade
<1>18. SectionMade(m4, 3, Len(m3.bytes), i3, k3, Known)
  BY <1>1, <1>2, <1>4, <1>9, <1>11, <1>17, SectionPart
<1> HIDE DEF first, k2, k3, i2, i3
<1>19. /\ After(m0, m1) /\ After(m1, m2) /\ After(m2, m3) /\ After(m3, m4) /\ m4.ok
       /\ \E questions : AskedMade(m1, questions, Asked(q), Known)
       /\ SectionMade(m2, 1, Len(m1.bytes), first, 1, Known)
       /\ SectionMade(m3, 2, Len(m2.bytes), i2, k2, Known)
       /\ SectionMade(m4, 3, Len(m3.bytes), i3, k3, Known)
  BY <1>3, <1>4, <1>6, <1>8, <1>10, <1>12, <1>14, <1>16, <1>18
<1> QED
  BY <1>19 DEF AnswerSteps, first, i2, i3, k2, k3, m0, m1, m2, m3, m4, s, how, authority, additional

\* What was later than a buffer is later than those before it.
LEMMA LaterChain ==
    ASSUME NEW m \in Buf, NEW n, After(m, n), n.ok, NEW b, Later(b, n.bytes, {})
    PROVE  Later(b, m.bytes, {}) /\ m.ok /\ n \in Buf
<1>1. n \in Buf /\ m.ok
  BY DEF After
<1>2. LaterOf(n.bytes, {}, m.bytes, {})
  BY <1>1, LaterAfter
<1> QED
  BY <1>1, <1>2 DEF LaterOf

\* What the parts hold is what mdns_query_recv reads.
LEMMA AnswerReads ==
    ASSUME NEW q, NEW Known, Answers(q, Known), NEW m0 \in Buf, NEW m1, NEW m2, NEW m3, NEW m4,
           AnswerSteps(q, Known, m0, m1, m2, m3, m4),
           \A b : Later(b, m0.bytes, {}) =>
                     CountsAt(b, Asked(q), 1, mdns_answer_get_record_count(q.authority),
                              mdns_answer_get_record_count(q.additional))
    PROVE  mdns_query_recv(m4.bytes) = MeantMessage(q)
<1> DEFINE answer == StampAnswer(q.how, q.answer)
           item == Meant(1, answer, MeantData(answer))
           i1 == <<item>>
           i2 == MeantSection(q.how, 2, q.authority)
           i3 == MeantSection(q.how, 3, q.additional)
           k1 == 1
           k2 == mdns_answer_get_record_count(q.authority)
           k3 == mdns_answer_get_record_count(q.additional)
           asked == Asked(q)
           b == m4.bytes
<1>1. /\ After(m0, m1) /\ After(m1, m2) /\ After(m2, m3) /\ After(m3, m4) /\ m4.ok
      /\ \E questions : AskedMade(m1, questions, asked, Known)
      /\ SectionMade(m2, 1, Len(m1.bytes), i1, k1, Known)
      /\ SectionMade(m3, 2, Len(m2.bytes), i2, k2, Known)
      /\ SectionMade(m4, 3, Len(m3.bytes), i3, k3, Known)
  BY Zenon DEF AnswerSteps
<1>2. q.how \in Hows /\ Raw(q.authority, Known) /\ Raw(q.additional, Known)
  BY DEF Answers
<1>3. PICK V2 : IsItems(i2, V2, 2, StampAll(q.how, q.authority))
  BY <1>2, SectionNumber
<1>4. PICK V3 : IsItems(i3, V3, 3, StampAll(q.how, q.additional))
  BY <1>2, SectionNumber
<1>5. /\ k2 \in Nat /\ k2 = mdns_answer_get_record_count(StampAll(q.how, q.authority))
      /\ k3 \in Nat /\ k3 = mdns_answer_get_record_count(StampAll(q.how, q.additional))
  BY <1>2, SectionNumber
<1> DEFINE V1 == {item}
           V == V1 \cup V2 \cup V3
<1>6. i1 \in Seq(V1) /\ Len(i1) = k1 /\ Row(i1, k1) = i1
  <2> HIDE DEF item
  <2>1. i1 \in Seq(V1) /\ Len(i1) = 1
    OBVIOUS
  <2>2. [i \in 1 .. 1 |-> i1[i]] = i1
    BY <2>1
  <2> QED
    BY <2>1, <2>2 DEF Row
<1>7. i2 \in Seq(V2) /\ Len(i2) = k2 /\ Row(i2, k2) = i2
  BY <1>3, <1>5, Zenon DEF IsItems
<1>8. i3 \in Seq(V3) /\ Len(i3) = k3 /\ Row(i3, k3) = i3
  BY <1>4, <1>5, Zenon DEF IsItems
<1>9. MeantMessage(q) = i1 \o i2 \o i3
  <2>1. q.how # "query"
    BY <1>2 DEF Hows
  <2> QED
    BY <2>1, Zenon DEF MeantMessage
<1>20. V1 \subseteq V /\ V2 \subseteq V /\ V3 \subseteq V
  OBVIOUS
<1>21. k1 \in Nat /\ asked \in Nat /\ k1 \in UInt16 /\ asked \in UInt16
  BY Shorts DEF Asked
<1> HIDE DEF i1, i2, i3, k1, k2, k3, asked, b, V, V1
<1>10. InRow(i1, k1, V) /\ InRow(i2, k2, V) /\ InRow(i3, k3, V)
  BY <1>6, <1>7, <1>8, <1>20, InRows
<1>11. /\ b \in Seq(Octet) /\ Later(b, m4.bytes, {}) /\ Later(b, m3.bytes, {}) /\ Later(b, m2.bytes, {})
       /\ Later(b, m1.bytes, {}) /\ Later(b, m0.bytes, {})
       /\ m1 \in Buf /\ m2 \in Buf /\ m3 \in Buf /\ m4 \in Buf
  <2>1. m1 \in Buf /\ m2 \in Buf /\ m3 \in Buf /\ m4 \in Buf /\ m4.ok
    BY <1>1 DEF After
  <2>2. m4.bytes \in Seq(Octet)
    BY <2>1 DEF Buf
  <2>3. Later(b, m4.bytes, {})
    BY <2>2, LaterSelf DEF b
  <2>4. Later(b, m3.bytes, {}) /\ m3.ok
    BY <1>1, <2>1, <2>3, LaterChain
  <2>5. Later(b, m2.bytes, {}) /\ m2.ok
    BY <1>1, <2>1, <2>4, LaterChain
  <2>6. Later(b, m1.bytes, {}) /\ m1.ok
    BY <1>1, <2>1, <2>5, LaterChain
  <2>7. Later(b, m0.bytes, {})
    BY <1>1, <2>6, LaterChain
  <2> QED
    BY <2>1, <2>2, <2>3, <2>4, <2>5, <2>6, <2>7 DEF b
<1>12. Len(m1.bytes) \in Nat /\ Len(m2.bytes) \in Nat /\ Len(m3.bytes) \in Nat
  <2>1. m1.bytes \in Seq(Octet) /\ m2.bytes \in Seq(Octet) /\ m3.bytes \in Seq(Octet)
    BY <1>11, BufFields
  <2> QED
    BY <2>1
<1>13. k2 \in UInt16 /\ k3 \in UInt16
  BY <1>1, <1>5, <1>12, SectionCounts
<1>14. ShortAt(b, 4) = asked /\ ShortAt(b, 6) = k1 /\ ShortAt(b, 8) = k2 /\ ShortAt(b, 10) = k3
  <2>1. CountsAt(b, asked, k1, k2, k3)
    BY <1>11 DEF asked, k1, k2, k3
  <2> QED
    BY <1>13, <1>21, <2>1, Zenon DEF CountsAt
<1>15. SkipQuestions(b, ShortAt(b, 4)) = Len(m1.bytes)
  <2>1. PICK questions : AskedMade(m1, questions, asked, Known)
    BY <1>1
  <2> QED
    BY <1>11, <1>14, <1>21, <2>1, AskedStands
<1>16. Len(m1.bytes) # Nowhere
  BY <1>12 DEF Nowhere
<1>17. /\ SectionAt(b, 1, Len(m1.bytes), Len(m2.bytes), i1, k1, V)
       /\ SectionAt(b, 2, Len(m2.bytes), Len(m3.bytes), i2, k2, V)
       /\ SectionAt(b, 3, Len(m3.bytes), Len(m4.bytes), i3, k3, V)
  <2>1. 4 + 2 * 1 = 6 /\ 4 + 2 * 2 = 8 /\ 4 + 2 * 3 = 10
    OBVIOUS
  <2>2. ShortAt(b, 4 + 2 * 1) = k1 /\ ShortAt(b, 4 + 2 * 2) = k2 /\ ShortAt(b, 4 + 2 * 3) = k3
    BY <1>14, <2>1
  <2>3. SectionAt(b, 1, Len(m1.bytes), Len(m2.bytes), i1, k1, V)
    BY <1>1, <1>10, <1>11, <1>21, <2>2, SectionStands
  <2>4. SectionAt(b, 2, Len(m2.bytes), Len(m3.bytes), i2, k2, V)
    BY <1>1, <1>5, <1>10, <1>11, <2>2, SectionStands
  <2>5. SectionAt(b, 3, Len(m3.bytes), Len(m4.bytes), i3, k3, V)
    BY <1>1, <1>5, <1>10, <1>11, <2>2, SectionStands
  <2> QED
    BY <2>3, <2>4, <2>5
<1>18. mdns_query_recv(b) = (Row(i1, k1) \o Row(i2, k2)) \o Row(i3, k3)
  BY <1>15, <1>16, <1>17, RecvReads, SMTT(30)
<1>19. mdns_query_recv(b) = i1 \o i2 \o i3
  BY <1>6, <1>7, <1>8, <1>18
<1> QED
  BY <1>9, <1>19 DEF b

\* An answer is heard as it was meant: mdns_query_recv after mdns_answer.
LEMMA AnswerHeard ==
    ASSUME NEW q, NEW Known, Answers(q, Known), NEW size, Sized(size), mdns_answer(q, size).ok
    PROVE  mdns_query_recv(mdns_answer(q, size).bytes) = MeantMessage(q)
<1>1. AnswerStart(q, size) \in Buf
  BY AnswerStarts
<1>2. ~(size < HeaderSize + 32 + 4) /\ mdns_answer(q, size) = AnswerThird(q, size)
  BY <1>1, AnswerParts
<1>3. /\ Ready(AnswerStart(q, size), {}, Known)
      /\ AnswerStart(q, size).ok /\ AnswerStart(q, size).compress
      /\ Len(AnswerStart(q, size).bytes) = HeaderSize
      /\ \A b : Later(b, AnswerStart(q, size).bytes, {}) =>
             CountsAt(b, Asked(q), 1, mdns_answer_get_record_count(q.authority),
                      mdns_answer_get_record_count(q.additional))
  BY <1>2, AnswerBegins
<1>4. AnswerThird(q, size).ok
  BY <1>2
<1>5. AnswerSteps(q, Known, AnswerStart(q, size), AnswerAsked(q, size), AnswerFirst(q, size),
                  AnswerSecond(q, size), AnswerThird(q, size))
  BY <1>3, <1>4, AnswerMade
<1>6. mdns_query_recv(AnswerThird(q, size).bytes) = MeantMessage(q)
  BY <1>1, <1>3, <1>5, AnswerReads
<1> QED
  BY <1>2, <1>6

\* What is meant by a query, question by question.
LEMMA QueryMeant ==
    ASSUME NEW q \in Query
    PROVE  MeantMessage(q) = [k \in 1 .. Len(q.questions) |-> AskedFor(q.questions[k])]
<1>1. q.how = "query" /\ q.questions \in Seq(Question)
  BY DEF Query
<1>2. DOMAIN q.questions = 1 .. Len(q.questions)
  BY <1>1
<1> QED
  BY <1>1, <1>2 DEF MeantMessage, AskedFor

\* What is asked of a request, for the names it carries.
LEMMA QueryAsks ==
    ASSUME NEW q \in Query
    PROVE  NamesIn(q) \subseteq DnsName /\ Asks(q.questions, NamesIn(q))
<1>1. q.how = "query" /\ q.questions \in Seq(Question)
  BY DEF Query
<1>2. NamesIn(q) = {question.name : question \in Range(q.questions)}
  BY <1>1 DEF NamesIn
<1>3. Len(q.questions) \in Nat /\ DOMAIN q.questions = 1 .. Len(q.questions)
  BY <1>1
<1>4. ASSUME NEW k \in 1 .. Len(q.questions)
      PROVE  /\ q.questions[k] \in Range(q.questions) /\ q.questions[k].name \in DnsName
             /\ q.questions[k].type \in UInt16
  <2>1. q.questions[k] \in Question
    BY <1>1
  <2> QED
    BY <1>3, <2>1 DEF Question, Range
<1>5. Asks(q.questions, NamesIn(q))
  BY <1>2, <1>3, <1>4 DEF Asks
<1>6. Range(q.questions) \subseteq Question
  BY <1>1, <1>3 DEF Range
<1>7. NamesIn(q) \subseteq DnsName
  BY <1>2, <1>6 DEF Question
<1> QED
  BY <1>5, <1>7

\* The names in a record are names.
LEMMA RecordNamed ==
    ASSUME NEW r \in Record \cup TextRecord
    PROVE  RecordNames(r) \subseteq DnsName
<1>1. r.name \in DnsName
  BY RecordFields
<1>2. ASSUME r.type \in {TypePTR, TypeSRV}
      PROVE  r.target \in DnsName
  <2>1. CASE r \in TextRecord
    BY <1>2, <2>1, RecordFields, TypesDiffer
  <2>2. CASE r \in PointerRecord
    BY <2>2 DEF PointerRecord
  <2>3. CASE r \in ServiceRecord
    BY <2>3 DEF ServiceRecord
  <2>4. ASSUME NEW type \in {TypeA, TypeAAAA}, NEW length, r \in Address(type, length)
        PROVE  FALSE
    <3>1. r.type = type
      BY <2>4, Zenon DEF Address
    <3> QED
      BY <1>2, <3>1, TypesDiffer
  <2>5. CASE r \in Record
    BY <2>2, <2>3, <2>4, <2>5, RecordKinds
  <2> QED
    BY <2>1, <2>5
<1> QED
  BY <1>1, <1>2 DEF RecordNames

\* The names in a section are names of the message.
LEMMA SectionNamed ==
    ASSUME NEW records \in Seq(Record \cup TextRecord), NEW Known,
           \A r \in Range(records) : RecordNames(r) \subseteq Known
    PROVE  Raw(records, Known) /\ \A r \in Range(records) : RecordNames(r) \subseteq DnsName
<1>1. DOMAIN records = 1 .. Len(records)
  OBVIOUS
<1>2. ASSUME NEW k \in 1 .. Len(records)
      PROVE  records[k] \in Range(records) /\ records[k] \in Record \cup TextRecord
  BY <1>1 DEF Range
<1>3. Raw(records, Known)
  BY <1>2 DEF Raw
<1>4. ASSUME NEW r \in Range(records)
      PROVE  RecordNames(r) \subseteq DnsName
  <2>1. r \in Record \cup TextRecord
    BY <1>1, <1>2, <1>4 DEF Range
  <2> QED
    BY <2>1, RecordNamed
<1> QED
  BY <1>3, <1>4

\* An answer that is asked for has all an answer needs.
LEMMA AnswerAnswers ==
    ASSUME NEW q \in Answer \cup Unicast, \A a, b \in NamesIn(q) : Last(a) = Last(b),
           ~IsText(q.answer)
    PROVE  Answers(q, NamesIn(q)) /\ q.how # "query"
<1> DEFINE Known == NamesIn(q)
           All == {q.answer} \cup Range(q.authority) \cup Range(q.additional)
<1>1. /\ q.how \in Hows /\ q.how # "query" /\ q.answer \in Record
      /\ q.authority \in Seq(Record \cup TextRecord) /\ q.additional \in Seq(Record \cup TextRecord)
  <2>1. \A r \in TextRecord : IsText(r)
    BY DEF TextRecord, IsText
  <2>2. q.answer \in Record \cup TextRecord
    BY DEF Answer, Unicast
  <2>3. q.answer \in Record
    BY <2>1, <2>2, Zenon
  <2> HIDE DEF Known, All
  <2> QED
    BY <2>3 DEF Answer, Unicast, Hows
<1>2. q.how = "unicast" => q.question \in Question
  BY DEF Answer, Unicast
<1>3. Known = (UNION {RecordNames(r) : r \in All})
              \cup (IF q.how = "unicast" THEN {q.question.name} ELSE {})
  BY <1>1 DEF NamesIn
<1>4. q.how = "unicast" => /\ q.question.name \in Known /\ q.question.name \in DnsName
                           /\ q.question.type \in UInt16
  BY <1>2, <1>3 DEF Question
<1>5. \A r \in All : RecordNames(r) \subseteq Known
  BY <1>3
<1> HIDE DEF Known
<1>6. RecordNames(q.answer) \subseteq Known /\ RecordNames(q.answer) \subseteq DnsName
  BY <1>1, <1>5, RecordNamed
<1>7. Raw(q.authority, Known) /\ \A r \in Range(q.authority) : RecordNames(r) \subseteq DnsName
  BY <1>1, <1>5, SectionNamed
<1>8. Raw(q.additional, Known) /\ \A r \in Range(q.additional) : RecordNames(r) \subseteq DnsName
  BY <1>1, <1>5, SectionNamed
<1>9. Known \subseteq DnsName
  BY <1>3, <1>4, <1>6, <1>7, <1>8
<1>10. Alike(Known)
  BY <1>9 DEF Alike, Known
<1>11. Answers(q, Known)
  BY <1>1, <1>4, <1>6, <1>7, <1>8, <1>10 DEF Answers
<1> QED
  BY <1>1, <1>11 DEF Known

\* The function a request is a call of, and the one its receiver calls.
Sent(q, size) ==
    IF q.how = "query" THEN mdns_multiquery_send(q, size) ELSE mdns_answer(q, size)

Listened(q, bytes) ==
    IF q.how = "query" THEN mdns_socket_listen(bytes) ELSE mdns_query_recv(bytes)

\* An offset in a buffer fits into a reference.
LEMMA RoomSized ==
    ASSUME NEW size \in Rooms
    PROVE  Sized(size)
<1>1. size \in 0 .. 16384
  BY RoomAssumption, SMTT(30)
<1> QED
  BY <1>1 DEF Sized

\* What an admissible call puts into the packet is read as it was meant.
LEMMA CallHeard ==
    ASSUME NEW q \in Requests, NEW size \in Rooms, Sent(q, size).ok, ~AnswersWithText(q)
    PROVE  Listened(q, Sent(q, size).bytes) = MeantMessage(q)
<1>1. q \in Query \cup Answer \cup Unicast /\ \A a, b \in NamesIn(q) : Last(a) = Last(b)
  BY RequestAssumption
<1>2. Sized(size)
  BY RoomSized
<1>3. CASE q \in Query
  <2>1. q.how = "query"
    BY <1>3 DEF Query
  <2>2. NamesIn(q) \subseteq DnsName /\ Asks(q.questions, NamesIn(q))
    BY <1>3, QueryAsks
  <2>3. Alike(NamesIn(q))
    BY <1>1, <2>2 DEF Alike
  <2>4. mdns_multiquery_send(q, size).ok
    BY <2>1 DEF Sent
  <2>5. mdns_socket_listen(mdns_multiquery_send(q, size).bytes)
          = [k \in 1 .. Len(q.questions) |-> AskedFor(q.questions[k])]
    BY <1>2, <2>2, <2>3, <2>4, QueryHeard
  <2>6. MeantMessage(q) = [k \in 1 .. Len(q.questions) |-> AskedFor(q.questions[k])]
    BY <1>3, QueryMeant
  <2> QED
    BY <2>1, <2>5, <2>6 DEF Sent, Listened
<1>4. CASE q \in Answer \cup Unicast
  <2>0. q.how # "query" /\ ~IsText(q.answer)
    BY <1>4 DEF Answer, Unicast, AnswersWithText
  <2>1. Answers(q, NamesIn(q)) /\ q.how # "query"
    BY <1>1, <1>4, <2>0, AnswerAnswers
  <2>2. mdns_answer(q, size).ok
    BY <2>1 DEF Sent
  <2>3. mdns_query_recv(mdns_answer(q, size).bytes) = MeantMessage(q)
    BY <1>2, <2>1, <2>2, AnswerHeard
  <2> QED
    BY <2>1, <2>3 DEF Sent, Listened
<1> QED
  BY <1>1, <1>3, <1>4

-----------------------------------------------------------------------------
\* The packet on its way is the one the call made, and it was made whole.
MessageInv ==
    /\ request \in Requests /\ room \in Rooms
    /\ stage \in {"new", "sent", "failed", "heard"}
    /\ stage = "sent" => Sent(request, room).ok /\ packet = Sent(request, room).bytes
    /\ HeardAsMeant

\* What is heard is what was meant, for every table, every buffer a reference can
\* address and every request of RequestAssumption whose answer is not itself a text:
\* mdns_query_recv and mdns_socket_listen take apart what mdns_answer and
\* mdns_multiquery_send put together (mdns.h:523-806).
THEOREM HeardAsMeantHolds == MSpec => []HeardAsMeant
<1>1. MInit => MessageInv
  BY DEF MInit, MessageInv, HeardAsMeant
<1>2. MessageInv /\ [MNext]_mvars => MessageInv'
  <2> SUFFICES ASSUME MessageInv, [MNext]_mvars
               PROVE  MessageInv'
    OBVIOUS
  <2>1. request \in Requests /\ room \in Rooms /\ HeardAsMeant
    BY DEF MessageInv
  <2>2. CASE Send
    <3>1. /\ stage' = IF Sent(request, room).ok THEN "sent" ELSE "failed"
          /\ packet' = IF Sent(request, room).ok THEN Sent(request, room).bytes ELSE <<>>
          /\ request' = request /\ room' = room
      BY <2>2 DEF Send, SendMade, Sent
    <3>2. Sent(request, room)' = Sent(request, room)
      BY <3>1 DEF Sent
    <3>3. stage' # "heard"
      BY <3>1
    <3> QED
      BY <2>1, <3>1, <3>2, <3>3 DEF MessageInv, HeardAsMeant
  <2>3. CASE Recv
    <3>1. /\ stage = "sent" /\ stage' = "heard"
          /\ heard' = Listened(request, packet)
          /\ request' = request /\ room' = room
      BY <2>3 DEF Recv, Listened
    <3>2. Sent(request, room).ok /\ packet = Sent(request, room).bytes
      BY <3>1 DEF MessageInv
    <3>3. ~AnswersWithText(request) => heard' = MeantMessage(request)
      BY <2>1, <3>1, <3>2, CallHeard
    <3> QED
      BY <2>1, <3>1, <3>3 DEF MessageInv, HeardAsMeant
  <2>4. CASE Again
    BY <2>1, <2>4 DEF Again, MessageInv, HeardAsMeant
  <2>5. CASE UNCHANGED mvars
    BY <2>5 DEF mvars, MessageInv, HeardAsMeant, Sent
  <2> QED
    BY <2>2, <2>3, <2>4, <2>5 DEF MNext
<1>3. MessageInv => HeardAsMeant
  BY DEF MessageInv
<1> QED
  BY <1>1, <1>2, <1>3, PTL DEF MSpec
=============================================================================
