-------------------------------- MODULE Time --------------------------------
(***************************************************************************)
(* lib/time/time.c: arithmetic on struct timespec_s, as the callers use it *)
(* to make the deadlines they pass to waits.  st_sec is a signed integer   *)
(* of 64 bits, taken as unbounded; st_nsec and the products of TIME_add    *)
(* are unsigned and wrap.                                                  *)
(***************************************************************************)
EXTENDS Integers

CONSTANTS Names,        \* variables of type timespec_s
          Nsec,         \* SYSTEM_TIME_NSEC_MAX
          Word,         \* number of values of an uint32_t
          Bases,        \* units of TIME_add below a second, in nanoseconds
          Factors,      \* units of TIME_add from a second on, in seconds
          Counts,       \* values of count
          MaxClock,     \* bound: nanoseconds the clock runs
          MaxInstant    \* bound: nanoseconds from 0 of a value

\* Two values of st_nsec can be added without wrapping.
ASSUME TimeAssumption ==
    /\ Nsec \in Nat \ {0} /\ Word \in Nat /\ Word > 2 * Nsec
    /\ Bases \subseteq Nat /\ Factors \subseteq Nat /\ Counts \subseteq Nat
    /\ MaxClock \in Nat /\ MaxInstant \in Nat

VARIABLES clock,    \* CLOCK_REALTIME, in nanoseconds
          time,     \* the values of the variables
          exact,    \* history: the instant that was asked for of each of them
          wrapped   \* history: variables with a product in them that was too large

vars == <<clock, time, exact, wrapped>>

Instant(t) == t.st_sec * Nsec + t.st_nsec

\* TIME_INIT
Zero == [st_sec |-> 0, st_nsec |-> 0]

Init ==
    /\ clock = 0
    /\ time = [x \in Names |-> Zero]
    /\ exact = [x \in Names |-> 0]
    /\ wrapped = {}

-----------------------------------------------------------------------------
(* The operations as functions of the values.                              *)

Now == [st_sec |-> clock \div Nsec, st_nsec |-> clock % Nsec]

\* Mutant: no carry to the seconds.
PlusMutant(t, plus) ==
    LET nsec == (t.st_nsec + plus.st_nsec) % Word IN
    [st_sec |-> t.st_sec + plus.st_sec,
     st_nsec |-> IF nsec > Nsec THEN nsec - Nsec ELSE nsec]

\* TIME_plus: the test is >, so st_nsec may be SYSTEM_TIME_NSEC_MAX.
Plus(t, plus) ==
    LET nsec == (t.st_nsec + plus.st_nsec) % Word
        sec == t.st_sec + plus.st_sec
    IN IF nsec > Nsec THEN [st_sec |-> sec + 1, st_nsec |-> nsec - Nsec]
                      ELSE [st_sec |-> sec, st_nsec |-> nsec]

\* TIME_substract
Minus(t, minus) ==
    LET sec == t.st_sec - minus.st_sec
    IN IF t.st_nsec < minus.st_nsec
       THEN [st_sec |-> sec - 1, st_nsec |-> t.st_nsec + Nsec - minus.st_nsec]
       ELSE [st_sec |-> sec, st_nsec |-> t.st_nsec - minus.st_nsec]

\* correct_nsec_check_bound
AddNsec(t, product) ==
    Plus(t, [st_sec |-> product \div Nsec, st_nsec |-> product % Nsec])

AddSec(t, product) == [t EXCEPT !.st_sec = @ + product]

\* TIME_get_expired
Expired(t, now) ==
    LET sec == now.st_sec - t.st_sec
    IN IF t.st_nsec <= now.st_nsec
       THEN [st_sec |-> sec, st_nsec |-> now.st_nsec - t.st_nsec]
       ELSE [st_sec |-> sec - 1, st_nsec |-> t.st_nsec - now.st_nsec]

\* Mutant: the nanoseconds are compared whatever the seconds are.
EarlierMutant(a, b) ==
    CASE a.st_nsec > b.st_nsec -> -1
      [] a.st_nsec < b.st_nsec -> 1
      [] OTHER -> 0

\* TIME_earlier: 1 when a is earlier than b, -1 when later.
Earlier(a, b) ==
    CASE a.st_sec > b.st_sec -> -1
      [] a.st_sec < b.st_sec -> 1
      [] a.st_sec = b.st_sec /\ a.st_nsec > b.st_nsec -> -1
      [] a.st_sec = b.st_sec /\ a.st_nsec < b.st_nsec -> 1
      [] OTHER -> 0

-----------------------------------------------------------------------------
(* The steps of a program that uses them.                                  *)

Bounded(i) == i \in -MaxInstant .. MaxInstant

Tick ==
    /\ clock < MaxClock
    /\ clock' = clock + 1
    /\ UNCHANGED <<time, exact, wrapped>>

\* The value t, meant to stand for instant i, is stored in x; from are the variables
\* it is made of.
Store(x, t, i, from) ==
    /\ Bounded(i) /\ Bounded(Instant(t))
    /\ time' = [time EXCEPT ![x] = t]
    /\ exact' = [exact EXCEPT ![x] = i]
    /\ wrapped' = IF from \cap wrapped = {} THEN wrapped \ {x} ELSE wrapped \cup {x}
    /\ UNCHANGED clock

TIME_now(x) == Store(x, Now, clock, {})

TIME_copy(x, y) == Store(x, time[y], exact[y], {y})

TIME_plus(x, y) == Store(x, Plus(time[x], time[y]), exact[x] + exact[y], {x, y})

TIME_substract(x, y) == Store(x, Minus(time[x], time[y]), exact[x] - exact[y], {x, y})

\* The product of unit and count is one of 32 bits: from 43 tenths of a second,
\* or 4295 milliseconds, on less is added than was asked for.
Product(unit, count) == (unit * count) % Word

\* What TIME_add leaves in x: t, where unit * count of instants each worth step
\* nanoseconds were asked for.
StoreSum(x, t, unit, count, step) ==
    /\ Bounded(exact[x] + unit * count * step) /\ Bounded(Instant(t))
    /\ time' = [time EXCEPT ![x] = t]
    /\ exact' = [exact EXCEPT ![x] = @ + unit * count * step]
    /\ wrapped' = IF unit * count < Word THEN wrapped ELSE wrapped \cup {x}
    /\ UNCHANGED clock

\* TIME_add, units below a second and from a second on.
TIME_add_nsec(x, base, count) ==
    StoreSum(x, AddNsec(time[x], Product(base, count)), base, count, 1)

TIME_add_sec(x, factor, count) ==
    StoreSum(x, AddSec(time[x], Product(factor, count)), factor, count, Nsec)

Next ==
    \/ Tick
    \/ \E x, y \in Names : TIME_copy(x, y) \/ TIME_plus(x, y) \/ TIME_substract(x, y)
    \/ \E x \in Names, count \in Counts :
          \/ \E base \in Bases : TIME_add_nsec(x, base, count)
          \/ \E factor \in Factors : TIME_add_sec(x, factor, count)
    \/ \E x \in Names : TIME_now(x)

Spec == Init /\ [][Next]_vars

-----------------------------------------------------------------------------
\* After any sequence of operations a value stands for the instant that was asked
\* for, unless a product in it was too large for 32 bits, and its nanoseconds are at
\* most one whole second: no carry or borrow is lost between TIME_plus,
\* TIME_substract and TIME_add.
DeadlineExact == \A x \in Names :
    /\ time[x].st_nsec <= Nsec
    /\ x \notin wrapped => Instant(time[x]) = exact[x]

\* TIME_earlier never contradicts the order of the instants, and gives it
\* exactly when no value has a whole second of nanoseconds.
EarlierIsOrder == \A x, y \in Names :
    LET order == Earlier(time[x], time[y])
        a == Instant(time[x])
        b == Instant(time[y])
    IN /\ order = 1 => a <= b
       /\ order = -1 => a >= b
       /\ (time[x].st_nsec < Nsec /\ time[y].st_nsec < Nsec) => (order = 0 <=> a = b)

\* "time is in the past -> expired seconds is positive, time is in the future ->
\* expired seconds negative" (time.c:71): the sign TIME_get_expired gives is right
\* for every value.  (Its nanoseconds are not, after a borrow.)
ExpiredSign == \A x \in Names :
    Expired(time[x], Now).st_sec >= 0 <=> Instant(time[x]) <= clock

\* What the functions that look at deadlines say of their order is true.
OrderExact == EarlierIsOrder /\ ExpiredSign
=============================================================================
