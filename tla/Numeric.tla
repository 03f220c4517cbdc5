--------------------------------- MODULE Numeric ---------------------------------
(***************************************************************************)
(* numeric::arithmetic, numeric::divisor and numeric::prime.  A number of  *)
(* Width bits is its bit pattern, one of 0 .. 2^Width - 1.                 *)
(***************************************************************************)
EXTENDS Integers, Sequences, Bitwise, Loops

CONSTANT Width

Wrap(x)   == x % 2^Width
Signed(x) == IF x < 2^(Width - 1) THEN x ELSE x - 2^Width
Bit(x, i) == (x \div 2^i) % 2
Complement(x) == 2^Width - 1 - x

--------------------------------------------------------------------------------
RECURSIVE bitAdd(_, _)
bitAdd(a, b) ==
  LET sum == a ^^ b
      carry == Wrap(2 * (a & b))
  IN IF (sum & carry) # 0 THEN bitAdd(sum, carry) ELSE sum ^^ carry

bitSub(a, b) == bitAdd(a, bitAdd(Complement(b), 1))

\* The mask is the sign in every bit.
bitAbs(a) ==
  LET mask == IF Signed(a) < 0 THEN 2^Width - 1 ELSE 0
  IN Wrap((a ^^ mask) - mask)

addition(a, b)    == bitAdd(a, b)
subtraction(a, b) == bitAdd(a, bitAdd(Complement(b), 1))

multiplication(multiplier, multiplicand) ==
  Down(Width - 1, 0,
       LAMBDA i, product : IF Bit(multiplicand, i) # 0
                           THEN bitAdd(Wrap(2 * product), multiplier) ELSE Wrap(2 * product), 0)

\* The sign bit of the dividend is shifted down as a sign: it fills the remainder.
division(dividend, divisor) ==
  LET d == bitAbs(divisor)
      low(i) == IF i = Width - 1 /\ Bit(bitAbs(dividend), i) = 1 THEN 2^Width - 1
                ELSE Bit(bitAbs(dividend), i)
      step(i, s) ==
        LET r == Wrap(2 * s.r) | low(i)
        IN IF Signed(r) >= Signed(d)
           THEN [q |-> Wrap(2 * s.q) | 1, r |-> bitSub(r, d)]
           ELSE [q |-> Wrap(2 * s.q), r |-> r]
      quotient == Down(Width - 1, 0, step, [q |-> 0, r |-> 0]).q
  IN IF divisor = 0 THEN 0
     ELSE IF Bit(dividend ^^ divisor, Width - 1) = 1 THEN bitSub(0, quotient) ELSE quotient

Calculate(op, a, b) ==
  CASE op = "addition" -> addition(a, b)
    [] op = "subtraction" -> subtraction(a, b)
    [] op = "multiplication" -> multiplication(a, b)
    [] op = "division" -> division(a, b)

\* What the operation is on numbers, cut to the width; a division by zero is 0.
abs(x) == IF x < 0 THEN -x ELSE x
Quotient(x, y) ==
  IF y = 0 THEN 0
  ELSE LET q == abs(x) \div abs(y) IN IF (x < 0) = (y < 0) THEN q ELSE -q

Calculated(op, a, b) ==
  LET x == Signed(a)
      y == Signed(b)
  IN Wrap(CASE op = "addition" -> x + y
            [] op = "subtraction" -> x - y
            [] op = "multiplication" -> x * y
            [] op = "division" -> Quotient(x, y))

--------------------------------------------------------------------------------
isEven(n) == n % 2 = 0

RECURSIVE Remainders(_, _)
Remainders(x, y) == IF y = 0 THEN x ELSE Remainders(y, x % y)

MutGetAllDivisors(gcd) ==   \* the root itself is not tried
  LET i == {k \in 1 .. gcd : k * k < gcd /\ gcd % k = 0}
  IN i \cup {gcd \div k : k \in i}

\* A divisor is found with its partner; only those up to the root are tried.
getAllDivisors(gcd) ==
  LET i == {k \in 1 .. gcd : k * k <= gcd /\ gcd % k = 0}
  IN i \cup {gcd \div k : k \in i}

euclidean(a, b) == getAllDivisors(Remainders(abs(a), abs(b)))

RECURSIVE Odd(_)
Odd(a) == IF isEven(a) THEN Odd(a \div 2) ELSE a

RECURSIVE steinRecursive(_, _)
steinRecursive(a, b) ==
  IF a = 0 THEN b
  ELSE IF b = 0 THEN a
  ELSE LET odd == Odd(a)
       IN IF odd < b THEN steinRecursive((b - odd) \div 2, odd)
          ELSE steinRecursive((odd - b) \div 2, b)

Endless == {-1}   \* instead of divisors: the call does not return

RECURSIVE Halve(_, _, _)
Halve(x, y, c) ==
  IF isEven(x) /\ isEven(y) THEN Halve(x \div 2, y \div 2, c + 1)
  ELSE 2^c * (IF isEven(x) THEN steinRecursive(x \div 2, y) ELSE steinRecursive(y, x))

\* Two zeros are even for ever.
stein(a, b) ==
  IF a = 0 /\ b = 0 THEN Endless ELSE getAllDivisors(Halve(abs(a), abs(b), 0))

\* The common divisors of two numbers; none of two zeros.
CommonDivisors(a, b) ==
  LET m == IF a = 0 THEN abs(b) ELSE abs(a)
  IN {d \in 1 .. m : abs(a) % d = 0 /\ abs(b) % d = 0}

--------------------------------------------------------------------------------
\* The square from which a prime is struck out is unsigned and wraps.
square(i) == Wrap(i * i)

eratosthenes(limit) ==
  LET sieve == Up(2, limit,
                  LAMBDA i, s : IF s.isPrime[i]
                                THEN [isPrime |-> [j \in DOMAIN s.isPrime |->
                                        /\ s.isPrime[j]
                                        /\ ~(j >= square(i) /\ (j - square(i)) % i = 0)],
                                      storage |-> Append(s.storage, i)]
                                ELSE s,
                  [isPrime |-> [j \in 0 .. limit |-> j > 1], storage |-> <<>>])
  IN sieve.storage

\* Every i strikes out its products with the primes so far, up to the first that
\* divides it.
euler(limit) ==
  LET sieve == Up(2, limit,
                  LAMBDA i, s :
                    LET storage == IF s.isPrime[i] THEN Append(s.storage, i) ELSE s.storage
                        struck == {j \in DOMAIN storage :
                                     /\ i * storage[j] <= limit
                                     /\ \A k \in 1 .. j - 1 : i % storage[k] # 0}
                    IN [isPrime |-> [n \in DOMAIN s.isPrime |->
                          s.isPrime[n] /\ \A j \in struck : n # i * storage[j]],
                        storage |-> storage],
                  [isPrime |-> [j \in 0 .. limit |-> j > 1], storage |-> <<>>])
  IN sieve.storage

Primes(limit) == {p \in 2 .. limit : \A d \in 2 .. p - 1 : p % d # 0}
================================================================================
