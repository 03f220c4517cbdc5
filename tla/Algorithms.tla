------------------------------ MODULE Algorithms ------------------------------
(***************************************************************************)
(* algorithm::sort, search, match and notation: each method is the value it *)
(* returns for its arguments.  An array, a text and a pattern are functions *)
(* on 0 .. length - 1.                                                     *)
(***************************************************************************)
EXTENDS FiniteSets, Loops

CONSTANTS Chars,             \* the characters, positive numbers
          rollingHashBase, rollingHashMod

--------------------------------------------------------------------------------
\* Sort.  Every method returns the array it is given when that is empty.
last(a) == Cardinality(DOMAIN a) - 1
Elems(a) == {a[i] : i \in DOMAIN a}

\* The arrays one after the other, as the loops that fill sorting from left to right
\* leave it.
Concat(seqs) ==
  LET all == Up(1, Len(seqs), LAMBDA i, s : s \o seqs[i], <<>>)
  IN [k \in 0 .. Len(all) - 1 |-> all[k + 1]]

--------------------------------------------------------------------------------
bubble(a) ==
  Up(0, last(a) - 1,
     LAMBDA i, s : Up(0, last(a) - 1 - i,
                      LAMBDA j, t : IF t[j] > t[j + 1] THEN Swap(t, j, j + 1) ELSE t, s), a)

selection(a) ==
  Up(0, last(a) - 1,
     LAMBDA i, s :
       LET m == Up(i + 1, last(a), LAMBDA j, min : IF s[j] < s[min] THEN j ELSE min, i)
       IN Swap(s, i, m), a)

\* temp stops behind the last element that is not greater.
insertion(a) ==
  Up(1, last(a),
     LAMBDA i, s :
       LET n == Greatest({-1} \cup {k \in 0 .. i - 1 : s[k] <= s[i]})
       IN [k \in DOMAIN s |-> IF k = n + 1 THEN s[i]
                              ELSE IF k \in n + 2 .. i THEN s[k - 1] ELSE s[k]], a)

RECURSIVE Gapped(_, _, _)
Gapped(s, gap, j) ==
  IF j >= gap /\ s[j] < s[j - gap] THEN Gapped(Swap(s, j, j - gap), gap, j - gap) ELSE s

RECURSIVE ShellFrom(_, _)
ShellFrom(s, gap) ==
  IF gap < 1 THEN s
  ELSE ShellFrom(Up(gap, last(s), LAMBDA i, t : Gapped(t, gap, i), s), gap \div 2)

shell(a) == ShellFrom(a, Cardinality(DOMAIN a) \div 2)

--------------------------------------------------------------------------------
\* The right part goes first when the two heads are equal.
RECURSIVE Merged(_, _)
Merged(left, right) ==
  IF left = <<>> THEN right
  ELSE IF right = <<>> THEN left
  ELSE IF Head(left) < Head(right)
       THEN <<Head(left)>> \o Merged(Tail(left), right)
       ELSE <<Head(right)>> \o Merged(left, Tail(right))

RECURSIVE mergeSortRecursive(_, _, _)
mergeSortRecursive(s, begin, end) ==
  IF begin >= end THEN s
  ELSE LET mid == (begin + end) \div 2
           t == mergeSortRecursive(mergeSortRecursive(s, begin, mid), mid + 1, end)
           merged == Merged([k \in 1 .. mid - begin + 1 |-> t[begin + k - 1]],
                            [k \in 1 .. end - mid |-> t[mid + k]])
       IN [k \in DOMAIN s |-> IF k \in begin .. end THEN merged[k - begin + 1] ELSE t[k]]

merge(a) == mergeSortRecursive(a, 0, last(a))

--------------------------------------------------------------------------------
\* The partition loop: the two indices close in, and what they stop at is exchanged.
RECURSIVE Partition(_, _, _, _)
Partition(s, l, r, pivot) ==
  IF l >= r THEN [s |-> s, l |-> l]
  ELSE LET l1 == Least({r} \cup {k \in l .. r : s[k] >= pivot})
           r1 == Greatest({l1} \cup {k \in l1 .. r : s[k] < pivot})
       IN Partition(Swap(s, l1, r1), l1, r1, pivot)

RECURSIVE quickSortRecursive(_, _, _)
quickSortRecursive(s, begin, end) ==
  IF begin >= end THEN s
  ELSE LET p == Partition(s, begin, end - 1, s[end])
           left == p.s[p.l] >= p.s[end]
           t == IF left THEN Swap(p.s, p.l, end) ELSE p.s
           mid == IF left THEN p.l ELSE p.l + 1
       IN quickSortRecursive(
            quickSortRecursive(t, begin, IF mid > 0 THEN mid - 1 ELSE 0), mid + 1, end)

quick(a) == quickSortRecursive(a, 0, last(a))

--------------------------------------------------------------------------------
RECURSIVE buildMaxHeap(_, _, _)
buildMaxHeap(s, parent, end) ==
  LET left == 2 * parent + 1
      child == IF left + 1 <= end /\ s[left] < s[left + 1] THEN left + 1 ELSE left
  IN IF left > end \/ s[parent] > s[child] THEN s
     ELSE buildMaxHeap(Swap(s, parent, child), child, end)

heap(a) ==
  LET built == Down((last(a) + 1) \div 2 + 1, 0, LAMBDA i, s : buildMaxHeap(s, i, last(a)), a)
  IN Down(last(a), 1, LAMBDA i, s : buildMaxHeap(Swap(s, 0, i), 0, i - 1), built)

--------------------------------------------------------------------------------
\* The three methods that look at the range of the elements return at once when it is
\* a single value.
Flat(a) == Cardinality(Elems(a)) = 1
min(a) == Least(Elems(a))
max(a) == Greatest(Elems(a))

counting(a) ==
  LET count == [i \in 0 .. max(a) - min(a) |-> Cardinality({k \in DOMAIN a : a[k] - min(a) = i})]
  IN IF Flat(a) THEN a
     ELSE Concat([i \in 1 .. max(a) - min(a) + 1 |->
                    [n \in 1 .. count[i - 1] |-> i - 1 + min(a)]])

\* The elements of a bucket in order, as std::ranges::sort leaves them.
Ordered(s) == SortSeq(s, LAMBDA x, y : x < y)

MutBucketIdx(a, elem) ==   \* the bucket of the maximum wraps to the first
  (((elem - min(a)) * last(a)) \div (max(a) - min(a))) % last(a)

\* An element goes to the bucket floor((elem - min) / interval), where the intervals
\* divide the range into one part less than there are elements.
bucketIdx(a, elem) == ((elem - min(a)) * last(a)) \div (max(a) - min(a))

bucket(a) ==
  LET each(b) == Up(0, last(a), LAMBDA k, s : IF bucketIdx(a, a[k]) = b THEN Append(s, a[k]) ELSE s,
                    <<>>)
  IN IF Flat(a) THEN a ELSE Concat([b \in 1 .. last(a) + 1 |-> Ordered(each(b - 1))])

\* One pass of the radix sort: by the digit at exp, and otherwise in the order so far.
ByDigit(s, exp) ==
  LET digit(k) == (s[k] \div exp) % 10
      of(d) == Up(0, last(s), LAMBDA k, t : IF digit(k) = d THEN Append(t, s[k]) ELSE t, <<>>)
  IN Concat([d \in 1 .. 10 |-> of(d - 1)])

\* The passes stop at the digits of max, the maximum before the elements are shifted.
RECURSIVE Passes(_, _, _)
Passes(s, exp, m) == IF m \div exp <= 0 THEN s ELSE Passes(ByDigit(s, exp), exp * 10, m)

radix(a) ==
  LET shift == IF min(a) < 0 THEN min(a) ELSE 0
      sorted == Passes([k \in DOMAIN a |-> a[k] - shift], 1, max(a))
  IN IF Flat(a) THEN a ELSE [k \in DOMAIN a |-> sorted[k] + shift]

SortMethods == {"bubble", "selection", "insertion", "shell", "merge", "quick", "heap",
                "counting", "bucket", "radix"}

Sort(method, a) ==
  IF DOMAIN a = {} THEN a
  ELSE CASE method = "bubble" -> bubble(a)
         [] method = "selection" -> selection(a)
         [] method = "insertion" -> insertion(a)
         [] method = "shell" -> shell(a)
         [] method = "merge" -> merge(a)
         [] method = "quick" -> quick(a)
         [] method = "heap" -> heap(a)
         [] method = "counting" -> counting(a)
         [] method = "bucket" -> bucket(a)
         [] method = "radix" -> radix(a)

\* As many of each value.
IsPermutationOf(r, a) ==
  /\ DOMAIN r = DOMAIN a
  /\ \A v \in Elems(a) \cup Elems(r) :
       Cardinality({k \in DOMAIN a : a[k] = v}) = Cardinality({k \in DOMAIN r : r[k] = v})

\* The elements of a in order: as many of each value, and none before a smaller one.
IsSortOf(r, a) == IsPermutationOf(r, a) /\ \A k \in DOMAIN r : k > 0 => r[k - 1] <= r[k]

\* The shifted elements have more digits than the maximum had before the shift.
OutgrowsItsMaximum(a) ==
  /\ DOMAIN a # {} /\ min(a) < 0
  /\ \E digits \in 0 .. 2 : max(a) < 10^digits /\ 10^digits <= max(a) - min(a)

--------------------------------------------------------------------------------
\* Search, on ordered arrays of reals, which are points of a grid here.  A result is an
\* index, -1, Outside for a probe that leaves the array, where what is read is not
\* defined, or Endless for a loop that comes back to the same interval.
Outside == -2
Endless == -3

RECURSIVE BinaryFrom(_, _, _, _)
BinaryFrom(a, key, lower, upper) ==
  LET mid == (lower + upper) \div 2
  IN IF lower > upper THEN -1
     ELSE IF key = a[mid] THEN mid
     ELSE IF key > a[mid] THEN BinaryFrom(a, key, mid + 1, upper)
     ELSE BinaryFrom(a, key, lower, mid - 1)

binary(a, key) == BinaryFrom(a, key, 0, last(a))

\* The probe divides the interval as key divides the values, cut to an integer; it is
\* below lower when key is below the element there.
probe(a, key, lower, upper) ==
  LET range == a[upper] - a[lower]
      scaled == lower * range + (upper - lower) * (key - a[lower])
  IN IF scaled >= 0 THEN scaled \div range
     ELSE IF scaled > -range THEN 0 ELSE Outside

\* seen are the intervals so far: the loop that meets one of them again goes on for
\* ever.
RECURSIVE InterpolationFrom(_, _, _, _, _)
InterpolationFrom(a, key, lower, upper, seen) ==
  LET mid == probe(a, key, lower, upper)
      now == seen \cup {<<lower, upper>>}
  IN IF lower > upper THEN -1
     ELSE IF a[upper] = a[lower] THEN IF key = a[lower] THEN lower ELSE -1
     ELSE IF mid \notin DOMAIN a THEN Outside
     ELSE IF key = a[mid] THEN mid
     ELSE IF <<lower, upper>> \in seen THEN Endless
     ELSE IF key > a[mid] THEN InterpolationFrom(a, key, mid + 1, upper, now)
     ELSE InterpolationFrom(a, key, lower, mid - 1, now)

interpolation(a, key) == InterpolationFrom(a, key, 0, last(a), {})

\* The Fibonacci numbers from 1, 1 up to the first above limit.
generateFibonacciNumber(limit) ==
  LET fib[i \in Nat] == IF i < 2 THEN 1 ELSE fib[i - 1] + fib[i - 2]
      size == Least({i \in 0 .. limit + 2 : fib[i] > limit})
  IN [i \in 0 .. size |-> fib[i]]

\* The array is padded with its last element to one less than a Fibonacci number.
RECURSIVE FibonacciFrom(_, _, _, _, _, _)
FibonacciFrom(a, key, fib, lower, upper, n) ==
  LET paddedSize == fib[last(fib)] - 1
      complement == [i \in 0 .. paddedSize - 1 |-> IF i \in DOMAIN a THEN a[i] ELSE a[last(a)]]
      mid == Least({lower + fib[n - 1] - 1, paddedSize - 1})
  IN IF ~(lower <= upper /\ n >= 2) THEN -1
     ELSE IF complement[mid] > key
          THEN IF mid = 0 THEN -1 ELSE FibonacciFrom(a, key, fib, lower, mid - 1, n - 1)
     ELSE IF complement[mid] < key THEN FibonacciFrom(a, key, fib, mid + 1, upper, n - 2)
     ELSE Least({mid, upper})

fibonacci(a, key) ==
  LET fib == generateFibonacciNumber(last(a) + 1)
  IN IF Cardinality(DOMAIN fib) < 3 THEN -1
     ELSE FibonacciFrom(a, key, fib, 0, last(a), last(fib))

SearchMethods == {"binary", "interpolation", "fibonacci"}

\* Every method returns at once for an empty array and for a key outside its range.
Search(method, a, key) ==
  IF DOMAIN a = {} THEN -1
  ELSE IF key < a[0] \/ key > a[last(a)] THEN -1
  ELSE CASE method = "binary" -> binary(a, key)
         [] method = "interpolation" -> interpolation(a, key)
         [] method = "fibonacci" -> fibonacci(a, key)

--------------------------------------------------------------------------------
\* Match.  A result is the index of a match, or -1.
len(s) == Cardinality(DOMAIN s)

\* pattern stands in text at i: std::memcmp returns 0.
Occurs(text, pattern, i) ==
  \A k \in DOMAIN pattern : i + k \in DOMAIN text /\ text[i + k] = pattern[k]

--------------------------------------------------------------------------------
\* The remainder of C++, which has the sign of the dividend.
Rem(x, n) == IF x < 0 THEN -((-x) % n) ELSE x % n

Hash(s, n) == Up(0, n - 1, LAMBDA i, h : (rollingHashBase * h + s[i]) % rollingHashMod, 0)

RollHash(h, text, pattern, i) ==
  LET pow == Up(1, len(pattern) - 1, LAMBDA k, p : (p * rollingHashBase) % rollingHashMod, 1)
      next == Rem(rollingHashBase * (h - text[i] * pow) + text[i + len(pattern)], rollingHashMod)
  IN IF next < 0 THEN next + rollingHashMod ELSE next

MutConfirmed(text, pattern, i) == TRUE   \* equal hashes are taken for a match

\* Equal hashes are confirmed by a comparison of the characters.
confirmed(text, pattern, i) == Occurs(text, pattern, i)

RECURSIVE RkFrom(_, _, _, _)
RkFrom(text, pattern, i, h) ==
  IF h = Hash(pattern, len(pattern)) /\ confirmed(text, pattern, i) THEN i
  ELSE IF i = len(text) - len(pattern) THEN -1
  ELSE RkFrom(text, pattern, i + 1, RollHash(h, text, pattern, i))

rk(text, pattern) == RkFrom(text, pattern, 0, Hash(text, len(pattern)))

--------------------------------------------------------------------------------
\* The failure table is filled from the entry that is about to be computed, still 0.
Border(next, pattern, i) ==
  LET j[k \in Nat] == IF k > 0 /\ pattern[k] # pattern[i] THEN j[next[k]] ELSE k
  IN j[next[i + 1]]

kmpNext(pattern) ==
  Up(1, len(pattern) - 1,
     LAMBDA i, next : LET j == Border(next, pattern, i)
                      IN IF j > 0 \/ pattern[j] = pattern[i]
                         THEN [next EXCEPT ![i + 1] = j + 1] ELSE next,
     [i \in 0 .. len(pattern) |-> 0])

RECURSIVE KmpFrom(_, _, _, _)
KmpFrom(text, pattern, i, j) ==
  IF i = len(text) THEN -1
  ELSE IF text[i] = pattern[j]
       THEN IF j + 1 = len(pattern) THEN i - j ELSE KmpFrom(text, pattern, i + 1, j + 1)
  ELSE IF j > 0 THEN KmpFrom(text, pattern, i, kmpNext(pattern)[j])
  ELSE KmpFrom(text, pattern, i + 1, 0)

kmp(text, pattern) == KmpFrom(text, pattern, 0, 0)

--------------------------------------------------------------------------------
\* A shift table: what the last entry of a character in the first n of the pattern
\* says, and the default for the others.
ShiftTable(pattern, n, default, shift(_)) ==
  [c \in Chars \cup {0} |->
     LET at == {i \in 0 .. n - 1 : pattern[i] = c}
     IN IF at = {} THEN default ELSE shift(Greatest(at))]

fillBadCharRuleTable(p) == ShiftTable(p, len(p), len(p), LAMBDA i : len(p) - 1 - i)
fillHorspoolBadCharShiftTable(p) == ShiftTable(p, len(p) - 1, len(p), LAMBDA i : len(p) - 1 - i)
fillSundayBadCharShiftTable(p) == ShiftTable(p, len(p), len(p) + 1, LAMBDA i : len(p) - i)

\* First by the longest suffix that is a prefix, then by the suffixes found inside.
fillGoodSuffixRuleTable(p) ==
  LET n == len(p)
      isPrefix(pos) == \A i \in 0 .. n - pos - 2 : p[i] = p[pos + 1 + i]
      lastPrefixIdx(pos) == LET q == {r \in pos .. n - 1 : isPrefix(r)}
                        IN IF q = {} THEN 1 ELSE Least(q) + 1
      suffixLen(pos) == Least({pos + 1} \cup {k \in 0 .. pos : p[pos - k] # p[n - 1 - k]})
  IN Up(0, n - 2,
        LAMBDA pos, t : IF suffixLen(pos) <= pos
                        THEN [t EXCEPT ![n - 1 - suffixLen(pos)] = n - 1 - pos + suffixLen(pos)]
                        ELSE t,
        [pos \in 0 .. n - 1 |-> lastPrefixIdx(pos) + n - 1 - pos])

\* How many characters agree backwards from the end of the pattern at textIdx.
Agreeing(text, pattern, textIdx) ==
  Least({len(pattern)} \cup
        {k \in DOMAIN pattern : pattern[len(pattern) - 1 - k] # text[textIdx - k]})

RECURSIVE BmFrom(_, _, _)
BmFrom(text, pattern, textIdx) ==
  LET n == len(pattern)
      k == Agreeing(text, pattern, textIdx)
      i == textIdx - k
  IN IF textIdx >= len(text) THEN -1
     ELSE IF k = n THEN textIdx - n + 1
     ELSE BmFrom(text, pattern,
                 i + Greatest({fillBadCharRuleTable(pattern)[text[i]],
                               fillGoodSuffixRuleTable(pattern)[n - 1 - k]}))

bm(text, pattern) == BmFrom(text, pattern, len(pattern) - 1)

RECURSIVE HorspoolFrom(_, _, _)
HorspoolFrom(text, pattern, moveLen) ==
  IF moveLen > len(text) - 1 THEN -1
  ELSE IF Agreeing(text, pattern, moveLen) = len(pattern) THEN moveLen - len(pattern) + 1
  ELSE HorspoolFrom(text, pattern,
                    moveLen + fillHorspoolBadCharShiftTable(pattern)[text[moveLen]])

horspool(text, pattern) == HorspoolFrom(text, pattern, len(pattern) - 1)

\* The character behind the window may be the one that ends the text.
RECURSIVE SundayFrom(_, _, _)
SundayFrom(text, pattern, textIdx) ==
  LET behind == textIdx + len(pattern)
  IN IF textIdx > len(text) - len(pattern) THEN -1
     ELSE IF Occurs(text, pattern, textIdx) THEN textIdx
     ELSE SundayFrom(text, pattern,
                     textIdx + fillSundayBadCharShiftTable(pattern)
                                 [IF behind \in DOMAIN text THEN text[behind] ELSE 0])

sunday(text, pattern) == SundayFrom(text, pattern, 0)

MatchMethods == {"rk", "kmp", "bm", "horspool", "sunday"}

\* Every method returns at once for an empty text or pattern and for a longer pattern.
Match(method, text, pattern) ==
  IF DOMAIN text = {} \/ DOMAIN pattern = {} \/ len(text) < len(pattern) THEN -1
  ELSE CASE method = "rk" -> rk(text, pattern)
         [] method = "kmp" -> kmp(text, pattern)
         [] method = "bm" -> bm(text, pattern)
         [] method = "horspool" -> horspool(text, pattern)
         [] method = "sunday" -> sunday(text, pattern)

\* The index of the first occurrence, or -1.
FirstOccurrence(text, pattern) ==
  LET at == {i \in DOMAIN text : DOMAIN pattern # {} /\ Occurs(text, pattern, i)}
  IN IF at = {} THEN -1 ELSE Least(at)

--------------------------------------------------------------------------------
\* Notation, on sequences of tokens: an operator, a parenthesis or an operand.
low    == {"+", "-"}
medium == {"*", "/"}
high   == {"^"}

isOperator(c) == c \in low \cup medium \cup high \cup {"(", ")"}

getPriority(c) ==
  IF c \in low THEN 1 ELSE IF c \in medium THEN 2 ELSE IF c \in high THEN 3 ELSE 0

\* The stack, top first, is unloaded to the output down to the first token at which
\* stop holds.
Unload(s, stop(_)) ==
  LET n == CHOOSE k \in 0 .. Len(s.stack) :
             /\ k < Len(s.stack) => stop(s.stack[k + 1])
             /\ \A i \in 1 .. k : ~stop(s.stack[i])
  IN [out |-> s.out \o SubSeq(s.stack, 1, n), stack |-> SubSeq(s.stack, n + 1, Len(s.stack))]

MutOutranks(c, top) == getPriority(c) >= getPriority(top)   \* equal operators stay

\* An operator unloads those that bind at least as tightly.
Outranks(c, top) == getPriority(c) > getPriority(top)

Read(s, c) ==
  IF ~isOperator(c) THEN [s EXCEPT !.out = Append(@, c)]
  ELSE IF c = "(" THEN [s EXCEPT !.stack = <<c>> \o @]
  ELSE IF c = ")" THEN [Unload(s, LAMBDA t : t = "(") EXCEPT !.stack = Tail(@)]
  ELSE [Unload(s, LAMBDA t : Outranks(c, t)) EXCEPT !.stack = <<c>> \o @]

infixToPostfix(infix) ==
  Unload(FoldLeft(Read, [out |-> <<>>, stack |-> <<>>], infix), LAMBDA t : FALSE).out

postfix(infix) == infixToPostfix(infix)

prefix(infix) ==
  LET flip(c) == IF c = "(" THEN ")" ELSE IF c = ")" THEN "(" ELSE c
      preprocess == [i \in DOMAIN infix |-> flip(Reverse(infix)[i])]
  IN Reverse(infixToPostfix(preprocess))

--------------------------------------------------------------------------------
\* Expressions: an operand, or an operator with two expressions.
Leaf(e) == e.op = "none"
Operand(x) == [op |-> "none", x |-> x]

RECURSIVE Expressions(_, _, _)
Expressions(n, ops, operand) ==
  IF n = 0 THEN {Operand(operand)}
  ELSE UNION {[op : ops, l : Expressions(k, ops, operand), r : Expressions(n - 1 - k, ops, operand)]
              : k \in 0 .. n - 1}

\* The infix notation of an expression.  An operand of an operator stands in
\* parentheses when it binds less, and so does, of the two operands, the one on the
\* side where equal operators would group otherwise.
RECURSIVE Infix(_, _)
Infix(e, grouping) ==
  LET inner(child, side) ==
        IF Leaf(child) THEN Infix(child, grouping)
        ELSE IF \/ getPriority(child.op) < getPriority(e.op)
                \/ getPriority(child.op) = getPriority(e.op) /\ side # grouping
             THEN <<"(">> \o Infix(child, grouping) \o <<")">>
             ELSE Infix(child, grouping)
  IN IF Leaf(e) THEN <<e.x>> ELSE inner(e.l, "left") \o <<e.op>> \o inner(e.r, "right")

RECURSIVE Postorder(_)
Postorder(e) == IF Leaf(e) THEN <<e.x>> ELSE Postorder(e.l) \o Postorder(e.r) \o <<e.op>>

RECURSIVE Preorder(_)
Preorder(e) == IF Leaf(e) THEN <<e.x>> ELSE <<e.op>> \o Preorder(e.l) \o Preorder(e.r)
================================================================================
