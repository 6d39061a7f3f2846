------------------------------ MODULE Backoff ------------------------------
(***************************************************************************)
(* The pause before a finished workflow is processed again                 *)
(* (argoCabooseRunner.backoff): two seconds times 2^retries, but at most   *)
(* five minutes, in nanoseconds and in the 64 bits of an int.  A word is   *)
(* the set of its one bits here; the integers of TLC are too narrow.       *)
(***************************************************************************)
EXTENDS Integers, FiniteSets, FiniteSetsExt

CONSTANT MaxRetries  \* bound: how often a workflow is tried again

ASSUME BackoffAssumption == MaxRetries \in Nat

VARIABLES
    retries,
    pause     \* the last pause, a word

backoffVars == <<retries, pause>>

Word == 0 .. 63

Bits(n) == {k \in 0 .. 30 : (n \div 2^k) % 2 = 1}

\* The product with 2^k: what does not fit is lost.
Shift(word, k) == {i + k : i \in word} \cap Word

Negative(word) == 63 \in word

\* Greater, of numbers with a sign: between two of the same sign the highest bit
\* in which they differ decides.
Greater(a, b) ==
    LET differ == (a \ b) \cup (b \ a)
    IN  IF Negative(a) # Negative(b) THEN Negative(b)
        ELSE differ # {} /\ Max(differ) \in a

minBackoff == Shift(Bits(1953125), 10)     \* 2 * 10^9
maxBackoff == Shift(Bits(146484375), 11)   \* 300 * 10^9

\* Mutant: the first pause is doubled already.
IntPow2Early(m) == Shift({0}, m + 1)

\* utils.IntPow(2, m)
IntPow2(m) == Shift({0}, m)

\* IntPow2(m) has one bit at most.
BackoffSecs(m) ==
    LET product == UNION {Shift(minBackoff, k) : k \in IntPow2(m)}
    IN  IF Greater(product, maxBackoff) THEN maxBackoff ELSE product

BackoffInit == retries = 0 /\ pause = {}

backoff ==
    /\ retries < MaxRetries
    /\ pause' = BackoffSecs(retries)
    /\ retries' = retries + 1

BackoffSpec == BackoffInit /\ [][backoff]_backoffVars

\* Seconds, as a word.
Seconds(n) == Shift(Bits(n * 1953125), 9)

\* The pauses double from two seconds to five minutes and stay there, for the first
\* 33 of them, which takes more than two hours.  None is ever longer than five
\* minutes, but the product then outgrows an int: some pauses turn negative, and
\* from the 55th on there is none, which fires the timer at once, for ever.
PausesAreKept ==
    /\ retries \in 1 .. 33 =>
         pause = Seconds(IF retries > 8 THEN 300 ELSE 2^retries)
    /\ ~Greater(pause, maxBackoff)
    /\ retries > 54 => pause = {}
=============================================================================
