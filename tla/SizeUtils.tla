------------------------------ MODULE SizeUtils ------------------------------
(***************************************************************************)
(* src/util/size_utils.js: byte counts that may not fit a double.  A size  *)
(* is either a plain JS number below one PETABYTE or an object             *)
(* {n: bytes, peta: petabytes}.  The functions are pure; they are modelled *)
(* as operators and used by the TierServer module.                         *)
(*                                                                         *)
(* Scaling.  In the code PETABYTE = 2^50 and a JS number (an IEEE double)  *)
(* holds every integer up to 2^53 exactly, i.e. up to 8 petabytes.  The    *)
(* model scales both down together: PETABYTE = 2^P and a double has        *)
(* MANTISSA_BITS = P + 3 significant bits, so the ratio between the        *)
(* petabyte carry and the precision limit is the one of the code.          *)
(* PETA_MIN_INIT is the sentinel peta count of reduce_minimum (100000 in   *)
(* the code), scaled with the rest.                                        *)
(***************************************************************************)
EXTENDS Integers, Sequences, SequencesExt, TLC

CONSTANTS
    PETABYTE,        \* size_utils.js:20, 1024^5 in the code
    MANTISSA_BITS,   \* significant bits of a JS number (53 in the code)
    PETA_MIN_INIT,   \* size_utils.js:133, initial peta_min of reduce_minimum
    STORAGE_KEYS     \* the members of SOTRAGE_OBJ_KEYS the model tells apart

ASSUME /\ PETABYTE \in Nat \ {0}
       /\ 2^MANTISSA_BITS = 8 * PETABYTE
       /\ PETA_MIN_INIT \in Nat

(***************************************************************************)
(* Size values.  The code tells the two shapes apart with typeof, so the   *)
(* model keeps the shape: a plain number, or a {n, peta} object.           *)
(***************************************************************************)
Num(k) == [form |-> "num", n |-> k, peta |-> 0]
Obj(n, p) == [form |-> "obj", n |-> n, peta |-> p]

\* The byte count a size value stands for.
Bytes(v) == v.peta * PETABYTE + v.n

\* JS truthiness of a size value: only the number 0 is falsy.
Truthy(v) == v.form = "obj" \/ v.n # 0

\* `return !peta ? n : { n: n, peta: peta }`
Canonical(n, peta) == IF peta = 0 THEN Num(n) ELSE Obj(n, peta)

\* `while (n >= PETABYTE) { n -= PETABYTE; peta += 1; }`, as <<n, peta>>.
CarryPeta(n, peta) == <<n % PETABYTE, peta + n \div PETABYTE>>

(***************************************************************************)
(* JS number arithmetic on non-negative integers: round to the nearest     *)
(* double with MANTISSA_BITS significant bits, ties to even.               *)
(***************************************************************************)
RECURSIVE BitLen(_)
BitLen(k) == IF k = 0 THEN 0 ELSE 1 + BitLen(k \div 2)

\* The number of units 2^e nearest to num / den, ties to an even count.
NearestUnits(num, den, e) ==
    LET a == IF e >= 0 THEN num ELSE num * 2^(-e)
        b == IF e >= 0 THEN den * 2^e ELSE den
        q == a \div b
        r == a % b
    IN  IF 2 * r > b \/ (2 * r = b /\ q % 2 = 1) THEN q + 1 ELSE q

\* The double an exact integer result becomes.
ToDouble(x) ==
    LET e == BitLen(x) - MANTISSA_BITS
    IN  IF e <= 0 THEN x ELSE NearestUnits(x, 1, e) * 2^e

\* Math.floor(num / den) for doubles num >= 0 and den >= 1: the quotient
\* is rounded to a double before floor sees it.
JsFloorDiv(num, den) ==
    LET e == BitLen(num \div den) - MANTISSA_BITS
        q == NearestUnits(num, den, e)
    IN  IF e >= 0 THEN q * 2^e ELSE q \div 2^(-e)

(***************************************************************************)
(* to_bigint(x).  For a plain number `peta` is undefined, so `peta += 1`   *)
(* yields NaN and `!peta` is true: the carried petabytes are dropped.      *)
(***************************************************************************)
to_bigint(x) ==
    LET c == CarryPeta(x.n, x.peta)
    IN  IF x.form = "obj" THEN Canonical(c[1], c[2]) ELSE Num(c[1])

(***************************************************************************)
(* bigint_factor(bigint, mult_factor, div_factor): the peta part is scaled *)
(* in integers and its remainder is moved, in bytes, into n; every         *)
(* arithmetic step on n is a double operation.                             *)
(***************************************************************************)
\* Mutant of bigint_factor: the peta remainder is dropped instead of being
\* moved into n.
bigint_factor_no_carry(v, mult, div) ==
    LET peta     == v.peta * mult
        peta_mod == peta % div
        n        == JsFloorDiv(ToDouble(v.n * mult), div)
        c        == CarryPeta(n, (peta - peta_mod) \div div)
    IN  Canonical(c[1], c[2])

bigint_factor(v, mult, div) ==
    LET peta     == v.peta * mult
        peta_mod == peta % div
        n        == JsFloorDiv(ToDouble(peta_mod * PETABYTE + ToDouble(v.n * mult)), div)
        c        == CarryPeta(n, (peta - peta_mod) \div div)
    IN  Canonical(c[1], c[2])

(***************************************************************************)
(* reduce_minimum(key, values): a scan that keeps the smallest (peta, n)   *)
(* seen, starting from the sentinel (PETA_MIN_INIT, PETABYTE).             *)
(***************************************************************************)
\* Mutant of reduce_minimum: the scan compares the peta counts only.
reduce_minimum_peta_only(values) ==
    LET Step(acc, v) ==
            LET c == CarryPeta(v.n, v.peta)
            IN  IF c[2] < acc[2] THEN c ELSE acc
        m == FoldLeft(Step, <<PETABYTE, PETA_MIN_INIT>>, values)
    IN  Canonical(m[1], m[2])

reduce_minimum(values) ==
    LET Step(acc, v) ==
            LET c == CarryPeta(v.n, v.peta)
            IN  IF c[2] < acc[2] \/ (c[2] = acc[2] /\ c[1] < acc[1])
                THEN c ELSE acc
        m == FoldLeft(Step, <<PETABYTE, PETA_MIN_INIT>>, values)
    IN  Canonical(m[1], m[2])

(***************************************************************************)
(* reduce_sum is mongo_functions.reduce_sum (util/mongo_functions.js, not  *)
(* part of the sources): the exact sum of the sizes, as a normalised size. *)
(***************************************************************************)
reduce_sum(values) ==
    LET total == FoldLeft(LAMBDA acc, v : acc + Bytes(v), 0, values)
    IN  Canonical(total % PETABYTE, total \div PETABYTE)

(***************************************************************************)
(* A storage object maps some of STORAGE_KEYS to sizes (a partial          *)
(* function).  reduce_storage collects, per key, the truthy values of the  *)
(* items in order, reduces each non-empty list and scales the result.      *)
(***************************************************************************)
Collected(items, k) ==
    LET has == SelectSeq(items, LAMBDA it : k \in DOMAIN it /\ Truthy(it[k]))
    IN  [i \in 1..Len(has) |-> has[i][k]]

\* The reducer argument, a function in the code, is named: "sum" or "minimum".
Reduce(reducer, values) ==
    IF reducer = "minimum" THEN reduce_minimum(values) ELSE reduce_sum(values)

reduce_storage(reducer, items, mult, div) ==
    [k \in {key \in STORAGE_KEYS : Collected(items, key) # <<>>} |->
        bigint_factor(Reduce(reducer, Collected(items, k)), mult, div)]

\* _.defaults(storage, dflt): keys already present keep their value.
Defaults(storage, dflt) == storage @@ dflt

=============================================================================
