----------------------------- MODULE FormatSize -----------------------------
(***************************************************************************)
(* format_size of crio-df.py (lines 34-56): a byte count as a decimal (SI) *)
(* size with at most three significant digits.  A result is the unit index *)
(* u, the number of decimals p and the integer m whose digits are printed, *)
(* so it stands for m / 10^p units of 1000^u bytes.                       *)
(*                                                                         *)
(* size is a float divided by 1000 once per unit; its printed rounding is *)
(* the nearest m.  A tie at .0f (x.5) is exact in binary and goes to the *)
(* even neighbour; at .1f or .2f most decimal ties are not, and the float *)
(* lies on either side, so both neighbours are allowed.                   *)
(***************************************************************************)
EXTENDS Naturals, Integers, Sequences

Units == <<"B", "KB", "MB", "GB", "TB">>

Pow1000(u) == 1000^u

(* A slip: two decimals only below 1, one from 1 on. *)
PrecisionFromOne(b, u) ==
    CASE u = 0 -> 0
      [] b \div Pow1000(u) >= 100 -> 0
      [] b \div Pow1000(u) >= 1 -> 1
      [] OTHER -> 2

(* Lines 47-56: whole bytes; otherwise .0f from 100, .1f from 10, .2f. *)
Precision(b, u) ==
    CASE u = 0 -> 0
      [] b \div Pow1000(u) >= 100 -> 0
      [] b \div Pow1000(u) >= 10 -> 1
      [] OTHER -> 2

(* f"{x:.pf}" of x = n / d: the nearest integer; at an exact tie the even *)
(* one when the tie is exact in binary, either one otherwise.             *)
Rounded(n, d, binaryExact) ==
    LET q == n \div d
        r == n % d
    IN  CASE 2 * r < d -> {q}
          [] 2 * r > d -> {q + 1}
          [] binaryExact -> {IF q % 2 = 0 THEN q ELSE q + 1}
          [] OTHER -> {q, q + 1}

CONSTANT SizeInputs   \* byte counts the report may format

VARIABLES
    bytes,      \* bytes_value
    unitIndex,  \* unit_index; size is bytes / 1000^unitIndex
    printed     \* the result as <<u, p, m>>, <<>> before the return

fsVars == <<bytes, unitIndex, printed>>

FsInit == bytes \in SizeInputs /\ unitIndex = 0 /\ printed = <<>>

(* Lines 36-37: zero is "0B" at once. *)
Zero ==
    /\ printed = <<>> /\ bytes = 0
    /\ printed' = <<0, 0, 0>>
    /\ UNCHANGED <<bytes, unitIndex>>

Looping == bytes \div Pow1000(unitIndex) >= 1000 /\ unitIndex < Len(Units) - 1

(* Lines 43-45: one iteration of the unit loop. *)
DivideSize ==
    /\ printed = <<>> /\ bytes # 0 /\ Looping
    /\ unitIndex' = unitIndex + 1
    /\ UNCHANGED <<bytes, printed>>

(* Lines 47-56: the loop has ended; print with the precision for size.  *)
PrintSize ==
    /\ printed = <<>> /\ bytes # 0 /\ ~Looping
    /\ LET u == unitIndex
           p == Precision(bytes, u)
           d == Pow1000(u) \div 10^p     \* bytes per printed unit of m
       IN  printed' \in {<<u, p, m>> : m \in IF u = 0 THEN {bytes}
                                             ELSE Rounded(bytes, d, p = 0)}
    /\ UNCHANGED <<bytes, unitIndex>>

(* format_size has returned. *)
Returned ==
    /\ printed # <<>>
    /\ UNCHANGED fsVars

FsNext == Zero \/ DivideSize \/ PrintSize \/ Returned

FsSpec == FsInit /\ [][FsNext]_fsVars

-----------------------------------------------------------------------------
(* Bytes of one printed unit of m in a result r. *)
Step(r) == Pow1000(r[1]) \div 10^r[2]

(* The unit a reader expects: the largest power of 1000 not above b.  TLC *)
(* integers stay below 2^31, so below TB.                                 *)
ExpectedUnit(b) == CHOOSE u \in 0..3 : b \div Pow1000(u) \in 1..999

(* Every size the report prints (image, shared, unique, compressed and    *)
(* total columns, lines 297-340) is in the unit a reader expects and      *)
(* within 0.5% of the byte count: three significant digits, whichever     *)
(* side of a precision threshold the count falls and however the float    *)
(* rounds at a tie.                                                        *)
FormatSizeAccurate ==
    printed # <<>> /\ bytes # 0 =>
        /\ printed[1] = ExpectedUnit(bytes)
        /\ 200 * (IF printed[3] * Step(printed) >= bytes
                  THEN printed[3] * Step(printed) - bytes
                  ELSE bytes - printed[3] * Step(printed)) <= bytes
=============================================================================
