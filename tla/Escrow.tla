------------------------------- MODULE Escrow -------------------------------
(***************************************************************************)
(* Key escrow of contrib/pgcrypto_pqc: pqc_escrow_create splits the active *)
(* PQC key with Shamir's scheme over GF(256), pqc_escrow_recover puts it   *)
(* together again.  Every byte of the key is split by itself, so the key   *)
(* is one byte here.  load_audit_key copies it into the memory of the SPI  *)
(* session, which is deleted before the key is read: what is split is a    *)
(* free choice if that memory was reused meanwhile.                        *)
(***************************************************************************)
EXTENDS Integers, Sequences, FiniteSets, Bitwise

CONSTANTS
    KeyBytes,     \* the values a byte of the secret key takes
    NoKey,        \* no PQC audit key is active
    FreedBytes,   \* what memory that was freed and reused yields
    RandomBytes,  \* the values RAND_bytes returns
    ShareCounts,  \* the values tried for num_shares
    MaxThreshold, \* bound: the largest threshold tried
    Custodians,   \* the shares that are brought back for recovery
    MaxPresented  \* bound: shares presented at once

VARIABLES
    key,          \* the active PQC audit key
    escrow,       \* arguments of pqc_escrow_create, the key it was called for,
                  \* the coefficients it used, and whether it could read the key
    shares,       \* the shares it returned
    last          \* what the last call answered

vars == <<key, escrow, shares, last>>

Bytes == 0 .. 255
NoEscrow == [n |-> 0, t |-> 0, key |-> NoKey, coeffs |-> <<>>, intact |-> FALSE]
Answer(status, presented, recovered) ==
    [status |-> status, presented |-> presented, recovered |-> recovered]

-----------------------------------------------------------------------------
\* C's ^ on bytes, a nibble at a time.
NibbleXor == [a \in 0 .. 15, b \in 0 .. 15 |-> a ^^ b]
ByteXor(a, b) == 16 * NibbleXor[a \div 16, b \div 16] + NibbleXor[a % 16, b % 16]

\* Mutant: the field polynomial of another standard.
MulOtherField(a, b) ==
    LET pass[i \in 0 .. 8] ==
            IF i = 0 THEN [r |-> 0, a |-> a, b |-> b]
            ELSE LET p == pass[i - 1] IN
                 [r |-> IF p.b % 2 = 1 THEN ByteXor(p.r, p.a) ELSE p.r,
                  a |-> IF p.a >= 128 THEN ByteXor((2 * p.a) % 256, 29) ELSE 2 * p.a,
                  b |-> p.b \div 2]
    IN pass[8].r

\* gf256_mul: shift and add, one bit of b in each of eight passes.
gf256_mul(a, b) ==
    LET pass[i \in 0 .. 8] ==
            IF i = 0 THEN [r |-> 0, a |-> a, b |-> b]
            ELSE LET p == pass[i - 1] IN
                 [r |-> IF p.b % 2 = 1 THEN ByteXor(p.r, p.a) ELSE p.r,
                  a |-> IF p.a >= 128 THEN ByteXor((2 * p.a) % 256, 27) ELSE 2 * p.a,
                  b |-> p.b \div 2]
    IN pass[8].r

\* The table of all products.
Mul == [a \in Bytes, b \in Bytes |-> gf256_mul(a, b)]

\* gf256_inv: the 254th power, for a # 0.
gf256_inv(a) ==
    LET power[i \in 0 .. 6] ==
            IF i = 0 THEN a ELSE LET p == power[i - 1] IN Mul[Mul[p, p], a]
        result == power[6]
    IN Mul[result, result]

gf256_div(a, b) == Mul[a, gf256_inv(b)]

\* gf256_poly_eval; coeffs[1] is the constant term.
gf256_poly_eval(coeffs, x) ==
    LET term[i \in 1 .. Len(coeffs)] ==
            IF i = 1 THEN [sum |-> coeffs[1], power |-> 1]
            ELSE LET p == term[i - 1]
                     power == Mul[p.power, x]
                 IN [sum |-> ByteXor(p.sum, Mul[coeffs[i], power]), power |-> power]
    IN term[Len(coeffs)].sum

\* The products of the inner loop of gf256_lagrange_interpolate.
Num(xs, i) ==
    LET prod[j \in 0 .. Len(xs)] ==
            IF j = 0 THEN 1 ELSE IF j = i THEN prod[j - 1] ELSE Mul[prod[j - 1], xs[j]]
    IN prod[Len(xs)]

Den(xs, i) ==
    LET prod[j \in 0 .. Len(xs)] ==
            IF j = 0 THEN 1 ELSE IF j = i THEN prod[j - 1] ELSE Mul[prod[j - 1], ByteXor(xs[i], xs[j])]
    IN prod[Len(xs)]

\* Mutant: numerator and denominator of the basis polynomials swapped.
InterpolateSwapped(xs, ys) ==
    LET sum[i \in 0 .. Len(xs)] ==
            IF i = 0 THEN 0
            ELSE ByteXor(sum[i - 1], Mul[ys[i], gf256_div(Den(xs, i), Num(xs, i))])
    IN sum[Len(xs)]

gf256_lagrange_interpolate(xs, ys) ==
    LET sum[i \in 0 .. Len(xs)] ==
            IF i = 0 THEN 0
            ELSE ByteXor(sum[i - 1], Mul[ys[i], gf256_div(Num(xs, i), Den(xs, i))])
    IN sum[Len(xs)]

-----------------------------------------------------------------------------
Init ==
    /\ key = NoKey
    /\ escrow = NoEscrow
    /\ shares = <<>>
    /\ last = Answer("none", <<>>, 0)

\* pqc_audit_init_keys replaces the active key (see AuditLog).
InitKeys ==
    /\ key' \in KeyBytes
    /\ UNCHANGED <<escrow, shares, last>>

\* One point of the polynomial for each custodian, from x = 1 up.
MakeShares(coeffs, n) == [i \in 1 .. n |-> [x |-> i % 256, y |-> gf256_poly_eval(coeffs, i % 256)]]

\* An error, of the arguments, of load_audit_key without an active key, of
\* RAND_bytes, or of pfree for a key whose memory is gone: no shares.
CreateFails ==
    /\ last' = Answer("error", <<>>, 0)
    /\ UNCHANGED <<key, escrow, shares>>

\* Shares of the byte c, of which pqc_secure_free wipes those that were given
\* the key's memory.
Create(n, t, c, wiped) ==
    /\ \E random \in [1 .. t - 1 -> RandomBytes] :
         LET coeffs == <<c>> \o random
             made == MakeShares(coeffs, n)
         IN
         /\ escrow' = [n |-> n, t |-> t, key |-> key, coeffs |-> coeffs, intact |-> c = key /\ wiped = {}]
         /\ shares' = [i \in 1 .. n |-> IF i \in wiped THEN [x |-> 0, y |-> 0] ELSE made[i]]
    /\ last' = Answer("created", <<>>, 0)
    /\ UNCHANGED key

\* SPI_finish has deleted the memory the key is in: it still holds the key, or
\* it was reused, for shares among other things.
CreateFromFreed(n, t) ==
    \/ Create(n, t, key, {})
    \/ \E c \in FreedBytes, wiped \in SUBSET (Custodians \cap 1 .. n) : Create(n, t, c, wiped)
    \/ CreateFails

\* Mutant: the upper bound on num_shares is missing.
EscrowCreateUnbounded(n, t) ==
    IF n < 2 \/ t < 2 \/ t > n \/ key = NoKey THEN CreateFails ELSE CreateFromFreed(n, t)

\* pqc_escrow_create(name, n, t).  (The metadata row is left out: only the
\* report pqc_backup_key_info reads it, and a failure to write it is ignored.)
EscrowCreate(n, t) ==
    IF n < 2 \/ n > 255 \/ t < 2 \/ t > n \/ key = NoKey THEN CreateFails ELSE CreateFromFreed(n, t)

\* pqc_escrow_recover: at least two shares; a zero denominator is an error.
EscrowRecover(presented) ==
    LET xs == [i \in DOMAIN presented |-> shares[presented[i]].x]
        ys == [i \in DOMAIN presented |-> shares[presented[i]].y]
    IN
    /\ last' = IF Len(presented) < 2 \/ \E i \in DOMAIN xs : Den(xs, i) = 0
               THEN Answer("error", presented, 0)
               ELSE Answer("success", presented, gf256_lagrange_interpolate(xs, ys))
    /\ UNCHANGED <<key, escrow, shares>>

\* One escrow, and of the recoveries, which change nothing, one.
Next ==
    \/ InitKeys
    \/ escrow = NoEscrow /\ \E n \in ShareCounts, t \in 1 .. MaxThreshold : EscrowCreate(n, t)
    \/ last.presented = <<>> /\ \E m \in 1 .. MaxPresented :
         \E presented \in [1 .. m -> Custodians \cap 1 .. escrow.n] : EscrowRecover(presented)

Spec == Init /\ [][Next]_vars

-----------------------------------------------------------------------------
\* Reference definition of the field: polynomials over GF(2) as bit strings,
\* multiplied without carries and reduced modulo x^8 + x^4 + x^3 + x + 1.
Bit(a, i) == (a \div 2^i) % 2

Product(a, b) ==
    LET sum[i \in -1 .. 7] ==
            IF i = -1 THEN 0 ELSE IF Bit(b, i) = 1 THEN sum[i - 1] ^^ (a * 2^i) ELSE sum[i - 1]
    IN sum[7]

Residue(a) ==
    LET rem[i \in 7 .. 15] ==
            IF i = 15 THEN a
            ELSE LET r == rem[i + 1] IN IF Bit(r, i + 1) = 1 THEN r ^^ (283 * 2^(i - 7)) ELSE r
    IN rem[7]

Times(a, b) == Residue(Product(a, b))

\* Horner's rule over the reference field.
Value(coeffs, x) ==
    LET h[i \in 1 .. Len(coeffs)] ==
            IF i = Len(coeffs) THEN coeffs[i] ELSE ByteXor(coeffs[i], Times(h[i + 1], x))
    IN h[1]

\* Type invariant: shares, coordinates and recovered bytes are uint8.
TypeOK ==
    /\ key \in Bytes \cup {NoKey} /\ escrow.key \in Bytes \cup {NoKey}
    /\ escrow.n \in 0 .. 255 /\ escrow.t \in 0 .. escrow.n
    /\ escrow.coeffs \in Seq(Bytes) /\ Len(escrow.coeffs) = escrow.t
    /\ DOMAIN shares = 1 .. escrow.n
    /\ \A i \in DOMAIN shares : shares[i].x \in Bytes /\ shares[i].y \in Bytes
    /\ last.status \in {"none", "created", "error", "success"} /\ last.recovered \in Bytes

\* gf256_mul, gf256_inv and gf256_poly_eval compute in GF(2^8): every share is a
\* point of the escrow polynomial, and every x-coordinate, up to the 255th, has
\* the inverse the interpolation divides by.  (Wiped shares are no points.)
SharesOnPolynomial ==
    last.status = "created" /\ escrow.intact =>
        \A i \in DOMAIN shares :
            /\ shares[i].y = Value(escrow.coeffs, shares[i].x)
            /\ shares[i].x # 0 => Times(shares[i].x, gf256_inv(shares[i].x)) = 1

\* An escrow whose key was still in the freed memory can be used: any of its
\* shares, in any order, as many as its threshold or more, give back the key that
\* was active when it was created, whatever replaced the key since.  A share that
\* is presented twice is an error, not another key (pqc_escrow_recover).
Distinct(s) == Cardinality({s[i] : i \in DOMAIN s}) = Len(s)

RecoversEscrowedKey ==
    last.presented # <<>> /\ Len(last.presented) >= escrow.t /\ escrow.intact =>
        IF Distinct(last.presented) THEN last.status = "success" /\ last.recovered = escrow.key
                                    ELSE last.status = "error"
=============================================================================
