------------------------ MODULE MatrixFiles_proofs ------------------------
(***************************************************************************)
(* The server's files are an array of blocks, for any number of rows, any  *)
(* size of a byte, a block, a piece and the matrix that divide each other  *)
(* as the code takes for granted, and a server that is killed only where   *)
(* its buffers hold nothing between two requests.                          *)
(***************************************************************************)
EXTENDS MatrixFiles, FiniteSetTheorems, TLAPS

---------------------------------------------------------------------------
(* Division.                                                               *)
LEMMA DivRem ==
    ASSUME NEW a \in Nat, NEW n \in Nat \ {0}
    PROVE  a \div n \in Nat /\ a % n \in 0 .. n - 1 /\ a = n * (a \div n) + (a % n)
    OBVIOUS

LEMMA DivUnique ==
    ASSUME NEW a \in Nat, NEW n \in Nat \ {0}, NEW q \in Int, NEW r \in 0 .. n - 1,
           a = n * q + r
    PROVE  a \div n = q /\ a % n = r
    OBVIOUS

Divides(a, n, q, r) ==
    /\ a \in Nat /\ n \in Nat \ {0} /\ q \in Int /\ r \in 0 .. n - 1
    /\ a = n * q + r

LEMMA Divided ==
    ASSUME NEW a, NEW n, NEW q, NEW r, Divides(a, n, q, r)
    PROVE  a \div n = q /\ a % n = r
    BY DivUnique DEF Divides

LEMMA DivExact ==
    ASSUME NEW a \in Nat, NEW n \in Nat \ {0}, a % n = 0
    PROVE  a \div n \in Nat /\ a = n * (a \div n)
    BY DivRem

LEMMA TimesMonotone ==
    ASSUME NEW x \in Int, NEW y \in Int, x < y, NEW n \in Nat
    PROVE  x * n + n <= y * n
<1>1. x + 1 <= y
    OBVIOUS
<1>2. (x + 1) * n <= y * n
    BY <1>1
<1> QED
    BY <1>2

LEMMA TimesCancel ==
    ASSUME NEW x \in Int, NEW y \in Int, NEW n \in Nat \ {0}, x * n < y * n
    PROVE  x < y
    OBVIOUS

(* Where a block begins in its piece: a multiple of the block that leaves  *)
(* room for it.                                                            *)
LEMMA BlockStart ==
    ASSUME NEW K \in Nat \ {0}, NEW Q \in Nat \ {0}, Q % K = 0, NEW b \in Nat
    PROVE  /\ \E t \in Nat : (b * K) % Q = t * K
           /\ ((b * K) % Q) + K <= Q
<1> DEFINE e == Q \div K
           q == (b * K) \div Q
           s == (b * K) % Q
           t == b - e * q
<1>1. e \in Nat /\ Q = K * e
    BY DivExact
<1>2. b * K \in Nat
    OBVIOUS
<1>3. q \in Nat /\ s \in 0 .. Q - 1 /\ b * K = Q * q + s
    BY <1>2, DivRem
<1> HIDE DEF e, q, s
<1>4. Q * q = (e * q) * K
    BY <1>1, <1>3
<1>5. t \in Int /\ s = t * K
    BY <1>1, <1>3, <1>4
<1>6. t * K < e * K /\ -1 * K < t * K
    BY <1>1, <1>3, <1>5
<1>7. t < e /\ -1 < t
    <2> HIDE DEF t
    <2> QED
        BY <1>1, <1>5, <1>6, TimesCancel
<1>8. t \in Nat
    BY <1>5, <1>7
<1>9. s + K <= Q
    <2> HIDE DEF t
    <2>1. t * K + K <= e * K
        BY <1>1, <1>5, <1>7, TimesMonotone
    <2> QED
        BY <1>1, <1>5, <2>1
<1> QED
    BY <1>5, <1>8, <1>9 DEF s

(* The bytes that are read for a block begin at or before the block, hold  *)
(* all of it and stay inside the row of the piece.                         *)
Sizes(B, K, P, Q, b, s, i, w) ==
    /\ B \in Nat \ {0} /\ K \in Nat \ {0} /\ P \in Nat \ {0} /\ b \in Nat
    /\ Q = P * B /\ Q % K = 0
    /\ K % B = 0 \/ B % K = 0
    /\ s = (b * K) % Q
    /\ i = IF K < B THEN b % (B \div K) ELSE 0
    /\ w = ((K + B - 1) \div B) * B

LEMMA BlockInBytes ==
    ASSUME NEW B, NEW K, NEW P, NEW Q, NEW b, NEW s, NEW i, NEW w,
           Sizes(B, K, P, Q, b, s, i, w)
    PROVE  /\ i \in Nat /\ w \in Nat /\ s \in Nat /\ s \div B \in Nat
           /\ (s \div B) * B + i * K = s
           /\ i * K + K <= w
           /\ (s \div B) * B + w <= Q
           /\ K % B = 0 => i = 0 /\ w = K
<1> USE DEF Sizes
<1>1. Q \in Nat \ {0} /\ b * K \in Nat
    OBVIOUS
<1>2. s \in 0 .. Q - 1 /\ s + K <= Q
    BY <1>1, BlockStart, DivRem
<1>3. PICK t \in Nat : s = t * K
    <2>1. \E t \in Nat : (b * K) % Q = t * K
        BY <1>1, BlockStart
    <2> QED
        BY <2>1
<1>4. s \div B \in Nat /\ s \in Nat
    <2>1. s \in Nat
        BY <1>2
    <2> QED
        BY <2>1, DivRem
<1>5. CASE K % B = 0
    <2>1. PICK m \in Nat : K = B * m
        BY <1>5, DivExact
    <2>2. s = B * (t * m) /\ t * m \in Int
        BY <1>3, <2>1
    <2>3. s \div B = t * m
        <3> DEFINE u == t * m
        <3>1. u \in Int /\ s = B * u + 0 /\ 0 \in 0 .. B - 1 /\ s \in Nat
            BY <1>4, <2>2
        <3> HIDE DEF u
        <3>2. Divides(s, B, u, 0)
            BY <3>1 DEF Divides
        <3>3. s \div B = u
            BY <3>2, Divided
        <3> QED
            BY <3>3 DEF u
    <2>4. m # 0
        BY <2>1
    <2>5. ~(K < B)
        <3>1. 0 < m
            BY <2>4
        <3>2. 0 * B + B <= m * B
            BY <3>1, TimesMonotone
        <3> QED
            BY <2>1, <3>2
    <2>6. i = 0
        BY <2>5
    <2>7. (K + B - 1) \div B = m
        <3>1. K + B - 1 \in Nat /\ B - 1 \in 0 .. B - 1 /\ K + B - 1 = B * m + (B - 1)
            BY <2>1
        <3> QED
            BY <3>1, DivUnique
    <2>8. w = K
        BY <2>1, <2>7
    <2>9. (s \div B) * B = s
        <3>1. (t * m) * B = B * (t * m)
            BY <2>1
        <3> QED
            BY <2>2, <2>3, <3>1
    <2> QED
        BY <1>2, <1>4, <2>6, <2>8, <2>9
<1>6. CASE K % B # 0
    <2>1. PICK m \in Nat : B = K * m
        BY <1>6, DivExact
    <2>2. B \div K = m /\ m # 0
        <3>1. B = K * m + 0 /\ 0 \in 0 .. K - 1
            BY <2>1
        <3> QED
            BY <2>1, <3>1, DivUnique
    <2>3. K < B
        <3>1. m # 1
            <4> SUFFICES ASSUME m = 1 PROVE FALSE
                OBVIOUS
            <4>1. B = K
                BY <2>1
            <4>2. K = K * 1 + 0 /\ 0 \in 0 .. K - 1
                OBVIOUS
            <4>3. K % K = 0
                BY <4>2, DivUnique
            <4> QED
                BY <1>6, <4>1, <4>3
        <3>2. 1 < m
            BY <2>2, <3>1
        <3>3. 1 * K + K <= m * K
            BY <3>2, TimesMonotone
        <3> QED
            BY <2>1, <3>3
    <2>4. i = b % m /\ i \in 0 .. m - 1 /\ b \div m \in Nat /\ b = m * (b \div m) + i
        BY <2>2, <2>3, DivRem
    <2>5. i * K + K <= B /\ i * K \in 0 .. B - 1
        <3>1. i < m
            BY <2>4
        <3>2. i * K + K <= m * K
            BY <2>4, <3>1, TimesMonotone
        <3>3. i * K \in Nat
            BY <2>4
        <3> QED
            BY <2>1, <3>2, <3>3
    <2>6. (K + B - 1) \div B = 1 /\ w = B
        <3>1. K + B - 1 \in Nat /\ K - 1 \in 0 .. B - 1 /\ K + B - 1 = B * 1 + (K - 1)
            BY <2>3
        <3>2. (K + B - 1) \div B = 1
            BY <3>1, DivUnique
        <3> QED
            BY <3>2
    <2>7. s \div B = (b \div m) - P * ((b * K) \div Q) /\ s = B * (s \div B) + i * K
        <3> DEFINE q == (b * K) \div Q
                   d == b \div m
        <3>1. q \in Nat /\ b * K = Q * q + s
            BY <1>1, DivRem
        <3> HIDE DEF q, d
        <3>2. d \in Nat /\ b = m * d + i
            BY <2>4 DEF d
        <3>3. b * K = B * d + i * K
            <4>1. b * K = (m * d) * K + i * K
                BY <2>4, <3>2
            <4>2. (m * d) * K = (K * m) * d
                BY <3>2
            <4> QED
                BY <2>1, <4>1, <4>2
        <3>4. Q * q = B * (P * q)
            BY <3>1
        <3>5. s = B * d - B * (P * q) + i * K
            BY <1>2, <2>5, <3>1, <3>2, <3>3, <3>4
        <3>6. B * d - B * (P * q) = B * (d - P * q)
            BY <3>1, <3>2
        <3>7. d - P * q \in Int /\ s = B * (d - P * q) + i * K
            BY <3>1, <3>2, <3>5, <3>6
        <3>8. s \div B = d - P * q
            <4> DEFINE u == d - P * q
                   v == i * K
            <4>1. u \in Int /\ s = B * u + v /\ v \in 0 .. B - 1 /\ s \in Nat
                BY <1>4, <2>5, <3>7
            <4> HIDE DEF u, v
            <4>2. s \div B = u
                BY <4>1
            <4> QED
                BY <4>2 DEF u
        <3> QED
            BY <3>7, <3>8 DEF q, d
    <2>8. (s \div B) * B + B <= P * B
        <3> DEFINE u == s \div B
        <3>1. u \in Nat /\ u * B < P * B
            BY <1>2, <1>4, <2>5, <2>7
        <3> HIDE DEF u
        <3>2. u < P
            BY <3>1, TimesCancel
        <3>3. u * B + B <= P * B
            BY <3>1, <3>2, TimesMonotone
        <3> QED
            BY <3>3 DEF u
    <2> QED
        BY <1>4, <1>6, <2>4, <2>5, <2>6, <2>7, <2>8
<1> QED
    BY <1>5, <1>6

---------------------------------------------------------------------------
(* The configuration of the server.                                        *)
LEMMA Geo ==
    ASSUME geo \in Geometries
    PROVE  /\ geo.byte \in Nat \ {0} /\ geo.block \in Nat \ {0}
           /\ geo.piece \in Nat \ {0} /\ geo.cols \in Nat \ {0}
           /\ geo.states \in BOOLEAN /\ geo.restarts \in BOOLEAN
           /\ PieceBits \in Nat \ {0} /\ PieceBits % geo.block = 0
           /\ geo.cols % PieceBits = 0
           /\ geo.block % geo.byte = 0 \/ geo.byte % geo.block = 0
           /\ NumRows \in Nat \ {0} /\ MaxWrites \in Nat
<1>1. /\ geo.byte \in Nat \ {0} /\ geo.block \in Nat \ {0}
      /\ geo.piece \in Nat \ {0} /\ geo.cols \in Nat \ {0}
    BY MatrixFilesAssumption
<1>2. geo.piece * geo.byte \in Nat \ {0}
    BY <1>1
<1> QED
    BY <1>1, <1>2, MatrixFilesAssumption DEF PieceBits

(* The column of bit j of the bytes that are read for block b.             *)
Col(b, j) == PieceOf(b) * PieceBits + (n1(b) * geo.byte + j)

WholeBytes == geo.block % geo.byte = 0

LEMMA ColumnOf ==
    ASSUME geo \in Geometries, NEW b \in Blocks
    PROVE  /\ PieceOf(b) \in Pieces
           /\ n1(b) \in Nat
           /\ InBuffer(b) \subseteq BufferBits
           /\ 0 \in BufferBits
           /\ WholeBytes => InBuffer(b) = BufferBits
           /\ \A j \in BufferBits :
                 /\ n1(b) * geo.byte + j \in 0 .. PieceBits - 1
                 /\ Col(b, j) \in Cols
                 /\ Col(b, j) \div PieceBits = PieceOf(b)
                 /\ Col(b, j) % PieceBits = n1(b) * geo.byte + j
                 /\ Blk(Col(b, j)) = b <=> j \in InBuffer(b)
           /\ \A c \in Cols : Blk(c) = b => \E j \in InBuffer(b) : c = Col(b, j)
<1> DEFINE B == geo.byte
           K == geo.block
           Q == PieceBits
           C == geo.cols
           s == (b * K) % Q
           p == (b * K) \div Q
           i == IF K < B THEN b % (B \div K) ELSE 0
           w == ((K + B - 1) \div B) * B
<1>1. /\ B \in Nat \ {0} /\ K \in Nat \ {0} /\ Q \in Nat \ {0} /\ C \in Nat \ {0}
      /\ Q % K = 0 /\ C % Q = 0 /\ Q = geo.piece * B /\ geo.piece \in Nat \ {0}
      /\ K % B = 0 \/ B % K = 0
    BY Geo DEF PieceBits
<1>2. b \in Nat /\ b < C \div K /\ C \div K \in Nat
    <2>1. C \div K \in Nat
        BY <1>1, DivRem
    <2> QED
        BY <2>1 DEF Blocks
<1>3. b * K + K <= C
    <2>1. C \in Nat /\ C = K * (C \div K) + (C % K) /\ C % K \in Nat
        <3>1. C = K * (C \div K) + (C % K) /\ C % K \in 0 .. K - 1
            BY <1>1, DivRem
        <3> QED
            BY <1>1, <3>1
    <2>2. b * K + K <= (C \div K) * K
        BY <1>1, <1>2, TimesMonotone
    <2> QED
        BY <1>1, <1>2, <2>1, <2>2
<1>4. n1(b) = s \div B /\ PieceOf(b) = p /\ idx(b) = i /\ BlockBytes * geo.byte = w
    BY DEF n1, PieceOf, idx, BlockBytes
<1>5. Col(b, 0) = Col(b, 0) /\ \A j : Col(b, j) = p * Q + ((s \div B) * B + j)
    BY <1>4 DEF Col
<1>6. InBuffer(b) = i * K .. i * K + K - 1 /\ BufferBits = 0 .. w - 1
    BY <1>4 DEF InBuffer, BufferBits
<1>7. /\ i \in Nat /\ w \in Nat /\ s \in Nat /\ s \div B \in Nat
      /\ (s \div B) * B + i * K = s
      /\ i * K + K <= w
      /\ (s \div B) * B + w <= Q
      /\ K % B = 0 => i = 0 /\ w = K
    <2>1. Sizes(B, K, geo.piece, Q, b, s, i, w)
        BY <1>1, <1>2 DEF Sizes
    <2> HIDE DEF B, K, Q, s, i, w
    <2> QED
        BY <2>1, BlockInBytes
<1>8. /\ b * K \in Nat /\ p \in Nat /\ s \in 0 .. Q - 1 /\ b * K = Q * p + s
    <2>1. b * K \in Nat
        BY <1>1, <1>2
    <2> QED
        BY <1>1, <2>1, DivRem
<1>9. p < C \div Q /\ C \div Q \in Nat /\ C = Q * (C \div Q)
    <2> DEFINE f == C \div Q
    <2>1. f \in Nat /\ C = Q * f
        BY <1>1, DivExact
    <2> HIDE DEF f, p, s, K, C, Q
    <2>2. p * Q < f * Q
        BY <1>1, <1>3, <1>8, <2>1
    <2>3. p < f
        BY <1>1, <1>8, <2>1, <2>2, TimesCancel
    <2> QED
        BY <2>1, <2>3 DEF f
<1> DEFINE a == (s \div B) * B
           f == C \div Q
           k == i * K
<1>10. a \in Nat /\ k \in Nat
    BY <1>1, <1>7
<1>11. Cols = 0 .. C - 1 /\ Pieces = 0 .. f - 1
    BY DEF Cols, Pieces
<1>12. p * Q + Q <= C
    <2>1. p < f /\ f \in Nat /\ C = Q * f
        BY <1>9
    <2> HIDE DEF p, f, s, K, Q, C
    <2>2. p * Q + Q <= f * Q
        BY <1>1, <1>8, <2>1, TimesMonotone
    <2> QED
        BY <1>1, <2>1, <2>2
<1> HIDE DEF B, K, Q, C, s, p, i, w
<1>13. p * Q \in Nat /\ b * K = p * Q + s
    BY <1>1, <1>8
<1> HIDE DEF a, f, k
<1>14. a + k = s /\ k + K <= w /\ a + w <= Q /\ w \in Nat
    BY <1>7 DEF a, k
<1>15. ASSUME NEW j \in 0 .. w - 1
       PROVE  /\ a + j \in 0 .. Q - 1
              /\ p * Q + (a + j) \in 0 .. C - 1
              /\ (p * Q + (a + j)) \div Q = p
              /\ (p * Q + (a + j)) % Q = a + j
              /\ (p * Q + (a + j)) \div K = b <=> j \in k .. k + K - 1
    <2>1. a + j \in 0 .. Q - 1
        BY <1>1, <1>10, <1>14
    <2>2. p * Q + (a + j) \in 0 .. C - 1
        BY <1>1, <1>12, <1>13, <2>1
    <2> DEFINE c == p * Q + (a + j)
               m == a + j
    <2>3. c \in Nat /\ c = Q * p + m /\ m \in 0 .. Q - 1 /\ p \in Int
        BY <1>1, <1>8, <2>1, <2>2
    <2>4. c = b * K + (j - k)
        BY <1>1, <1>2, <1>10, <1>13, <1>14
    <2> HIDE DEF c, m
    <2>5. c \div Q = p /\ c % Q = m
        BY <1>1, <2>3, DivUnique
    <2>6. CASE j \in k .. k + K - 1
        <3> DEFINE v == j - k
        <3>1. v \in 0 .. K - 1 /\ c = K * b + v
            BY <1>1, <1>2, <1>10, <2>4, <2>6
        <3> HIDE DEF v
        <3>2. Divides(c, K, b, v)
            BY <1>1, <1>2, <2>3, <3>1 DEF Divides
        <3>3. c \div K = b
            BY <3>2, Divided
        <3> QED
            BY <2>1, <2>2, <2>5, <2>6, <3>3 DEF c, m
    <2>7. CASE j \notin k .. k + K - 1
        <3>1. j < k \/ k + K <= j
            BY <1>1, <1>10, <2>7
        <3>2. c < b * K \/ b * K + K <= c
            BY <1>1, <1>2, <1>10, <2>4, <3>1
        <3>3. c % K \in 0 .. K - 1 /\ c = K * (c \div K) + (c % K) /\ c \div K \in Nat
            BY <1>1, <2>3, DivRem
        <3>4. c \div K # b
            <4> SUFFICES ASSUME c \div K = b PROVE FALSE
                OBVIOUS
            <4> DEFINE v == c % K
                       x == b * K
            <4>1. c = x + v /\ v \in 0 .. K - 1 /\ x \in Nat
                BY <1>1, <1>2, <3>3
            <4>2. c < x \/ x + K <= c
                BY <3>2
            <4> HIDE DEF v, x
            <4> QED
                BY <1>1, <2>3, <4>1, <4>2
        <3> QED
            BY <2>1, <2>2, <2>5, <2>7, <3>4 DEF c, m
    <2> QED
        BY <2>6, <2>7
<1>16. ASSUME NEW c \in 0 .. C - 1, c \div K = b
       PROVE  \E j \in k .. k + K - 1 : c = p * Q + (a + j)
    <2>1. c \in Nat
        BY <1>1, <1>16
    <2>2. c = K * b + (c % K) /\ c % K \in 0 .. K - 1
        BY <1>1, <1>16, <2>1, DivRem
    <2>3. k + (c % K) \in k .. k + K - 1
        BY <1>1, <1>10, <2>2
    <2>4. c = p * Q + (a + (k + (c % K)))
        BY <1>1, <1>2, <1>10, <1>13, <1>14, <2>2
    <2> QED
        BY <2>3, <2>4
<1>17. PieceOf(b) \in Pieces /\ n1(b) \in Nat
    BY <1>4, <1>7, <1>8, <1>9, <1>11 DEF f
<1>18. InBuffer(b) = k .. k + K - 1 /\ BufferBits = 0 .. w - 1 /\ n1(b) * geo.byte = a
    BY <1>4, <1>6 DEF k, a, B
<1>19. InBuffer(b) \subseteq BufferBits /\ 0 \in BufferBits
    BY <1>1, <1>10, <1>14, <1>18
<1>20. WholeBytes => InBuffer(b) = BufferBits
    <2>1. WholeBytes => k = 0 /\ w = K
        BY <1>1, <1>7 DEF WholeBytes, k, K, B
    <2> QED
        BY <1>1, <1>18, <2>1
<1>21. \A j : Col(b, j) = p * Q + (a + j)
    BY <1>5 DEF a
<1>22. \A c : Blk(c) = c \div K
    BY DEF Blk, K
<1>23. PieceOf(b) = p /\ PieceBits = Q
    BY <1>4 DEF Q
<1> QED
    BY <1>11, <1>15, <1>16, <1>17, <1>18, <1>19, <1>20, <1>21, <1>22, <1>23
(* A column lies in one block and in one piece.                            *)
LEMMA ColumnIn ==
    ASSUME geo \in Geometries, NEW c \in Cols
    PROVE  /\ Blk(c) \in Blocks
           /\ c \div PieceBits = PieceOf(Blk(c)) /\ c \div PieceBits \in Pieces
           /\ c % PieceBits \in 0 .. PieceBits - 1
           /\ c = (c \div PieceBits) * PieceBits + (c % PieceBits)
<1> DEFINE K == geo.block
           Q == PieceBits
           C == geo.cols
           e == Q \div K
           f == C \div Q
           q == c \div K
<1>1. K \in Nat \ {0} /\ Q \in Nat \ {0} /\ C \in Nat \ {0} /\ Q % K = 0 /\ C % Q = 0
    BY Geo
<1>2. c \in Nat /\ c < C
    BY <1>1 DEF Cols
<1>3. e \in Nat /\ Q = K * e /\ f \in Nat /\ C = Q * f
    BY <1>1, DivExact
<1>4. q \in Nat /\ q * K <= c
    <2>1. q \in Nat /\ c % K \in 0 .. K - 1 /\ c = K * q + (c % K)
        BY <1>1, <1>2, DivRem
    <2> QED
        BY <1>1, <2>1
<1>5. C \div K = e * f /\ e * f \in Nat
    <2>1. C = K * (e * f) /\ e * f \in Int
        BY <1>1, <1>3
    <2> DEFINE u == e * f
    <2>2. C = K * u + 0 /\ u \in Int /\ 0 \in 0 .. K - 1
        BY <1>1, <2>1
    <2> HIDE DEF u
    <2>3. Divides(C, K, u, 0)
        BY <1>1, <2>2 DEF Divides
    <2>4. C \div K = u
        BY <2>3, Divided
    <2>5. u \in Nat
        BY <1>3 DEF u
    <2> QED
        BY <2>4, <2>5 DEF u
<1>6. Blk(c) = q
    BY DEF Blk
<1>7. q \in Blocks
    <2> DEFINE u == e * f
    <2>1. u \in Nat /\ C = u * K
        BY <1>1, <1>3
    <2>2. Blocks = 0 .. u - 1
        BY <1>5 DEF Blocks
    <2> HIDE DEF u, q, K, C
    <2>3. q * K < u * K
        BY <1>1, <1>2, <1>4, <2>1
    <2>4. q < u
        BY <1>1, <1>4, <2>1, <2>3, TimesCancel
    <2> QED
        BY <1>4, <2>1, <2>2, <2>4
<1>8. PICK j \in InBuffer(q) : c = Col(q, j)
    BY <1>6, <1>7, ColumnOf
<1>9. c \div Q = PieceOf(q) /\ PieceOf(q) \in Pieces
    BY <1>7, <1>8, ColumnOf
<1>10. c % Q \in 0 .. Q - 1 /\ c = Q * (c \div Q) + (c % Q) /\ c \div Q \in Nat
    BY <1>1, <1>2, DivRem
<1> QED
    BY <1>1, <1>6, <1>7, <1>9, <1>10

(* Rows follow each other in a piece.                                      *)
LEMMA RowStart ==
    ASSUME NEW Q \in Nat \ {0}, NEW N \in Nat, NEW r \in 0 .. N - 1, NEW x \in 0 .. Q - 1
    PROVE  /\ r * Q + x \in 0 .. N * Q - 1
           /\ (r * Q + x) \div Q = r /\ (r * Q + x) % Q = x
<1>1. r * Q + Q <= N * Q
    BY TimesMonotone
<1>2. r * Q \in Nat /\ N * Q \in Nat
    OBVIOUS
<1>3. r * Q + x \in 0 .. N * Q - 1
    BY <1>1, <1>2
<1> DEFINE k == r * Q + x
<1>4. Divides(k, Q, r, x)
    BY <1>2 DEF Divides
<1>5. k \div Q = r /\ k % Q = x
    BY <1>4, Divided
<1> QED
    BY <1>3, <1>5

LEMMA OffsetIs ==
    ASSUME geo \in Geometries, NEW b \in Blocks, NEW r \in Rows, NEW j \in BufferBits
    PROVE  /\ Offset(r, b, j) = r * PieceBits + (n1(b) * geo.byte + j)
           /\ Offset(r, b, j) \in 0 .. NumRows * PieceBits - 1
           /\ Offset(r, b, j) \div PieceBits = r
           /\ Offset(r, b, j) % PieceBits = n1(b) * geo.byte + j
           /\ Offset(r, b, j) - Offset(r, b, 0) = j
<1> DEFINE a == n1(b) * geo.byte
<1>1. /\ geo.byte \in Nat \ {0} /\ geo.piece \in Nat \ {0} /\ PieceBits \in Nat \ {0}
      /\ NumRows \in Nat \ {0} /\ PieceBits = geo.piece * geo.byte
    BY Geo DEF PieceBits
<1>2. n1(b) \in Nat /\ a + j \in 0 .. PieceBits - 1 /\ 0 \in BufferBits
    BY ColumnOf
<1>3. r \in 0 .. NumRows - 1 /\ r \in Nat /\ j \in Int
    BY <1>1 DEF Rows, BufferBits
<1>4. a \in Nat
    BY <1>1, <1>2
<1>5. (r * geo.piece + n1(b)) * geo.byte = r * PieceBits + a
    <2>1. (r * geo.piece + n1(b)) * geo.byte = (r * geo.piece) * geo.byte + a
        BY <1>1, <1>2, <1>3
    <2>2. (r * geo.piece) * geo.byte = r * (geo.piece * geo.byte)
        BY <1>1, <1>3
    <2> QED
        BY <1>1, <2>1, <2>2
<1> HIDE DEF a
<1>6. r * PieceBits \in Nat
    BY <1>1, <1>3
<1>7. Offset(r, b, j) = r * PieceBits + (a + j) /\ Offset(r, b, 0) = r * PieceBits + a
    BY <1>3, <1>4, <1>5, <1>6 DEF Offset
<1> DEFINE x == a + j
<1>8. x \in 0 .. PieceBits - 1
    BY <1>2 DEF a
<1>9. Offset(r, b, j) - Offset(r, b, 0) = j
    BY <1>3, <1>4, <1>6, <1>7
<1> HIDE DEF x
<1>10. /\ r * PieceBits + x \in 0 .. NumRows * PieceBits - 1
       /\ (r * PieceBits + x) \div PieceBits = r /\ (r * PieceBits + x) % PieceBits = x
    <2>1. PieceBits \in Nat \ {0} /\ NumRows \in Nat /\ r \in 0 .. NumRows - 1
        BY <1>1, <1>3
    <2> QED
        BY <2>1, <1>8, RowStart
<1>11. Offset(r, b, j) = r * PieceBits + x
    BY <1>7 DEF x
<1>12. x = n1(b) * geo.byte + j
    BY DEF x, a
<1> QED
    BY <1>9, <1>10, <1>11, <1>12

(* The bit of a column of a row is in one place of one piece.              *)
LEMMA PlaceOf ==
    ASSUME geo \in Geometries, NEW r \in Rows, NEW c \in Cols
    PROVE  /\ r * PieceBits + (c % PieceBits) \in 0 .. NumRows * PieceBits - 1
           /\ (r * PieceBits + (c % PieceBits)) \div PieceBits = r
           /\ (r * PieceBits + (c % PieceBits)) % PieceBits = c % PieceBits
<1> DEFINE x == c % PieceBits
<1>1. PieceBits \in Nat \ {0} /\ NumRows \in Nat /\ r \in 0 .. NumRows - 1
    BY Geo DEF Rows
<1>2. x \in 0 .. PieceBits - 1
    BY ColumnIn
<1> HIDE DEF x
<1>3. /\ r * PieceBits + x \in 0 .. NumRows * PieceBits - 1
      /\ (r * PieceBits + x) \div PieceBits = r
      /\ (r * PieceBits + x) % PieceBits = x
    BY <1>1, <1>2, RowStart
<1> QED
    BY <1>3 DEF x

LEMMA BitOfBuffer ==
    ASSUME geo \in Geometries, NEW b \in Blocks, NEW r \in Rows, NEW j \in BufferBits
    PROVE  matrix[PieceOf(b)][Offset(r, b, j)] = Bit(r, Col(b, j))
BY ColumnOf, OffsetIs DEF Bit

LEMMA BitTyped ==
    ASSUME FilesTypeOK, NEW r \in Rows, NEW c \in Cols
    PROVE  Bit(r, c) \in 0 .. MaxWrites
BY PlaceOf, ColumnIn DEF Bit, FilesTypeOK

---------------------------------------------------------------------------
(* The inductive invariant.                                                *)

(* A server that may be killed has blocks of one column, and loads its     *)
(* buffers when it updates; or it keeps no state bits and writes whole     *)
(* bytes, and what its buffers hold does not matter.                       *)
SafeRestarts ==
    \A g \in Geometries :
       g.restarts => g.block = 1 \/ (~g.states /\ g.block % g.byte = 0)

WorkInv ==
    /\ work.op = "search" => geo.states /\ work.bitsTodo \subseteq {work.at}
    /\ work.op = "update" /\ work.bitsTodo # {} => geo.states

(* A client that will update leaves the server idle, with its block in the *)
(* buffers.                                                                *)
ClientInv ==
    client # Nobody =>
        /\ work = Idle /\ geo.block > 1
        /\ WholeBytes \/ I_update = LoadedBytes(client)
        /\ geo.states => updBits = LoadedBits(client)

(* Outside the block, what an update will write is what is in the files.   *)
UpdateInv ==
    work.op = "update" =>
        /\ \A r \in work.matrixTodo, j \in BufferBits :
              I_update[r][j] = IF j \in InBuffer(work.at) THEN writes
                               ELSE Bit(r, Col(work.at, j))
        /\ \A r \in work.bitsTodo :
              updBits[r] = {s % geo.byte : s \in states[r] \cap ByteOf(work.at)}
                           \cup {work.at % geo.byte}

(* The bits of a block are of one write, also in a row still to be         *)
(* written.                                                                *)
BlocksWhole ==
    \A r \in Rows, b \in Blocks :
       \E v \in 0 .. MaxWrites : \A c \in Cols : Blk(c) = b => Bit(r, c) = v

RowWhole ==
    work.op = "search" =>
       \A b \in Blocks :
          \E v \in 0 .. MaxWrites : \A c \in Cols : Blk(c) = b => work.row[c] = v

NoStates == ~geo.states => \A r \in Rows : states[r] = {}

FilesInv ==
    /\ FilesTypeOK /\ WorkInv /\ ClientInv /\ UpdateInv
    /\ BlocksWhole /\ RowWhole /\ NoStates

---------------------------------------------------------------------------
(* What a write does to the bits.                                          *)
LEMMA Working ==
    ASSUME FilesTypeOK
    PROVE  /\ geo \in Geometries
           /\ work = Idle => work.op = "none"
           /\ work # Idle => work.op \in {"update", "search"}
           /\ work.op = "update" =>
                 /\ work # Idle /\ work \in Updates
                 /\ work.at \in Blocks /\ work.matrixTodo \subseteq Rows
                 /\ work.bitsTodo \subseteq Rows
           /\ work.op = "search" =>
                 /\ work # Idle /\ work \in Searches
                 /\ work.at \in Rows /\ work.matrixTodo \subseteq Pieces
                 /\ work.bitsTodo \subseteq Rows /\ work.row \in [Cols -> 0 .. MaxWrites]
BY DEF FilesTypeOK, Idle, Searches, Updates

LEMMA UpdateWritten ==
    ASSUME FilesTypeOK, UpdateInv, work.op = "update", NEW n \in work.matrixTodo,
           matrix' = MatrixWritten(work, n), geo' = geo
    PROVE  /\ matrix' \in [Pieces -> [0 .. NumRows * PieceBits - 1 -> 0 .. MaxWrites]]
           /\ \A r \in Rows, c \in Cols :
                 Bit(r, c)' = IF r = n /\ Blk(c) = work.at THEN writes ELSE Bit(r, c)
<1> DEFINE b == work.at
           p == PieceOf(b)
           D == 0 .. NumRows * PieceBits - 1
           V == 0 .. MaxWrites
           Hit(k) == \E j \in BufferBits : k = Offset(n, b, j)
           new == [k \in D |-> IF Hit(k) THEN I_update[n][k - Offset(n, b, 0)]
                               ELSE matrix[p][k]]
<1>1. geo \in Geometries /\ b \in Blocks /\ n \in Rows /\ writes \in V
    BY Working DEF FilesTypeOK
<1>2. p \in Pieces /\ matrix \in [Pieces -> [D -> V]]
    BY <1>1, ColumnOf DEF FilesTypeOK
<1>3. \A j \in BufferBits :
         /\ I_update[n][j] = IF j \in InBuffer(b) THEN writes ELSE Bit(n, Col(b, j))
         /\ I_update[n][j] \in V
    <2> TAKE j \in BufferBits
    <2>1. I_update[n][j] = IF j \in InBuffer(b) THEN writes ELSE Bit(n, Col(b, j))
        BY DEF UpdateInv
    <2>2. Col(b, j) \in Cols
        BY <1>1, ColumnOf
    <2>3. Bit(n, Col(b, j)) \in V
        BY <1>1, <2>2, BitTyped
    <2> QED
        BY <1>1, <2>1, <2>3
<1>4. matrix' = [matrix EXCEPT ![p] = new]
    BY <1>2 DEF MatrixWritten
<1>5. \A j \in BufferBits : Offset(n, b, j) - Offset(n, b, 0) = j
    BY <1>1, OffsetIs
<1>6. new \in [D -> V]
    <2> SUFFICES ASSUME NEW k \in D
                 PROVE  (IF Hit(k) THEN I_update[n][k - Offset(n, b, 0)]
                         ELSE matrix[p][k]) \in V
        OBVIOUS
    <2>1. CASE Hit(k)
        <3>1. PICK j \in BufferBits : k = Offset(n, b, j)
            BY <2>1
        <3> QED
            BY <1>3, <1>5, <2>1, <3>1
    <2>2. CASE ~Hit(k)
        BY <1>2, <2>2
    <2> QED
        BY <2>1, <2>2
<1>7. matrix' \in [Pieces -> [D -> V]]
    <2> HIDE DEF new, p
    <2> QED
        BY <1>2, <1>4, <1>6
<1>8. ASSUME NEW r \in Rows, NEW c \in Cols
      PROVE  Bit(r, c)' = IF r = n /\ Blk(c) = b THEN writes ELSE Bit(r, c)
    <2> DEFINE P == c \div PieceBits
               k == r * PieceBits + (c % PieceBits)
    <2>1. Bit(r, c) = matrix[P][k] /\ Bit(r, c)' = matrix'[P][k]
        BY DEF Bit, PieceBits
    <2>2. /\ P \in Pieces /\ k \in D /\ P = PieceOf(Blk(c)) /\ Blk(c) \in Blocks
          /\ k \div PieceBits = r /\ k % PieceBits = c % PieceBits
          /\ c = P * PieceBits + (c % PieceBits)
        BY <1>1, ColumnIn, PlaceOf
    <2> HIDE DEF P, k
    <2>3. CASE P # p
        <3>1. matrix'[P] = matrix[P]
            <4> HIDE DEF new, p
            <4> QED
                BY <1>2, <1>4, <2>2, <2>3
        <3> QED
            BY <2>1, <2>2, <2>3, <3>1
    <2>4. CASE P = p
        <3>1. matrix'[P] = new
            <4> HIDE DEF new, p
            <4> QED
                BY <1>2, <1>4, <2>2, <2>4
        <3>2. CASE Hit(k)
            <4>1. PICK j \in BufferBits : k = Offset(n, b, j)
                BY <3>2
            <4>2. r = n /\ c % PieceBits = n1(b) * geo.byte + j
                BY <1>1, <2>2, <4>1, OffsetIs
            <4>3. c = Col(b, j)
                BY <2>2, <2>4, <4>2 DEF Col
            <4>4. Blk(c) = b <=> j \in InBuffer(b)
                BY <1>1, <4>3, ColumnOf
            <4>5. new[k] = I_update[n][j]
                BY <1>5, <2>2, <3>2, <4>1
            <4> HIDE DEF new
            <4> QED
                BY <1>3, <2>1, <3>1, <4>2, <4>3, <4>4, <4>5
        <3>3. CASE ~Hit(k)
            <4>1. new[k] = matrix[P][k]
                BY <2>2, <2>4, <3>3
            <4>2. ~(r = n /\ Blk(c) = b)
                <5> SUFFICES ASSUME r = n, Blk(c) = b PROVE FALSE
                    OBVIOUS
                <5>1. PICK j \in InBuffer(b) : c = Col(b, j)
                    BY <1>1, ColumnOf
                <5>2. j \in BufferBits /\ c % PieceBits = n1(b) * geo.byte + j
                    BY <1>1, <5>1, ColumnOf
                <5>3. k = Offset(n, b, j)
                    BY <1>1, <5>2, OffsetIs DEF k
                <5> QED
                    BY <3>3, <5>2, <5>3
            <4> HIDE DEF new
            <4> QED
                BY <2>1, <3>1, <4>1, <4>2
        <3> QED
            BY <3>2, <3>3
    <2> QED
        BY <2>3, <2>4
<1> QED
    BY <1>7, <1>8

LEMMA SearchWritten ==
    ASSUME FilesTypeOK, work.op = "search", NEW n \in work.matrixTodo,
           matrix' = MatrixWritten(work, n), geo' = geo
    PROVE  /\ matrix' \in [Pieces -> [0 .. NumRows * PieceBits - 1 -> 0 .. MaxWrites]]
           /\ \A r \in Rows, c \in Cols :
                 Bit(r, c)' = IF r = work.at /\ c \div PieceBits = n
                              THEN work.row[c] ELSE Bit(r, c)
<1> DEFINE D == 0 .. NumRows * PieceBits - 1
           V == 0 .. MaxWrites
           new == [k \in D |-> IF k \div PieceBits = work.at
                               THEN work.row[n * PieceBits + (k % PieceBits)]
                               ELSE matrix[n][k]]
<1>1. /\ geo \in Geometries /\ work.at \in Rows /\ n \in Pieces
      /\ work.row \in [Cols -> V] /\ matrix \in [Pieces -> [D -> V]]
    BY Working DEF FilesTypeOK
<1>2. matrix' = [matrix EXCEPT ![n] = new]
    <2>1. work.op # "update"
        OBVIOUS
    <2> QED
        BY <1>1, <2>1 DEF MatrixWritten
<1>3. new \in [D -> V]
    <2> SUFFICES ASSUME NEW k \in D, k \div PieceBits = work.at
                 PROVE  n * PieceBits + (k % PieceBits) \in Cols
        BY <1>1
    <2> DEFINE Q == PieceBits
               f == geo.cols \div Q
               x == k % Q
    <2>1. Q \in Nat \ {0} /\ geo.cols \in Nat \ {0} /\ geo.cols % Q = 0 /\ NumRows \in Nat
        BY <1>1, Geo
    <2>2. f \in Nat /\ geo.cols = Q * f
        BY <2>1, DivExact
    <2>3. n \in 0 .. f - 1
        BY <1>1 DEF Pieces
    <2>4. x \in 0 .. Q - 1
        BY <2>1, DivRem
    <2> HIDE DEF Q, f, x
    <2>5. n * Q + x \in 0 .. f * Q - 1
        BY <2>1, <2>2, <2>3, <2>4, RowStart
    <2>6. f * Q = geo.cols
        BY <2>1, <2>2
    <2> QED
        BY <2>5, <2>6 DEF Cols, Q, x
<1>4. matrix' \in [Pieces -> [D -> V]]
    <2> HIDE DEF new
    <2> QED
        BY <1>1, <1>2, <1>3
<1>5. ASSUME NEW r \in Rows, NEW c \in Cols
      PROVE  Bit(r, c)' = IF r = work.at /\ c \div PieceBits = n
                          THEN work.row[c] ELSE Bit(r, c)
    <2> DEFINE P == c \div PieceBits
               k == r * PieceBits + (c % PieceBits)
    <2>1. Bit(r, c) = matrix[P][k] /\ Bit(r, c)' = matrix'[P][k]
        BY DEF Bit, PieceBits
    <2>2. /\ P \in Pieces /\ k \in D
          /\ k \div PieceBits = r /\ k % PieceBits = c % PieceBits
          /\ c = P * PieceBits + (c % PieceBits)
        BY <1>1, ColumnIn, PlaceOf
    <2> HIDE DEF P, k
    <2>3. CASE P # n
        <3>1. matrix'[P] = matrix[P]
            <4> HIDE DEF new
            <4> QED
                BY <1>1, <1>2, <2>2, <2>3
        <3> QED
            BY <2>1, <2>3, <3>1 DEF P
    <2>4. CASE P = n
        <3>1. matrix'[P] = new
            <4> HIDE DEF new
            <4> QED
                BY <1>1, <1>2, <2>2, <2>4
        <3>2. new[k] = IF r = work.at THEN work.row[n * PieceBits + (c % PieceBits)]
                       ELSE matrix[n][k]
            BY <2>2
        <3>3. n * PieceBits + (c % PieceBits) = c
            BY <2>2, <2>4
        <3> HIDE DEF new
        <3>4. c \div PieceBits = n
            BY <2>4 DEF P
        <3> QED
            BY <2>1, <2>4, <3>1, <3>2, <3>3, <3>4
    <2> QED
        BY <2>3, <2>4
<1> QED
    BY <1>4, <1>5

(* A block has a byte of state bits to itself and its neighbours.          *)
LEMMA BitOfByte ==
    ASSUME geo \in Geometries, NEW b \in Blocks, NEW s \in ByteOf(b), NEW t \in ByteOf(b),
           s % geo.byte = t % geo.byte
    PROVE  s = t
<1>1. geo.byte \in Nat \ {0}
    BY Geo
<1>2. s \in Nat /\ t \in Nat /\ s \div geo.byte = t \div geo.byte
    <2>1. Blocks \subseteq Nat
        BY DEF Blocks
    <2> QED
        BY <2>1 DEF ByteOf
<1>3. /\ s = geo.byte * (s \div geo.byte) + (s % geo.byte)
      /\ t = geo.byte * (t \div geo.byte) + (t % geo.byte)
    BY <1>1, <1>2, DivRem
<1> QED
    BY <1>2, <1>3

LEMMA BitLoaded ==
    ASSUME FilesTypeOK, NEW b \in Blocks, NEW r \in Rows, NEW s \in ByteOf(b)
    PROVE  s \in states[r] <=> s % geo.byte \in {t % geo.byte : t \in states[r] \cap ByteOf(b)}
<1>1. geo \in Geometries
    BY DEF FilesTypeOK
<1> QED
    BY <1>1, BitOfByte

LEMMA OwnByte ==
    ASSUME NEW b \in Blocks
    PROVE  b \in ByteOf(b)
BY DEF ByteOf

LEMMA UpdateCounted ==
    ASSUME FilesTypeOK, UpdateInv, work.op = "update", NEW n \in work.bitsTodo,
           states' = BitsWritten(work, n)
    PROVE  states' = [states EXCEPT ![n] = @ \cup {work.at}]
<1>1. /\ geo \in Geometries /\ work.at \in Blocks /\ n \in Rows
      /\ states \in [Rows -> SUBSET Blocks]
    BY Working DEF FilesTypeOK
<1> DEFINE B == ByteOf(work.at)
           a == work.at
<1>2. updBits[n] = {s % geo.byte : s \in states[n] \cap B} \cup {a % geo.byte}
    BY DEF UpdateInv
<1>3. ASSUME NEW s \in B
      PROVE  s % geo.byte \in updBits[n] <=> s \in states[n] \/ s = a
    <2>1. s \in states[n] <=> s % geo.byte \in {t % geo.byte : t \in states[n] \cap B}
        BY <1>1, <1>3, BitLoaded
    <2>2. a \in B
        BY <1>1, OwnByte
    <2>3. s % geo.byte = a % geo.byte => s = a
        BY <1>1, <1>3, <2>2, BitOfByte
    <2> QED
        BY <1>2, <2>1, <2>3
<1>4. B \subseteq Blocks /\ a \in B
    BY <1>1, OwnByte DEF ByteOf
<1> HIDE DEF B, a
<1>5. (states[n] \ B) \cup {s \in B : s % geo.byte \in updBits[n]} = states[n] \cup {a}
    BY <1>3, <1>4
<1>6. states' = [states EXCEPT ![n] = (@ \ B) \cup {s \in B : s % geo.byte \in updBits[n]}]
    BY DEF BitsWritten, B
<1> QED
    BY <1>1, <1>5, <1>6 DEF a

---------------------------------------------------------------------------
(* The invariant is inductive.                                             *)
LEMMA SameGeometry ==
    ASSUME geo' = geo
    PROVE  /\ Cols' = Cols /\ Blocks' = Blocks /\ Pieces' = Pieces
           /\ PieceBits' = PieceBits /\ BufferBits' = BufferBits
           /\ WholeBytes' = WholeBytes /\ Updates' = Updates /\ Searches' = Searches
           /\ \A b : InBuffer(b)' = InBuffer(b) /\ ByteOf(b)' = ByteOf(b)
           /\ \A c : Blk(c)' = Blk(c)
           /\ \A b, j : Col(b, j)' = Col(b, j)
<1>1. PieceBits' = PieceBits /\ Cols' = Cols /\ Blocks' = Blocks /\ BlockBytes' = BlockBytes
    BY DEF PieceBits, Cols, Blocks, BlockBytes
<1>2. Pieces' = Pieces /\ BufferBits' = BufferBits /\ WholeBytes' = WholeBytes
    BY <1>1 DEF Pieces, BufferBits, WholeBytes
<1>3. /\ \A b : idx(b)' = idx(b) /\ n1(b)' = n1(b) /\ PieceOf(b)' = PieceOf(b)
      /\ \A c : Blk(c)' = Blk(c)
    BY <1>1 DEF idx, n1, PieceOf, Blk
<1>4. /\ \A b : InBuffer(b)' = InBuffer(b) /\ ByteOf(b)' = ByteOf(b)
      /\ \A b, j : Col(b, j)' = Col(b, j)
    BY <1>1, <1>3 DEF InBuffer, ByteOf, Col
<1> QED
    BY <1>1, <1>2, <1>3, <1>4 DEF Updates, Searches

LEMMA SameMatrix ==
    ASSUME geo' = geo, matrix' = matrix
    PROVE  /\ \A r, c : Bit(r, c)' = Bit(r, c)
           /\ BlocksWhole => BlocksWhole'
           /\ \A b : LoadedBytes(b)' = LoadedBytes(b)
<1>1. \A r, c : Bit(r, c)' = Bit(r, c)
    BY DEF Bit, PieceBits
<1>2. BlocksWhole => BlocksWhole'
    BY <1>1, SameGeometry DEF BlocksWhole, Blk, Cols, Blocks
<1>3. \A b : LoadedBytes(b)' = LoadedBytes(b)
    BY DEF LoadedBytes, BufferBits, BlockBytes, PieceOf, PieceBits, Offset, n1
<1> QED
    BY <1>1, <1>2, <1>3

LEMMA SameStates ==
    ASSUME geo' = geo, states' = states
    PROVE  /\ NoStates => NoStates'
           /\ \A b : LoadedBits(b)' = LoadedBits(b)
BY DEF NoStates, LoadedBits, ByteOf, Blocks

LEMMA Loaded ==
    ASSUME FilesTypeOK, NEW b \in Blocks
    PROVE  /\ LoadedBytes(b) = [r \in Rows |-> [j \in BufferBits |-> Bit(r, Col(b, j))]]
           /\ LoadedBytes(b) \in [Rows -> [BufferBits -> 0 .. MaxWrites]]
           /\ LoadedBits(b) \in [Rows -> SUBSET (0 .. geo.byte - 1)]
           /\ b % geo.byte \in 0 .. geo.byte - 1
<1>1. geo \in Geometries
    BY DEF FilesTypeOK
<1>2. geo.byte \in Nat \ {0} /\ Blocks \subseteq Nat
    BY <1>1, Geo DEF Blocks
<1>3. LoadedBytes(b) = [r \in Rows |-> [j \in BufferBits |-> Bit(r, Col(b, j))]]
    BY <1>1, BitOfBuffer DEF LoadedBytes
<1>4. \A r \in Rows, j \in BufferBits : Bit(r, Col(b, j)) \in 0 .. MaxWrites
    BY <1>1, ColumnOf, BitTyped
<1>5. \A s \in Blocks : s % geo.byte \in 0 .. geo.byte - 1
    BY <1>2, DivRem
<1>6. LoadedBits(b) \in [Rows -> SUBSET (0 .. geo.byte - 1)]
    BY <1>5 DEF LoadedBits, ByteOf
<1> QED
    BY <1>3, <1>4, <1>5, <1>6

LEMMA FilesInvStart ==
    Init => FilesInv
<1> SUFFICES ASSUME Init PROVE FilesInv
    OBVIOUS
<1>1. geo \in Geometries /\ work = Idle /\ client = Nobody /\ MaxWrites \in Nat
    BY MatrixFilesAssumption DEF Init
<1>2. matrix = [p \in Pieces |-> [k \in 0 .. NumRows * PieceBits - 1 |-> 0]]
    BY DEF Init
<1>3. FilesTypeOK
    BY <1>1, <1>2 DEF Init, FilesTypeOK
<1>4. work.op = "none"
    BY <1>1 DEF Idle
<1>5. \A r \in Rows, c \in Cols : Bit(r, c) = 0
    BY <1>1, <1>2, PlaceOf, ColumnIn DEF Bit
<1>6. BlocksWhole
    BY <1>1, <1>5 DEF BlocksWhole
<1>7. NoStates
    BY DEF NoStates, Init
<1> QED
    BY <1>1, <1>3, <1>4, <1>6, <1>7 DEF FilesInv, WorkInv, ClientInv, UpdateInv, RowWhole

LEMMA GetBlockKeeps ==
    ASSUME FilesInv, NEW b \in Blocks, GetBlock(b)
    PROVE  FilesInv'
<1>1. /\ FilesTypeOK /\ BlocksWhole /\ NoStates /\ work = Idle /\ geo.block > 1
    BY DEF FilesInv, GetBlock
<1>2. /\ geo' = geo /\ matrix' = matrix /\ states' = states /\ work' = work
      /\ writes' = writes /\ client' = b /\ I_update' = LoadedBytes(b)
      /\ updBits' = IF geo.states THEN LoadedBits(b) ELSE updBits
    BY DEF GetBlock
<1>3. work'.op = "none"
    BY <1>1, <1>2 DEF Idle
<1>4. FilesTypeOK'
    <2>1. /\ geo' \in Geometries /\ states' \in [Rows -> SUBSET Blocks]
          /\ matrix' \in [Pieces -> [0 .. NumRows * PieceBits - 1 -> 0 .. MaxWrites]]
          /\ I_update' \in [Rows -> [BufferBits -> 0 .. MaxWrites]]
          /\ client' \in Blocks /\ work' = Idle' /\ writes' \in 0 .. MaxWrites
        BY <1>1, <1>2, Loaded DEF FilesTypeOK, Idle
    <2>2. updBits' \in [Rows -> SUBSET (0 .. geo.byte - 1)]
        BY <1>1, <1>2, Loaded DEF FilesTypeOK
    <2> QED
        BY <1>2, <2>1, <2>2, SameGeometry DEF FilesTypeOK
<1>5. ClientInv'
    <2>1. I_update' = LoadedBytes(b)' /\ LoadedBits(b)' = LoadedBits(b)
        BY <1>2, SameMatrix, SameStates
    <2> QED
        BY <1>1, <1>2, <2>1 DEF ClientInv, Idle
<1>6. BlocksWhole' /\ NoStates'
    BY <1>1, <1>2, SameMatrix, SameStates
<1> QED
    BY <1>3, <1>4, <1>5, <1>6 DEF FilesInv, WorkInv, UpdateInv, RowWhole

(* Reading a row, a client that ends and a restart change nothing of the   *)
(* files.                                                                  *)
LEMMA GetRowKeeps ==
    ASSUME FilesInv, NEW r \in Rows, GetRow(r)
    PROVE  FilesInv'
<1>1. UNCHANGED <<geo, matrix, states, I_update, updBits, client, work, writes>>
    BY DEF GetRow
<1>2. geo' = geo /\ matrix' = matrix /\ states' = states
    BY <1>1
<1>3. FilesTypeOK'
    BY <1>1, <1>2, SameGeometry DEF FilesInv, FilesTypeOK, Idle
<1>4. BlocksWhole' /\ NoStates'
    BY <1>2, SameMatrix, SameStates DEF FilesInv
<1>5. ClientInv' /\ WorkInv'
    BY <1>1, <1>2, SameGeometry, SameMatrix, SameStates
       DEF FilesInv, ClientInv, WorkInv, Idle
<1>6. work.op # "update" /\ work.op # "search" /\ work' = work
    BY DEF GetRow, Idle
<1> QED
    BY <1>3, <1>4, <1>5, <1>6 DEF FilesInv, UpdateInv, RowWhole

LEMMA ClientGoneKeeps ==
    ASSUME FilesInv, ClientGone
    PROVE  FilesInv'
<1>1. UNCHANGED <<geo, matrix, states, I_update, updBits, work, writes>> /\ client' = Nobody
    BY DEF ClientGone
<1>2. geo' = geo /\ matrix' = matrix /\ states' = states
    BY <1>1
<1>3. FilesTypeOK'
    BY <1>1, <1>2, SameGeometry DEF FilesInv, FilesTypeOK, Idle, Nobody
<1>4. BlocksWhole' /\ NoStates'
    BY <1>2, SameMatrix, SameStates DEF FilesInv
<1>5. work' = work /\ work.op # "update" /\ work.op # "search"
    BY DEF ClientGone, FilesInv, ClientInv, Idle
<1> QED
    BY <1>1, <1>3, <1>4, <1>5 DEF FilesInv, ClientInv, WorkInv, UpdateInv, RowWhole, Nobody

LEMMA RestartKeeps ==
    ASSUME SafeRestarts, FilesInv, Restart
    PROVE  FilesInv'
<1>1. /\ UNCHANGED <<geo, matrix, states, client, writes>> /\ work' = Idle /\ geo.restarts
      /\ I_update' = [r \in Rows |-> [k \in BufferBits |-> Unread]]
      /\ updBits' = [r \in Rows |-> {}]
    BY DEF Restart
<1>2. geo' = geo /\ matrix' = matrix /\ states' = states /\ geo \in Geometries
    BY <1>1 DEF FilesInv, FilesTypeOK
<1>3. FilesTypeOK'
    BY <1>1, <1>2, SameGeometry DEF FilesInv, FilesTypeOK, Idle, Nobody, Unread
<1>4. BlocksWhole' /\ NoStates'
    BY <1>2, SameMatrix, SameStates DEF FilesInv
<1>5. ClientInv'
    <2>1. geo.block = 1 \/ (~geo.states /\ WholeBytes)
        BY <1>1, <1>2 DEF SafeRestarts, WholeBytes
    <2>2. client # Nobody => geo.block > 1
        BY DEF FilesInv, ClientInv
    <2> QED
        BY <1>1, <1>2, <2>1, <2>2, SameGeometry DEF ClientInv, Nobody, Idle
<1>6. work'.op = "none"
    BY <1>1 DEF Idle
<1> QED
    BY <1>3, <1>4, <1>5, <1>6 DEF FilesInv, WorkInv, UpdateInv, RowWhole

LEMMA SearchKeywordKeeps ==
    ASSUME FilesInv, NEW r \in Rows, SearchKeyword(r)
    PROVE  FilesInv'
<1>1. /\ UNCHANGED <<geo, matrix, states, I_update, updBits, client>>
      /\ client = Nobody /\ writes' = writes + 1 /\ writes < MaxWrites /\ geo.states
    BY DEF SearchKeyword
<1>2. PICK hasRow_key \in BOOLEAN :
         work' = [op |-> "search", at |-> r, matrixTodo |-> Pieces, bitsTodo |-> {r},
                  row |-> [c \in Cols |-> IF hasRow_key /\ Blk(c) \notin states[r]
                                          THEN writes + 1 ELSE Bit(r, c)]]
    BY DEF SearchKeyword
<1> DEFINE row == [c \in Cols |-> IF hasRow_key /\ Blk(c) \notin states[r]
                                  THEN writes + 1 ELSE Bit(r, c)]
<1>3. geo' = geo /\ matrix' = matrix /\ states' = states /\ FilesTypeOK
    BY <1>1 DEF FilesInv
<1>4. writes \in 0 .. MaxWrites /\ MaxWrites \in Nat /\ writes + 1 \in 0 .. MaxWrites
    BY <1>1, <1>3, MatrixFilesAssumption DEF FilesTypeOK
<1>5. row \in [Cols -> 0 .. MaxWrites]
    BY <1>3, <1>4, BitTyped
<1>6. \A b \in Blocks :
         \E v \in 0 .. MaxWrites : \A c \in Cols : Blk(c) = b => row[c] = v
    <2> TAKE b \in Blocks
    <2>1. PICK v \in 0 .. MaxWrites : \A c \in Cols : Blk(c) = b => Bit(r, c) = v
        BY DEF FilesInv, BlocksWhole
    <2>2. CASE hasRow_key /\ b \notin states[r]
        BY <1>4, <2>2
    <2>3. CASE ~(hasRow_key /\ b \notin states[r])
        BY <2>1, <2>3
    <2> QED
        BY <2>2, <2>3
<1> HIDE DEF row
<1>7. work' = [op |-> "search", at |-> r, matrixTodo |-> Pieces, bitsTodo |-> {r}, row |-> row]
    BY <1>2 DEF row
<1>8. work' \in Searches
    BY <1>5, <1>7 DEF Searches
<1>9. FilesTypeOK'
    BY <1>1, <1>3, <1>4, <1>8, SameGeometry DEF FilesTypeOK, Nobody
<1>10. BlocksWhole' /\ NoStates'
    BY <1>3, SameMatrix, SameStates DEF FilesInv
<1>11. RowWhole'
    BY <1>3, <1>6, <1>7, SameGeometry DEF RowWhole
<1>12. WorkInv' /\ UpdateInv' /\ ClientInv'
    BY <1>1, <1>3, <1>7 DEF WorkInv, UpdateInv, ClientInv, Nobody
<1> QED
    BY <1>9, <1>10, <1>11, <1>12 DEF FilesInv

(* What an update has put into the buffers.                                *)
LEMMA Updated ==
    ASSUME FilesInv, NEW b \in Blocks, UpdateBlock(b)
    PROVE  /\ I_update' \in [Rows -> [BufferBits -> 0 .. MaxWrites]]
           /\ \A r \in Rows, j \in BufferBits :
                 I_update'[r][j] = IF j \in InBuffer(b) THEN writes + 1 ELSE Bit(r, Col(b, j))
           /\ updBits' \in [Rows -> SUBSET (0 .. geo.byte - 1)]
           /\ geo.states => \A r \in Rows :
                 updBits'[r] = {s % geo.byte : s \in states[r] \cap ByteOf(b)}
                               \cup {b % geo.byte}
<1>1. FilesTypeOK /\ geo \in Geometries /\ geo.block \in Nat \ {0} /\ ClientInv
    BY Geo DEF FilesInv, FilesTypeOK
<1>2. writes + 1 \in 0 .. MaxWrites /\ Nobody \notin Blocks
    BY <1>1, MatrixFilesAssumption DEF FilesTypeOK, UpdateBlock, Blocks, Nobody
<1>3. geo.block = 1 \/ (client = b /\ client # Nobody /\ geo.block > 1)
    <2>1. geo.block > 1 => client = b /\ client # Nobody
        BY <1>2 DEF UpdateBlock
    <2>2. geo.block \in Nat \ {0}
        BY <1>1
    <2> QED
        BY <2>1, <2>2
<1>4. ASSUME NEW r \in Rows, NEW j \in BufferBits, j \notin InBuffer(b)
      PROVE  Buffer(b)[r][j] = Bit(r, Col(b, j))
    <2>1. WholeBytes => FALSE
        BY <1>1, <1>4, ColumnOf
    <2>2. Buffer(b) = LoadedBytes(b)
        BY <1>1, <1>3, <2>1 DEF Buffer, ClientInv
    <2> QED
        BY <1>1, <2>2, Loaded
<1>5. \A r \in Rows, j \in BufferBits : Bit(r, Col(b, j)) \in 0 .. MaxWrites
    BY <1>1, ColumnOf, BitTyped
<1>6. I_update' = [r \in Rows |-> [j \in BufferBits |->
                     IF j \in InBuffer(b) THEN writes + 1 ELSE Buffer(b)[r][j]]]
    BY DEF UpdateBlock
<1>7. \A r \in Rows, j \in BufferBits :
         I_update'[r][j] = IF j \in InBuffer(b) THEN writes + 1 ELSE Bit(r, Col(b, j))
    BY <1>4, <1>6
<1>8. I_update' \in [Rows -> [BufferBits -> 0 .. MaxWrites]]
    BY <1>2, <1>4, <1>5, <1>6
<1>9. CASE geo.states
    <2>1. BufferBit(b) = LoadedBits(b)
        BY <1>1, <1>3, <1>9 DEF BufferBit, ClientInv
    <2>2. updBits' = [r \in Rows |-> LoadedBits(b)[r] \cup {b % geo.byte}]
        BY <1>9, <2>1 DEF UpdateBlock
    <2>3. \A r \in Rows :
             updBits'[r] = {s % geo.byte : s \in states[r] \cap ByteOf(b)} \cup {b % geo.byte}
        BY <2>2 DEF LoadedBits
    <2>4. updBits' \in [Rows -> SUBSET (0 .. geo.byte - 1)]
        BY <1>1, <2>2, Loaded
    <2> QED
        BY <1>7, <1>8, <2>3, <2>4
<1>10. CASE ~geo.states
    <2>1. updBits' = updBits
        BY <1>10 DEF UpdateBlock
    <2> QED
        BY <1>1, <1>7, <1>8, <1>10, <2>1 DEF FilesTypeOK
<1> QED
    BY <1>1, <1>9, <1>10, Geo

LEMMA UpdateBlockKeeps ==
    ASSUME FilesInv, NEW b \in Blocks, UpdateBlock(b)
    PROVE  FilesInv'
<1>1. /\ UNCHANGED <<geo, matrix, states>> /\ client' = Nobody /\ writes' = writes + 1
      /\ work' = [op |-> "update", at |-> b, matrixTodo |-> Rows,
                  bitsTodo |-> IF geo.states THEN Rows ELSE {}]
      /\ writes < MaxWrites
    BY DEF UpdateBlock
<1>2. geo' = geo /\ matrix' = matrix /\ states' = states /\ FilesTypeOK
    BY <1>1 DEF FilesInv
<1>3. writes' \in 0 .. MaxWrites
    BY <1>1, <1>2, MatrixFilesAssumption DEF FilesTypeOK
<1>4. work' \in Updates
    BY <1>1 DEF Updates
<1>5. FilesTypeOK'
    BY <1>1, <1>2, <1>3, <1>4, Updated, SameGeometry DEF FilesTypeOK, Nobody
<1>6. BlocksWhole' /\ NoStates'
    BY <1>2, SameMatrix, SameStates DEF FilesInv
<1>7. UpdateInv'
    <2> SUFFICES
          /\ \A r \in Rows, j \in BufferBits :
                I_update'[r][j] = IF j \in InBuffer(b) THEN writes' ELSE Bit(r, Col(b, j))'
          /\ geo.states => \A r \in Rows :
                updBits'[r] = {s % geo.byte : s \in states'[r] \cap ByteOf(b)} \cup {b % geo.byte}
        BY <1>1, <1>2, SameGeometry DEF UpdateInv
    <2>1. \A r \in Rows, j \in BufferBits :
             I_update'[r][j] = IF j \in InBuffer(b) THEN writes' ELSE Bit(r, Col(b, j))'
        <3>1. \A r, j : Bit(r, Col(b, j))' = Bit(r, Col(b, j))
            BY <1>2, SameGeometry DEF Bit, PieceBits
        <3> QED
            BY <1>1, <3>1, Updated
    <2> QED
        BY <1>1, <2>1, Updated
<1>8. ClientInv' /\ WorkInv' /\ RowWhole'
    BY <1>1 DEF ClientInv, WorkInv, RowWhole, Nobody
<1> QED
    BY <1>5, <1>6, <1>7, <1>8 DEF FilesInv

(* What a write leaves of the request.                                     *)
LEMMA AfterMatrix ==
    ASSUME FilesTypeOK, work # Idle, NEW n \in work.matrixTodo,
           work' = After([work EXCEPT !.matrixTodo = @ \ {n}])
    PROVE  /\ work' = Idle \/ work' \in Searches \/ work' \in Updates
           /\ work'.op \in {"none", work.op}
           /\ work'.op # "none" =>
                 /\ work'.at = work.at /\ work'.bitsTodo = work.bitsTodo
                 /\ work'.matrixTodo = work.matrixTodo \ {n}
                 /\ work.op = "search" => work'.row = work.row
           /\ work'.op = "none" => work.bitsTodo = {} /\ work.matrixTodo \subseteq {n}
<1>1. work \in Searches \/ work \in Updates
    BY DEF FilesTypeOK
<1> DEFINE w == [work EXCEPT !.matrixTodo = @ \ {n}]
<1>2. /\ w \in Searches \/ w \in Updates
      /\ w.op = work.op /\ w.at = work.at /\ w.bitsTodo = work.bitsTodo
      /\ w.matrixTodo = work.matrixTodo \ {n} /\ w.op # "none"
      /\ work.op = "search" => w.row = work.row
    BY <1>1 DEF Searches, Updates
<1> HIDE DEF w
<1>3. work' = IF w.matrixTodo = {} /\ w.bitsTodo = {} THEN Idle ELSE w
    BY DEF After, w
<1> QED
    BY <1>2, <1>3 DEF Idle

LEMMA AfterBits ==
    ASSUME FilesTypeOK, work # Idle, NEW n \in work.bitsTodo, work.matrixTodo = {},
           work' = After([work EXCEPT !.bitsTodo = @ \ {n}])
    PROVE  /\ work' = Idle \/ work' \in Searches \/ work' \in Updates
           /\ work'.op \in {"none", work.op}
           /\ work'.op # "none" =>
                 /\ work'.at = work.at /\ work'.bitsTodo = work.bitsTodo \ {n}
                 /\ work'.matrixTodo = {}
                 /\ work.op = "search" => work'.row = work.row
           /\ work'.op = "none" => work.bitsTodo \subseteq {n}
<1>1. work \in Searches \/ work \in Updates
    BY DEF FilesTypeOK
<1> DEFINE w == [work EXCEPT !.bitsTodo = @ \ {n}]
<1>2. /\ w \in Searches \/ w \in Updates
      /\ w.op = work.op /\ w.at = work.at /\ w.bitsTodo = work.bitsTodo \ {n}
      /\ w.matrixTodo = {} /\ w.op # "none"
      /\ work.op = "search" => w.row = work.row
    BY <1>1 DEF Searches, Updates
<1> HIDE DEF w
<1>3. work' = IF w.matrixTodo = {} /\ w.bitsTodo = {} THEN Idle ELSE w
    BY DEF After, w
<1> QED
    BY <1>2, <1>3 DEF Idle

LEMMA WriteMatrixKeeps ==
    ASSUME FilesInv, WriteMatrix
    PROVE  FilesInv'
<1>1. PICK n \in work.matrixTodo :
         matrix' = MatrixWritten(work, n) /\ work' = After([work EXCEPT !.matrixTodo = @ \ {n}])
    BY DEF WriteMatrix, Least
<1>2. /\ UNCHANGED <<geo, states, I_update, updBits, client, writes>> /\ work # Idle
      /\ FilesTypeOK /\ UpdateInv /\ WorkInv /\ RowWhole /\ BlocksWhole
    BY DEF WriteMatrix, FilesInv
<1>3. geo' = geo /\ states' = states /\ geo \in Geometries
    BY <1>2 DEF FilesTypeOK
<1>4. work.op \in {"update", "search"}
    BY <1>2, Working
<1>5. matrix' \in [Pieces -> [0 .. NumRows * PieceBits - 1 -> 0 .. MaxWrites]]
    BY <1>1, <1>2, <1>3, <1>4, UpdateWritten, SearchWritten
<1>6. FilesTypeOK'
    <2>1. work' = Idle \/ work' \in Searches \/ work' \in Updates
        BY <1>1, <1>2, AfterMatrix
    <2> QED
        BY <1>2, <1>3, <1>5, <2>1, SameGeometry DEF FilesTypeOK, Nobody, Idle, Unread
<1>7. client = Nobody
    BY <1>2 DEF FilesInv, ClientInv
<1>8. ClientInv'
    BY <1>2, <1>7 DEF ClientInv, Nobody
<1>9. WorkInv'
    BY <1>1, <1>2, <1>3, AfterMatrix DEF WorkInv
<1>10. RowWhole'
    <2>1. work'.op = "search" => work.op = "search" /\ work'.row = work.row
        BY <1>1, <1>2, AfterMatrix
    <2>2. Blocks' = Blocks /\ Cols' = Cols /\ \A c : Blk(c)' = Blk(c)
        BY <1>3, SameGeometry
    <2> QED
        BY <1>2, <2>1, <2>2 DEF RowWhole
<1>11. BlocksWhole'
    <2> SUFFICES ASSUME NEW r \in Rows, NEW b \in Blocks
                 PROVE  \E v \in 0 .. MaxWrites :
                           \A c \in Cols : Blk(c) = b => Bit(r, c)' = v
        BY <1>3, SameGeometry DEF BlocksWhole
    <2>1. PICK v \in 0 .. MaxWrites : \A c \in Cols : Blk(c) = b => Bit(r, c) = v
        BY <1>2 DEF BlocksWhole
    <2>2. CASE work.op = "update"
        <3>1. \A c \in Cols :
                 Bit(r, c)' = IF r = n /\ Blk(c) = work.at THEN writes ELSE Bit(r, c)
            BY <1>1, <1>2, <1>3, <2>2, UpdateWritten
        <3>2. writes \in 0 .. MaxWrites
            BY <1>2 DEF FilesTypeOK
        <3> QED
            BY <2>1, <3>1, <3>2
    <2>3. CASE work.op = "search"
        <3>1. \A c \in Cols :
                 Bit(r, c)' = IF r = work.at /\ c \div PieceBits = n
                              THEN work.row[c] ELSE Bit(r, c)
            BY <1>1, <1>2, <1>3, <2>3, SearchWritten
        <3>2. PICK u \in 0 .. MaxWrites : \A c \in Cols : Blk(c) = b => work.row[c] = u
            BY <1>2, <2>3 DEF RowWhole
        <3>3. \A c \in Cols : Blk(c) = b => c \div PieceBits = PieceOf(b)
            BY <1>3, ColumnIn
        <3> QED
            BY <2>1, <3>1, <3>2, <3>3
    <2> QED
        BY <1>4, <2>2, <2>3
<1>12. UpdateInv'
    <2> SUFFICES ASSUME work'.op = "update"
                 PROVE  UpdateInv'
        BY DEF UpdateInv
    <2>1. /\ work.op = "update" /\ work'.matrixTodo = work.matrixTodo \ {n}
          /\ work'.bitsTodo = work.bitsTodo /\ work'.at = work.at
        BY <1>1, <1>2, AfterMatrix
    <2>2. work.matrixTodo \subseteq Rows
        BY <1>2, <2>1, Working
    <2>3. PICK b \in Blocks : b = work.at
        BY <1>2, <2>1, Working
    <2>4. \A r \in Rows, c \in Cols : r # n => Bit(r, c)' = Bit(r, c)
        BY <1>1, <1>2, <1>3, <2>1, UpdateWritten
    <2>5. \A r \in Rows, j \in BufferBits :
             r # n => Bit(r, Col(b, j))' = Bit(r, Col(b, j))
        <3>1. \A j \in BufferBits : Col(b, j) \in Cols /\ Col(b, j)' = Col(b, j)
            BY <1>3, ColumnOf, SameGeometry
        <3>2. PieceBits' = PieceBits
            BY <1>3, SameGeometry
        <3> QED
            BY <2>4, <3>1, <3>2 DEF Bit
    <2>6. \A r \in work.matrixTodo, j \in BufferBits :
             I_update[r][j] = IF j \in InBuffer(b) THEN writes ELSE Bit(r, Col(b, j))
        BY <1>2, <2>1, <2>3 DEF UpdateInv
    <2>7. \A r \in work'.matrixTodo, j \in BufferBits :
             I_update'[r][j] = IF j \in InBuffer(b) THEN writes' ELSE Bit(r, Col(b, j))'
        BY <1>2, <2>1, <2>2, <2>5, <2>6
    <2>8. /\ BufferBits' = BufferBits /\ InBuffer(b)' = InBuffer(b)
          /\ ByteOf(b)' = ByteOf(b) /\ work'.at = b
        BY <1>3, <2>1, <2>3, SameGeometry
    <2>9. \A r \in work'.bitsTodo :
             updBits'[r] = {s % geo'.byte : s \in states'[r] \cap ByteOf(b)'} \cup {b % geo'.byte}
        BY <1>2, <1>3, <2>1, <2>3, <2>8 DEF UpdateInv
    <2> QED
        BY <2>7, <2>8, <2>9 DEF UpdateInv, InBuffer, Col, ByteOf
<1>13. NoStates'
    BY <1>3, SameStates DEF FilesInv
<1> QED
    BY <1>6, <1>8, <1>9, <1>10, <1>11, <1>12, <1>13 DEF FilesInv

LEMMA WriteBitsKeeps ==
    ASSUME FilesInv, WriteBits
    PROVE  FilesInv'
<1>1. PICK n \in work.bitsTodo :
         states' = BitsWritten(work, n) /\ work' = After([work EXCEPT !.bitsTodo = @ \ {n}])
    BY DEF WriteBits, Least
<1>2. /\ UNCHANGED <<geo, matrix, I_update, updBits, client, writes>> /\ work # Idle
      /\ work.matrixTodo = {} /\ FilesTypeOK /\ UpdateInv /\ WorkInv /\ RowWhole /\ NoStates
    BY DEF WriteBits, FilesInv
<1>3. geo' = geo /\ matrix' = matrix /\ states \in [Rows -> SUBSET Blocks]
    BY <1>2 DEF FilesTypeOK
<1>4. work.op \in {"update", "search"} /\ n \in Rows
    BY <1>1, <1>2, Working
<1>5. /\ work.op = "update" =>
            states' = [states EXCEPT ![n] = @ \cup {work.at}] /\ work.at \in Blocks
      /\ work.op = "search" => states' = [states EXCEPT ![n] = {}]
    BY <1>1, <1>2, UpdateCounted, Working DEF BitsWritten
<1>6. states' \in [Rows -> SUBSET Blocks] /\ geo.states
    BY <1>1, <1>2, <1>3, <1>4, <1>5 DEF WorkInv
<1>7. FilesTypeOK'
    <2>1. work' = Idle \/ work' \in Searches \/ work' \in Updates
        BY <1>1, <1>2, AfterBits
    <2> QED
        BY <1>2, <1>3, <1>6, <2>1, SameGeometry DEF FilesTypeOK, Nobody, Idle, Unread
<1>8. ClientInv'
    BY <1>2 DEF FilesInv, ClientInv, Nobody
<1>9. WorkInv'
    BY <1>1, <1>2, <1>3, AfterBits DEF WorkInv
<1>10. RowWhole'
    <2>1. work'.op = "search" => work.op = "search" /\ work'.row = work.row
        BY <1>1, <1>2, AfterBits
    <2>2. Blocks' = Blocks /\ Cols' = Cols /\ \A c : Blk(c)' = Blk(c)
        BY <1>3, SameGeometry
    <2> QED
        BY <1>2, <2>1, <2>2 DEF RowWhole
<1>11. BlocksWhole'
    BY <1>3, SameMatrix DEF FilesInv
<1>12. UpdateInv'
    <2> SUFFICES ASSUME work'.op = "update"
                 PROVE  \A r \in work'.bitsTodo :
                           updBits[r] = {s % geo.byte : s \in states'[r] \cap ByteOf(work.at)}
                                        \cup {work.at % geo.byte}
        <3>1. work'.op = "update" => work'.at = work.at /\ work'.matrixTodo = {}
            BY <1>1, <1>2, AfterBits
        <3>2. \A b : ByteOf(b)' = ByteOf(b)
            BY <1>3, SameGeometry
        <3> QED
            BY <1>2, <1>3, <3>1, <3>2 DEF UpdateInv, ByteOf
    <2>1. work.op = "update" /\ work'.bitsTodo = work.bitsTodo \ {n}
        BY <1>1, <1>2, AfterBits
    <2>2. \A r \in work.bitsTodo \ {n} : states'[r] = states[r]
        BY <1>2, <1>3, <1>5, <2>1, Working
    <2> QED
        BY <1>2, <2>1, <2>2 DEF UpdateInv
<1>13. NoStates'
    BY <1>3, <1>6 DEF NoStates
<1> QED
    BY <1>7, <1>8, <1>9, <1>10, <1>11, <1>12, <1>13 DEF FilesInv

LEMMA FilesInvStep ==
    SafeRestarts => (FilesInv /\ [Next]_vars => FilesInv')
<1> SUFFICES ASSUME SafeRestarts, FilesInv, [Next]_vars PROVE FilesInv'
    OBVIOUS
<1>1. ASSUME NEW b \in Blocks, GetBlock(b) PROVE FilesInv'
    BY <1>1, GetBlockKeeps
<1>2. ASSUME NEW b \in Blocks, UpdateBlock(b) PROVE FilesInv'
    BY <1>2, UpdateBlockKeeps
<1>3. ASSUME NEW r \in Rows, GetRow(r) PROVE FilesInv'
    BY <1>3, GetRowKeeps
<1>4. ASSUME NEW r \in Rows, SearchKeyword(r) PROVE FilesInv'
    BY <1>4, SearchKeywordKeeps
<1>5. CASE WriteMatrix
    BY <1>5, WriteMatrixKeeps
<1>6. CASE WriteBits
    BY <1>6, WriteBitsKeeps
<1>7. CASE Restart
    BY <1>7, RestartKeeps
<1>8. CASE ClientGone
    BY <1>8, ClientGoneKeeps
<1>9. CASE UNCHANGED vars
    <2>1. /\ geo' = geo /\ matrix' = matrix /\ states' = states
          /\ UNCHANGED <<I_update, updBits, client, work, writes>>
        BY <1>9 DEF vars
    <2>2. FilesTypeOK'
        BY <2>1, SameGeometry DEF FilesInv, FilesTypeOK, Idle
    <2>3. BlocksWhole' /\ NoStates'
        BY <2>1, SameMatrix, SameStates DEF FilesInv
    <2>4. ClientInv' /\ WorkInv'
        BY <2>1, SameGeometry, SameMatrix, SameStates DEF FilesInv, ClientInv, WorkInv, Idle
    <2>5. RowWhole'
        BY <2>1, SameGeometry DEF FilesInv, RowWhole
    <2>6. UpdateInv'
        BY <2>1 DEF FilesInv, UpdateInv, BufferBits, BlockBytes, InBuffer, idx, ByteOf, Blocks,
                    Bit, Col, PieceBits, PieceOf, n1
    <2> QED
        BY <2>2, <2>3, <2>4, <2>5, <2>6 DEF FilesInv
<1> QED
    BY <1>1, <1>2, <1>3, <1>4, <1>5, <1>6, <1>7, <1>8, <1>9 DEF Next

LEMMA FilesInvariant ==
    ASSUME SafeRestarts
    PROVE  Spec => []FilesInv
<1>1. FilesInv /\ [Next]_vars => FilesInv'
    BY FilesInvStep
<1> QED
    BY <1>1, FilesInvStart, PTL DEF Spec

(* The files hold whole numbers of rows and blocks, and every write goes   *)
(* to a place that exists.                                                 *)
THEOREM FilesTypesCorrect ==
    ASSUME SafeRestarts
    PROVE  Spec => []FilesTypeOK
<1>1. FilesInv => FilesTypeOK
    BY DEF FilesInv
<1> QED
    BY <1>1, FilesInvariant, PTL

(* Whatever is written for one block or one row, half way or not, no bit   *)
(* of another changes, though the bytes around a block are written too.    *)
THEOREM OthersAlwaysUntouched ==
    ASSUME SafeRestarts
    PROVE  Spec => OthersUntouched
<1> DEFINE Touches ==
        \A r \in Rows :
           /\ \A c \in Cols : Bit(r, c)' # Bit(r, c) => Mine(r, Blk(c))
           /\ \A b \in Blocks : (b \in states'[r]) # (b \in states[r]) => Mine(r, b)
<1>1. ASSUME FilesInv, [Next]_vars, ~(UNCHANGED vars)
      PROVE  Touches
    <2>1. FilesTypeOK /\ UpdateInv /\ WorkInv /\ geo \in Geometries
        BY <1>1 DEF FilesInv, FilesTypeOK
    <2>2. CASE WriteMatrix
        <3>1. PICK n \in work.matrixTodo : matrix' = MatrixWritten(work, n)
            BY <2>2 DEF WriteMatrix, Least
        <3>2. geo' = geo /\ states' = states /\ work # Idle
            BY <2>2 DEF WriteMatrix
        <3>3. CASE work.op = "update"
            <4>1. \A r \in Rows, c \in Cols :
                     Bit(r, c)' = IF r = n /\ Blk(c) = work.at THEN writes ELSE Bit(r, c)
                BY <2>1, <3>1, <3>2, <3>3, UpdateWritten
            <4> QED
                BY <3>2, <3>3, <4>1 DEF Mine
        <3>4. CASE work.op = "search"
            <4>1. \A r \in Rows, c \in Cols :
                     Bit(r, c)' = IF r = work.at /\ c \div PieceBits = n
                                  THEN work.row[c] ELSE Bit(r, c)
                BY <2>1, <3>1, <3>2, <3>4, SearchWritten
            <4> QED
                BY <3>2, <3>4, <4>1 DEF Mine
        <3> QED
            BY <2>1, <3>2, <3>3, <3>4, Working
    <2>3. CASE WriteBits
        <3>1. PICK n \in work.bitsTodo : states' = BitsWritten(work, n)
            BY <2>3 DEF WriteBits, Least
        <3>2. geo' = geo /\ matrix' = matrix /\ work # Idle
            BY <2>3 DEF WriteBits
        <3>3. \A r, c : Bit(r, c)' = Bit(r, c)
            BY <3>2, SameMatrix
        <3>4. states \in [Rows -> SUBSET Blocks]
            BY <2>1 DEF FilesTypeOK
        <3>5. CASE work.op = "update"
            <4>1. states' = [states EXCEPT ![n] = @ \cup {work.at}]
                BY <2>1, <3>1, <3>5, UpdateCounted
            <4> QED
                BY <3>3, <3>4, <3>5, <4>1 DEF Mine
        <3>6. CASE work.op = "search"
            <4>1. states' = [states EXCEPT ![n] = {}] /\ n = work.at
                BY <2>1, <3>1, <3>6 DEF BitsWritten, WorkInv
            <4> QED
                BY <3>3, <3>4, <3>6, <4>1 DEF Mine
        <3> QED
            BY <2>1, <3>2, <3>5, <3>6, Working
    <2>4. CASE ~WriteMatrix /\ ~WriteBits
        <3>1. geo' = geo /\ matrix' = matrix /\ states' = states
            BY <1>1, <2>4 DEF Next, GetBlock, UpdateBlock, GetRow, SearchKeyword, Restart, ClientGone
        <3> QED
            BY <3>1, SameMatrix
    <2> QED
        BY <2>2, <2>3, <2>4
<1>2. FilesInv /\ [Next]_vars => [Touches]_vars
    BY <1>1
<1> QED
    BY <1>2, FilesInvariant, PTL DEF Spec, OthersUntouched

---------------------------------------------------------------------------
(* The array of blocks.                                                    *)
Content ==
    [r \in Rows |-> [b \in Blocks |->
       Whole({FinalBit(r, c) : c \in {c \in Cols : Blk(c) = b}})]]

Bits == [r \in Rows |-> [b \in Blocks |-> FinalState(r, b)]]

ContentOK ==
    /\ Content \in [Rows -> [Blocks -> 0 .. MaxWrites]]
    /\ Bits \in [Rows -> [Blocks -> BOOLEAN]]
    /\ \A r \in Rows, c \in Cols : Blk(c) \in Blocks /\ FinalBit(r, c) = Content[r][Blk(c)]
    /\ \A r \in Rows, b \in Blocks : Bits[r][b] <=> FinalState(r, b)
    /\ \A b \in Blocks : \E c \in Cols : Blk(c) = b

LEMMA WholeIs ==
    ASSUME NEW v
    PROVE  Whole({v}) = v
BY FS_Singleton DEF Whole

LEMMA FinalBitIs ==
    ASSUME NEW r, NEW c
    PROVE  /\ work.op = "update" =>
                 FinalBit(r, c) = IF r \in work.matrixTodo /\ Blk(c) = work.at
                                  THEN writes ELSE Bit(r, c)
           /\ work.op = "search" =>
                 FinalBit(r, c) = IF r = work.at /\ c \div PieceBits \in work.matrixTodo
                                  THEN work.row[c] ELSE Bit(r, c)
           /\ work.op = "none" => FinalBit(r, c) = Bit(r, c)
BY DEF FinalBit

LEMMA ContentIs ==
    FilesInv => ContentOK
<1> SUFFICES ASSUME FilesInv PROVE ContentOK
    OBVIOUS
<1>1. /\ FilesTypeOK /\ geo \in Geometries /\ writes \in 0 .. MaxWrites
      /\ BlocksWhole /\ RowWhole
    BY DEF FilesInv, FilesTypeOK
<1>2. work.op \in {"none", "update", "search"}
    BY <1>1, Working
<1>3. ASSUME NEW b \in Blocks PROVE \E c \in Cols : Blk(c) = b
    <2>1. PICK j \in BufferBits : j \in InBuffer(b)
        <3>1. geo.block \in Nat \ {0} /\ b \in Nat /\ geo.byte \in Nat \ {0}
            BY <1>1, Geo DEF Blocks
        <3>2. idx(b) \in Int
            <4>1. CASE geo.block < geo.byte
                <5> DEFINE m == geo.byte \div geo.block
                <5>1. geo.byte % geo.block = 0
                    <6>1. geo.block % geo.byte = 0 \/ geo.byte % geo.block = 0
                        BY <1>1, Geo
                    <6>2. Divides(geo.block, geo.byte, 0, geo.block)
                        BY <3>1, <4>1 DEF Divides
                    <6>3. geo.block % geo.byte = geo.block
                        BY <6>2, Divided
                    <6> QED
                        BY <3>1, <6>1, <6>3
                <5>2. m \in Nat /\ geo.byte = geo.block * m
                    BY <3>1, <5>1, DivExact
                <5>3. m # 0
                    BY <3>1, <5>2
                <5> HIDE DEF m
                <5>4. b % m \in Int
                    BY <3>1, <5>2, <5>3, DivRem
                <5> QED
                    BY <4>1, <5>4 DEF idx, m
            <4>2. CASE ~(geo.block < geo.byte)
                BY <4>2 DEF idx
            <4> QED
                BY <4>1, <4>2
        <3>3. idx(b) * geo.block \in InBuffer(b)
            <4> DEFINE k == idx(b) * geo.block
            <4>1. k \in Int
                BY <3>1, <3>2
            <4>2. InBuffer(b) = k .. k + geo.block - 1
                BY DEF InBuffer
            <4> HIDE DEF k
            <4>3. k \in InBuffer(b)
                BY <3>1, <4>1, <4>2
            <4> QED
                BY <4>3 DEF k
        <3> QED
            BY <1>1, <3>3, ColumnOf
    <2> QED
        BY <1>1, <2>1, ColumnOf
<1>4. \A c \in Cols : Blk(c) \in Blocks /\ c \div PieceBits = PieceOf(Blk(c))
    BY <1>1, ColumnIn
<1>5. ASSUME NEW r \in Rows, NEW b \in Blocks
      PROVE  \E v \in 0 .. MaxWrites : \A c \in Cols : Blk(c) = b => FinalBit(r, c) = v
    <2>1. PICK v \in 0 .. MaxWrites : \A c \in Cols : Blk(c) = b => Bit(r, c) = v
        BY <1>1 DEF BlocksWhole
    <2>2. CASE work.op = "none"
        BY <2>1, <2>2, FinalBitIs
    <2>3. CASE work.op = "update"
        <3>1. \A c \in Cols :
                 FinalBit(r, c) = IF r \in work.matrixTodo /\ Blk(c) = work.at
                                  THEN writes ELSE Bit(r, c)
            BY <2>3, FinalBitIs
        <3> QED
            BY <1>1, <2>1, <3>1
    <2>4. CASE work.op = "search"
        <3>1. \A c \in Cols :
                 FinalBit(r, c) = IF r = work.at /\ c \div PieceBits \in work.matrixTodo
                                  THEN work.row[c] ELSE Bit(r, c)
            BY <2>4, FinalBitIs
        <3>2. PICK u \in 0 .. MaxWrites : \A c \in Cols : Blk(c) = b => work.row[c] = u
            BY <1>1, <2>4 DEF RowWhole
        <3>3. CASE r = work.at /\ PieceOf(b) \in work.matrixTodo
            BY <1>4, <3>1, <3>2, <3>3
        <3>4. CASE ~(r = work.at /\ PieceOf(b) \in work.matrixTodo)
            BY <1>4, <2>1, <3>1, <3>4
        <3> QED
            BY <3>3, <3>4
    <2> QED
        BY <1>2, <2>2, <2>3, <2>4
<1>6. ASSUME NEW r \in Rows, NEW b \in Blocks
      PROVE  /\ Content[r][b] \in 0 .. MaxWrites
             /\ \A c \in Cols : Blk(c) = b => FinalBit(r, c) = Content[r][b]
    <2>1. PICK v \in 0 .. MaxWrites : \A c \in Cols : Blk(c) = b => FinalBit(r, c) = v
        BY <1>5
    <2>2. PICK c \in Cols : Blk(c) = b
        BY <1>3
    <2>3. {FinalBit(r, d) : d \in {d \in Cols : Blk(d) = b}} = {v}
        BY <2>1, <2>2
    <2>4. Content[r][b] = Whole({FinalBit(r, d) : d \in {d \in Cols : Blk(d) = b}})
        BY DEF Content
    <2>5. Content[r][b] = v
        BY <2>3, <2>4, WholeIs
    <2> QED
        BY <2>1, <2>5
<1>7. Content \in [Rows -> [Blocks -> 0 .. MaxWrites]]
    BY <1>6 DEF Content
<1>9. Bits \in [Rows -> [Blocks -> BOOLEAN]]
    BY DEF Bits, FinalState
<1>10. \A r \in Rows, b \in Blocks : Bits[r][b] <=> FinalState(r, b)
    BY DEF Bits
<1> QED
    BY <1>3, <1>4, <1>6, <1>7, <1>9, <1>10 DEF ContentOK

LEMMA ContentNext ==
    FilesInv' => ContentOK'
BY ContentIs, PTL

(* A step is known by what it does to the final bits and state bits.       *)
LEMMA ContentKept ==
    ASSUME FilesInv, FilesInv', geo' = geo,
           \A r \in Rows, c \in Cols : FinalBit(r, c)' = FinalBit(r, c),
           \A r \in Rows, b \in Blocks : FinalState(r, b)' <=> FinalState(r, b)
    PROVE  Content' = Content /\ Bits' = Bits /\ Blocks' = Blocks
<1>1. ContentOK /\ ContentOK'
    BY ContentIs, ContentNext
<1>2. Blocks' = Blocks /\ Cols' = Cols /\ \A c : Blk(c)' = Blk(c)
    BY SameGeometry
<1>3. \A r \in Rows, b \in Blocks : Content'[r][b] = Content[r][b] /\ (Bits'[r][b] <=> Bits[r][b])
    BY <1>1, <1>2 DEF ContentOK
<1>4. /\ Content \in [Rows -> [Blocks -> 0 .. MaxWrites]] /\ Bits \in [Rows -> [Blocks -> BOOLEAN]]
      /\ Content' \in [Rows -> [Blocks -> 0 .. MaxWrites]] /\ Bits' \in [Rows -> [Blocks -> BOOLEAN]]
    BY <1>1, <1>2 DEF ContentOK
<1> QED
    BY <1>2, <1>3, <1>4

LEMMA FinalSame ==
    ASSUME UNCHANGED <<geo, matrix, states, work, writes>>
    PROVE  /\ \A r, c : FinalBit(r, c)' = FinalBit(r, c)
           /\ \A r, b : FinalState(r, b)' <=> FinalState(r, b)
BY DEF FinalBit, FinalState, Bit, PieceBits, Blk

LEMMA WriteMatrixFinal ==
    ASSUME FilesInv, WriteMatrix
    PROVE  /\ \A r \in Rows, c \in Cols : FinalBit(r, c)' = FinalBit(r, c)
           /\ \A r \in Rows, b \in Blocks : FinalState(r, b)' <=> FinalState(r, b)
<1>1. PICK n \in work.matrixTodo :
         matrix' = MatrixWritten(work, n) /\ work' = After([work EXCEPT !.matrixTodo = @ \ {n}])
    BY DEF WriteMatrix, Least
<1>2. /\ UNCHANGED <<geo, states, writes>> /\ work # Idle
      /\ FilesTypeOK /\ UpdateInv
    BY DEF WriteMatrix, FilesInv
<1>3. geo' = geo /\ states' = states /\ writes' = writes
    BY <1>2
<1>4. work.op \in {"update", "search"}
    BY <1>2, Working
<1>5. /\ work'.op \in {"none", work.op}
      /\ work'.op # "none" =>
            /\ work'.at = work.at /\ work'.bitsTodo = work.bitsTodo
            /\ work'.matrixTodo = work.matrixTodo \ {n}
            /\ work.op = "search" => work'.row = work.row
      /\ work'.op = "none" => work.bitsTodo = {} /\ work.matrixTodo \subseteq {n}
    BY <1>1, <1>2, AfterMatrix
<1>6. (\A c : Blk(c)' = Blk(c)) /\ PieceBits' = PieceBits
    BY <1>3, SameGeometry
<1>7. \A r \in Rows, b \in Blocks : FinalState(r, b)' <=> FinalState(r, b)
    BY <1>3, <1>4, <1>5 DEF FinalState
<1>8. ASSUME NEW r \in Rows, NEW c \in Cols
      PROVE  FinalBit(r, c)' = FinalBit(r, c)
    <2>1. CASE work.op = "update"
        <3>1. Bit(r, c)' = IF r = n /\ Blk(c) = work.at THEN writes ELSE Bit(r, c)
            BY <1>1, <1>2, <1>3, <2>1, UpdateWritten
        <3>2. FinalBit(r, c) = IF r \in work.matrixTodo /\ Blk(c) = work.at
                               THEN writes ELSE Bit(r, c)
            BY <2>1, FinalBitIs
        <3>3. FinalBit(r, c)' = IF work'.op = "update" /\ r \in work'.matrixTodo
                                   /\ Blk(c) = work'.at
                                THEN writes ELSE Bit(r, c)'
            BY <1>3, <1>5, <1>6, <2>1 DEF FinalBit
        <3>4. CASE r = n
            BY <1>1, <1>5, <3>1, <3>2, <3>3, <3>4
        <3>5. CASE r # n
            BY <1>5, <2>1, <3>1, <3>2, <3>3, <3>5
        <3> QED
            BY <3>4, <3>5
    <2>2. CASE work.op = "search"
        <3> DEFINE p == c \div PieceBits
        <3>1. Bit(r, c)' = IF r = work.at /\ p = n THEN work.row[c] ELSE Bit(r, c)
            BY <1>1, <1>2, <1>3, <2>2, SearchWritten
        <3>2. FinalBit(r, c) = IF r = work.at /\ p \in work.matrixTodo
                               THEN work.row[c] ELSE Bit(r, c)
            BY <2>2, FinalBitIs
        <3>3. FinalBit(r, c)' = IF work'.op = "search" /\ r = work'.at /\ p \in work'.matrixTodo
                                THEN work'.row[c] ELSE Bit(r, c)'
            BY <1>3, <1>5, <1>6, <2>2 DEF FinalBit
        <3> HIDE DEF p
        <3>4. CASE p = n
            BY <1>1, <1>5, <3>1, <3>2, <3>3, <3>4
        <3>5. CASE p # n
            BY <1>5, <2>2, <3>1, <3>2, <3>3, <3>5
        <3> QED
            BY <3>4, <3>5
    <2> QED
        BY <1>4, <2>1, <2>2
<1> QED
    BY <1>7, <1>8

LEMMA WriteBitsFinal ==
    ASSUME FilesInv, WriteBits
    PROVE  /\ \A r \in Rows, c \in Cols : FinalBit(r, c)' = FinalBit(r, c)
           /\ \A r \in Rows, b \in Blocks : FinalState(r, b)' <=> FinalState(r, b)
<1>1. PICK n \in work.bitsTodo :
         states' = BitsWritten(work, n) /\ work' = After([work EXCEPT !.bitsTodo = @ \ {n}])
    BY DEF WriteBits, Least
<1>2. /\ UNCHANGED <<geo, matrix, writes>> /\ work # Idle
      /\ work.matrixTodo = {} /\ FilesTypeOK /\ UpdateInv
    BY DEF WriteBits, FilesInv
<1>3. geo' = geo /\ matrix' = matrix /\ states \in [Rows -> SUBSET Blocks]
    BY <1>2 DEF FilesTypeOK
<1>4. work.op \in {"update", "search"} /\ n \in Rows
    BY <1>1, <1>2, Working
<1>5. /\ work.op = "update" => states' = [states EXCEPT ![n] = @ \cup {work.at}]
      /\ work.op = "search" => states' = [states EXCEPT ![n] = {}]
    BY <1>1, <1>2, UpdateCounted DEF BitsWritten
<1>6. /\ work'.op \in {"none", work.op}
      /\ work'.op # "none" =>
            /\ work'.at = work.at /\ work'.bitsTodo = work.bitsTodo \ {n}
            /\ work'.matrixTodo = {}
      /\ work'.op = "none" => work.bitsTodo \subseteq {n}
    BY <1>1, <1>2, AfterBits
<1>7. \A r, c : Bit(r, c)' = Bit(r, c)
    BY <1>3, SameMatrix
<1>8. \A r \in Rows, c \in Cols : FinalBit(r, c)' = FinalBit(r, c)
    <2> TAKE r \in Rows, c \in Cols
    <2>1. FinalBit(r, c) = Bit(r, c)
        BY <1>2, <1>4, FinalBitIs
    <2>2. FinalBit(r, c)' = Bit(r, c)'
        BY <1>4, <1>6 DEF FinalBit
    <2> QED
        BY <1>7, <2>1, <2>2
<1>9. ASSUME NEW r \in Rows, NEW b \in Blocks
      PROVE  FinalState(r, b)' <=> FinalState(r, b)
    <2>1. CASE work.op = "update"
        BY <1>1, <1>3, <1>5, <1>6, <2>1 DEF FinalState
    <2>2. CASE work.op = "search"
        BY <1>1, <1>3, <1>5, <1>6, <2>2 DEF FinalState
    <2> QED
        BY <1>4, <2>1, <2>2
<1> QED
    BY <1>8, <1>9

(* Actions of the array, in terms of its content and its bits.             *)
LEMMA ArrayActions ==
    /\ \A b : Array!ReadBlock(b) <=>
          /\ answer' = <<[r \in Rows |-> Content[r][b]], [r \in Rows |-> Bits[r][b]]>>
          /\ UNCHANGED <<Blocks, Content, Bits>>
    /\ \A r : Array!ReadRow(r) <=>
          /\ answer' = <<Content[r], Bits[r]>> /\ UNCHANGED <<Blocks, Content, Bits>>
    /\ \A where : Array!Lost(where) <=>
          /\ Content' \in [Rows -> [Blocks -> 0 .. MaxWrites]]
          /\ \A r \in Rows, b \in Blocks :
                <<r, b>> \notin where =>
                   Content'[r][b] = Content[r][b] /\ Bits'[r][b] = Bits[r][b]
          /\ UNCHANGED <<Blocks, answer>>
BY DEF Array!ReadBlock, Array!ReadRow, Array!Lost, Content, Bits

LEMMA ArrayNext ==
    Array!Next <=>
       \/ \E b \in Blocks : Array!ReadBlock(b) \/ Array!Lost(Rows \X {b})
       \/ \E r \in Rows : Array!ReadRow(r) \/ Array!Lost({r} \X Blocks)
       \/ \E b \in Blocks, v \in 0 .. MaxWrites, counts \in BOOLEAN :
             Array!UpdateBlock(b, v, counts)
       \/ \E r \in Rows, v \in 0 .. MaxWrites, again \in BOOLEAN : Array!SearchRow(r, v, again)
BY DEF Array!Next, Array!LoseUpdate, Array!LoseSearch

LEMMA ArrayStart ==
    Init => Array!Init
<1> SUFFICES ASSUME Init PROVE Array!Init
    OBVIOUS
<1>1. ContentOK
    BY FilesInvStart, ContentIs
<1>2. work.op = "none" /\ \A r \in Rows : states[r] = {}
    BY DEF Init, Idle
<1>3. \A r \in Rows, b \in Blocks : Bits[r][b] = FALSE
    BY <1>1, <1>2 DEF ContentOK, FinalState
<1>4. Bits = [r \in Rows |-> [b \in Blocks |-> FALSE]]
    BY <1>1, <1>3 DEF ContentOK
<1>5. Content \in [Rows -> [Blocks -> 0 .. MaxWrites]]
    BY <1>1 DEF ContentOK
<1>6. answer = <<>>
    BY DEF Init
<1>7. Array!Init <=>
         /\ Content \in [Rows -> [Blocks -> 0 .. MaxWrites]]
         /\ Bits = [r \in Rows |-> [b \in Blocks |-> FALSE]]
         /\ answer = <<>>
    BY DEF Array!Init, Content, Bits
<1> QED
    BY <1>4, <1>5, <1>6, <1>7

(* An idle server has all of its array in its files.                       *)
LEMMA IdleContent ==
    ASSUME FilesInv, work = Idle
    PROVE  /\ \A r \in Rows, c \in Cols : Bit(r, c) = Content[r][Blk(c)] /\ Blk(c) \in Blocks
           /\ \A r \in Rows, b \in Blocks : Bits[r][b] <=> b \in states[r]
           /\ \A r \in Rows : RowAnswer(r) = <<Content[r], Bits[r]>>
<1>1. ContentOK /\ work.op = "none"
    BY ContentIs DEF Idle
<1>2. \A r \in Rows, c \in Cols : Bit(r, c) = Content[r][Blk(c)] /\ Blk(c) \in Blocks
    BY <1>1, FinalBitIs DEF ContentOK
<1>3. \A r \in Rows, b \in Blocks : Bits[r][b] <=> b \in states[r]
    BY <1>1 DEF ContentOK, FinalState
<1>4. ASSUME NEW r \in Rows
      PROVE  RowAnswer(r) = <<Content[r], Bits[r]>>
    <2>1. ASSUME NEW b \in Blocks
          PROVE  Whole({Bit(r, c) : c \in {c \in Cols : Blk(c) = b}}) = Content[r][b]
        <3>1. PICK c \in Cols : Blk(c) = b
            BY <1>1 DEF ContentOK
        <3>2. {Bit(r, d) : d \in {d \in Cols : Blk(d) = b}} = {Content[r][b]}
            BY <1>2, <3>1
        <3> QED
            BY <3>2, WholeIs
    <2>2. Content[r] = [b \in Blocks |-> Whole({Bit(r, c) : c \in {c \in Cols : Blk(c) = b}})]
        BY <1>1, <2>1 DEF ContentOK
    <2>3. Bits[r] = [b \in Blocks |-> b \in states[r]]
        BY <1>1, <1>3 DEF ContentOK
    <2> QED
        BY <2>2, <2>3 DEF RowAnswer
<1> QED
    BY <1>2, <1>3, <1>4

LEMMA GetBlockReads ==
    ASSUME FilesInv, FilesInv', NEW b \in Blocks, GetBlock(b)
    PROVE  Array!ReadBlock(b)
<1>1. /\ UNCHANGED <<geo, matrix, states, work, writes>> /\ work = Idle
      /\ geo' = geo /\ FilesTypeOK /\ NoStates /\ geo \in Geometries
      /\ I_update' = LoadedBytes(b)
      /\ updBits' = IF geo.states THEN LoadedBits(b) ELSE updBits
      /\ answer' = <<[r \in Rows |-> Whole({I_update'[r][k] : k \in InBuffer(b)})],
                     [r \in Rows |-> geo.states /\ b % geo.byte \in updBits'[r]]>>
    BY DEF GetBlock, FilesInv, FilesTypeOK
<1>2. Content' = Content /\ Bits' = Bits /\ Blocks' = Blocks
    BY <1>1, FinalSame, ContentKept
<1>3. ContentOK
    BY ContentIs
<1>4. ASSUME NEW r \in Rows
      PROVE  Whole({I_update'[r][k] : k \in InBuffer(b)}) = Content[r][b]
    <2>1. \A k \in InBuffer(b) : I_update'[r][k] = Content[r][b]
        <3> TAKE k \in InBuffer(b)
        <3>1. k \in BufferBits /\ Col(b, k) \in Cols /\ Blk(Col(b, k)) = b
            BY <1>1, ColumnOf
        <3>2. I_update'[r][k] = Bit(r, Col(b, k))
            BY <1>1, <3>1, Loaded
        <3> QED
            BY <1>1, <3>1, <3>2, IdleContent
    <2>2. \E k : k \in InBuffer(b)
        <3>1. PICK c \in Cols : Blk(c) = b
            BY <1>3 DEF ContentOK
        <3> QED
            BY <1>1, <3>1, ColumnOf
    <2>3. {I_update'[r][k] : k \in InBuffer(b)} = {Content[r][b]}
        BY <2>1, <2>2
    <2> QED
        BY <2>3, WholeIs
<1>5. ASSUME NEW r \in Rows
      PROVE  geo.states /\ b % geo.byte \in updBits'[r] <=> Bits[r][b]
    <2>1. CASE geo.states
        <3>1. updBits'[r] = {t % geo.byte : t \in states[r] \cap ByteOf(b)}
            BY <1>1, <2>1 DEF LoadedBits
        <3>2. b \in states[r] <=> b % geo.byte \in {t % geo.byte : t \in states[r] \cap ByteOf(b)}
            BY <1>1, OwnByte, BitLoaded
        <3> QED
            BY <1>1, <2>1, <3>1, <3>2, IdleContent
    <2>2. CASE ~geo.states
        <3>1. states[r] = {}
            BY <1>1, <2>2 DEF NoStates
        <3> QED
            BY <1>1, <2>2, <3>1, IdleContent
    <2> QED
        BY <1>1, <2>1, <2>2
<1>6. Bits \in [Rows -> [Blocks -> BOOLEAN]]
    BY <1>3 DEF ContentOK
<1>7. [r \in Rows |-> geo.states /\ b % geo.byte \in updBits'[r]] = [r \in Rows |-> Bits[r][b]]
    BY <1>5, <1>6
<1>8. [r \in Rows |-> Whole({I_update'[r][k] : k \in InBuffer(b)})] = [r \in Rows |-> Content[r][b]]
    BY <1>4
<1> QED
    BY <1>1, <1>2, <1>7, <1>8, ArrayActions

LEMMA GetRowReads ==
    ASSUME FilesInv, FilesInv', NEW r \in Rows, GetRow(r)
    PROVE  Array!ReadRow(r)
<1>1. /\ UNCHANGED <<geo, matrix, states, work, writes>> /\ work = Idle
      /\ geo' = geo /\ answer' = RowAnswer(r)
    BY DEF GetRow
<1>2. Content' = Content /\ Bits' = Bits /\ Blocks' = Blocks
    BY <1>1, FinalSame, ContentKept
<1> QED
    BY <1>1, <1>2, IdleContent, ArrayActions

LEMMA SearchSearches ==
    ASSUME FilesInv, FilesInv', NEW r \in Rows, SearchKeyword(r)
    PROVE  \E v \in 0 .. MaxWrites, again \in BOOLEAN : Array!SearchRow(r, v, again)
<1>1. /\ UNCHANGED <<geo, matrix, states>> /\ geo' = geo /\ matrix' = matrix
      /\ work = Idle /\ writes' = writes + 1
      /\ answer' = RowAnswer(r) /\ FilesTypeOK' /\ geo \in Geometries
    BY DEF SearchKeyword, FilesInv, FilesTypeOK
<1>2. PICK hasRow_key \in BOOLEAN :
         work' = [op |-> "search", at |-> r, matrixTodo |-> Pieces, bitsTodo |-> {r},
                  row |-> [c \in Cols |-> IF hasRow_key /\ Blk(c) \notin states[r]
                                          THEN writes + 1 ELSE Bit(r, c)]]
    BY DEF SearchKeyword
<1>3. ContentOK /\ ContentOK'
    BY ContentIs, ContentNext
<1>4. /\ Blocks' = Blocks /\ Cols' = Cols /\ PieceBits' = PieceBits /\ \A c : Blk(c)' = Blk(c)
    BY <1>1, SameGeometry
<1>5. \A q, c : Bit(q, c)' = Bit(q, c)
    BY <1>1, SameMatrix
<1>6. ASSUME NEW q \in Rows, NEW c \in Cols
      PROVE  FinalBit(q, c)' = IF q = r /\ hasRow_key /\ Blk(c) \notin states[r]
                               THEN writes + 1 ELSE Bit(q, c)
    <2>1. c \div PieceBits \in Pieces
        BY <1>1, ColumnIn
    <2>2. /\ work'.op = "search" /\ work'.at = r /\ work'.matrixTodo = Pieces
          /\ work'.row[c] = IF hasRow_key /\ Blk(c) \notin states[r]
                            THEN writes + 1 ELSE Bit(r, c)
        BY <1>2
    <2>3. FinalBit(q, c)' = IF q = r THEN work'.row[c] ELSE Bit(q, c)'
        BY <1>4, <2>1, <2>2 DEF FinalBit
    <2> QED
        BY <1>5, <2>2, <2>3
<1>7. \A q \in Rows, b \in Blocks :
         Content'[q][b] = IF q = r /\ hasRow_key /\ ~Bits[r][b] THEN writes + 1 ELSE Content[q][b]
    <2> TAKE q \in Rows, b \in Blocks
    <2>1. PICK c \in Cols : Blk(c) = b
        BY <1>3 DEF ContentOK
    <2>2. Content'[q][b] = FinalBit(q, c)'
        BY <1>3, <1>4, <2>1 DEF ContentOK
    <2>3. Content[q][b] = Bit(q, c) /\ (Bits[r][b] <=> b \in states[r])
        BY <1>1, <2>1, IdleContent
    <2> QED
        BY <1>6, <2>1, <2>2, <2>3
<1>8. \A q \in Rows, b \in Blocks : Bits'[q][b] <=> q # r /\ Bits[q][b]
    <2>1. \A q \in Rows, b \in Blocks : FinalState(q, b)' <=> q # r /\ b \in states[q]
        BY <1>1, <1>2 DEF FinalState
    <2> QED
        BY <1>1, <1>3, <1>4, <2>1, IdleContent DEF ContentOK
<1>9. /\ Content \in [Rows -> [Blocks -> 0 .. MaxWrites]] /\ Bits \in [Rows -> [Blocks -> BOOLEAN]]
      /\ Content' \in [Rows -> [Blocks -> 0 .. MaxWrites]] /\ Bits' \in [Rows -> [Blocks -> BOOLEAN]]
    BY <1>3, <1>4 DEF ContentOK
<1>10. Content' = [Content EXCEPT ![r] =
          [b \in Blocks |-> IF hasRow_key /\ ~Bits[r][b] THEN writes + 1 ELSE Content[r][b]]]
    BY <1>7, <1>9
<1>11. Bits' = [Bits EXCEPT ![r] = [b \in Blocks |-> FALSE]]
    BY <1>8, <1>9
<1>12. writes + 1 \in 0 .. MaxWrites
    BY <1>1 DEF FilesTypeOK
<1>13. answer' = <<Content[r], Bits[r]>>
    BY <1>1, IdleContent
<1>14. Array!SearchRow(r, writes + 1, hasRow_key)
    <2>1. Array!SearchRow(r, writes + 1, hasRow_key) <=>
             /\ answer' = <<Content[r], Bits[r]>>
             /\ Content' = [Content EXCEPT ![r] =
                   [b \in Blocks |-> IF hasRow_key /\ ~Bits[r][b]
                                     THEN writes + 1 ELSE Content[r][b]]]
             /\ Bits' = [Bits EXCEPT ![r] = [b \in Blocks |-> FALSE]]
             /\ UNCHANGED Blocks
        BY DEF Array!SearchRow, Array!Searched, Content, Bits
    <2> QED
        BY <1>4, <1>10, <1>11, <1>13, <2>1
<1> QED
    BY <1>12, <1>14

LEMMA UpdateUpdates ==
    ASSUME FilesInv, FilesInv', NEW b \in Blocks, UpdateBlock(b)
    PROVE  \E v \in 0 .. MaxWrites, counts \in BOOLEAN : Array!UpdateBlock(b, v, counts)
<1>1. /\ UNCHANGED <<geo, matrix, states, answer>> /\ geo' = geo /\ matrix' = matrix
      /\ work = Idle /\ writes' = writes + 1 /\ FilesTypeOK' /\ geo \in Geometries
      /\ work' = [op |-> "update", at |-> b, matrixTodo |-> Rows,
                  bitsTodo |-> IF geo.states THEN Rows ELSE {}]
    BY DEF UpdateBlock, FilesInv, FilesTypeOK
<1>2. ContentOK /\ ContentOK' /\ geo.states \in BOOLEAN
    BY <1>1, ContentIs, ContentNext, Geo
<1>3. /\ Blocks' = Blocks /\ Cols' = Cols /\ \A c : Blk(c)' = Blk(c)
    BY <1>1, SameGeometry
<1>4. \A r, c : Bit(r, c)' = Bit(r, c)
    BY <1>1, SameMatrix
<1>5. \A r \in Rows, s \in Blocks :
         Content'[r][s] = IF s = b THEN writes + 1 ELSE Content[r][s]
    <2> TAKE r \in Rows, s \in Blocks
    <2>1. PICK c \in Cols : Blk(c) = s
        BY <1>2 DEF ContentOK
    <2>2. Content'[r][s] = FinalBit(r, c)'
        BY <1>2, <1>3, <2>1 DEF ContentOK
    <2>3. Content[r][s] = Bit(r, c)
        BY <1>1, <2>1, IdleContent
    <2>4. work'.op = "update" /\ r \in work'.matrixTodo /\ work'.at = b
        BY <1>1
    <2>5. FinalBit(r, c)' = IF s = b THEN writes' ELSE Bit(r, c)'
        BY <1>3, <2>1, <2>4 DEF FinalBit
    <2> QED
        BY <1>1, <1>4, <2>2, <2>3, <2>5
<1>6. \A r \in Rows, s \in Blocks : Bits'[r][s] <=> Bits[r][s] \/ (s = b /\ geo.states)
    <2>1. \A r \in Rows, s \in Blocks :
             FinalState(r, s)' <=> s \in states[r] \/ (s = b /\ geo.states)
        BY <1>1 DEF FinalState
    <2> QED
        BY <1>1, <1>2, <1>3, <2>1, IdleContent DEF ContentOK
<1>7. /\ Content \in [Rows -> [Blocks -> 0 .. MaxWrites]] /\ Bits \in [Rows -> [Blocks -> BOOLEAN]]
      /\ Content' \in [Rows -> [Blocks -> 0 .. MaxWrites]] /\ Bits' \in [Rows -> [Blocks -> BOOLEAN]]
    BY <1>2, <1>3 DEF ContentOK
<1>8. Content' = [r \in Rows |-> [Content[r] EXCEPT ![b] = writes + 1]]
    BY <1>5, <1>7
<1>9. Bits' = [r \in Rows |-> [Bits[r] EXCEPT ![b] = @ \/ geo.states]]
    BY <1>2, <1>6, <1>7
<1>10. writes + 1 \in 0 .. MaxWrites
    BY <1>1 DEF FilesTypeOK
<1>11. Array!UpdateBlock(b, writes + 1, geo.states)
    <2>1. Array!UpdateBlock(b, writes + 1, geo.states) <=>
             /\ Content' = [r \in Rows |-> [Content[r] EXCEPT ![b] = writes + 1]]
             /\ Bits' = [r \in Rows |-> [Bits[r] EXCEPT ![b] = @ \/ geo.states]]
             /\ UNCHANGED <<Blocks, answer>>
        BY DEF Array!UpdateBlock, Content, Bits
    <2> QED
        BY <1>1, <1>3, <1>8, <1>9, <2>1
<1> QED
    BY <1>2, <1>10, <1>11

(* A kill loses what was still to be written of one update or one search.  *)
LEMMA RestartLoses ==
    ASSUME FilesInv, FilesInv', Restart
    PROVE  \/ UNCHANGED <<Blocks, Content, Bits, answer>>
           \/ \E b \in Blocks : Array!Lost(Rows \X {b})
           \/ \E r \in Rows : Array!Lost({r} \X Blocks)
<1>1. /\ UNCHANGED <<geo, matrix, states, writes, answer>> /\ geo' = geo /\ matrix' = matrix
      /\ work' = Idle /\ FilesTypeOK /\ WorkInv
    BY DEF Restart, FilesInv
<1>2. ContentOK /\ ContentOK'
    BY ContentIs, ContentNext
<1>3. /\ Blocks' = Blocks /\ Cols' = Cols /\ \A c : Blk(c)' = Blk(c)
    BY <1>1, SameGeometry
<1>4. \A r, c : Bit(r, c)' = Bit(r, c)
    BY <1>1, SameMatrix
<1>5. work'.op = "none" /\ \A r, c : FinalBit(r, c)' = Bit(r, c)
    <2>1. work'.op = "none"
        BY <1>1 DEF Idle
    <2> QED
        BY <1>4, <2>1 DEF FinalBit
<1>6. \A r, s : FinalState(r, s)' <=> s \in states[r]
    BY <1>1, <1>5 DEF FinalState
<1>7. ASSUME NEW r \in Rows, NEW s \in Blocks,
             \A c \in Cols : Blk(c) = s => FinalBit(r, c) = Bit(r, c),
             FinalState(r, s) <=> s \in states[r]
      PROVE  Content'[r][s] = Content[r][s] /\ Bits'[r][s] = Bits[r][s]
    <2>1. PICK c \in Cols : Blk(c) = s
        BY <1>2 DEF ContentOK
    <2>2. Content'[r][s] = FinalBit(r, c)' /\ Content[r][s] = FinalBit(r, c)
        BY <1>2, <1>3, <2>1 DEF ContentOK
    <2>3. Bits'[r][s] <=> Bits[r][s]
        BY <1>2, <1>3, <1>6, <1>7 DEF ContentOK
    <2>4. Bits'[r][s] \in BOOLEAN /\ Bits[r][s] \in BOOLEAN
        BY <1>2, <1>3 DEF ContentOK
    <2> QED
        BY <1>5, <1>7, <2>1, <2>2, <2>3, <2>4
<1>8. Content' \in [Rows -> [Blocks -> 0 .. MaxWrites]]
    BY <1>2, <1>3 DEF ContentOK
<1>9. CASE work.op = "none"
    <2>1. /\ \A r \in Rows, c \in Cols : FinalBit(r, c)' = FinalBit(r, c)
          /\ \A r \in Rows, s \in Blocks : FinalState(r, s)' <=> FinalState(r, s)
        BY <1>5, <1>6, <1>9 DEF FinalBit, FinalState
    <2> QED
        BY <1>1, <2>1, ContentKept
<1>10. CASE work.op = "update"
    <2>1. PICK b \in Blocks : b = work.at
        BY <1>1, <1>10, Working
    <2>2. ASSUME NEW r \in Rows, NEW s \in Blocks, s # b
          PROVE  Content'[r][s] = Content[r][s] /\ Bits'[r][s] = Bits[r][s]
        <3>1. \A c \in Cols : Blk(c) = s => FinalBit(r, c) = Bit(r, c)
            BY <1>10, <2>1, <2>2, FinalBitIs
        <3>2. FinalState(r, s) <=> s \in states[r]
            BY <1>10, <2>1, <2>2 DEF FinalState
        <3> QED
            BY <1>7, <3>1, <3>2
    <2>3. Array!Lost(Rows \X {b})
        BY <1>1, <1>3, <1>8, <2>2, ArrayActions
    <2> QED
        BY <2>3
<1>11. CASE work.op = "search"
    <2>1. PICK q \in Rows : q = work.at
        BY <1>1, <1>11, Working
    <2>2. ASSUME NEW r \in Rows, NEW s \in Blocks, r # q
          PROVE  Content'[r][s] = Content[r][s] /\ Bits'[r][s] = Bits[r][s]
        <3>1. \A c \in Cols : Blk(c) = s => FinalBit(r, c) = Bit(r, c)
            BY <1>11, <2>1, <2>2, FinalBitIs
        <3>2. FinalState(r, s) <=> s \in states[r]
            BY <1>1, <1>11, <2>1, <2>2 DEF FinalState, WorkInv
        <3> QED
            BY <1>7, <3>1, <3>2
    <2>3. Array!Lost({q} \X Blocks)
        BY <1>1, <1>3, <1>8, <2>2, ArrayActions
    <2> QED
        BY <2>3
<1> QED
    BY <1>1, <1>9, <1>10, <1>11, Working

LEMMA ArrayStep ==
    FilesInv /\ FilesInv' /\ [Next]_vars => [Array!Next]_<<Blocks, Content, Bits, answer>>
<1> SUFFICES ASSUME FilesInv, FilesInv', [Next]_vars
             PROVE  [Array!Next]_<<Blocks, Content, Bits, answer>>
    OBVIOUS
<1>1. ASSUME NEW b \in Blocks, GetBlock(b) PROVE Array!Next
    BY <1>1, GetBlockReads, ArrayNext
<1>2. ASSUME NEW b \in Blocks, UpdateBlock(b) PROVE Array!Next
    BY <1>2, UpdateUpdates, ArrayNext
<1>3. ASSUME NEW r \in Rows, GetRow(r) PROVE Array!Next
    BY <1>3, GetRowReads, ArrayNext
<1>4. ASSUME NEW r \in Rows, SearchKeyword(r) PROVE Array!Next
    BY <1>4, SearchSearches, ArrayNext
<1>5. CASE WriteMatrix
    <2>1. geo' = geo /\ answer' = answer
        BY <1>5 DEF WriteMatrix
    <2> QED
        BY <1>5, <2>1, WriteMatrixFinal, ContentKept
<1>6. CASE WriteBits
    <2>1. geo' = geo /\ answer' = answer
        BY <1>6 DEF WriteBits
    <2> QED
        BY <1>6, <2>1, WriteBitsFinal, ContentKept
<1>7. CASE Restart
    BY <1>7, RestartLoses, ArrayNext
<1>8. CASE ClientGone \/ UNCHANGED vars
    <2>1. UNCHANGED <<geo, matrix, states, work, writes>> /\ geo' = geo /\ answer' = answer
        BY <1>8 DEF ClientGone, vars
    <2> QED
        BY <2>1, FinalSame, ContentKept
<1> QED
    BY <1>1, <1>2, <1>3, <1>4, <1>5, <1>6, <1>7, <1>8 DEF Next

(* Blocks of bits, of parts of a byte or of several bytes, spread over     *)
(* rows and pieces, read and written through buffers of whole bytes that   *)
(* may be stale: the files are an array of blocks read and replaced whole. *)
THEOREM FilesImplementBlockArray ==
    ASSUME SafeRestarts
    PROVE  Spec => ImplementsBlockArray
<1>1. Init => Array!Init
    BY ArrayStart
<1>2. FilesInv /\ FilesInv' /\ [Next]_vars => [Array!Next]_<<Blocks, Content, Bits, answer>>
    BY ArrayStep
<1>3. FilesInv /\ FilesInv' /\ [Next]_vars => [Array!Next]_(Array!avars)
    BY <1>2 DEF Array!avars, Content, Bits
<1> QED
    BY <1>1, <1>3, FilesInvariant, PTL DEF Spec, ImplementsBlockArray, Array!Spec


=============================================================================
