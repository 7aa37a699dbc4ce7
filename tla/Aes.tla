-------------------------------- MODULE Aes --------------------------------
(***************************************************************************)
(* AES_set_encrypt_key, AES_set_decrypt_key, AES_encrypt and AES_decrypt   *)
(* of aes_core.cpp, with both bodies the preprocessor can choose for the   *)
(* key schedules (AES_ASM) and for the rounds (FULL_UNROLL), against the   *)
(* byte-wise cipher of FIPS 197.  A 32-bit word is the tuple of its bytes, *)
(* most significant first; a schedule is a sequence of words.              *)
(***************************************************************************)
EXTENDS Integers, Sequences

CONSTANTS AesKeys, AesBlocks   \* user keys and blocks, sequences of bytes

VARIABLE aes
aesVars == <<aes>>

Byte == 0 .. 255

LastWord(s) == s[Len(s)]

\* Columns and bytes are counted 1 .. 4 and wrap around.
Wrap(k) == ((k - 1) % 4) + 1

-----------------------------------------------------------------------------
\* Exclusive or, and the multiples by which the lookup tables scale a byte.

BitXor(a, b) == (a + b) % 2

NibbleXor == [a, b \in 0 .. 15 |->
    BitXor(a, b) + 2 * BitXor(a \div 2, b \div 2)
      + 4 * BitXor(a \div 4, b \div 4) + 8 * BitXor(a \div 8, b \div 8)]

Xor(a, b) == 16 * NibbleXor[a \div 16, b \div 16] + NibbleXor[a % 16, b % 16]

XorWords(v, w) == <<Xor(v[1], w[1]), Xor(v[2], w[2]), Xor(v[3], w[3]), Xor(v[4], w[4])>>

Double(a) == IF a < 128 THEN 2 * a ELSE Xor(2 * a - 256, 27)

\* tp2, tp4, tp8, tp9, tpb, tpd and tpe of a byte
Multiples == [a \in Byte |->
    LET tp2 == Double(a)  tp4 == Double(tp2)  tp8 == Double(tp4)
        tp9 == Xor(tp8, a)
    IN  [x1 |-> a, x2 |-> tp2, x3 |-> Xor(tp2, a), x9 |-> tp9,
         xb |-> Xor(tp9, tp2), xd |-> Xor(tp9, tp4),
         xe |-> Xor(Xor(tp8, tp4), tp2)]]

-----------------------------------------------------------------------------
\* The tables.  Te4 and Td4 are the data of the file; Te0 .. Td3 are what the
\* comment above them says of theirs, the S-box bytes times four constants.

Te4 == <<
  99, 124, 119, 123, 242, 107, 111, 197, 48, 1, 103, 43, 254, 215, 171, 118,
  202, 130, 201, 125, 250, 89, 71, 240, 173, 212, 162, 175, 156, 164, 114, 192,
  183, 253, 147, 38, 54, 63, 247, 204, 52, 165, 229, 241, 113, 216, 49, 21,
  4, 199, 35, 195, 24, 150, 5, 154, 7, 18, 128, 226, 235, 39, 178, 117,
  9, 131, 44, 26, 27, 110, 90, 160, 82, 59, 214, 179, 41, 227, 47, 132,
  83, 209, 0, 237, 32, 252, 177, 91, 106, 203, 190, 57, 74, 76, 88, 207,
  208, 239, 170, 251, 67, 77, 51, 133, 69, 249, 2, 127, 80, 60, 159, 168,
  81, 163, 64, 143, 146, 157, 56, 245, 188, 182, 218, 33, 16, 255, 243, 210,
  205, 12, 19, 236, 95, 151, 68, 23, 196, 167, 126, 61, 100, 93, 25, 115,
  96, 129, 79, 220, 34, 42, 144, 136, 70, 238, 184, 20, 222, 94, 11, 219,
  224, 50, 58, 10, 73, 6, 36, 92, 194, 211, 172, 98, 145, 149, 228, 121,
  231, 200, 55, 109, 141, 213, 78, 169, 108, 86, 244, 234, 101, 122, 174, 8,
  186, 120, 37, 46, 28, 166, 180, 198, 232, 221, 116, 31, 75, 189, 139, 138,
  112, 62, 181, 102, 72, 3, 246, 14, 97, 53, 87, 185, 134, 193, 29, 158,
  225, 248, 152, 17, 105, 217, 142, 148, 155, 30, 135, 233, 206, 85, 40, 223,
  140, 161, 137, 13, 191, 230, 66, 104, 65, 153, 45, 15, 176, 84, 187, 22 >>

Td4 == <<
  82, 9, 106, 213, 48, 54, 165, 56, 191, 64, 163, 158, 129, 243, 215, 251,
  124, 227, 57, 130, 155, 47, 255, 135, 52, 142, 67, 68, 196, 222, 233, 203,
  84, 123, 148, 50, 166, 194, 35, 61, 238, 76, 149, 11, 66, 250, 195, 78,
  8, 46, 161, 102, 40, 217, 36, 178, 118, 91, 162, 73, 109, 139, 209, 37,
  114, 248, 246, 100, 134, 104, 152, 22, 212, 164, 92, 204, 93, 101, 182, 146,
  108, 112, 72, 80, 253, 237, 185, 218, 94, 21, 70, 87, 167, 141, 157, 132,
  144, 216, 171, 0, 140, 188, 211, 10, 247, 228, 88, 5, 184, 179, 69, 6,
  208, 44, 30, 143, 202, 63, 15, 2, 193, 175, 189, 3, 1, 19, 138, 107,
  58, 145, 17, 65, 79, 103, 220, 234, 151, 242, 207, 206, 240, 180, 230, 115,
  150, 172, 116, 34, 231, 173, 53, 133, 226, 249, 55, 232, 28, 117, 223, 110,
  71, 241, 26, 113, 29, 41, 197, 137, 111, 183, 98, 14, 170, 24, 190, 27,
  252, 86, 62, 75, 198, 210, 121, 32, 154, 219, 192, 254, 120, 205, 90, 244,
  31, 221, 168, 51, 136, 7, 199, 49, 177, 18, 16, 89, 39, 128, 236, 95,
  96, 81, 127, 169, 25, 181, 74, 13, 45, 229, 122, 159, 147, 201, 156, 239,
  160, 224, 59, 77, 174, 42, 245, 176, 200, 235, 187, 60, 131, 83, 153, 97,
  23, 43, 4, 126, 186, 119, 214, 38, 225, 105, 20, 99, 85, 33, 12, 125 >>

Te0 == [x \in Byte |-> LET m == Multiples[Te4[x + 1]] IN <<m.x2, m.x1, m.x1, m.x3>>]
Te1 == [x \in Byte |-> LET m == Multiples[Te4[x + 1]] IN <<m.x3, m.x2, m.x1, m.x1>>]
Te2 == [x \in Byte |-> LET m == Multiples[Te4[x + 1]] IN <<m.x1, m.x3, m.x2, m.x1>>]
Te3 == [x \in Byte |-> LET m == Multiples[Te4[x + 1]] IN <<m.x1, m.x1, m.x3, m.x2>>]

Td0 == [x \in Byte |-> LET m == Multiples[Td4[x + 1]] IN <<m.xe, m.x9, m.xd, m.xb>>]
Td1 == [x \in Byte |-> LET m == Multiples[Td4[x + 1]] IN <<m.xb, m.xe, m.x9, m.xd>>]
Td2 == [x \in Byte |-> LET m == Multiples[Td4[x + 1]] IN <<m.xd, m.xb, m.xe, m.x9>>]
Td3 == [x \in Byte |-> LET m == Multiples[Td4[x + 1]] IN <<m.x9, m.xd, m.xb, m.xe>>]

rcon == <<1, 2, 4, 8, 16, 32, 64, 128, 27, 54>>

Rcon(i) == <<rcon[i], 0, 0, 0>>

GETU32(bytes, at) == SubSeq(bytes, at + 1, at + 4)

Words(bytes) == [k \in 1 .. Len(bytes) \div 4 |-> GETU32(bytes, 4 * (k - 1))]

\* PUTU32 of the four words of a state
Bytes(s) == s[1] \o s[2] \o s[3] \o s[4]

-----------------------------------------------------------------------------
\* Key schedules.

\* The masked lookups: each mask keeps the byte that is the S-box itself.
SubWordByTables(w) == <<Te2[w[1]][1], Te3[w[2]][2], Te0[w[3]][3], Te1[w[4]][4]>>

\* The shifted lookups of the AES_ASM body
SubWordByTe4(w) == <<Te4[w[1] + 1], Te4[w[2] + 1], Te4[w[3] + 1], Te4[w[4] + 1]>>

SubWord(asm, w) == IF asm THEN SubWordByTe4(w) ELSE SubWordByTables(w)

RotWord(w) == <<w[2], w[3], w[4], w[1]>>

\* A run of n assignments rk[k] = rk[k - nk] ^ rk[k - 1], the first of which has
\* g for its second operand
RECURSIVE Grow(_, _, _, _)
Grow(rk, nk, g, n) ==
    IF n = 0 THEN rk
    ELSE LET w == XorWords(rk[Len(rk) + 1 - nk], g)
         IN  Grow(Append(rk, w), nk, w, n - 1)

\* The bodies of the three loops, in iteration i
Grow128(asm, rk, i) ==
    Grow(rk, 4, XorWords(SubWord(asm, RotWord(LastWord(rk))), Rcon(i)), 4)

Grow192(asm, rk, i) ==
    Grow(rk, 6, XorWords(SubWord(asm, RotWord(LastWord(rk))), Rcon(i)),
         IF i = 8 THEN 4 ELSE 6)

Grow256(asm, rk, i) ==
    LET half == Grow(rk, 8, XorWords(SubWord(asm, RotWord(LastWord(rk))), Rcon(i)), 4)
    IN  IF i = 7 THEN half ELSE Grow(half, 8, SubWord(asm, LastWord(half)), 4)

\* rounds, and the length of a whole schedule
RoundsFor(bits) == CASE bits = 128 -> 10 [] bits = 192 -> 12 [] OTHER -> 14
Whole(key) == Len(key.rd_key) = 4 * (key.rounds + 1)

\* A null pointer for a user key
NullKey == <<>>

\* AES_set_encrypt_key up to its loop; a null pointer and bits other than 128, 192
\* and 256 are refused.
AES_set_encrypt_key(userKey, bits) ==
    IF userKey = NullKey THEN [status |-> -1, rounds |-> 0, rd_key |-> <<>>]
    ELSE IF bits \notin {128, 192, 256} THEN [status |-> -2, rounds |-> 0, rd_key |-> <<>>]
    ELSE [status |-> 0, rounds |-> RoundsFor(bits), rd_key |-> Words(userKey)]

\* and iteration i of its loop
GrowKey(asm, key, i) ==
    LET rk == key.rd_key
    IN  [key EXCEPT !.rd_key = CASE key.rounds = 10 -> Grow128(asm, rk, i)
                                 [] key.rounds = 12 -> Grow192(asm, rk, i)
                                 [] OTHER -> Grow256(asm, rk, i)]

XorAll(ws) == XorWords(XorWords(XorWords(ws[1], ws[2]), ws[3]), ws[4])

\* Td applied to the S-box bytes of a word: the inverse MixColumn transform
InvMixByTables(w) ==
    XorAll(<<Td0[Te1[w[1]][4]], Td1[Te1[w[2]][4]],
             Td2[Te1[w[3]][4]], Td3[Te1[w[4]][4]]>>)

\* Broken variant: rotates by 8 bits the product that is rotated by 24.
InvMixByOneShift(w) ==
    LET m(k) == Multiples[w[Wrap(k)]]
        mixed(k) == Xor(Xor(m(k).xe, m(k + 2).xd), Xor(m(k + 1).x9, m(k + 1).xb))
    IN  <<mixed(1), mixed(2), mixed(3), mixed(4)>>

\* tpe ^ ROTATE(tpd, 16) ^ ROTATE(tp9, 24) ^ ROTATE(tpb, 8) of the AES_ASM body
InvMixByShifts(w) ==
    LET m(k) == Multiples[w[Wrap(k)]]
        mixed(k) == Xor(Xor(m(k).xe, m(k + 2).xd), Xor(m(k + 3).x9, m(k + 1).xb))
    IN  <<mixed(1), mixed(2), mixed(3), mixed(4)>>

\* The round keys in the opposite order, all but the first and the last of
\* them through the inverse MixColumn transform
Inverted(asm, key) ==
    [n \in 1 .. Len(key.rd_key) |->
        LET at == n - 1
            w == key.rd_key[4 * (key.rounds - (at \div 4)) + (at % 4) + 1]
        IN  CASE at < 4 \/ at >= 4 * key.rounds -> w
              [] asm   -> InvMixByShifts(w)
              [] OTHER -> InvMixByTables(w)]

\* AES_set_decrypt_key, given the schedule that AES_set_encrypt_key made for it
AES_set_decrypt_key(asm, key) ==
    IF key.status < 0 THEN key ELSE [key EXCEPT !.rd_key = Inverted(asm, key)]

-----------------------------------------------------------------------------
\* Rounds.  A state is the four words s0 .. s3.

Col(s, c) == s[Wrap(c)]

RoundKey(rk, r) == SubSeq(rk, 4 * r + 1, 4 * r + 4)

AddKey(s, rk, r) ==
    LET k == RoundKey(rk, r)
    IN  <<XorWords(s[1], k[1]), XorWords(s[2], k[2]),
          XorWords(s[3], k[3]), XorWords(s[4], k[4])>>

EncRound(s, rk, r) ==
    LET t(c) == XorAll(<<Te0[Col(s, c)[1]], Te1[Col(s, c + 1)[2]],
                         Te2[Col(s, c + 2)[3]], Te3[Col(s, c + 3)[4]]>>)
    IN  AddKey(<<t(1), t(2), t(3), t(4)>>, rk, r)

EncLast(t, rk, r) ==
    LET s(c) == SubWordByTables(<<Col(t, c)[1], Col(t, c + 1)[2],
                                  Col(t, c + 2)[3], Col(t, c + 3)[4]>>)
    IN  AddKey(<<s(1), s(2), s(3), s(4)>>, rk, r)

DecRound(s, rk, r) ==
    LET t(c) == XorAll(<<Td0[Col(s, c)[1]], Td1[Col(s, c + 3)[2]],
                         Td2[Col(s, c + 2)[3]], Td3[Col(s, c + 1)[4]]>>)
    IN  AddKey(<<t(1), t(2), t(3), t(4)>>, rk, r)

DecLast(t, rk, r) ==
    LET s(c) == <<Td4[Col(t, c)[1] + 1], Td4[Col(t, c + 3)[2] + 1],
                  Td4[Col(t, c + 2)[3] + 1], Td4[Col(t, c + 1)[4] + 1]>>
    IN  AddKey(<<s(1), s(2), s(3), s(4)>>, rk, r)

-----------------------------------------------------------------------------
\* A caller of one build: expands a key both ways, then encrypts and decrypts
\* a block.  at is where the call stands, s the state words, r the next round
\* and left the counter of the loop.

Builds == [asm : BOOLEAN, unroll : BOOLEAN]

AesInit == aes = [at |-> "start"]

AesSetKey ==
    /\ aes.at = "start"
    /\ \E build \in Builds, k \in AesKeys \cup {NullKey}, bits \in {128, 192, 256, 512} :
          /\ k = NullKey \/ bits = 512 \/ bits = 8 * Len(k)
          /\ LET enc == AES_set_encrypt_key(k, bits)
             IN  aes' = [at |-> IF enc.status < 0 THEN "refused" ELSE "expand",
                         build |-> build, user |-> k, enc |-> enc,
                         dec |-> enc, plain |-> <<>>, s |-> <<>>, r |-> 1, left |-> 0]

AesExpand ==
    /\ aes.at = "expand" /\ ~Whole(aes.enc)
    /\ aes' = [aes EXCEPT !.enc = GrowKey(aes.build.asm, @, aes.r), !.r = @ + 1]

AesSetDecryptKey ==
    /\ aes.at = "expand" /\ Whole(aes.enc)
    /\ aes' = [aes EXCEPT !.at = "keyed", !.dec = AES_set_decrypt_key(aes.build.asm, aes.enc)]

Start(at, bytes, key) ==
    [aes EXCEPT !.at = at, !.s = AddKey(Words(bytes), key.rd_key, 0),
                !.r = 1, !.left = key.rounds \div 2]

AesEncryptStart ==
    /\ aes.at = "keyed"
    /\ \E b \in AesBlocks : aes' = [Start("enc", b, aes.enc) EXCEPT !.plain = b]

AesDecryptStart ==
    /\ aes.at = "coded"
    /\ aes' = Start("dec", Bytes(aes.s), aes.dec)

\* The loop makes an odd round, counts down and leaves it at 0, or makes the
\* even round; the unrolled code has nine rounds, two more under rounds > 10
\* and two more under rounds > 12.
LoopLeft == IF aes.r % 2 = 1 THEN aes.left - 1 ELSE aes.left

\* Broken variant: the unrolled code leaves out the last two rounds of 256 bits.
UnrolledEndsEarly(rounds) ==
    \/ aes.r = 9 /\ ~(rounds > 10)
    \/ aes.r = 11

UnrolledEnds(rounds) ==
    \/ aes.r = 9 /\ ~(rounds > 10)
    \/ aes.r = 11 /\ ~(rounds > 12)
    \/ aes.r = 13

AfterRound(now, last, rounds) ==
    LET ends == IF aes.build.unroll THEN UnrolledEnds(rounds)
                ELSE aes.r % 2 = 1 /\ LoopLeft = 0
    IN  IF ends THEN last ELSE now

AesEncRound ==
    /\ aes.at = "enc"
    /\ aes' = [aes EXCEPT !.at = AfterRound("enc", "encLast", aes.enc.rounds),
                          !.s = EncRound(@, aes.enc.rd_key, aes.r),
                          !.r = @ + 1, !.left = LoopLeft]

AesEncLast ==
    /\ aes.at = "encLast"
    /\ aes' = [aes EXCEPT !.at = "coded", !.s = EncLast(@, aes.enc.rd_key, aes.r)]

AesDecRound ==
    /\ aes.at = "dec"
    /\ aes' = [aes EXCEPT !.at = AfterRound("dec", "decLast", aes.dec.rounds),
                          !.s = DecRound(@, aes.dec.rd_key, aes.r),
                          !.r = @ + 1, !.left = LoopLeft]

AesDecLast ==
    /\ aes.at = "decLast"
    /\ aes' = [aes EXCEPT !.at = "decoded", !.s = DecLast(@, aes.dec.rd_key, aes.r)]

AesNext ==
    \/ AesSetKey \/ AesExpand \/ AesSetDecryptKey
    \/ AesEncryptStart \/ AesEncRound \/ AesEncLast
    \/ AesDecryptStart \/ AesDecRound \/ AesDecLast

-----------------------------------------------------------------------------
\* FIPS 197, the reference: the S-box as inversion in the field followed by an
\* affine map, the cipher and its inverse as transformations of the bytes.

RECURSIVE GMul(_, _)
GMul(a, b) ==
    IF a = 0 \/ b = 0 THEN 0
    ELSE Xor(IF b % 2 = 1 THEN a ELSE 0, GMul(Double(a), b \div 2))

Square == [x \in Byte |-> GMul(x, x)]

\* The product of x^2, x^4, .. x^128, which is x^254
RECURSIVE EvenPowers(_, _)
EvenPowers(x, n) ==
    IF n = 1 THEN Square[x] ELSE GMul(EvenPowers(Square[x], n - 1), Square[x])

Rotl8(b, k) == ((b * 2^k) % 256) + ((b * 2^k) \div 256)

FipsSbox == [x \in Byte |->
    LET b == EvenPowers(x, 7)
    IN  Xor(Xor(Xor(b, 99), Xor(Rotl8(b, 1), Rotl8(b, 2))), Xor(Rotl8(b, 3), Rotl8(b, 4)))]

RECURSIVE FipsRcon(_)
FipsRcon(n) == IF n = 1 THEN 1 ELSE Double(FipsRcon(n - 1))

\* A column times the circulant matrix of 2, 3, 1, 1
MixColumn(col) ==
    LET m(k) == Multiples[col[Wrap(k)]]
        row(r) == Xor(Xor(m(r).x2, m(r + 1).x3), Xor(m(r + 2).x1, m(r + 3).x1))
    IN  <<row(1), row(2), row(3), row(4)>>

FipsRound(s, mix) ==
    LET shifted(c) == <<FipsSbox[Col(s, c)[1]], FipsSbox[Col(s, c + 1)[2]],
                        FipsSbox[Col(s, c + 2)[3]], FipsSbox[Col(s, c + 3)[4]]>>
        out(c) == IF mix THEN MixColumn(shifted(c)) ELSE shifted(c)
    IN  <<out(1), out(2), out(3), out(4)>>

FipsSub(w) == <<FipsSbox[w[1]], FipsSbox[w[2]], FipsSbox[w[3]], FipsSbox[w[4]]>>

\* w is the key expansion of a key of nk words.
IsFipsExpansion(w, key, nk) ==
    LET temp(i) == CASE i % nk = 0 -> XorWords(FipsSub(RotWord(w[i])),
                                               <<FipsRcon(i \div nk), 0, 0, 0>>)
                     [] nk > 6 /\ i % nk = 4 -> FipsSub(w[i])
                     [] OTHER -> w[i]
    IN  /\ Len(w) = 4 * (nk + 7)
        /\ SubSeq(w, 1, nk) = Words(key)
        /\ \A i \in nk .. Len(w) - 1 : w[i + 1] = XorWords(w[i + 1 - nk], temp(i))

Nr == (Len(aes.user) \div 4) + 6

-----------------------------------------------------------------------------
\* Properties.

\* In every build, the schedule of AES_set_encrypt_key is the key expansion of
\* FIPS 197, and each round AES_encrypt makes by table lookups is the
\* substitution, row shift, column mix and key addition of that round, the
\* last one without the mix, until all the rounds of the key size are made.
CipherIsFips ==
    [][/\ aes'.at = "keyed" =>
             IsFipsExpansion(aes'.enc.rd_key, aes'.user, Len(aes'.user) \div 4)
       /\ aes.at \in {"enc", "encLast"} =>
             aes'.s = AddKey(FipsRound(aes.s, aes.r < Nr), aes.enc.rd_key, aes.r)
       /\ aes'.at = "coded" => aes'.r = Nr]_aes

\* AES_decrypt, with the reordered and transformed schedule of
\* AES_set_decrypt_key, gives back the block that AES_encrypt was given.
DecryptInverts ==
    aes.at = "decoded" => Bytes(aes.s) = aes.plain
=============================================================================
