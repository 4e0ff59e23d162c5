----------------------------- MODULE StringLib -----------------------------
(***************************************************************************)
(* kernel/lib/string.c: the C string functions on a memory of characters.  *)
(* A pointer is an index into it, and Code the characters' bytes.  A loop  *)
(* is a function of its pass: of what it has found from there on, or of    *)
(* the memory as it is by then.  The callers below give the functions what *)
(* C asks for, terminated strings and regions that do not overlap.         *)
(***************************************************************************)
EXTENDS Integers, Sequences, FiniteSetsExt

CONSTANTS
  SIZE,                 \* the bytes of the memory
  Code,                 \* the byte of each character
  BYTE                  \* the values of a byte

Char == DOMAIN Code

ASSUME CodeAssumption ==
  /\ SIZE \in Nat /\ BYTE \in Nat
  /\ Code \in [Char -> 0 .. (BYTE - 1)]
  /\ \A b \in 0 .. (BYTE - 1) : \E c \in Char : Code[c] = b
  /\ \A c, d \in Char : Code[c] = Code[d] => c = d
  /\ BYTE > 0

NUL == CHOOSE c \in Char : Code[c] = 0

VARIABLE memory

Pointer == 1 .. SIZE

(* (uint8_t)value, or (char)value, as a character.                         *)
Byte(value) == CHOOSE c \in Char : Code[c] = value % BYTE

----------------------------------------------------------------------------
strlen(m, str) ==
  LET Count[len \in Nat] == IF m[str + len] = NUL THEN len ELSE Count[len + 1]
  IN  Count[0]

strncmp(m, s1, s2, n) ==
  LET From[k \in Nat] ==
        IF k = n THEN 0
        ELSE IF m[s1 + k] # NUL /\ m[s1 + k] = m[s2 + k] THEN From[k + 1]
        ELSE Code[m[s1 + k]] - Code[m[s2 + k]]
  IN  From[0]

(* The same without a bound: one string ends within the memory.            *)
strcmp(m, s1, s2) == strncmp(m, s1, s2, SIZE)

memcmp(m, ptr1, ptr2, num) ==
  LET From[k \in Nat] ==
        IF k = num THEN 0
        ELSE IF m[ptr1 + k] = m[ptr2 + k] THEN From[k + 1]
        ELSE Code[m[ptr1 + k]] - Code[m[ptr2 + k]]
  IN  From[0]

memset(m, ptr, value, num) ==
  LET After[k \in 0 .. num] ==
        IF k = 0 THEN m ELSE [After[k - 1] EXCEPT ![ptr + k - 1] = Byte(value)]
  IN  After[num]

memcpy(m, dest, src, num) ==
  LET After[k \in 0 .. num] ==
        IF k = 0 THEN m
        ELSE [After[k - 1] EXCEPT ![dest + k - 1] = After[k - 1][src + k - 1]]
  IN  After[num]

(* At most n passes of the loop that copies a string: it is left once one  *)
(* of the bytes it has copied is the NUL.                                  *)
CopyString(m, dest, src, n) ==
  LET After[k \in 0 .. n] ==
        IF k = 0 THEN m
        ELSE LET before == After[k - 1] IN
             IF \E j \in 1 .. (k - 1) : before[dest + j - 1] = NUL THEN before
             ELSE [before EXCEPT ![dest + k - 1] = before[src + k - 1]]
  IN  After[n]

(* A legal source ends within the memory.                                  *)
strcpy(m, dest, src) == CopyString(m, dest, src, SIZE)

(* The loop that copies stops at the NUL before it counts it in n, so the  *)
(* one that fills up writes a byte too many.                               *)
strncpy(m, dest, src, n) ==
  LET copied == CopyString(m, dest, src, n)
      ends == {k \in 1 .. n : copied[dest + k - 1] = NUL}
  IN  IF ends = {} THEN copied
      ELSE memset(copied, dest + Min(ends), 0, n - Min(ends) + 1)

(* Fault: the end of the string is not looked for.                         *)
StrcatOverwrites(m, dest, src) == strcpy(m, dest, src)

strcat(m, dest, src) == strcpy(m, dest + strlen(m, dest), src)

----------------------------------------------------------------------------
(* What legal callers pass. *)

IsString(p) == p \in Pointer /\ \E i \in p .. SIZE : memory[i] = NUL

(* A string with its NUL, by where that is.                                *)
StringAt(s) == SubSeq(memory, s, Min({i \in s .. SIZE : memory[i] = NUL}))

Bytes(p, n) == SubSeq(memory, p, p + n - 1)

(* The region of n bytes at d lies in the memory, clear of the k at s.     *)
Clear(d, n, s, k) == d + n - 1 <= SIZE /\ (d + n <= s \/ s + k <= d)

StrcpyLegal(d, s) == IsString(s) /\ Clear(d, Len(StringAt(s)), s, Len(StringAt(s)))

(* With room for the byte too many.                                        *)
StrncpyLegal(d, s, n) ==
  IsString(s) /\ LET bytes == Len(StringAt(s)) IN
                 Clear(d, IF bytes <= n THEN n + 1 ELSE n, s, Min({bytes, n}))

StrcatLegal(d, s) ==
  /\ IsString(d) /\ IsString(s)
  /\ Clear(d, Len(StringAt(d)) + Len(StringAt(s)) - 1, s, Len(StringAt(s)))

MemcpyLegal(d, s, n) == Clear(d, n, s, n) /\ s + n - 1 <= SIZE

Copy ==
  \E d, s \in Pointer :
    \/ StrcpyLegal(d, s) /\ memory' = strcpy(memory, d, s)
    \/ StrcatLegal(d, s) /\ memory' = strcat(memory, d, s)
    \/ \E n \in 0 .. SIZE :
         \/ StrncpyLegal(d, s, n) /\ memory' = strncpy(memory, d, s, n)
         \/ MemcpyLegal(d, s, n) /\ memory' = memcpy(memory, d, s, n)

Fill ==
  \E d \in Pointer, c \in Char : \E n \in 0 .. (SIZE - d + 1) :
    memory' = memset(memory, d, Code[c], n)

LibInit == memory = [i \in Pointer |-> NUL]

----------------------------------------------------------------------------
(* Properties. *)

(* The memory with these bytes at d, and every other byte as it is.        *)
With(d, bytes) ==
  [i \in Pointer |-> IF i \in d .. (d + Len(bytes) - 1) THEN bytes[i - d + 1] ELSE memory[i]]

(* The difference of two sequences where they first differ.                *)
Difference(s, t) ==
  LET differ == {i \in 1 .. Min({Len(s), Len(t)}) : s[i] # t[i]} IN
  IF differ = {} THEN 0 ELSE Code[s[Min(differ)]] - Code[t[Min(differ)]]

First(s, n) == SubSeq(s, 1, Min({n, Len(s)}))

Padded(s, n) == [i \in 1 .. n |-> IF i <= Len(s) THEN s[i] ELSE NUL]

(* Every copy leaves what C says at its destination and touches no other   *)
(* byte; only strncpy (string.c:35) writes one byte behind its n if the    *)
(* source ends within them.  The comparisons and strlen return what the    *)
(* first difference and the place of the NUL say.                          *)
StringCallsExact ==
  \A p, q \in Pointer :
    /\ IsString(p) => strlen(memory, p) = Len(StringAt(p)) - 1
    /\ IsString(p) /\ IsString(q) =>
         /\ strcmp(memory, p, q) = Difference(StringAt(p), StringAt(q))
         /\ \A n \in 0 .. SIZE :
              strncmp(memory, p, q, n) = Difference(First(StringAt(p), n), First(StringAt(q), n))
    /\ StrcpyLegal(p, q) => strcpy(memory, p, q) = With(p, StringAt(q))
    /\ StrcatLegal(p, q) =>
         strcat(memory, p, q) = With(p, First(StringAt(p), Len(StringAt(p)) - 1) \o StringAt(q))
    /\ \A n \in 0 .. SIZE :
         /\ p + n - 1 <= SIZE /\ q + n - 1 <= SIZE =>
              memcmp(memory, p, q, n) = Difference(Bytes(p, n), Bytes(q, n))
         /\ MemcpyLegal(p, q, n) => memcpy(memory, p, q, n) = With(p, Bytes(q, n))
         /\ StrncpyLegal(p, q, n) =>
              strncpy(memory, p, q, n) =
                With(p, IF Len(StringAt(q)) <= n THEN Padded(StringAt(q), n + 1)
                        ELSE First(StringAt(q), n))
=============================================================================
