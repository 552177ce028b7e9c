------------------------------- MODULE Buffer -------------------------------
(***************************************************************************)
(* node:buffer: Buffers are views of ArrayBuffers, and several may share   *)
(* one (subarray), so what an operation writes and the ranges it computes  *)
(* from its arguments matter to others; and the conversions between bytes  *)
(* and text.  Text is a sequence of character codes.  Undef stands for     *)
(* an argument that is not given; an operation that throws has no effect   *)
(* and is left out.  Integers of 8 and 16 bits (TLC's own have 32).  What  *)
(* copy computes in a size_t wraps around at SizeMod.                      *)
(***************************************************************************)
EXTENDS Integers, Sequences, FiniteSets, SequencesExt

CONSTANTS
  Undef,         \* an argument that is not given
  Bytes,         \* byte values that the program writes
  MaxSize,       \* the largest ArrayBuffer (INT32_MAX)
  SizeMod,       \* the values of a size_t (2^64)
  MaxLen,        \* bound: length of the first buffer
  Positions,     \* offsets and lengths given as arguments
  MaxBuffers,    \* bound: Buffers
  MaxOps         \* bound: operations

ASSUME BufferAssumption ==
  /\ Bytes \subseteq 0..255 /\ Positions \subseteq Int
  /\ MaxSize \in Nat /\ SizeMod \in Nat /\ 2 * MaxSize < SizeMod
  /\ MaxLen \in 0..MaxSize /\ MaxBuffers \in Nat /\ MaxOps \in Nat

VARIABLES
  mem,           \* the ArrayBuffers: sequences of bytes
  views,         \* the Buffers: ArrayBuffer, offset and length
  ops,           \* operations so far
  target,        \* history: the bytes of the Buffer that the last one may write to
  fault          \* "none", or the process has died in a memmove: of a copy whose range
                 \* was "misplaced", or in any "other"

bufferVars == <<mem, views, ops, target, fault>>

SmallMax(a, b) == IF a > b THEN a ELSE b
SmallMin(a, b) == IF a < b THEN a ELSE b
\* No bytes: an exception, or the end of the process at a failing assertion.
Failure == <<-1>>
Args == Positions \cup {Undef}
Given(arg, default) == IF arg = Undef THEN default ELSE arg
\* js_malloc of n bytes: none are given only where assertions are compiled out (zero) and
\* malloc gives a block
Allocates(n, zero) == n > 0 \/ zero
-----------------------------------------------------------------------------
\* b64_table and b64url_table, as character codes
B64Table(n, url) ==
  CASE n < 26 -> 65 + n
    [] n \in 26..51 -> 97 + n - 26
    [] n \in 52..61 -> 48 + n - 52
    [] n = 62 -> IF url THEN 45 ELSE 43
    [] n = 63 -> IF url THEN 95 ELSE 47
Pad == 61

\* b64_decode_char
B64DecodeChar(c) ==
  CASE c \in 65..90 -> c - 65
    [] c \in 97..122 -> c - 97 + 26
    [] c \in 48..57 -> c - 48 + 52
    [] c \in {43, 45} -> 62
    [] c \in {47, 95} -> 63
    [] OTHER -> -1

At(s, k, default) == IF k \in DOMAIN s THEN s[k] ELSE default

\* js_buffer_base64_encode: the n-th of the four characters for the bytes from k on, ...
Triple(src, k) == At(src, k, 0) * 65536 + At(src, k + 1, 0) * 256 + At(src, k + 2, 0)
Base64Char(src, url, k, n) ==
  LET triple == Triple(src, k) IN
  CASE n = 0 -> B64Table((triple \div 262144) % 64, url)
    [] n = 1 -> B64Table((triple \div 4096) % 64, url)
    [] n = 2 -> IF k + 1 <= Len(src) THEN B64Table((triple \div 64) % 64, url) ELSE Pad
    [] n = 3 -> IF k + 2 <= Len(src) THEN B64Table(triple % 64, url) ELSE Pad
\* ... and all of them
Base64Encode(src, url) ==
  [i \in 1 .. 4 * ((Len(src) + 2) \div 3) |->
     Base64Char(src, url, 3 * ((i - 1) \div 4) + 1, (i - 1) % 4)]

\* (faulty variant: a last group of two characters is taken for complete)
Base64Decode_Whole(text, zero) ==
  LET src == SelectSeq(text, LAMBDA c : c # Pad)
      code(k) == IF k <= Len(src) THEN B64DecodeChar(src[k]) ELSE 0
      triple(k) == code(k) * 262144 + code(k + 1) * 4096 + code(k + 2) * 64 + code(k + 3)
  IN  FlattenSeq([g \in 1 .. (Len(src) + 3) \div 4 |->
                    <<triple(4 * g - 3) \div 65536, (triple(4 * g - 3) \div 256) % 256,
                      triple(4 * g - 3) % 256>>])

\* js_buffer_base64_decode: the length of the text without the padding at its end, ...
Unpadded(text) ==
  CHOOSE n \in 0..Len(text) : /\ \A k \in n + 1 .. Len(text) : text[k] = Pad
                              /\ n > 0 => text[n] # Pad
\* ... the bytes of the four characters from k on; one that is none of the alphabet is
\* skipped in the second half of a group ...
CodeAt(text, n, k, missing) == IF k <= n THEN B64DecodeChar(text[k]) ELSE missing
GroupBytes(text, n, k) ==
  LET c == CodeAt(text, n, k + 2, -1)
      d == CodeAt(text, n, k + 3, -1)
      triple == CodeAt(text, n, k, -1) * 262144 + CodeAt(text, n, k + 1, 0) * 4096
                  + SmallMax(c, 0) * 64 + SmallMax(d, 0)
  IN  <<triple \div 65536>>
        \o (IF c >= 0 THEN <<(triple \div 256) % 256>> ELSE <<>>)
        \o (IF d >= 0 THEN <<triple % 256>> ELSE <<>>)
\* ... and of all groups, unless there is one in a first half
Base64Decode(text, zero) ==
  LET n == Unpadded(text)
      groups == (n + 3) \div 4
  IN  IF \/ ~Allocates((n * 3 + 3) \div 4, zero)
         \/ \E g \in 1..groups : \/ CodeAt(text, n, 4 * g - 3, -1) < 0
                                \/ CodeAt(text, n, 4 * g - 2, 0) < 0
      THEN Failure
      ELSE FlattenSeq([g \in 1..groups |-> GroupBytes(text, n, 4 * g - 3)])

\* js_buffer_hex_encode and js_buffer_hex_decode
HexChar(n) == IF n < 10 THEN 48 + n ELSE 97 + n - 10
HexEncode(src) ==
  [k \in 1 .. 2 * Len(src) |->
     HexChar(IF k % 2 = 1 THEN src[(k + 1) \div 2] \div 16 ELSE src[k \div 2] % 16)]

HexDigit(c) ==
  CASE c \in 48..57 -> c - 48
    [] c \in 97..102 -> c - 97 + 10
    [] c \in 65..70 -> c - 65 + 10
    [] OTHER -> -1
HexDecode(text, zero) ==
  IF \/ Len(text) % 2 # 0 \/ ~Allocates(Len(text) \div 2, zero)
     \/ \E k \in DOMAIN text : HexDigit(text[k]) < 0
  THEN Failure
  ELSE [k \in 1 .. Len(text) \div 2 |-> HexDigit(text[2 * k - 1]) * 16 + HexDigit(text[2 * k])]

\* js_buffer_swap of elements of n bytes
Swapped(s, n) == [k \in DOMAIN s |-> s[n * ((k - 1) \div n) + n - ((k - 1) % n)]]

\* js_buffer_readUInt at a zero-based offset, and the bytes js_buffer_writeUInt stores
ReadUInt(s, offset, n, bigEndian) ==
  IF n = 1 THEN s[offset + 1]
  ELSE IF bigEndian THEN s[offset + 1] * 256 + s[offset + 2] ELSE s[offset + 2] * 256 + s[offset + 1]
UIntBytes(val, n, bigEndian) ==
  IF n = 1 THEN <<val % 256>>
  ELSE IF bigEndian THEN <<(val \div 256) % 256, val % 256>> ELSE <<val % 256, (val \div 256) % 256>>
-----------------------------------------------------------------------------
Content(v) == SubSeq(mem[v.ab], v.off + 1, v.off + v.len)
Span(v) == {<<v.ab, v.off + k>> : k \in 1..v.len}

BufferInit ==
  /\ \E n \in 0..MaxLen : \E bytes \in [1..n -> Bytes] :
       mem = <<bytes>> /\ views = <<[ab |-> 1, off |-> 0, len |-> n]>>
  /\ ops = 0 /\ target = {} /\ fault = "none"

\* A new ArrayBuffer and a Buffer of all of it: js_buffer_create and memcpy
NewBuffer(bytes) ==
  /\ Len(views) < MaxBuffers /\ Len(bytes) <= MaxSize
  /\ mem' = Append(mem, bytes)
  /\ views' = Append(views, [ab |-> Len(mem) + 1, off |-> 0, len |-> Len(bytes)])
  /\ target' = {}
  /\ UNCHANGED fault

\* A Buffer of part of an ArrayBuffer that is there
NewView(i, offset, length) ==
  /\ Len(views) < MaxBuffers
  /\ views' = Append(views, [ab |-> i, off |-> offset, len |-> length])
  /\ target' = {}
  /\ UNCHANGED <<mem, fault>>

\* memcpy, memset: bytes are stored from a zero-based position of the Buffer on
Stores(v, at, bytes) ==
  /\ mem' = [mem EXCEPT ![v.ab] =
               [k \in DOMAIN @ |-> IF k - v.off - at \in DOMAIN bytes THEN bytes[k - v.off - at] ELSE @[k]]]
  /\ target' = Span(v)
  /\ UNCHANGED <<views, fault>>

\* The process dies.
Dies(reason) == fault' = reason /\ target' = {} /\ UNCHANGED <<mem, views>>

\* Buffer.alloc and allocUnsafe (Uint8Array zeroes its memory too)
Alloc(size, byte) == NewBuffer([k \in 1..size |-> byte])

\* Buffer.from of another Buffer, of a string in one of the encodings, ...
From(v) == NewBuffer(Content(v))
FromString(bytes) ==
  \E zero, url \in BOOLEAN :
  \E decoded \in {HexDecode(HexEncode(bytes), zero), Base64Decode(Base64Encode(bytes, url), zero)} :
    decoded # Failure /\ NewBuffer(decoded)
\* ... of an array of numbers, and of an ArrayBuffer, which it shares
FromArray(values) == NewBuffer([k \in DOMAIN values |-> Given(values[k], 0) % 256])
FromArrayBuffer(i, offset, length) ==
  LET off == Given(offset, 0)
      n == Given(length, Len(mem[i]))
  IN  off >= 0 /\ n >= 0 /\ off + n <= Len(mem[i]) /\ NewView(i, off, n)

\* Buffer.concat of two Buffers: cut at the total length, or zeroes up to it
Concat(v, w, total) ==
  LET all == Content(v) \o Content(w)
      n == IF total = Undef THEN Len(all) ELSE IF total < 0 THEN Len(all) ELSE total
  IN  NewBuffer([k \in 1..n |-> At(all, k, 0)])

\* The range of slice and subarray; negative arguments count from the end.
SliceRange(len, start, end) ==
  <<SmallMax(IF start < 0 THEN start + len ELSE start, 0),
    SmallMin(IF end < 0 THEN end + len ELSE end, len)>>

\* js_buffer_slice copies; its start counts only when an end is given
Slice(v, start, end) ==
  LET r == SliceRange(v.len, IF end = Undef THEN 0 ELSE Given(start, 0), Given(end, v.len)) IN
  NewBuffer(SubSeq(Content(v), r[1] + 1, r[2]))

\* js_buffer_subarray shares
Subarray(v, start, end) ==
  LET r == SliceRange(v.len, Given(start, 0), Given(end, v.len)) IN
  IF r[1] >= r[2] THEN NewBuffer(<<>>) ELSE NewView(v.ab, v.off + r[1], r[2] - r[1])

\* (faulty variant: the length is not cut at the end of the Buffer)
WriteLength_NoCut(len, offset, length) == length

\* js_buffer_write: how much of length fits
WriteLength(len, offset, length) == SmallMin(length, len - offset)

\* js_buffer_write; a negative length is a large unsigned one
Write(v, bytes, offset, length) ==
  LET at == Given(offset, 0)
      n == IF Given(length, 0) < 0 THEN Len(bytes) ELSE SmallMin(Given(length, Len(bytes)), Len(bytes))
  IN
  /\ at \in 0 .. v.len - 1
  /\ Stores(v, at, SubSeq(bytes, 1, WriteLength(v.len, at, n)))

\* js_buffer_fill
Fill(v, byte, start, end) ==
  LET from == SmallMax(Given(start, 0), 0)
      to == SmallMin(Given(end, v.len), v.len)
  IN  Stores(v, from, [k \in 1 .. to - from |-> byte])

\* A sum or difference of sizes and positions, as a size_t
Wrap(x) == IF x < 0 THEN x + SizeMod ELSE IF x >= SizeMod THEN x - SizeMod ELSE x

\* js_buffer_copy: how much it moves to position at of len bytes
CopyLength(len, at, from, to) ==
  LET n == Wrap(to - from) IN IF Wrap(at + n) > len THEN Wrap(len - at) ELSE n

\* js_buffer_copy (memmove: the two may overlap) looks neither for a target position
\* beyond the target nor for a reversed source range.  It may move nearly 2^64 bytes,
\* and then the process dies; and it may read on behind the memory of its source, where
\* there is junk, or nothing, and then it dies too.
Copy(v, w, targetStart, sourceStart, sourceEnd) ==
  LET from == SmallMax(Given(sourceStart, 0), 0)
      to == SmallMin(Given(sourceEnd, v.len), v.len)
      at == SmallMax(Given(targetStart, 0), 0)
      n == CopyLength(w.len, at, from, to)
  IN
  \/ /\ at + n <= w.len
     /\ \E junk \in Bytes : Stores(w, at, [k \in 1..n |-> At(mem[v.ab], v.off + from + k, junk)])
  \/ /\ at + n > w.len \/ (n > 0 /\ v.off + from + n > Len(mem[v.ab]))
     /\ Dies(IF at > w.len \/ from > to THEN "misplaced" ELSE "other")

\* js_buffer_swap and js_buffer_writeUInt; the latter checks its range
Swap(v, n) == v.len % n = 0 /\ Stores(v, 0, Swapped(Content(v), n))
WriteUInt(v, val, offset, n, bigEndian) ==
  offset >= 0 /\ offset + n <= v.len /\ Stores(v, offset, UIntBytes(val, n, bigEndian))

\* One operation, if the process is alive.
Operation ==
  \/ \E n \in Positions \cap Nat, byte \in Bytes : Alloc(n, byte)
  \/ \E p \in Args : FromArray(<<p, Undef>>)
  \/ \E i \in DOMAIN mem, offset, length \in Args : FromArrayBuffer(i, offset, length)
  \/ \E v \in ToSet(views) :
       \/ From(v) \/ FromString(Content(v))
       \/ \E w \in ToSet(views), total \in Args : Concat(v, w, total)
       \/ \E start, end \in Args : Slice(v, start, end) \/ Subarray(v, start, end)
       \/ \E offset, length \in Args : Write(v, <<1, 2, 3>>, offset, length)
       \/ \E start, end \in Args, byte \in Bytes : Fill(v, byte, start, end)
       \/ \E w \in ToSet(views), a, b, c \in Args : Copy(v, w, a, b, c)
       \/ \E n \in {2, 4} : Swap(v, n)
       \/ \E offset \in Positions, n \in {1, 2}, bigEndian \in BOOLEAN : WriteUInt(v, 258, offset, n, bigEndian)

BufferNext == fault = "none" /\ ops < MaxOps /\ ops' = ops + 1 /\ Operation

BufferSpec == BufferInit /\ [][BufferNext]_bufferVars
-----------------------------------------------------------------------------
\* What toString gives in hex, base64 or base64url, Buffer.from turns into the same bytes,
\* for every content a Buffer can get, at every length modulo 3 and with and without
\* padding.  The empty text is the exception: the decoders ask js_malloc for 0 bytes, so
\* it gives the empty Buffer only where malloc(0) is allowed and returns a block.  And the
\* two byte orders of the integers are each other's mirror.
RoundTrip ==
  \A v \in ToSet(views) :
    LET s == Content(v) IN
    /\ \A zero \in BOOLEAN :
         LET restored == IF s = <<>> /\ ~zero THEN Failure ELSE s IN
         /\ HexDecode(HexEncode(s), zero) = restored
         /\ \A url \in BOOLEAN : Base64Decode(Base64Encode(s, url), zero) = restored
    /\ Len(s) % 2 = 0 =>
         \A k \in 0 .. Len(s) \div 2 - 1 :
           ReadUInt(s, 2 * k, 2, TRUE) = ReadUInt(Swapped(s, 2), 2 * k, 2, FALSE)

\* An operation on a Buffer changes bytes of that Buffer only, although others share the
\* memory before and after it, and every Buffer lies within its memory.  That is so for
\* all offsets and lengths, negative, reversed or too large, with one exception: a copy
\* to a position beyond its target or from a reversed range may kill the process instead
\* (nothing else does).  A copy of a reversed range that survives stays within its target.
WritesOwnBytes ==
  /\ \A i \in DOMAIN mem : \A k \in DOMAIN mem[i] : mem'[i][k] # mem[i][k] => <<i, k>> \in target'
  /\ \A v \in ToSet(views') : v.off + v.len <= Len(mem'[v.ab])
  /\ fault' # "other"
Isolation == [][WritesOwnBytes]_bufferVars
=============================================================================
