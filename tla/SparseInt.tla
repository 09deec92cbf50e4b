----------------------------- MODULE SparseInt ------------------------------
(***************************************************************************)
(* base::SparseInt (base/basetypes.cc), the variable-length integers of    *)
(* the wire format, as the header of a reply uses them: a v64 xid and a    *)
(* v32 error code, written by Marshal's operator<< and read back by its    *)
(* operator>> (rpc/marshal.h).                                             *)
(*                                                                         *)
(* An integer is its bytes in memory, a function from 0 .. 7 (i64) or      *)
(* 0 .. 3 (i32), least significant first; TLC's own integers are too       *)
(* narrow for an i64.                                                      *)
(***************************************************************************)
EXTENDS Integers, Sequences

CONSTANTS
    Headers,      \* the <<xid, error code>> pairs to send
    StackBytes    \* what an uninitialised byte of the stack may hold

Byte == 0 .. 255

ASSUME SparseAssumption ==
    /\ StackBytes \subseteq Byte /\ StackBytes # {}
    /\ Headers \subseteq [0 .. 7 -> Byte] \X [0 .. 3 -> Byte]

VARIABLES
    header,      \* the reply's header, NoHeader once it has been read back
    stream,      \* its bytes
    loaded,      \* what was read
    consumed     \* the bytes that took

headervars == <<header, stream, loaded, consumed>>

-----------------------------------------------------------------------------
Bits(v)   == 8 * (IF 7 \in DOMAIN v THEN 8 ELSE 4)
Bit(v, k) == (v[k \div 8] \div 2^(k % 8)) % 2
Negative(v) == Bit(v, Bits(v) - 1) = 1

\* -2^(7n-1) <= v < 2^(7n-1): the bits from 7n - 1 up are all the sign.
InBand(v, n) == \A k \in (7 * n - 1) .. (Bits(v) - 1) : Bit(v, k) = Bit(v, Bits(v) - 1)

val_size(v) == IF \E n \in 1 .. 8 : InBand(v, n)
               THEN CHOOSE n \in 1 .. 8 : InBand(v, n) /\ \A m \in 1 .. (n - 1) : ~InBand(v, m)
               ELSE 9

\* Leading one bits of the first byte, plus one.
buf_size(byte0) == IF byte0 = 255 THEN 9
                   ELSE CHOOSE n \in 1 .. 8 : byte0 \in (256 - 2^(9 - n)) .. (255 - 2^(8 - n))

\* The layout of the short bands: n bytes, most significant first, the tag of n
\* in the top bits of the first.
Short(v, n) == [k \in 1 .. n |->
                  IF k = 1 THEN (v[n - 1] % 2^(8 - n)) + (256 - 2^(9 - n)) ELSE v[n - k]]

\* A tag byte and then the whole integer.
Tagged(tag, v) == <<tag>> \o [k \in 1 .. (Bits(v) \div 8) |-> v[Bits(v) \div 8 - k]]

dump_i32(v) == IF val_size(v) < 5 THEN Short(v, val_size(v))
               ELSE Tagged(IF Negative(v) THEN 247 ELSE 240, v)

\* Mutant: all nine bytes of the 8 byte band are written.
dump_nine(v) == LET n == val_size(v) IN
                IF n < 8 THEN Short(v, n)
                ELSE IF n = 8 THEN Tagged(254, v)
                ELSE Tagged(255, v)

\* In the 8 byte band dump fills nine bytes and returns 8: operator<< writes the
\* first eight of them.
dump_i64(v) == LET n == val_size(v) IN
               IF n < 8 THEN Short(v, n)
               ELSE IF n = 8 THEN SubSeq(Tagged(254, v), 1, 8)
               ELSE Tagged(255, v)

\* Mutant: the sign is not extended.
ZeroExtend(buf, n, w) ==
    [k \in 0 .. (w - 1) |-> IF k < n - 1 THEN buf[n - k]
                            ELSE IF k = n - 1 THEN buf[1] % 2^(8 - n) ELSE 0]

\* The inverse of Short: the bytes back in place, the tag cleared, the sign
\* extended to w bytes.
Extend(buf, n, w) ==
    LET top == buf[1] % 2^(8 - n)
        neg == (top \div 2^(7 - n)) % 2 = 1
    IN  [k \in 0 .. (w - 1) |->
           IF k < n - 1 THEN buf[n - k]
           ELSE IF k = n - 1 THEN (IF neg THEN 256 - 2^(7 - n) + (top % 2^(7 - n)) ELSE top)
           ELSE IF neg THEN 255 ELSE 0]

load_i32(buf) == IF buf_size(buf[1]) < 5 THEN Extend(buf, buf_size(buf[1]), 4)
                 ELSE [k \in 0 .. 3 |-> buf[5 - k]]

load_i64(buf) == IF buf_size(buf[1]) < 8 THEN Extend(buf, buf_size(buf[1]), 8)
                 ELSE [k \in 0 .. 7 |-> buf[9 - k]]

-----------------------------------------------------------------------------
NoHeader == <<>>

HeaderInit == header \in Headers /\ stream = <<>> /\ loaded = NoHeader /\ consumed = 0

\* m << v64(xid) << v32(error_code)
DumpHeader ==
    /\ header # NoHeader /\ stream = <<>> /\ loaded = NoHeader
    /\ stream' = dump_i64(header[1]) \o dump_i32(header[2])
    /\ UNCHANGED <<header, loaded, consumed>>

\* in_ >> v_reply_xid >> v_error_code: buf_size bytes of each are copied to a
\* buffer on the stack, whose other bytes are not initialised.
LoadHeader ==
    /\ stream # <<>>
    /\ \E junk \in StackBytes :
         LET n  == buf_size(stream[1])
             s1 == [k \in 1 .. 9 |-> IF k <= n THEN stream[k] ELSE junk]
             m  == buf_size(stream[n + 1])
             s2 == [k \in 1 .. 5 |-> IF k <= m THEN stream[n + k] ELSE junk]
         IN  /\ loaded' = <<load_i64(s1), load_i32(s2)>>
             /\ consumed' = n + m
    /\ stream' = <<>>
    /\ UNCHANGED header

\* The header is done with.
DropHeader ==
    /\ loaded # NoHeader
    /\ header' = NoHeader /\ loaded' = NoHeader /\ consumed' = 0
    /\ UNCHANGED stream

HeaderNext == DumpHeader \/ LoadHeader \/ DropHeader
HeaderSpec == HeaderInit /\ [][HeaderNext]_headervars

-----------------------------------------------------------------------------
(* Properties                                                              *)

\* The 8 byte band, of which dump_i64 drops the low byte.
Lossy(v) == InBand(v, 8) /\ ~InBand(v, 7)

\* Every i32, and every i64 outside the 8 byte band, is read back as it was
\* written, whatever the reader's stack held; of the 8 byte band all but the low
\* byte is.
RoundTripExceptBand8 ==
    loaded # NoHeader =>
        /\ loaded[2] = header[2]
        /\ \A k \in 0 .. 7 : k > 0 \/ ~Lossy(header[1]) => loaded[1][k] = header[1][k]

\* handle_read computes the payload's length from val_size() of the values it
\* read: they are the bytes consumed, and the bytes dump wrote, for every band.
SizesAgree ==
    /\ stream # <<>> => Len(stream) = val_size(header[1]) + val_size(header[2])
    /\ loaded # NoHeader => consumed = val_size(loaded[1]) + val_size(loaded[2])

\* A reply's header is read back, and measured, as it was written.
HeaderReadBack == RoundTripExceptBand8 /\ SizesAgree
=============================================================================
