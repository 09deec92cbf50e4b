------------------------------ MODULE Marshal -------------------------------
(***************************************************************************)
(* rpc::Marshal (rpc/marshal.{h,cc}) and its chunks (rpc/buffer.{h,cc}),   *)
(* with the way Client and ServerTcpConnection frame packets with it:      *)
(* the sender fills `out' between set_bookmark and write_bookmark, bytes   *)
(* cross the connection in pieces of any size, and the receiver cuts whole *)
(* packets off `in' with read_from_marshal into a request's own Marshal,   *)
(* which another thread reads while `in' goes on receiving into the same   *)
(* raw_bytes.                                                              *)
(*                                                                         *)
(* Here `in' is cut one packet at a time, when the request before it is    *)
(* done; handle_read cuts all complete packets in one loop.                *)
(*                                                                         *)
(* Chunks of all Marshals point into the heap of raw_bytes; the operations *)
(* are functions from a memory to the memory after the operation.          *)
(***************************************************************************)
EXTENDS Integers, Sequences, FiniteSets, SequencesExt, FiniteSetsExt

CONSTANTS
    MinSize,    \* raw_bytes::min_size
    BmSize,     \* bytes of the size field, sizeof(i32)
    MaxRaw,     \* bound on the raw_bytes alive at a time
    Payloads,   \* the lengths of the packets (an xid at least) to be sent, in order
    MaxField    \* bound on the bytes of one field

ASSUME MarshalAssumption ==
    /\ MinSize \in Nat \ {0} /\ BmSize \in Nat \ {0} /\ MaxRaw \in Nat
    /\ Payloads \in Seq(Nat \ {0}) /\ MaxField \in Nat \ {0}

VARIABLES
    mem,      \* the heap of raw_bytes and the Marshals
    bmark_,   \* where the bytes of the open bookmark are; <<>> if none is open
    field,    \* payload bytes written so far, in all packets
    packet,   \* packets begun
    wire,     \* bytes between the sockets
    busy,     \* a worker holds the request
    got       \* the payloads workers have read

vars == <<mem, bmark_, field, packet, wire, busy, got>>

\* Op applied to the value of e, which TLC computes once.
With(e, Op(_)) == CHOOSE r \in {Op(x) : x \in {e}} : TRUE

\* The sum of the first n elements of s.
SumOf(s, n) == LET sum[k \in 0 .. n] == IF k = 0 THEN 0 ELSE sum[k - 1] + s[k] IN sum[n]

Names == {"out", "msg", "in", "req"}
Junk  == 0                       \* a byte nobody has written

-----------------------------------------------------------------------------
(* chunk and raw_bytes                                                     *)

\* A chunk: the raw_bytes it uses, and the indices of its content in it.
Chunk(d, r, w) == [data |-> d, read_idx |-> r, write_idx |-> w]

size(m, c)          == Len(m.raw[c.data])
content_size(c)     == c.write_idx - c.read_idx
fully_written(m, c) == c.write_idx = size(m, c)
fully_read(m, c)    == c.read_idx = size(m, c)
bytes(m, c)         == SubSeq(m.raw[c.data], c.read_idx + 1, c.write_idx)

\* The raw_bytes some chunk refers to; the others are deleted.
Live(m) == {c.data : c \in UNION {Range(m.chunks[a]) : a \in Names}}
Collect(m) ==
    LET live == Live(m)
    IN  [m EXCEPT !.raw = [d \in DOMAIN @ |-> IF d \in live THEN @[d] ELSE <<>>]]

\* new chunk(p, n), or new chunk() with no bytes, at the end of Marshal a.
AddChunk(m, a, p) ==
    LET d == Min({e \in DOMAIN m.raw : m.raw[e] = <<>>})
        n == IF Len(p) > MinSize THEN Len(p) ELSE MinSize
    IN  [m EXCEPT !.raw[d] = [k \in 1 .. n |-> IF k <= Len(p) THEN p[k] ELSE Junk],
                  !.chunks[a] = Append(@, Chunk(d, 0, Len(p)))]

\* chunk::write into the tail, of bytes that fit.
FillTail(m, a, p) ==
    LET t == Len(m.chunks[a])
        c == m.chunks[a][t]
    IN  [m EXCEPT !.raw[c.data] = [k \in DOMAIN @ |->
                      IF k \in (c.write_idx + 1) .. (c.write_idx + Len(p))
                      THEN p[k - c.write_idx] ELSE @[k]],
                  !.chunks[a][t].write_idx = @ + Len(p)]

TailFull(m, a) == m.chunks[a] = <<>> \/ fully_written(m, Last(m.chunks[a]))
Room(m, a)     == IF m.chunks[a] = <<>> THEN 0
                  ELSE size(m, Last(m.chunks[a])) - Last(m.chunks[a]).write_idx

-----------------------------------------------------------------------------
(* Marshal                                                                 *)

\* write(p, n): the tail takes what fits, a new chunk the rest.
AppendBytes(m, a, p) ==
    LET k == IF Len(p) <= Room(m, a) THEN Len(p) ELSE Room(m, a)
    IN  IF TailFull(m, a) THEN AddChunk(m, a, p)
        ELSE IF k = Len(p) THEN FillTail(m, a, p)
        ELSE With(FillTail(m, a, SubSeq(p, 1, k)),
                  LAMBDA x : AddChunk(x, a, SubSeq(p, k + 1, Len(p))))

Count(m, a, n) == [m EXCEPT !.write_cnt[a] = @ + n, !.content_size[a] = @ + n]

write(m, a, p) == With(AppendBytes(m, a, p), LAMBDA x : Count(x, a, Len(p)))

\* The bytes of chunks 1 .. i - 1, and how many of n bytes chunk i provides.
Before(cs, i) == SumOf([k \in DOMAIN cs |-> content_size(cs[k])], i - 1)
Share(cs, i, n) == LET left == n - Before(cs, i) IN
                   IF left <= 0 THEN 0
                   ELSE IF left < content_size(cs[i]) THEN left ELSE content_size(cs[i])

\* peek(p, n): the first n bytes, or all there are.
peek(m, a, n) ==
    LET cs == m.chunks[a]
        upto[k \in 0 .. Len(cs)] == IF k = 0 THEN <<>> ELSE upto[k - 1] \o bytes(m, cs[k])
        all == upto[Len(cs)]
    IN  SubSeq(all, 1, IF n <= Len(all) THEN n ELSE Len(all))

\* Mutant: a chunk that is fully read is not deleted.
ConsumeKeeping(m, a, n) ==
    LET cs   == m.chunks[a]
        done == [k \in DOMAIN cs |-> [cs[k] EXCEPT !.read_idx = @ + Share(cs, k, n)]]
    IN  [m EXCEPT !.chunks[a] = done, !.content_size[a] = @ - n]

\* Advance read_idx over n bytes and delete the chunks that are fully read.
Consume(m, a, n) ==
    LET cs   == m.chunks[a]
        done == [k \in DOMAIN cs |-> [cs[k] EXCEPT !.read_idx = @ + Share(cs, k, n)]]
    IN  With([m EXCEPT !.chunks[a] = SelectSeq(done, LAMBDA c : ~fully_read(m, c)),
                       !.content_size[a] = @ - n], Collect)

\* The chunks that share the raw_bytes of the first n bytes of b.
shared_copies(m, b, n) ==
    LET cs == m.chunks[b]
    IN  [k \in 1 .. Cardinality({j \in DOMAIN cs : Share(cs, j, n) > 0}) |->
            [cs[k] EXCEPT !.write_idx = cs[k].read_idx + Share(cs, k, n)]]

\* Mutant: the fetched bytes are not added to write_cnt_.
ShareUncounted(m, a, b, n) ==
    With([m EXCEPT !.chunks[a] = @ \o shared_copies(m, b, n), !.content_size[a] = @ + n],
         LAMBDA x : Consume(x, b, n))

\* The first branch of read_from_marshal: only pointers are copied.
ShareChunks(m, a, b, n) ==
    With([Count(m, a, n) EXCEPT !.chunks[a] = @ \o shared_copies(m, b, n)],
         LAMBDA x : Consume(x, b, n))

\* read_from_marshal(b, n): bytes are copied while a's tail has room.
read_from_marshal(m, a, b, n) ==
    LET k == IF n <= Room(m, a) THEN n ELSE Room(m, a)
        Copied == With(Consume(m, b, k), LAMBDA x : write(x, a, peek(m, b, k)))
    IN  IF TailFull(m, a) THEN ShareChunks(m, a, b, n)
        ELSE IF k = n THEN Copied
        ELSE With(Copied, LAMBDA x : ShareChunks(x, a, b, n - k))

\* set_bookmark(n): one byte after the other, with a new chunk when needed.
BookmarkByte(m, a) ==
    With(IF TailFull(m, a) THEN AddChunk(m, a, <<>>) ELSE m,
         LAMBDA x : [x EXCEPT !.chunks[a][Len(x.chunks[a])].write_idx = @ + 1,
                              !.content_size[a] = @ + 1])

Place(m, a) == <<Last(m.chunks[a]).data, Last(m.chunks[a]).write_idx>>

\* read_from_fd: fill the tail, then new chunks, until the socket has no more;
\* the chunk that found it empty stays.
NewChunks(m, a, n) == IF n < Room(m, a) THEN 0 ELSE ((n - Room(m, a)) \div MinSize) + 1
read_from_fd(m, a, p) ==
    LET first == IF Len(p) <= Room(m, a) THEN Len(p) ELSE Room(m, a)
        part(k) == LET lo == first + (k - 1) * MinSize IN
                   SubSeq(p, lo + 1, IF lo + MinSize <= Len(p) THEN lo + MinSize ELSE Len(p))
        add[k \in 0 .. NewChunks(m, a, Len(p))] ==
            IF k > 0 THEN With(add[k - 1], LAMBDA x : AddChunk(x, a, part(k)))
            ELSE IF TailFull(m, a) THEN m ELSE FillTail(m, a, SubSeq(p, 1, first))
    IN  Count(add[NewChunks(m, a, Len(p))], a, Len(p))

\* ~Marshal
Delete(m, a) == With([m EXCEPT !.chunks[a] = <<>>, !.write_cnt[a] = 0,
                               !.content_size[a] = 0], Collect)

-----------------------------------------------------------------------------
(* The sender: begin_request or begin_reply, fields, end_request or        *)
(* end_reply, all with out_l_ held; handle_write                           *)

Init ==
    /\ mem = [raw |-> [d \in 1 .. MaxRaw |-> <<>>],
              chunks |-> [a \in Names |-> <<>>],
              write_cnt |-> [a \in Names |-> 0],
              content_size |-> [a \in Names |-> 0]]
    /\ bmark_ = <<>> /\ field = 0 /\ packet = 0
    /\ wire = <<>> /\ busy = FALSE /\ got = <<>>

\* The payload bytes of packets are numbered through: those of packet i end here.
EndOf(i) == SumOf(Payloads, i)
Fields(n) == [k \in 1 .. n |-> field + k]

Begin ==
    /\ bmark_ = <<>> /\ packet < Len(Payloads)
    /\ packet' = packet + 1
    /\ LET after[k \in 0 .. BmSize] ==
               IF k = 0 THEN mem
               ELSE With(after[k - 1], LAMBDA x : BookmarkByte(x, "out"))
       IN  /\ mem' = after[BmSize]
           /\ bmark_' = [k \in 1 .. BmSize |-> Place(after[k], "out")]
    /\ UNCHANGED <<field, wire, busy, got>>

\* A field is marshalled into out.
WriteField(n) ==
    /\ bmark_ # <<>> /\ field + n <= EndOf(packet)
    /\ mem' = write(mem, "out", Fields(n))
    /\ field' = field + n
    /\ UNCHANGED <<bmark_, packet, wire, busy, got>>

\* A message marshalled separately is moved into out as a whole, and deleted.
WriteMessage(n) ==
    /\ bmark_ # <<>> /\ field + n <= EndOf(packet)
    /\ \E m1 \in {write(mem, "msg", Fields(n))} :
          \E m2 \in {read_from_marshal(m1, "out", "msg", n)} : mem' = Delete(m2, "msg")
    /\ field' = field + n
    /\ UNCHANGED <<bmark_, packet, wire, busy, got>>

\* A size as the bytes of an integer; they differ from payload bytes.
Digits(n) == [k \in 1 .. BmSize |-> -1 - ((n \div 4 ^ (k - 1)) % 4)]
Size(p)   == SumOf([k \in 1 .. BmSize |-> (-1 - p[k]) * 4 ^ (k - 1)], BmSize)

\* write_bookmark with get_and_reset_write_cnt.
End ==
    /\ bmark_ # <<>> /\ field = EndOf(packet)
    /\ LET digit == Digits(mem.write_cnt["out"])
           at(d, k) == {n \in DOMAIN bmark_ : bmark_[n] = <<d, k>>}
       IN  mem' = [mem EXCEPT
                !.raw = [d \in DOMAIN @ |-> [k \in DOMAIN @[d] |->
                            IF at(d, k) = {} THEN @[d][k] ELSE digit[Min(at(d, k))]]],
                !.write_cnt["out"] = 0]
    /\ bmark_' = <<>>
    /\ UNCHANGED <<field, packet, wire, busy, got>>

\* Mutant: out_l_ is not taken.
NoOutLock == TRUE

\* Nobody is between set_bookmark and write_bookmark.
OutLock == bmark_ = <<>>

\* write_to_fd; the socket takes n bytes.
WriteToFd(n) ==
    /\ OutLock /\ n \in 1 .. mem.content_size["out"]
    /\ wire' = wire \o peek(mem, "out", n)
    /\ mem' = Consume(mem, "out", n)
    /\ UNCHANGED <<bmark_, field, packet, busy, got>>

-----------------------------------------------------------------------------
(* The receiver: handle_read, and the thread that works on the request     *)

\* n bytes have arrived, possibly none.
ReadFromFd(n) ==
    /\ n \in 0 .. Len(wire)
    /\ mem' = read_from_fd(mem, "in", SubSeq(wire, 1, n))
    /\ wire' = SubSeq(wire, n + 1, Len(wire))
    /\ UNCHANGED <<bmark_, field, packet, busy, got>>

\* Mutant: one byte more than the packet has must have arrived.
CompleteLate ==
    LET p == peek(mem, "in", BmSize)
    IN  Len(p) = BmSize /\ mem.content_size["in"] > Size(p) + BmSize

\* in_.peek gave a size, and in_ holds that much.
Complete ==
    LET p == peek(mem, "in", BmSize)
    IN  Len(p) = BmSize /\ mem.content_size["in"] >= Size(p) + BmSize

CutPacket ==
    /\ ~busy /\ Complete
    /\ \E m \in {Consume(mem, "in", BmSize)} :
          mem' = read_from_marshal(m, "req", "in", Size(peek(mem, "in", BmSize)))
    /\ busy' = TRUE
    /\ got' = Append(got, <<>>)
    /\ UNCHANGED <<bmark_, field, packet, wire>>

ReadField(n) ==
    /\ busy /\ n \in 1 .. mem.content_size["req"]
    /\ got' = [got EXCEPT ![Len(got)] = @ \o peek(mem, "req", n)]
    /\ mem' = Consume(mem, "req", n)
    /\ UNCHANGED <<bmark_, field, packet, wire, busy>>

DeleteRequest ==
    /\ busy /\ mem.content_size["req"] = 0
    /\ mem' = Delete(mem, "req")
    /\ busy' = FALSE
    /\ UNCHANGED <<bmark_, field, packet, wire, got>>

-----------------------------------------------------------------------------

Sizes    == 1 .. MaxField
Sender   == Begin \/ End \/ \E n \in Sizes : WriteField(n) \/ WriteMessage(n)
Flush    == \E n \in 1 .. mem.content_size["out"] : WriteToFd(n)
Arrive   == \E n \in 1 .. Len(wire) : ReadFromFd(n)
Receiver == CutPacket \/ DeleteRequest \/ \E n \in Sizes : ReadField(n)

Next == Sender \/ Flush \/ Arrive \/ ReadFromFd(0) \/ Receiver

\* A packet that was begun is finished, and the threads and the network go on.
Fairness == /\ WF_vars(Sender) /\ WF_vars(Flush) /\ WF_vars(Arrive)
            /\ WF_vars(Receiver)

Spec == Init /\ [][Next]_vars
FairSpec == Spec /\ Fairness

-----------------------------------------------------------------------------
(* Properties                                                              *)

\* The assertions of marshal.cc and buffer.h: content_size_ is the sum over the
\* chunks, indices are in bounds, no chunk that is fully read stays, a chunk
\* without content is the last one, and write_cnt_ is 0 at set_bookmark.
AssertsHold ==
    /\ \A a \in Names :
          LET cs == mem.chunks[a] IN
          /\ mem.content_size[a] = Before(cs, Len(cs) + 1)
          /\ \A k \in DOMAIN cs : /\ 0 <= cs[k].read_idx /\ cs[k].read_idx <= cs[k].write_idx
                                  /\ cs[k].write_idx <= size(mem, cs[k])
                                  /\ ~fully_read(mem, cs[k])
                                  /\ k < Len(cs) => content_size(cs[k]) > 0
    /\ bmark_ = <<>> => mem.write_cnt["out"] = 0

\* What write_bookmark writes through its pointers is memory of a chunk of out,
\* although chunks are deleted as soon as they are sent.
BookmarkAlive ==
    \A n \in DOMAIN bmark_ :
        \E c \in Range(mem.chunks["out"]) :
            c.data = bmark_[n][1] /\ bmark_[n][2] \in (c.read_idx + 1) .. c.write_idx

\* No assertion fails and no pointer dangles.
MemorySafe == AssertsHold /\ BookmarkAlive

\* Every request has exactly the bytes that were marshalled for it, in order, in
\* whatever pieces it was marshalled, moved between Marshals, sent and received,
\* and while `in' goes on filling the raw_bytes it shares with the request.
PacketsIntact ==
    \A i \in DOMAIN got :
        LET sent == [k \in 1 .. Payloads[i] |-> EndOf(i - 1) + k] IN
        /\ IsPrefix(got[i], sent)
        /\ (i < Len(got) \/ ~busy) => got[i] = sent

\* All packets are delivered: no byte stays behind in a chunk.
AllDelivered == <>[](Len(got) = Len(Payloads) /\ ~busy)
=============================================================================
