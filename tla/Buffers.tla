------------------------------ MODULE Buffers ------------------------------
(***************************************************************************)
(* Items as bytes: net/buffer_builder.hpp and net/buffer_reader.hpp, the   *)
(* varints of common/item_serialization_tools.hpp, data/serialization.hpp, *)
(* and the loops of net/tcp/socket.hpp that send and receive all of them.  *)
(* A byte has Group values and a flag above them (128 in the code); a word *)
(* is smaller than Word, of which the last byte of a varint holds the few  *)
(* bits that are left (4 of uint32_t, 1 of uint64_t).                      *)
(***************************************************************************)
EXTENDS Integers, Sequences, FiniteSets, SequencesExt
CONSTANTS Group, Doubling, FirstSize   \* 128; 1 MiB, until which a buffer doubles; 512

(***************************************************************************)
(* BufferBuilder: data has capacity bytes, of which size are used          *)
(***************************************************************************)
EmptyBuilder == [data |-> <<>>, size |-> 0]
Capacity(b) == Len(b.data)
Reserve(b, n) == IF Capacity(b) < n THEN [b EXCEPT !.data = @ \o [i \in 1..(n - Capacity(b)) |-> -1]] ELSE b
RECURSIVE NewSize(_, _)
NewSize_Once(c, n) == IF 2 * c < FirstSize THEN FirstSize ELSE IF c < Doubling THEN 2 * c ELSE c + Doubling
NewSize(c, n) ==
    IF c >= n THEN c
    ELSE NewSize(IF 2 * c < FirstSize THEN FirstSize ELSE IF c < Doubling THEN 2 * c ELSE c + Doubling, n)
DynReserve(b, n) == IF Capacity(b) < n THEN Reserve(b, NewSize(Capacity(b), n)) ELSE b
\* bytes are copied behind the used ones
Copied(b, bytes) ==
    [data |-> <<>> \o [i \in 1..Capacity(b) |->
                          IF i > b.size /\ i <= b.size + Len(bytes) THEN bytes[i - b.size] ELSE b.data[i]],
     size |-> b.size + Len(bytes)]
Append1(b, bytes) == Copied(DynReserve(b, b.size + Len(bytes)), bytes)
Align(b, n) ==
    LET rem == b.size % n
    IN IF rem = 0 THEN b ELSE Append1(b, [i \in 1..(n - rem) |-> 0])
Assign(b, bytes) == Copied([Reserve(b, Len(bytes)) EXCEPT !.size = 0], bytes)
Clear(b) == [b EXCEPT !.size = 0]
Put(b, call) ==
    CASE call[1] = "append" -> Append1(b, call[2])
      [] call[1] = "align" -> Align(b, call[2])
      [] call[1] = "assign" -> Assign(b, call[2])
      [] call[1] = "reserve" -> Reserve(b, call[2])
      [] call[1] = "clear" -> Clear(b)
Build(calls) == FoldLeft(Put, EmptyBuilder, calls)
\* ToBuffer
ToBuffer(b) == SubSeq(b.data, 1, b.size)

(***************************************************************************)
(* Varints: the low group first, each but the last with the flag           *)
(***************************************************************************)
RECURSIVE PutVarint(_)
PutVarint_AtMost(v) == IF v <= Group THEN <<v>> ELSE <<(v % Group) + Group>> \o PutVarint(v \div Group)
PutVarint(v) == IF v < Group THEN <<v>> ELSE <<(v % Group) + Group>> \o PutVarint(v \div Group)
PutString(x) == PutVarint(Len(x)) \o x
\* a reader: where it is, what it has read, or that it has thrown
Thrown == [at |-> 0, got |-> <<>>, thrown |-> TRUE]
Got(at, x) == [at |-> at, got |-> x, thrown |-> FALSE]
RECURSIVE VarintFrom(_, _, _, _, _)
VarintFrom(bytes, at, v, unit, Word) ==
    IF at > Len(bytes) THEN Thrown
    ELSE LET u == bytes[at]
         IN IF unit * Group >= Word   \* the last byte
            THEN IF u >= Word \div unit THEN Thrown ELSE Got(at + 1, v + u * unit)
            ELSE IF u < Group THEN Got(at + 1, v + u * unit)
            ELSE VarintFrom(bytes, at + 1, v + (u - Group) * unit, unit * Group, Word)
GetVarint(bytes, at, Word) == VarintFrom(bytes, at, 0, 1, Word)

(***************************************************************************)
(* BufferReader, and Serialization of <<"pod", size>>, <<"string">>,       *)
(* <<"tuple", types>> (pairs, too), <<"vector", type>> and                 *)
(* <<"array", n, type>>                                                    *)
(***************************************************************************)
CheckAvailable(bytes, at, n) == at + n <= Len(bytes) + 1
Read(bytes, at, n) == IF CheckAvailable(bytes, at, n) THEN Got(at + n, SubSeq(bytes, at, at + n - 1)) ELSE Thrown
GetString(bytes, at, Word) ==
    LET len == GetVarint(bytes, at, Word) IN IF len.thrown THEN Thrown ELSE Read(bytes, len.at, len.got)
RECURSIVE Serialize(_, _)
Serialize(type, x) ==
    CASE type[1] = "pod" -> x
      [] type[1] = "string" -> PutString(x)
      [] type[1] = "tuple" -> FlattenSeq([i \in DOMAIN x |-> Serialize(type[2][i], x[i])])
      [] type[1] = "vector" -> PutVarint(Len(x)) \o FlattenSeq([i \in DOMAIN x |-> Serialize(type[2], x[i])])
      [] type[1] = "array" -> FlattenSeq([i \in DOMAIN x |-> Serialize(type[3], x[i])])
RECURSIVE DeserializeAll(_, _, _, _)
Deserialize(type, bytes, at, Word) ==
    CASE type[1] = "pod" -> Read(bytes, at, type[2])
      [] type[1] = "string" -> GetString(bytes, at, Word)
      [] type[1] = "tuple" -> DeserializeAll(type[2], bytes, at, Word)
      [] type[1] = "vector" ->
            LET size == GetVarint(bytes, at, Word)
            IN IF size.thrown THEN Thrown ELSE DeserializeAll([i \in 1..size.got |-> type[2]], bytes, size.at, Word)
      [] type[1] = "array" -> DeserializeAll([i \in 1..type[2] |-> type[3]], bytes, at, Word)
DeserializeAll(types, bytes, at, Word) ==
    FoldLeft(LAMBDA s, t : IF s.thrown THEN Thrown
                           ELSE LET e == Deserialize(t, bytes, s.at, Word)
                                IN IF e.thrown THEN Thrown ELSE Got(e.at, Append(s.got, e.got)),
             Got(at, <<>>), types)
RECURSIVE IsFixedSize(_), FixedSize(_)
IsFixedSize_First(type) ==
    CASE type[1] = "pod" -> TRUE
      [] type[1] = "tuple" -> IsFixedSize(type[2][1])
      [] type[1] = "array" -> IsFixedSize(type[3])
      [] OTHER -> FALSE
IsFixedSize(type) ==
    CASE type[1] = "pod" -> TRUE
      [] type[1] = "tuple" -> \A i \in DOMAIN type[2] : IsFixedSize(type[2][i])
      [] type[1] = "array" -> IsFixedSize(type[3])
      [] OTHER -> FALSE
FixedSize(type) ==
    CASE type[1] = "pod" -> type[2]
      [] type[1] = "tuple" -> FoldLeft(LAMBDA s, t : s + FixedSize(t), 0, type[2])
      [] type[1] = "array" -> type[2] * FixedSize(type[3])
      [] OTHER -> 0

(***************************************************************************)
(* Socket::send, Socket::recv: kernel is what ::send or ::recv return, a   *)
(* number of bytes, 0 when the peer has closed, "EAGAIN" or "error".  0    *)
(* leaves errno, which is also looked at then.                             *)
(***************************************************************************)
RECURSIVE Transfer(_, _, _, _)
Transfer_Restarts(done, size, kernel, again) ==
    IF done >= size THEN [done |-> done, how |-> "all"]
    ELSE IF kernel = <<>> THEN [done |-> done, how |-> "waits"]
    ELSE IF kernel[1] = "EAGAIN" THEN Transfer(0, size, Tail(kernel), TRUE)
    ELSE IF kernel[1] = "error" THEN [done |-> done, how |-> "throws"]
    ELSE IF kernel[1] = "closed" THEN [done |-> done, how |-> IF again THEN "spins" ELSE "throws"]
    ELSE Transfer(done + 1, size, Tail(kernel), again)
Transfer(done, size, kernel, again) ==
    IF done >= size THEN [done |-> done, how |-> "all"]
    ELSE IF kernel = <<>> THEN [done |-> done, how |-> "waits"]
    ELSE IF kernel[1] = "EAGAIN" THEN Transfer(done, size, Tail(kernel), TRUE)
    ELSE IF kernel[1] = "error" THEN [done |-> done, how |-> "throws"]
    ELSE IF kernel[1] = "closed" THEN [done |-> done, how |-> IF again THEN "spins" ELSE "throws"]
    ELSE Transfer(done + 1, size, Tail(kernel), again)
Send(size, kernel, again) == Transfer(0, size, kernel, again)
Recv(size, kernel, again) == Transfer(0, size, kernel, again)
=============================================================================
