---------------------------- MODULE MCDriverCall ----------------------------
(***************************************************************************)
(* Instances of DriverCall: for every protocol a set of calls that between *)
(* them make a request of each kind, merge and split requests, and contain *)
(* items that are refused at each place the code refuses one.              *)
(***************************************************************************)
EXTENDS DriverCall

Item(id, addr, type, val) == [id |-> id, addr |-> addr, type |-> type, val |-> val, tag |-> TRUE]
R(id, addr, type) == Item(id, addr, type, <<>>)
W(id, addr, type, n) == Item(id, addr, type, [k \in 1..n |-> 100 + 10 * id + k])
Untagged(item) == [item EXCEPT !.tag = FALSE]
Reading(items) == [op |-> "read", items |-> items]
Writing(items) == [op |-> "write", items |-> items]
Connecting == [op |-> "connect", items |-> {}]
Disconnecting == [op |-> "disconnect", items |-> {}]
Validating(items) == [op |-> "validate", items |-> items]
Executing == [op |-> "execute", items |-> {}]

MbA(unit, seg, num) == [unit |-> unit, seg |-> seg, num |-> num]
Reg(n) == MbA(0, "", 40000 + n)
MbBatches == {
    \* three neighbours in one request, the third two registers wide, a fourth apart
    Reading({R(1, Reg(1), "u16"), R(2, Reg(2), "none"), R(3, Reg(3), "f32"), R(4, Reg(5), "i16")}),
    \* bits beyond the limit, a type bits do not have, another unit
    Reading({R(1, MbA(0, "coil", 1), "bool"), R(2, MbA(0, "coil", 2), "none"),
             R(3, MbA(0, "coil", 3), "u16"), R(4, MbA(2, "input", 30001), "i16")}),
    Reading({R(1, Reg(1), "u16"), R(2, MbA(0, "", 20000), "u16")}),
    Reading({Untagged(R(1, Reg(1), "u16"))}),
    \* a wide item before its neighbour: the request ends with the neighbour
    Reading({R(1, Reg(1), "f64"), R(2, Reg(2), "u16")}),
    \* 1 + 2 + 1 registers in one request, a single coil
    Writing({W(1, Reg(1), "u64", 1), W(2, Reg(2), "f64", 2), W(3, Reg(4), "i64", 1),
             W(4, MbA(0, "coil", 1), "bool", 1)}),
    \* coils beyond the limit, a value registers do not hold, an overlap
    Writing({W(1, MbA(0, "coil", 1), "bool", 1), W(2, MbA(0, "coil", 2), "bool", 1),
             W(3, MbA(0, "coil", 3), "bool", 1), W(4, Reg(1), "bool", 1)}),
    Writing({W(1, Reg(1), "i64", 2), W(2, Reg(2), "u64", 1)}),
    Writing({W(1, Reg(1), "u64", 1), W(2, MbA(0, "input", 30001), "u64", 1)}),
    Connecting, Validating({R(1, Reg(1), "none")}), Validating({R(2, MbA(0, "", 20000), "none")}), Executing}

S7A(area, db, syntax, byte, bit) == [area |-> area, db |-> db, syntax |-> syntax, byte |-> byte, bit |-> bit]
Db(syntax, byte) == S7A("db", 1, syntax, byte, 0)
S7Batches == {
    \* words with a hole between them, a byte of another area, a lone bit
    Reading({R(1, Db("word", 0), "u16"), R(2, Db("word", 4), "i64"), R(3, S7A("m", 0, "byte", 1, 0), "u8"),
             R(4, S7A("q", 0, "bit", 2, 3), "bool")}),
    \* more than the PDU holds, a type the syntax does not have
    Reading({R(1, Db("dword", 0), "f32"), R(2, Db("dword", 4), "u32"), R(3, Db("dword", 24), "none"),
             R(4, Db("dword", 28), "bool")}),
    Reading({R(1, Db("word", 0), "u16"), R(2, S7A("db", 0, "word", 0, 0), "u16")}),
    Reading({R(1, S7A("", 0, "word", 0, 0), "u16")}),
    Reading({Untagged(R(1, Db("word", 0), "u16"))}),
    \* adjacent bits, a word and a byte behind it
    Reading({R(1, S7A("q", 0, "bit", 2, 3), "bool"), R(2, S7A("q", 0, "bit", 2, 4), "bool"),
             R(3, Db("word", 0), "u16"), R(4, Db("byte", 2), "u8")}),
    \* neighbours in one request, a bit alone, an input
    Writing({W(1, Db("word", 0), "int", 2), W(2, Db("word", 2), "int", 2),
             W(3, S7A("m", 0, "bit", 1, 0), "bool", 1), W(4, S7A("i", 0, "byte", 0, 0), "int", 1)}),
    \* a value that does not fit
    Writing({W(1, Db("dword", 4), "real", 4), W(2, Db("word", 24), "huge", 2), W(3, Db("dword", 8), "int", 4)}),
    Writing({W(1, Db("word", 0), "int", 2), W(2, S7A("db", 0, "word", 0, 0), "int", 2)}),
    Connecting, Validating({R(1, Db("word", 0), "none")}), Validating({R(2, S7A("i", 0, "byte", 0, 0), "none")}), Executing}

McA(dev, num) == [dev |-> dev, num |-> num]
McBatches == {
    \* a small hole is read over, a large one is not; a wide value
    Reading({R(1, McA("d", 0), "u16"), R(2, McA("d", 2), "f32"), R(3, McA("d", 7), "i16"), R(4, McA("w", 4), "none")}),
    \* bits whose distance is a multiple of eight, a type words do not have
    Reading({R(1, McA("m", 0), "bool"), R(2, McA("m", 8), "none"), R(3, McA("x", 1), "u16"), R(4, McA("d", 1), "bool")}),
    Reading({R(1, McA("d", 0), "u16"), R(2, McA("zz", 0), "u16")}),
    Reading({Untagged(R(1, McA("d", 0), "u16"))}),
    \* bits whose distance is not a multiple of eight
    Reading({R(1, McA("m", 0), "bool"), R(2, McA("m", 1), "bool")}),
    \* neighbours up to the limit, a bit
    Writing({W(1, McA("d", 0), "int", 1), W(2, McA("d", 1), "real", 2), W(3, McA("d", 3), "int", 2),
             W(4, McA("m", 0), "bool", 1)}),
    \* adjacent bits, a device that cannot be written, a register that takes nothing
    Writing({W(1, McA("m", 0), "bool", 1), W(2, McA("m", 1), "bool", 1), W(3, McA("x", 1), "bool", 1),
             W(4, McA("sd", 0), "int", 1)}),
    Writing({W(1, McA("d", 0), "int", 1), W(2, McA("zz", 0), "int", 1)}),
    Connecting, Validating({R(1, McA("x", 1), "none")}), Validating({R(2, McA("zz", 0), "none")}), Executing}

EipA(tag) == [tag |-> tag, good |-> TRUE, path |-> 8]
EipBad == [tag |-> 0, good |-> FALSE, path |-> 8]
EipTagTypes == <<"dint", "real", "bool", "uint", "udint">>   \* tags 1..5; tag 9 does not exist
EipBatches == {
    Reading({R(1, EipA(2), "f32"), R(2, EipA(1), "i32"), R(3, EipA(3), "u16")}),
    Reading({R(1, EipA(4), "u64"), R(2, EipA(9), "none")}),
    Reading({R(1, EipA(1), "i32"), R(2, EipBad, "none")}),
    Reading({Untagged(R(1, EipA(1), "i32"))}),
    \* one request finds the types of two tags, another that of the third
    Writing({W(1, EipA(2), "f64", 1), W(2, EipA(1), "i64", 1), W(3, EipA(4), "u64", 1)}),
    \* a value of the wrong kind, a tag that does not exist
    Writing({W(1, EipA(1), "i64", 1), W(2, EipA(3), "f64", 1), W(3, EipA(9), "bool", 1)}),
    Writing({W(1, EipA(1), "i64", 1), W(2, EipBad, "bool", 1)}),
    \* two items of one tag, whose types are asked for in different requests
    Writing({W(1, EipA(1), "i64", 1), W(2, EipA(3), "bool", 1), W(3, EipA(1), "i64", 1)}),
    \* a tag whose type has no width
    Reading({R(1, EipA(5), "u32"), R(2, EipA(1), "i32")}), Writing({W(1, EipA(5), "u64", 1), W(2, EipA(1), "i64", 1)}),
    Connecting, Validating({R(1, EipA(1), "none")}), Validating({R(2, EipBad, "none")}), Executing}

\* After any call that may have left the session in disorder: a read and a write.
MbProbes == {Reading({R(1, Reg(1), "u16"), R(2, Reg(2), "none"), R(3, Reg(3), "f32"), R(4, Reg(5), "i16")}),
             Disconnecting, Writing({W(1, Reg(1), "u64", 1)})}
S7Probes == {Reading({R(1, Db("word", 0), "u16"), R(2, Db("word", 4), "i64")}), Disconnecting, Writing({W(1, Db("word", 0), "int", 2)})}
McProbes == {Reading({R(1, McA("d", 0), "u16"), R(2, McA("d", 2), "f32")}), Disconnecting, Writing({W(1, McA("d", 0), "int", 1)})}
EipProbes == {Reading({R(1, EipA(2), "f32"), R(2, EipA(1), "i32")}), Disconnecting, Writing({W(1, EipA(1), "i64", 1)})}
\* The planning is that of TCP: on the serial line only calls with several requests.
MbSerial == {b \in MbBatches : b.op \in {"read", "write"} /\ Cardinality(b.items) = 4}
MCBatches == [tcp |-> <<MbBatches, MbProbes>>, rtu |-> <<MbSerial, MbProbes>>,
              s7 |-> <<S7Batches, S7Probes>>, mc |-> <<McBatches, McProbes>>, eip |-> <<EipBatches, EipProbes>>]
MCMbLimit == [readRegs |-> 5, readBits |-> 2, writeRegs |-> 4, writeBits |-> 2]
MCMcLimit == [word |-> 5, bit |-> 16]
MCLinkConfig == [reconnect |-> TRUE, attempts |-> 2]
=============================================================================
